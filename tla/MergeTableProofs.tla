-------------------------- MODULE MergeTableProofs --------------------------
(***************************************************************************)
(* Lemmas about the operators of MergeTable, for every table and word: a    *)
(* rank is a rank of the table or NoRank, what FoldAt returns, and that the *)
(* canonical form of a word exists.  With facts about sequences and the     *)
(* flattening of sequences that the engines' proofs share.                  *)
(***************************************************************************)
EXTENDS MergeTable, SequencesExt, FiniteSetTheorems, SequenceTheorems, TLAPS

(***************************************************************************)
(* Every non-empty set of naturals has a least element.  (The library's     *)
(* induction theorems cannot be instantiated here; the well-foundedness of  *)
(* strict inclusion among the sets 0 .. k serves instead.)                  *)
(***************************************************************************)
LEMMA LeastNatural ==
  ASSUME NEW S, S \subseteq Nat, S # {}
  PROVE  \E i \in S : IsFirst(i, S)
<1> DEFINE below == {0 .. k : k \in S}
           R == StrictSubsetOrdering(Nat)
<1>1. below \subseteq FiniteSubsetsOf(Nat)
  <2>1. ASSUME NEW k \in S PROVE 0 .. k \in FiniteSubsetsOf(Nat)
    <3>1. IsFiniteSet(0 .. k)
      BY FS_Interval
    <3>2. 0 .. k \in SUBSET Nat
      OBVIOUS
    <3> QED BY <3>1, <3>2 DEF FiniteSubsetsOf
  <2> QED BY <2>1
<1>2. below # {}
  OBVIOUS
<1>3. PICK x \in below : \A y \in below : <<y, x>> \notin R
  BY <1>1, <1>2, FS_StrictSubsetOrderingWellFounded, WFMin
<1>4. PICK i \in S : x = 0 .. i
  OBVIOUS
<1>5. ASSUME NEW j \in S PROVE i <= j
  <2>1. SUFFICES ASSUME j < i PROVE FALSE
    OBVIOUS
  <2>2. <<0 .. j, 0 .. i>> \in R
    BY <2>1 DEF StrictSubsetOrdering
  <2> QED BY <2>2, <1>3, <1>4
<1> QED BY <1>5 DEF IsFirst

(***************************************************************************)
(* Induction over the naturals for a set: what contains each number that it *)
(* contains all smaller ones of contains them all.                          *)
(***************************************************************************)
LEMMA Induction ==
  ASSUME NEW S, \A n \in Nat : 0 .. n - 1 \subseteq S => n \in S
  PROVE  Nat \subseteq S
<1> SUFFICES ASSUME Nat \ S # {} PROVE FALSE
  OBVIOUS
<1>1. PICK n \in Nat \ S : \A k \in Nat \ S : n <= k
  BY LeastNatural DEF IsFirst
<1>2. 0 .. n - 1 \subseteq S
  BY <1>1
<1> QED BY <1>1, <1>2

(***************************************************************************)
(* A sequence-valued function may be defined by recursion along steps that  *)
(* make a size smaller.  Both recursions of the models have this form: the  *)
(* word canonical BPE reaches, and the survivors of the list.               *)
(***************************************************************************)
Descends(T, D, size, stop, nxt, base, pre) ==
    /\ size \in [D -> Nat]
    /\ \A d \in D \ stop : nxt[d] \in D /\ size[nxt[d]] < size[d]
    /\ base \in [D -> Seq(T)] /\ pre \in [D -> Seq(T)]

LEMMA Recursion ==
  ASSUME NEW T, NEW D, NEW size, NEW stop, NEW nxt, NEW base, NEW pre,
         Descends(T, D, size, stop, nxt, base, pre)
  PROVE  \E f \in [D -> Seq(T)] : \A d \in D :
            f[d] = IF d \in stop THEN base[d] ELSE pre[d] \o f[nxt[d]]
<1> DEFINE below(n) == {d \in D : size[d] < n}
           Holds(f, d) == f[d] = IF d \in stop THEN base[d] ELSE pre[d] \o f[nxt[d]]
           Sol(n) == {f \in [below(n) -> Seq(T)] : \A d \in below(n) : Holds(f, d)}
<1> USE DEF Descends
<1>0. ASSUME NEW n \in Nat, NEW f \in Sol(n), NEW d \in D, size[d] < n
      PROVE  f[d] \in Seq(T) /\ Holds(f, d)
  <2>1. d \in below(n)
    BY <1>0
  <2> HIDE DEF below, Holds
  <2> QED BY <1>0, <2>1
<1>1. \A a, b \in Nat : \A f \in Sol(a), g \in Sol(b) : \A d \in D :
         size[d] < a /\ size[d] < b => f[d] = g[d]
  <2> HIDE DEF Sol
  <2> DEFINE Same(d) == \A a, b \in Nat : \A f \in Sol(a), g \in Sol(b) :
                           size[d] < a /\ size[d] < b => f[d] = g[d]
             S == {k \in Nat : \A d \in D : size[d] = k => Same(d)}
  <2> HIDE DEF Same, S
  <2>1. ASSUME NEW k \in Nat, 0 .. k - 1 \subseteq S PROVE k \in S
    <3>1. SUFFICES ASSUME NEW d \in D, size[d] = k PROVE Same(d)
      BY DEF S
    <3>2. SUFFICES ASSUME NEW a \in Nat, NEW b \in Nat, NEW f \in Sol(a), NEW g \in Sol(b),
                          size[d] < a, size[d] < b
                   PROVE  f[d] = g[d]
      BY DEF Same
    <3>3. Holds(f, d) /\ Holds(g, d)
      BY <1>0, <3>2
    <3>4. CASE d \in stop
      BY <3>3, <3>4
    <3>5. CASE d \notin stop
      <4>1. /\ nxt[d] \in D /\ size[nxt[d]] \in 0 .. k - 1
            /\ size[nxt[d]] < a /\ size[nxt[d]] < b
        BY <3>1, <3>2, <3>5
      <4>2. size[nxt[d]] \in S
        BY <2>1, <4>1
      <4>3. Same(nxt[d])
        BY <4>1, <4>2 DEF S
      <4>4. f[nxt[d]] = g[nxt[d]]
        <5> HIDE DEF Holds, below
        <5> QED BY <4>1, <4>3 DEF Same
      <4> QED BY <3>3, <3>5, <4>4
    <3> QED BY <3>4, <3>5
  <2>2. Nat \subseteq S
    BY <2>1, Induction
  <2>3. ASSUME NEW d \in D PROVE Same(d)
    <3>1. size[d] \in S
      BY <2>2
    <3> QED BY <3>1 DEF S
  <2> QED BY <2>3 DEF Same
<1>2. \A n \in Nat : Sol(n) # {}
  <2> DEFINE S == {n \in Nat : Sol(n) # {}}
  <2>1. ASSUME NEW n \in Nat, 0 .. n - 1 \subseteq S PROVE n \in S
    <3>1. CASE n = 0
      <4>1. below(n) = {}
        BY <3>1
      <4>2. [d \in {} |-> <<>>] \in Sol(n)
        BY <4>1
      <4> QED BY <4>2
    <3>2. CASE n > 0
      <4>1. n - 1 \in 0 .. n - 1
        BY <3>2
      <4>2. PICK f : f \in Sol(n - 1)
        <5>1. 0 .. n - 1 \subseteq S
          BY <2>1
        <5> QED BY <4>1, <5>1
      <4> DEFINE g == [d \in below(n) |->
                          IF d \in stop THEN base[d] ELSE pre[d] \o f[nxt[d]]]
      <4>3. ASSUME NEW d \in below(n)
            PROVE  g[d] \in Seq(T) /\ Holds(g, d)
        <5>1. CASE d \in stop
          BY <5>1
        <5>2. CASE d \notin stop
          <6>1. nxt[d] \in below(n) /\ nxt[d] \in below(n - 1)
            BY <5>2
          <6>2. Holds(f, nxt[d]) /\ f[nxt[d]] \in Seq(T)
            BY <4>2, <6>1
          <6>3. g[nxt[d]] = f[nxt[d]]
            BY <6>1, <6>2
          <6>4. g[d] = pre[d] \o g[nxt[d]]
            BY <5>2, <6>3
          <6>5. g[d] \in Seq(T)
            BY <5>2, <6>2, ConcatProperties
          <6> QED BY <5>2, <6>4, <6>5
        <5> QED BY <5>1, <5>2
      <4>4. g \in [below(n) -> Seq(T)]
        BY <4>3
      <4> HIDE DEF g, Holds, below
      <4>5. g \in Sol(n)
        BY <4>3, <4>4
      <4> QED BY <4>5
    <3>3. n = 0 \/ n > 0
      OBVIOUS
    <3> HIDE DEF S
    <3> QED BY <3>1, <3>2, <3>3
  <2> HIDE DEF S
  <2>2. Nat \subseteq S
    BY <2>1, Induction
  <2> QED BY <2>2 DEF S
<1> HIDE DEF Sol
<1> DEFINE own(d) == CHOOSE f : f \in Sol(size[d] + 1)
           F == [d \in D |-> own(d)[d]]
<1>3. ASSUME NEW d \in D PROVE own(d) \in Sol(size[d] + 1)
  BY <1>2
<1>4. ASSUME NEW d \in D PROVE F[d] \in Seq(T) /\ Holds(F, d)
  <2>1. own(d)[d] \in Seq(T) /\ Holds(own(d), d)
    <3>1. d \in below(size[d] + 1)
      OBVIOUS
    <3>2. /\ own(d) \in [below(size[d] + 1) -> Seq(T)]
          /\ \A x \in below(size[d] + 1) : Holds(own(d), x)
      BY <1>3 DEF Sol
    <3> HIDE DEF own, below, Holds
    <3> QED BY <3>1, <3>2
  <2>2. ASSUME d \notin stop PROVE own(d)[nxt[d]] = F[nxt[d]]
    <3>1. nxt[d] \in D /\ size[nxt[d]] < size[d] /\ size[d] \in Nat /\ size[nxt[d]] \in Nat
      BY <2>2
    <3>2. own(d)[nxt[d]] = own(nxt[d])[nxt[d]]
      <4>1. own(d) \in Sol(size[d] + 1) /\ own(nxt[d]) \in Sol(size[nxt[d]] + 1)
        BY <1>3, <3>1
      <4>2. /\ size[d] + 1 \in Nat /\ size[nxt[d]] + 1 \in Nat
            /\ size[nxt[d]] < size[d] + 1 /\ size[nxt[d]] < size[nxt[d]] + 1
        BY <3>1
      <4> HIDE DEF own
      <4> QED BY <1>1, <3>1, <4>1, <4>2
    <3> QED BY <3>1, <3>2
  <2> QED BY <2>1, <2>2
<1> HIDE DEF F
<1>5. F \in [D -> Seq(T)]
  BY <1>4 DEF F
<1> QED BY <1>4, <1>5

(***************************************************************************)
(* MergeMap::lookup: the rank of a pair is the position of the first merge  *)
(* of that pair, whose target is a token, or NoRank when there is none.     *)
(***************************************************************************)
LEMMA RankOfPair ==
  ASSUME NEW m, IsTable(m), NEW a, NEW b
  PROVE  /\ Rank(m, a, b) \in 1 .. NoRank
         /\ Rank(m, a, b) = NoRank <=> MergesOf(m, a, b) = {}
         /\ Rank(m, a, b) # NoRank => /\ IsFirst(Rank(m, a, b), MergesOf(m, a, b))
                                      /\ Target(m, a, b) \in Token
<1>1. /\ m \in Seq(Merge) /\ NoRank \in Nat
      /\ Len(m) \in Nat /\ Len(m) < NoRank
      /\ DOMAIN m = 1 .. Len(m)
  BY LenProperties DEF IsTable
<1>2. CASE MergesOf(m, a, b) = {}
  BY <1>1, <1>2 DEF Rank
<1>3. CASE MergesOf(m, a, b) # {}
  <2>1. MergesOf(m, a, b) \subseteq 1 .. Len(m)
    BY <1>1 DEF MergesOf
  <2>2. \E i \in MergesOf(m, a, b) : IsFirst(i, MergesOf(m, a, b))
    BY <1>1, <1>3, <2>1, LeastNatural
  <2>3. IsFirst(Rank(m, a, b), MergesOf(m, a, b))
    BY <1>3, <2>2 DEF Rank
  <2>4. Rank(m, a, b) \in 1 .. Len(m)
    BY <2>1, <2>3 DEF IsFirst
  <2>5. m[Rank(m, a, b)] \in Merge
    BY <1>1, <2>4, ElementOfSeq
  <2>6. Target(m, a, b) \in Token
    BY <2>5 DEF Target, Merge
  <2> QED BY <1>1, <1>3, <2>3, <2>4, <2>6
<1> QED BY <1>2, <1>3

(***************************************************************************)
(* What a merge of the pair at i leaves: a word of tokens, shorter by one,  *)
(* with the target at i and the rest of the word moved up behind it.        *)
(***************************************************************************)
LEMMA FoldedWord ==
  ASSUME NEW m, IsTable(m), NEW w \in Seq(Token), NEW i \in 1 .. Len(w) - 1,
         RankAt(m, w, i) # NoRank
  PROVE  /\ FoldAt(m, w, i) \in Seq(Token)
         /\ Len(FoldAt(m, w, i)) = Len(w) - 1
         /\ \A k \in 1 .. Len(w) - 1 : FoldAt(m, w, i)[k] =
               IF k < i THEN w[k]
               ELSE IF k = i THEN Target(m, w[i], w[i + 1])
               ELSE w[k + 1]
<1> DEFINE t == Target(m, w[i], w[i + 1])
           left == SubSeq(w, 1, i - 1)
           right == SubSeq(w, i + 2, Len(w))
<1>1. Len(w) \in Nat /\ \A k \in 1 .. Len(w) : w[k] \in Token
  BY LenProperties, ElementOfSeq
<1>2. t \in Token
  BY RankOfPair DEF RankAt
<1>3. /\ left \in Seq(Token) /\ Len(left) = i - 1
      /\ \A k \in 1 .. i - 1 : left[k] = w[k]
  <2>1. \A k \in 1 .. i - 1 : w[k] \in Token
    BY <1>1
  <2> QED BY <1>1, <2>1, SubSeqProperties
<1>4. /\ right \in Seq(Token) /\ Len(right) = Len(w) - i - 1
      /\ \A k \in 1 .. Len(w) - i - 1 : right[k] = w[k + i + 1]
  <2>1. \A k \in i + 2 .. Len(w) : w[k] \in Token
    BY <1>1
  <2> QED BY <1>1, <2>1, SubSeqProperties
<1> DEFINE middle == <<t>>
<1>5. middle \in Seq(Token) /\ Len(middle) = 1 /\ middle[1] = t
  BY <1>2
<1> DEFINE front == left \o middle
<1>6. /\ front \in Seq(Token) /\ Len(front) = i
      /\ \A k \in 1 .. i : front[k] = IF k < i THEN w[k] ELSE t
  <2> HIDE DEF t, left, middle, right
  <2>1. /\ front \in Seq(Token) /\ Len(front) = (i - 1) + 1
        /\ \A k \in 1 .. (i - 1) + 1 : front[k] =
              IF k <= i - 1 THEN left[k] ELSE middle[k - (i - 1)]
    <3>1. left \in Seq(Token) /\ middle \in Seq(Token)
      BY <1>3, <1>5
    <3>2. /\ front \in Seq(Token) /\ Len(front) = Len(left) + Len(middle)
          /\ \A k \in 1 .. Len(left) + Len(middle) : front[k] =
                IF k <= Len(left) THEN left[k] ELSE middle[k - Len(left)]
      BY <3>1, ConcatProperties
    <3> HIDE DEF front
    <3> QED BY <1>3, <1>5, <3>2
  <2> HIDE DEF front
  <2>2. ASSUME NEW k \in 1 .. i PROVE front[k] = IF k < i THEN w[k] ELSE t
    <3>1. i \in Int /\ k \in Int /\ k \in 1 .. (i - 1) + 1
      BY <1>1
    <3>2. CASE k < i
      <4>1. k \in 1 .. i - 1 /\ k <= i - 1
        BY <3>1, <3>2
      <4> QED BY <1>3, <2>1, <3>1, <3>2, <4>1
    <3>3. CASE k = i
      <4>1. ~(k <= i - 1) /\ k - (i - 1) = 1
        BY <3>1, <3>3
      <4> QED BY <1>5, <2>1, <3>1, <3>3, <4>1
    <3> QED BY <3>1, <3>2, <3>3
  <2> QED BY <1>1, <2>1, <2>2
<1>7. FoldAt(m, w, i) = front \o right
  BY DEF FoldAt
<1> HIDE DEF t, left, middle, right, front
<1>8. /\ FoldAt(m, w, i) \in Seq(Token)
      /\ Len(FoldAt(m, w, i)) = Len(w) - 1
      /\ \A k \in 1 .. Len(w) - 1 : FoldAt(m, w, i)[k] =
            IF k <= i THEN front[k] ELSE right[k - i]
  <2>1. i + (Len(w) - i - 1) = Len(w) - 1
    BY <1>1
  <2>2. front \in Seq(Token) /\ right \in Seq(Token)
    BY <1>4, <1>6
  <2>3. /\ front \o right \in Seq(Token)
        /\ Len(front \o right) = Len(front) + Len(right)
        /\ \A k \in 1 .. Len(front) + Len(right) : (front \o right)[k] =
              IF k <= Len(front) THEN front[k] ELSE right[k - Len(front)]
    BY <2>2, ConcatProperties
  <2>4. Len(front) = i /\ Len(right) = Len(w) - i - 1
    BY <1>4, <1>6
  <2> DEFINE whole == front \o right
  <2> HIDE DEF whole
  <2>5. whole = FoldAt(m, w, i)
    BY <1>7 DEF whole
  <2>6. /\ whole \in Seq(Token) /\ Len(whole) = Len(w) - 1
        /\ \A k \in 1 .. Len(w) - 1 : whole[k] = IF k <= i THEN front[k] ELSE right[k - i]
    BY <2>1, <2>3, <2>4 DEF whole
  <2> QED BY <2>5, <2>6
<1>9. ASSUME NEW k \in 1 .. Len(w) - 1
      PROVE  FoldAt(m, w, i)[k] =
               IF k < i THEN w[k] ELSE IF k = i THEN t ELSE w[k + 1]
  <2>1. CASE k <= i
    BY <1>1, <1>6, <1>8, <2>1
  <2>2. CASE k > i
    <3>1. k - i \in 1 .. Len(w) - i - 1 /\ (k - i) + i + 1 = k + 1
      BY <1>1, <2>2
    <3> QED BY <1>1, <1>4, <1>8, <2>2, <3>1
  <2> QED BY <1>1, <2>1, <2>2
<1> QED BY <1>1, <1>8, <1>9 DEF t

-----------------------------------------------------------------------------
(***************************************************************************)
(* Canonical BPE, step by step: the recursion that defines it has a         *)
(* solution, a word that can be merged has one lowest pair, and the word    *)
(* reached from it is the one reached once that pair is folded.             *)
(***************************************************************************)
LEMMA LowestExists ==
  ASSUME NEW m, IsTable(m), NEW w \in Seq(Token), ~NormalForm(m, w)
  PROVE  \E i \in 1 .. Len(w) - 1 : IsLowest(m, w, i)
<1> DEFINE at == {i \in 1 .. Len(w) - 1 : RankAt(m, w, i) # NoRank}
           rks == {RankAt(m, w, i) : i \in at}
<1>1. Len(w) \in Nat /\ \A i \in 1 .. Len(w) - 1 : RankAt(m, w, i) \in Nat
  BY LenProperties, RankOfPair DEF RankAt, IsTable
<1>2. at # {} /\ at \subseteq Nat /\ rks # {} /\ rks \subseteq Nat
  BY <1>1 DEF NormalForm
<1>3. PICK r \in rks : IsFirst(r, rks)
  <2> HIDE DEF rks
  <2> QED BY <1>2, LeastNatural
<1> DEFINE lowest == {i \in at : RankAt(m, w, i) = r}
<1>4. lowest # {} /\ lowest \subseteq Nat
  BY <1>2, <1>3
<1>5. PICK i \in lowest : IsFirst(i, lowest)
  <2> HIDE DEF lowest
  <2> QED BY <1>4, LeastNatural
<1>6. ASSUME NEW j \in at
      PROVE  Precedes(<<RankAt(m, w, i), i>>, <<RankAt(m, w, j), j>>)
  <2>1. RankAt(m, w, i) = r /\ r <= RankAt(m, w, j)
    BY <1>3, <1>5 DEF IsFirst
  <2>2. RankAt(m, w, j) = r => i <= j
    BY <1>5 DEF IsFirst
  <2>3. r \in Nat /\ RankAt(m, w, j) \in Nat
    BY <1>1, <1>2, <1>3
  <2> QED BY <2>1, <2>2, <2>3 DEF Precedes
<1>7. Mergeable(m, w, i)
  BY <1>5 DEF Mergeable
<1> HIDE DEF lowest, rks
<1>8. IsLowest(m, w, i)
  BY <1>6, <1>7 DEF IsLowest, Candidates
<1> QED BY <1>7, <1>8 DEF Mergeable

LEMMA LowestIsUnique ==
  ASSUME NEW m, IsTable(m), NEW w \in Seq(Token), NEW i, IsLowest(m, w, i)
  PROVE  <<RankAt(m, w, i), i>> =
            CHOOSE p \in Candidates(m, w) : \A q \in Candidates(m, w) : Precedes(p, q)
<1> DEFINE c == Candidates(m, w)
           a == <<RankAt(m, w, i), i>>
<1>1. Len(w) \in Nat /\ \A k \in 1 .. Len(w) - 1 : RankAt(m, w, k) \in Nat
  BY LenProperties, RankOfPair DEF RankAt, IsTable
<1>2. a \in c /\ \A q \in c : Precedes(a, q)
  BY DEF IsLowest, Mergeable, Candidates
<1>3. c \subseteq Nat \X Nat
  BY <1>1 DEF Candidates
<1>4. ASSUME NEW p \in c, \A q \in c : Precedes(p, q)
      PROVE  p = a
  <2>1. Precedes(p, a) /\ Precedes(a, p)
    BY <1>2, <1>4
  <2>2. p \in Nat \X Nat /\ a \in Nat \X Nat
    BY <1>2, <1>3
  <2>3. p[1] = a[1] /\ p[2] = a[2]
    BY <2>1, <2>2 DEF Precedes
  <2> QED BY <2>2, <2>3
<1> HIDE DEF c, a
<1>5. a = CHOOSE p \in c : \A q \in c : Precedes(p, q)
  BY <1>2, <1>4
<1> QED BY <1>5 DEF c, a

LEMMA CanonicalUnfolds ==
  ASSUME NEW m, IsTable(m), NEW w \in Seq(Token)
  PROVE  /\ Canonical(m, w) \in Seq(Token)
         /\ NormalForm(m, w) => Canonical(m, w) = w
         /\ \A i : IsLowest(m, w, i) => Canonical(m, w) = Canonical(m, FoldAt(m, w, i))
<1> DEFINE D == Seq(Token)
           low(v) == CHOOSE p \in Candidates(m, v) :
                        \A q \in Candidates(m, v) : Precedes(p, q)
           stop == {v \in D : Candidates(m, v) = {}}
           nxt == [v \in D |-> FoldAt(m, v, low(v)[2])]
           size == [v \in D |-> Len(v)]
           base == [v \in D |-> v]
           pre == [v \in D |-> <<>>]
           body(f) == [v \in D |-> IF Candidates(m, v) = {} THEN v
                                    ELSE f[FoldAt(m, v, low(v)[2])]]
           merged == CHOOSE f : f = body(f)
<1>1. ASSUME NEW v \in D
      PROVE  Candidates(m, v) = {} <=> NormalForm(m, v)
  BY DEF Candidates, NormalForm
<1>2. ASSUME NEW v \in D, NEW i, IsLowest(m, v, i)
      PROVE  /\ low(v)[2] = i /\ ~NormalForm(m, v)
             /\ FoldAt(m, v, i) \in D /\ Len(FoldAt(m, v, i)) = Len(v) - 1
             /\ Len(v) \in Nat
  <2>1. i \in 1 .. Len(v) - 1 /\ RankAt(m, v, i) # NoRank
    BY <1>2 DEF IsLowest, Mergeable
  <2>2. low(v) = <<RankAt(m, v, i), i>>
    BY <1>2, LowestIsUnique
  <2> HIDE DEF low
  <2> QED BY <2>1, <2>2, FoldedWord, LenProperties DEF NormalForm
<1> HIDE DEF low
<1>3. ASSUME NEW v \in D \ stop
      PROVE  nxt[v] \in D /\ size[nxt[v]] < size[v]
  <2>1. PICK i : IsLowest(m, v, i)
    BY <1>1, LowestExists
  <2>2. nxt[v] = FoldAt(m, v, i)
    BY <1>2, <2>1
  <2>3. nxt[v] \in D /\ Len(nxt[v]) = Len(v) - 1 /\ Len(v) \in Nat
    BY <1>2, <2>1, <2>2
  <2> QED BY <2>3
<1>4. size \in [D -> Nat] /\ base \in [D -> Seq(Token)] /\ pre \in [D -> Seq(Token)]
  BY LenProperties
<1>5. PICK f \in [D -> Seq(Token)] : \A v \in D :
         f[v] = IF v \in stop THEN base[v] ELSE pre[v] \o f[nxt[v]]
  <2> HIDE DEF size, base, pre, stop, nxt, D
  <2>1. Descends(Token, D, size, stop, nxt, base, pre)
    BY <1>3, <1>4 DEF Descends
  <2> QED BY <2>1, Recursion
<1>6. f = body(f)
  <2>1. ASSUME NEW v \in D PROVE f[v] = body(f)[v]
    <3>1. CASE Candidates(m, v) = {}
      BY <1>5, <3>1
    <3>2. CASE Candidates(m, v) # {}
      <4>1. f[v] = <<>> \o f[nxt[v]] /\ nxt[v] \in D
        BY <1>3, <1>5, <3>2
      <4>2. f[v] = f[nxt[v]]
        BY <1>5, <4>1, ConcatEmptySeq
      <4> QED BY <3>2, <4>2
    <3> QED BY <3>1, <3>2
  <2> QED BY <1>5, <2>1
<1> HIDE DEF body
<1>7. merged = body(merged)
  BY <1>6
<1>8. ASSUME NEW v PROVE Canonical(m, v) = merged[v]
  BY DEF Canonical, body, low
<1> HIDE DEF merged, D
<1>9. ASSUME NEW v \in D
      PROVE  Canonical(m, v) = IF Candidates(m, v) = {} THEN v
                               ELSE Canonical(m, FoldAt(m, v, low(v)[2]))
  BY <1>7, <1>8 DEF body
<1>10. \A v \in D : NormalForm(m, v) => Canonical(m, v) = v
  BY <1>1, <1>9
<1>11. \A v \in D : \A i : IsLowest(m, v, i) => Canonical(m, v) = Canonical(m, FoldAt(m, v, i))
  BY <1>1, <1>2, <1>9
<1>12. \A v \in D : Canonical(m, v) \in Seq(Token)
  <2> DEFINE S == {n \in Nat : \A v \in D : Len(v) = n => Canonical(m, v) \in Seq(Token)}
  <2>1. ASSUME NEW n \in Nat, 0 .. n - 1 \subseteq S PROVE n \in S
    <3>1. SUFFICES ASSUME NEW v \in D, Len(v) = n PROVE Canonical(m, v) \in Seq(Token)
      OBVIOUS
    <3>2. CASE NormalForm(m, v)
      BY <1>10, <3>2 DEF D
    <3>3. CASE ~NormalForm(m, v)
      <4>1. PICK i \in 1 .. Len(v) - 1 : IsLowest(m, v, i)
        BY <3>3, LowestExists DEF D
      <4>2. FoldAt(m, v, i) \in D /\ Len(FoldAt(m, v, i)) = n - 1 /\ n - 1 \in 0 .. n - 1
        <5>1. /\ FoldAt(m, v, i) \in D /\ Len(FoldAt(m, v, i)) = Len(v) - 1
              /\ i \in 1 .. Len(v) - 1
          BY <1>2, <4>1
        <5> QED BY <3>1, <5>1
      <4>3. n - 1 \in S
        BY <2>1, <4>2
      <4> QED BY <1>11, <4>1, <4>2, <4>3
    <3> QED BY <3>2, <3>3
  <2> HIDE DEF S
  <2>2. Nat \subseteq S
    BY <2>1, Induction
  <2> QED BY <2>2, LenProperties DEF S, D
<1> QED BY <1>10, <1>11, <1>12 DEF D

-----------------------------------------------------------------------------
(* A rank that is not NoRank names the first merge of the pair.            *)
LEMMA RankMeans ==
  ASSUME NEW m, IsTable(m), NEW a, NEW b
  PROVE  /\ DOMAIN m \subseteq Nat /\ NoRank \notin DOMAIN m
         /\ Rank(m, a, b) # NoRank =>
               /\ Rank(m, a, b) \in DOMAIN m
               /\ m[Rank(m, a, b)][1] = a /\ m[Rank(m, a, b)][2] = b
         /\ \A s \in DOMAIN m : m[s][1] = a /\ m[s][2] = b =>
               Rank(m, a, b) # NoRank /\ Rank(m, a, b) <= s
<1>1. DOMAIN m = 1 .. Len(m) /\ Len(m) \in Nat /\ NoRank \in Nat /\ Len(m) < NoRank
  BY LenProperties DEF IsTable
<1>2. DOMAIN m \subseteq Nat /\ NoRank \notin DOMAIN m
  BY <1>1
<1> QED BY <1>2, RankOfPair DEF IsFirst, MergesOf

(* The same, for a fold by name: v is w with the pair at i folded.         *)
IsFolded(m, w, i, v) ==
    /\ v \in Seq(Token) /\ Len(v) = Len(w) - 1
    /\ \A k \in 1 .. Len(w) - 1 : v[k] =
          IF k < i THEN w[k] ELSE IF k = i THEN Target(m, w[i], w[i + 1]) ELSE w[k + 1]

LEMMA Folded ==
  ASSUME NEW m, IsTable(m), NEW w \in Seq(Token), NEW i, Mergeable(m, w, i)
  PROVE  IsFolded(m, w, i, FoldAt(m, w, i))
  BY FoldedWord DEF Mergeable, IsFolded

(* Two folds that share no token commute.                                  *)
LEMMA FoldsCommute ==
  ASSUME NEW m, IsTable(m), NEW w \in Seq(Token),
         NEW i \in 1 .. Len(w) - 1, NEW p \in i + 2 .. Len(w) - 1,
         RankAt(m, w, i) # NoRank, RankAt(m, w, p) # NoRank
  PROVE  /\ RankAt(m, FoldAt(m, w, p), i) = RankAt(m, w, i)
         /\ RankAt(m, FoldAt(m, w, i), p - 1) = RankAt(m, w, p)
         /\ FoldAt(m, FoldAt(m, w, p), i) = FoldAt(m, FoldAt(m, w, i), p - 1)
<1>1. PICK n, a, b, t, u :
         /\ n = Len(w) /\ a = FoldAt(m, w, p) /\ b = FoldAt(m, w, i)
         /\ t = Target(m, w[i], w[i + 1]) /\ u = Target(m, w[p], w[p + 1])
  OBVIOUS
<1>2. n \in Nat /\ i \in 1 .. n - 3 /\ p \in i + 2 .. n - 1
  BY <1>1, LenProperties
<1>3. /\ a \in Seq(Token) /\ Len(a) = n - 1
      /\ \A k \in 1 .. n - 1 : a[k] = IF k < p THEN w[k] ELSE IF k = p THEN u ELSE w[k + 1]
  <2>1. Mergeable(m, w, p)
    BY <1>1, <1>2 DEF Mergeable
  <2>2. IsFolded(m, w, p, a)
    BY <1>1, <2>1, Folded
  <2> QED BY <1>1, <2>2 DEF IsFolded
<1>4. /\ b \in Seq(Token) /\ Len(b) = n - 1
      /\ \A k \in 1 .. n - 1 : b[k] = IF k < i THEN w[k] ELSE IF k = i THEN t ELSE w[k + 1]
  BY <1>1, FoldedWord, SMTT(20)
<1>5. a[i] = w[i] /\ a[i + 1] = w[i + 1] /\ b[p - 1] = w[p] /\ b[p] = w[p + 1]
  <2>1. i \in 1 .. n - 1 /\ i + 1 \in 1 .. n - 1 /\ i < p /\ i + 1 < p
    BY <1>2
  <2>2. a[i] = w[i] /\ a[i + 1] = w[i + 1]
    BY <1>3, <2>1
  <2>3. /\ p - 1 \in 1 .. n - 1 /\ ~(p - 1 < i) /\ p - 1 # i /\ (p - 1) + 1 = p
        /\ p \in 1 .. n - 1 /\ ~(p < i) /\ p # i
    BY <1>2
  <2>4. b[p - 1] = w[p] /\ b[p] = w[p + 1]
    BY <1>4, <2>3
  <2> QED BY <2>2, <2>4
<1>6. RankAt(m, a, i) = RankAt(m, w, i) /\ RankAt(m, b, p - 1) = RankAt(m, w, p)
  <2>1. (p - 1) + 1 = p
    BY <1>2
  <2> QED BY <1>5, <2>1 DEF RankAt
<1>7. PICK c, d : c = FoldAt(m, a, i) /\ d = FoldAt(m, b, p - 1)
  OBVIOUS
<1>8. /\ c \in Seq(Token) /\ Len(c) = n - 2
      /\ \A k \in 1 .. n - 2 : c[k] = IF k < i THEN a[k] ELSE IF k = i THEN t ELSE a[k + 1]
  <2>1. Mergeable(m, a, i) /\ Len(a) - 1 = n - 2
    BY <1>2, <1>3, <1>6 DEF Mergeable
  <2>2. t = Target(m, a[i], a[i + 1])
    BY <1>1, <1>5
  <2>3. IsFolded(m, a, i, c)
    BY <1>3, <1>7, <2>1, Folded
  <2> QED BY <2>1, <2>2, <2>3 DEF IsFolded
<1>9. /\ d \in Seq(Token) /\ Len(d) = n - 2
      /\ \A k \in 1 .. n - 2 : d[k] =
            IF k < p - 1 THEN b[k] ELSE IF k = p - 1 THEN u ELSE b[k + 1]
  <2>1. Mergeable(m, b, p - 1) /\ Len(b) - 1 = n - 2 /\ (p - 1) + 1 = p
    BY <1>2, <1>4, <1>6 DEF Mergeable
  <2>2. u = Target(m, b[p - 1], b[(p - 1) + 1])
    BY <1>1, <1>5, <2>1
  <2>3. IsFolded(m, b, p - 1, d)
    BY <1>4, <1>7, <2>1, Folded
  <2> QED BY <2>1, <2>2, <2>3 DEF IsFolded
<1>10. ASSUME NEW k \in 1 .. n - 2 PROVE c[k] = d[k]
  <2>1. /\ k \in 1 .. n - 1 /\ k + 1 \in 1 .. n - 1
    BY <1>2
  <2>2. CASE k < i
    BY <1>2, <1>3, <1>4, <1>8, <1>9, <2>1, <2>2
  <2>3. CASE k = i
    BY <1>2, <1>3, <1>4, <1>8, <1>9, <2>1, <2>3
  <2>4. CASE k > i /\ k < p - 1
    BY <1>2, <1>3, <1>4, <1>8, <1>9, <2>1, <2>4
  <2>5. CASE k = p - 1
    BY <1>2, <1>3, <1>4, <1>8, <1>9, <2>1, <2>5
  <2>6. CASE k > p - 1
    BY <1>2, <1>3, <1>4, <1>8, <1>9, <2>1, <2>6
  <2> QED BY <1>2, <2>2, <2>3, <2>4, <2>5, <2>6
<1>11. c = d
  BY <1>8, <1>9, <1>10, SeqEqual
<1> QED BY <1>1, <1>6, <1>7, <1>11

-----------------------------------------------------------------------------
(***************************************************************************)
(* When a merge may be made before its turn.  Give every token of a word a  *)
(* level, the number of merges that have been decided for it as the left    *)
(* operand: a merge below the level of a token does not apply to it and its *)
(* right neighbour, nor will it once merges of lower rank have changed the  *)
(* neighbour, whose level is no less.                                       *)
(***************************************************************************)
Calm(m, w, lv) ==
    \A p \in 1 .. Len(w) - 1 : \A s \in DOMAIN m :
        s < lv[p] /\ m[s][1] = w[p] => s <= lv[p + 1] /\ m[s][2] # w[p + 1]

(* The pair at i is that of the merge at its level, everything before it is *)
(* beyond that merge, and its right operand at least as far.               *)
Settled(m, w, lv, i) ==
    /\ lv \in [1 .. Len(w) -> Nat] /\ Calm(m, w, lv)
    /\ i \in 1 .. Len(w) - 1 /\ lv[i] \in DOMAIN m
    /\ m[lv[i]][1] = w[i] /\ m[lv[i]][2] = w[i + 1]
    /\ lv[i] <= lv[i + 1]
    /\ \A p \in 1 .. i - 1 : lv[i] < lv[p]

(* A pair of a calm word that can be merged is beyond its level.           *)
LEMMA CalmRank ==
  ASSUME NEW m, IsTable(m), NEW w \in Seq(Token), NEW lv, Calm(m, w, lv),
         lv \in [1 .. Len(w) -> Nat], NEW p, Mergeable(m, w, p)
  PROVE  /\ RankAt(m, w, p) \in DOMAIN m /\ lv[p] <= RankAt(m, w, p)
         /\ m[RankAt(m, w, p)][1] = w[p] /\ m[RankAt(m, w, p)][2] = w[p + 1]
<1>1. p \in 1 .. Len(w) - 1 /\ Len(w) \in Nat /\ RankAt(m, w, p) # NoRank
  BY LenProperties DEF Mergeable
<1>2. /\ RankAt(m, w, p) \in DOMAIN m /\ DOMAIN m \subseteq Nat
      /\ m[RankAt(m, w, p)][1] = w[p] /\ m[RankAt(m, w, p)][2] = w[p + 1]
  BY <1>1, RankMeans DEF RankAt
<1>3. ~(RankAt(m, w, p) < lv[p])
  BY <1>1, <1>2 DEF Calm
<1>4. lv[p] \in Nat /\ RankAt(m, w, p) \in Nat
  BY <1>1, <1>2
<1> QED BY <1>2, <1>3, <1>4

LEMMA SettledRank ==
  ASSUME NEW m, IsTable(m), NEW w \in Seq(Token), NEW lv, NEW i, Settled(m, w, lv, i)
  PROVE  RankAt(m, w, i) = lv[i] /\ Mergeable(m, w, i) /\ DOMAIN m \subseteq Nat
         /\ Target(m, w[i], w[i + 1]) = m[lv[i]][3]
<1>1. RankAt(m, w, i) # NoRank /\ RankAt(m, w, i) <= lv[i] /\ DOMAIN m \subseteq Nat
  BY RankMeans DEF Settled, RankAt
<1>2. Mergeable(m, w, i)
  BY <1>1 DEF Mergeable, Settled
<1>3. lv[i] <= RankAt(m, w, i) /\ RankAt(m, w, i) \in DOMAIN m
  BY <1>2, CalmRank DEF Settled
<1>4. lv[i] \in Nat /\ RankAt(m, w, i) \in Nat
  BY <1>1, <1>3 DEF Settled
<1>5. RankAt(m, w, i) = lv[i]
  BY <1>1, <1>3, <1>4
<1> QED BY <1>1, <1>2, <1>5 DEF Target, RankAt

(* So the lowest pair is the settled one, or far behind it.                *)
LEMMA LowestWhenSettled ==
  ASSUME NEW m, IsTable(m), NEW w \in Seq(Token), NEW lv, NEW i, Settled(m, w, lv, i),
         NEW p, IsLowest(m, w, p), p # i
  PROVE  p \in i + 2 .. Len(w) - 1 /\ RankAt(m, w, p) < lv[i]
<1>1. /\ Len(w) \in Nat /\ i \in 1 .. Len(w) - 1 /\ p \in 1 .. Len(w) - 1
      /\ Mergeable(m, w, p) /\ DOMAIN m \subseteq Nat
      /\ RankAt(m, w, i) = lv[i] /\ Mergeable(m, w, i)
  <2>1. RankAt(m, w, i) = lv[i] /\ Mergeable(m, w, i) /\ DOMAIN m \subseteq Nat
    BY SettledRank
  <2> QED BY <2>1, LenProperties DEF IsLowest, Mergeable
<1> DEFINE q == RankAt(m, w, p)
           r == lv[i]
<1>2. q \in Nat /\ r \in Nat /\ lv[p] \in Nat /\ lv[i + 1] \in Nat /\ lv[p] <= q
  <2>1. lv \in [1 .. Len(w) -> Nat] /\ Calm(m, w, lv)
    BY DEF Settled
  <2>2. q \in DOMAIN m /\ lv[p] <= q
    BY <1>1, <2>1, CalmRank
  <2>3. i \in 1 .. Len(w) /\ i + 1 \in 1 .. Len(w) /\ p \in 1 .. Len(w)
    BY <1>1
  <2> QED BY <1>1, <2>1, <2>2, <2>3
<1>3. q < r \/ (q = r /\ p <= i)
  <2>1. <<r, i>> \in Candidates(m, w)
    BY <1>1 DEF Candidates, Mergeable
  <2>2. Precedes(<<q, p>>, <<r, i>>)
    BY <2>1 DEF IsLowest
  <2> QED BY <2>2 DEF Precedes
<1>4. ~(p < i)
  <2>1. SUFFICES ASSUME p < i PROVE FALSE
    OBVIOUS
  <2>2. r < lv[p]
    BY <1>1, <2>1 DEF Settled
  <2> QED BY <1>2, <1>3, <2>2
<1>5. q < r
  BY <1>1, <1>3, <1>4
<1>6. p # i + 1
  <2>1. r <= lv[i + 1]
    BY DEF Settled
  <2> QED BY <1>2, <1>5, <2>1
<1> QED BY <1>1, <1>4, <1>5, <1>6

(* Folding the lowest pair far behind leaves the settled one settled.      *)
LEMMA StaysSettled ==
  ASSUME NEW m, IsTable(m), Monotonic(m), NEW w \in Seq(Token), NEW lv, NEW i,
         Settled(m, w, lv, i),
         NEW p, Mergeable(m, w, p), p \in i + 2 .. Len(w) - 1
  PROVE  Settled(m, FoldAt(m, w, p),
                 [k \in 1 .. Len(w) - 1 |-> IF k <= p THEN lv[k] ELSE lv[k + 1]], i)
<1>1. PICK n, v, mv, q, t :
         /\ n = Len(w) /\ v = FoldAt(m, w, p) /\ q = RankAt(m, w, p)
         /\ mv = [k \in 1 .. Len(w) - 1 |-> IF k <= p THEN lv[k] ELSE lv[k + 1]]
         /\ t = Target(m, w[p], w[p + 1])
  OBVIOUS
<1>2. /\ n \in Nat /\ i \in Nat /\ p \in Nat /\ 1 <= i /\ i + 2 <= p /\ p <= n - 1
      /\ lv \in [1 .. n -> Nat] /\ DOMAIN m \subseteq Nat
  <2>1. i \in 1 .. n - 1 /\ n \in Nat /\ lv \in [1 .. n -> Nat]
    BY <1>1, LenProperties DEF Settled
  <2>2. DOMAIN m \subseteq Nat
    BY RankMeans
  <2> QED BY <1>1, <2>1, <2>2
<1>3. /\ v \in Seq(Token) /\ Len(v) = n - 1
      /\ \A k \in 1 .. n - 1 : v[k] = IF k < p THEN w[k] ELSE IF k = p THEN t ELSE w[k + 1]
  <2>1. IsFolded(m, w, p, v)
    BY <1>1, Folded
  <2> QED BY <1>1, <2>1 DEF IsFolded
<1>4. q \in DOMAIN m /\ lv[p] <= q /\ t = m[q][3]
  <2>1. RankAt(m, w, p) \in DOMAIN m /\ lv[p] <= RankAt(m, w, p)
    BY CalmRank DEF Settled
  <2> QED BY <1>1, <2>1 DEF Target, RankAt
<1>5. \A s \in DOMAIN m : m[s][1] = t \/ m[s][2] = t => q < s
  BY <1>4 DEF Monotonic
<1>6. /\ mv \in [1 .. n - 1 -> Nat]
      /\ \A k \in 1 .. n - 1 : mv[k] = IF k <= p THEN lv[k] ELSE lv[k + 1]
  BY <1>1, <1>2
<1>7. Calm(m, v, mv)
  <2>1. SUFFICES ASSUME NEW k \in 1 .. n - 2, NEW s \in DOMAIN m,
                        s < mv[k], m[s][1] = v[k]
                 PROVE  s <= mv[k + 1] /\ m[s][2] # v[k + 1]
    BY <1>2, <1>3, SMTT(30) DEF Calm
  <2>2. /\ k \in 1 .. n - 1 /\ k + 1 \in 1 .. n - 1 /\ (k + 1) + 1 = k + 2
        /\ k \in 1 .. n /\ k + 1 \in 1 .. n /\ k + 2 \in 1 .. n
        /\ s \in Nat /\ q \in Nat /\ lv[p] \in Nat
    <3>1. p \in 1 .. n
      BY <1>2
    <3>2. s \in Nat /\ q \in Nat /\ lv[p] \in Nat
      BY <1>2, <1>4, <3>1
    <3> QED BY <1>2, <3>2
  <2> DEFINE at(j) == IF j <= p THEN lv[j] ELSE lv[j + 1]
             tok(j) == IF j < p THEN w[j] ELSE IF j = p THEN t ELSE w[j + 1]
  <2>0. /\ v[k] = tok(k) /\ v[k + 1] = tok(k + 1)
        /\ mv[k] = at(k) /\ mv[k + 1] = at(k + 1)
    <3> HIDE DEF at, tok
    <3>1. \A j \in 1 .. n - 1 : v[j] = tok(j) /\ mv[j] = at(j)
      BY <1>3, <1>6 DEF at, tok
    <3> QED BY <2>2, <3>1
  <2>3. \A j \in 1 .. n - 1 : s < lv[j] /\ m[s][1] = w[j] =>
           s <= lv[j + 1] /\ m[s][2] # w[j + 1]
    BY <1>1 DEF Settled, Calm
  <2>4. CASE k + 1 < p
    <3>1. /\ v[k] = w[k] /\ v[k + 1] = w[k + 1] /\ mv[k] = lv[k] /\ mv[k + 1] = lv[k + 1]
      BY <1>2, <2>0, <2>2, <2>4, SMTT(30)
    <3> QED BY <2>1, <2>2, <2>3, <3>1
  <2>5. CASE k + 1 = p
    <3>1. /\ v[k] = w[k] /\ v[k + 1] = t /\ mv[k] = lv[k] /\ mv[k + 1] = lv[k + 1]
      BY <1>2, <2>0, <2>2, <2>5
    <3>2. s <= lv[k + 1]
      BY <2>1, <2>2, <2>3, <3>1
    <3>3. ~(q < s)
      BY <1>4, <2>2, <2>5, <3>2
    <3> QED BY <1>5, <3>1, <3>2, <3>3
  <2>6. CASE k = p
    <3>1. v[k] = t /\ mv[k] = lv[p]
      BY <1>2, <1>3, <1>6, <2>2, <2>6, SMTT(30)
    <3>2. q < s
      BY <1>5, <2>1, <3>1
    <3> QED BY <1>4, <2>1, <2>2, <3>1, <3>2
  <2>7. CASE k > p
    <3>1. /\ v[k] = w[k + 1] /\ v[k + 1] = w[k + 2]
          /\ mv[k] = lv[k + 1] /\ mv[k + 1] = lv[k + 2]
      BY <1>2, <2>0, <2>2, <2>7
    <3> QED BY <2>1, <2>2, <2>3, <3>1
  <2> QED BY <1>2, <2>4, <2>5, <2>6, <2>7, SMTT(30)
<1>8. /\ v[i] = w[i] /\ v[i + 1] = w[i + 1] /\ mv[i] = lv[i] /\ mv[i + 1] = lv[i + 1]
      /\ \A k \in 1 .. i - 1 : mv[k] = lv[k]
  <2>1. ASSUME NEW k \in 1 .. i + 1 PROVE mv[k] = lv[k]
    <3>1. k \in 1 .. n - 1 /\ k <= p
      BY <1>2
    <3> QED BY <1>6, <3>1
  <2>2. ASSUME NEW k \in 1 .. i + 1 PROVE v[k] = w[k]
    <3>1. k \in 1 .. n - 1 /\ k < p
      BY <1>2
    <3> QED BY <1>3, <3>1
  <2>3. i \in 1 .. i + 1 /\ i + 1 \in 1 .. i + 1 /\ \A k \in 1 .. i - 1 : k \in 1 .. i + 1
    BY <1>2
  <2> QED BY <2>1, <2>2, <2>3
<1>9. i \in 1 .. (n - 1) - 1
  BY <1>2
<1>10. Settled(m, v, mv, i)
  BY <1>3, <1>6, <1>7, <1>8, <1>9 DEF Settled
<1> QED BY <1>1, <1>10

(* Folding the settled pair leaves the lowest pair behind it the lowest:    *)
(* what the new token takes part in is decided after the settled merge.    *)
LEMMA StaysLowest ==
  ASSUME NEW m, IsTable(m), Monotonic(m), NEW w \in Seq(Token), NEW lv, NEW i,
         Settled(m, w, lv, i),
         NEW p, IsLowest(m, w, p), p \in i + 2 .. Len(w) - 1, RankAt(m, w, p) < lv[i]
  PROVE  IsLowest(m, FoldAt(m, w, i), p - 1)
<1>1. PICK n, v, q, r, t :
         /\ n = Len(w) /\ v = FoldAt(m, w, i) /\ q = RankAt(m, w, p) /\ r = lv[i]
         /\ t = m[lv[i]][3]
  OBVIOUS
<1>2. /\ n \in Nat /\ i \in Nat /\ p \in Nat /\ 1 <= i /\ i + 2 <= p /\ p <= n - 1
      /\ DOMAIN m \subseteq Nat /\ r \in DOMAIN m /\ Mergeable(m, w, p) /\ q \in Nat
      /\ Mergeable(m, w, i) /\ t = Target(m, w[i], w[i + 1]) /\ q < r
  <2>1. /\ i \in 1 .. n - 1 /\ n \in Nat /\ lv \in [1 .. n -> Nat] /\ r \in DOMAIN m
        /\ Mergeable(m, w, p)
    BY <1>1, LenProperties DEF Settled, IsLowest
  <2>2. DOMAIN m \subseteq Nat
    BY RankMeans
  <2>3. Mergeable(m, w, i) /\ t = Target(m, w[i], w[i + 1])
    BY <1>1, SettledRank, SMTT(20)
  <2>4. q \in DOMAIN m
    BY <1>1, <2>1, CalmRank DEF Settled
  <2> QED BY <1>1, <2>1, <2>2, <2>3, <2>4
<1>3. /\ v \in Seq(Token) /\ Len(v) = n - 1
      /\ \A k \in 1 .. n - 1 : v[k] = IF k < i THEN w[k] ELSE IF k = i THEN t ELSE w[k + 1]
  <2>1. IsFolded(m, w, i, v)
    BY <1>1, <1>2, Folded
  <2> QED BY <1>1, <1>2, <2>1 DEF IsFolded
<1>4. RankAt(m, v, p - 1) = q /\ Mergeable(m, v, p - 1)
  <2>1. /\ p - 1 \in 1 .. n - 1 /\ p - 1 \in 1 .. (n - 1) - 1 /\ p \in 1 .. n - 1
        /\ (p - 1) + 1 = p
        /\ i < p - 1 /\ i < p
    BY <1>2
  <2>2. v[p - 1] = w[p] /\ v[p] = w[p + 1]
    BY <1>2, <1>3, <2>1
  <2> QED BY <1>1, <1>2, <1>3, <2>1, <2>2 DEF RankAt, Mergeable
<1>5. ASSUME NEW k \in 1 .. n - 2, RankAt(m, v, k) # NoRank
      PROVE  Precedes(<<q, p - 1>>, <<RankAt(m, v, k), k>>)
  <2>1. /\ RankAt(m, v, k) \in DOMAIN m
        /\ m[RankAt(m, v, k)][1] = v[k] /\ m[RankAt(m, v, k)][2] = v[k + 1]
    BY <1>5, RankMeans DEF RankAt
  <2>2. k \in 1 .. n - 1 /\ k + 1 \in 1 .. n - 1 /\ RankAt(m, v, k) \in Nat
    BY <1>2, <2>1, SMTT(30)
  <2>3. ASSUME NEW j \in 1 .. n - 1, RankAt(m, w, j) = RankAt(m, v, k)
        PROVE  q < RankAt(m, v, k) \/ (q = RankAt(m, v, k) /\ p <= j)
    <3>1. <<RankAt(m, w, j), j>> \in Candidates(m, w)
      BY <1>1, <1>5, <2>3 DEF Candidates
    <3>2. Precedes(<<q, p>>, <<RankAt(m, w, j), j>>)
      BY <1>1, <3>1 DEF IsLowest
    <3> QED BY <2>3, <3>2 DEF Precedes
  <2>4. CASE k + 1 < i
    <3>1. v[k] = w[k] /\ v[k + 1] = w[k + 1]
      BY <1>2, <1>3, <2>2, <2>4
    <3>2. RankAt(m, v, k) = RankAt(m, w, k)
      BY <3>1 DEF RankAt
    <3> QED BY <1>2, <2>2, <2>3, <2>4, <3>2 DEF Precedes
  <2>5. CASE k + 1 = i \/ k = i
    <3>1. v[k] = t \/ v[k + 1] = t
      BY <1>2, <1>3, <2>2, <2>5
    <3>2. r < RankAt(m, v, k)
      BY <1>1, <1>2, <2>1, <3>1 DEF Monotonic
    <3> QED BY <1>2, <2>2, <3>2 DEF Precedes
  <2>6. CASE k > i
    <3>1. v[k] = w[k + 1] /\ v[k + 1] = w[(k + 1) + 1]
      BY <1>2, <1>3, <2>2, <2>6
    <3>2. RankAt(m, v, k) = RankAt(m, w, k + 1)
      BY <3>1 DEF RankAt
    <3>3. k + 1 \in 1 .. n - 1
      BY <2>2
    <3>4. q < RankAt(m, v, k) \/ (q = RankAt(m, v, k) /\ p <= k + 1)
      BY <2>3, <3>2, <3>3
    <3>5. p <= k + 1 => p - 1 <= k
      BY <1>2
    <3> QED BY <3>4, <3>5 DEF Precedes
  <2> QED BY <1>2, <2>4, <2>5, <2>6
<1>6. IsLowest(m, v, p - 1)
  <2>1. Len(v) - 1 = n - 2
    BY <1>2, <1>3
  <2> QED BY <1>4, <1>5, <2>1 DEF IsLowest, Candidates
<1> QED BY <1>1, <1>6

(***************************************************************************)
(* On a table whose merges are listed before they are consumed, a settled   *)
(* pair may be folded at once: canonical BPE reaches the same word, however *)
(* many pairs behind it have a lower rank.                                  *)
(***************************************************************************)
LEMMA SafeFold ==
  ASSUME NEW m, IsTable(m), Monotonic(m), NEW w \in Seq(Token), NEW lv, NEW i,
         Settled(m, w, lv, i)
  PROVE  Canonical(m, w) = Canonical(m, FoldAt(m, w, i))
<1> DEFINE S == {n \in Nat : \A v \in Seq(Token) : \A mv : Len(v) = n /\ Settled(m, v, mv, i) =>
                    Canonical(m, v) = Canonical(m, FoldAt(m, v, i))}
<1>1. ASSUME NEW n \in Nat, 0 .. n - 1 \subseteq S PROVE n \in S
  <2>1. SUFFICES ASSUME NEW v \in Seq(Token), NEW mv, Len(v) = n, Settled(m, v, mv, i)
                 PROVE  Canonical(m, v) = Canonical(m, FoldAt(m, v, i))
    OBVIOUS
  <2>2. Mergeable(m, v, i)
    BY <2>1, SettledRank
  <2>3. PICK p : IsLowest(m, v, p)
    <3>1. ~NormalForm(m, v)
      BY <2>2 DEF Mergeable, NormalForm
    <3> QED BY <3>1, LowestExists
  <2>4. CASE p = i
    BY <2>3, <2>4, CanonicalUnfolds
  <2>5. CASE p # i
    <3>1. p \in i + 2 .. Len(v) - 1 /\ RankAt(m, v, p) < mv[i] /\ Mergeable(m, v, p)
      BY <2>1, <2>3, <2>5, LowestWhenSettled DEF IsLowest
    <3>2. PICK a, b, lw : /\ a = FoldAt(m, v, p) /\ b = FoldAt(m, v, i)
                          /\ lw = [k \in 1 .. Len(v) - 1 |-> IF k <= p THEN mv[k] ELSE mv[k + 1]]
      OBVIOUS
    <3>3. Settled(m, a, lw, i)
      BY <2>1, <3>1, <3>2, StaysSettled
    <3>4. IsFolded(m, v, p, a) /\ IsFolded(m, v, i, b)
      BY <2>2, <3>1, <3>2, Folded
    <3>5. a \in Seq(Token) /\ b \in Seq(Token) /\ Len(a) = n - 1 /\ n - 1 \in 0 .. n - 1
      BY <2>1, <3>1, <3>4 DEF IsFolded, Settled
    <3>6. Canonical(m, a) = Canonical(m, FoldAt(m, a, i))
      <4>1. n - 1 \in S
        BY <1>1, <3>5
      <4> QED BY <3>3, <3>5, <4>1
    <3>7. IsLowest(m, b, p - 1)
      BY <2>1, <2>3, <3>1, <3>2, StaysLowest
    <3>8. FoldAt(m, a, i) = FoldAt(m, b, p - 1)
      BY <2>2, <3>1, <3>2, FoldsCommute DEF Mergeable
    <3>9. Canonical(m, v) = Canonical(m, a)
      BY <2>3, <3>2, CanonicalUnfolds
    <3>10. Canonical(m, b) = Canonical(m, FoldAt(m, b, p - 1))
      BY <3>5, <3>7, CanonicalUnfolds
    <3> QED BY <3>2, <3>6, <3>8, <3>9, <3>10
  <2> QED BY <2>4, <2>5
<1> HIDE DEF S
<1>2. Nat \subseteq S
  BY <1>1, Induction
<1>3. Len(w) \in S
  BY <1>2, LenProperties
<1> QED BY <1>3 DEF S

(* A level may be raised over merges that do not apply to its token.       *)
Raised(m, w, lv, mv, i) ==
    /\ lv \in [1 .. Len(w) -> Nat] /\ mv \in [1 .. Len(w) -> Nat]
    /\ \A k \in 1 .. Len(w) : k # i => mv[k] = lv[k]
    /\ i \in 1 .. Len(w) => lv[i] <= mv[i]
    /\ i \in 1 .. Len(w) - 1 => \A s \in DOMAIN m :
          lv[i] <= s /\ s < mv[i] /\ m[s][1] = w[i] => s <= lv[i + 1] /\ m[s][2] # w[i + 1]

LEMMA CalmRaised ==
  ASSUME NEW m, IsTable(m), NEW w \in Seq(Token), NEW lv, NEW mv, NEW i,
         Calm(m, w, lv), Raised(m, w, lv, mv, i)
  PROVE  Calm(m, w, mv)
<1> USE DEF Raised
<1>1. Len(w) \in Nat /\ DOMAIN m \subseteq Nat
  BY LenProperties, RankMeans
<1>2. SUFFICES ASSUME NEW p \in 1 .. Len(w) - 1, NEW s \in DOMAIN m,
                      s < mv[p], m[s][1] = w[p]
               PROVE  s <= mv[p + 1] /\ m[s][2] # w[p + 1]
  BY DEF Calm
<1>3. /\ p \in 1 .. Len(w) /\ p + 1 \in 1 .. Len(w) /\ s \in Nat
      /\ lv[p] \in Nat /\ lv[p + 1] \in Nat /\ mv[p] \in Nat /\ mv[p + 1] \in Nat
  BY <1>1
<1>4. lv[p + 1] <= mv[p + 1]
  BY <1>3
<1>5. s <= lv[p + 1] /\ m[s][2] # w[p + 1]
  <2>1. CASE s < lv[p]
    BY <1>2, <2>1 DEF Calm
  <2>2. CASE ~(s < lv[p])
    <3>1. p = i
      BY <1>2, <1>3, <2>2
    <3>2. lv[p] <= s
      BY <1>3, <2>2
    <3> QED BY <1>2, <3>1, <3>2
  <2> QED BY <2>1, <2>2
<1> QED BY <1>3, <1>4, <1>5

(* After a settled fold the new token may be given any level beyond the     *)
(* merge that made it and up to the next it is the left operand of.        *)
LEMMA CalmFolded ==
  ASSUME NEW m, IsTable(m), Monotonic(m), NEW w \in Seq(Token), NEW lv, NEW i,
         Settled(m, w, lv, i), NEW v, IsFolded(m, w, i, v), NEW mv,
         mv \in [1 .. Len(w) - 1 -> Nat],
         \A k \in 1 .. Len(w) - 1 : k < i => mv[k] = lv[k],
         \A k \in 1 .. Len(w) - 1 : k > i => mv[k] = lv[k + 1],
         lv[i] < mv[i],
         \A s \in DOMAIN m : lv[i] < s /\ s < mv[i] => m[s][1] # m[lv[i]][3]
  PROVE  Calm(m, v, mv)
<1>1. PICK n, r, t : n = Len(w) /\ r = lv[i] /\ t = m[r][3]
  OBVIOUS
<1>2. /\ n \in Nat /\ DOMAIN m \subseteq Nat /\ r \in DOMAIN m /\ r \in Nat
      /\ i \in 1 .. n - 1 /\ lv \in [1 .. n -> Nat]
      /\ t = Target(m, w[i], w[i + 1])
  <2>1. Target(m, w[i], w[i + 1]) = m[lv[i]][3] /\ DOMAIN m \subseteq Nat
    BY SettledRank
  <2>2. i \in 1 .. n - 1 /\ n \in Nat /\ lv \in [1 .. n -> Nat] /\ r \in DOMAIN m
    BY <1>1, LenProperties DEF Settled
  <2> QED BY <1>1, <2>1, <2>2
<1>3. /\ Len(v) = n - 1
      /\ \A k \in 1 .. n - 1 : v[k] = IF k < i THEN w[k] ELSE IF k = i THEN t ELSE w[k + 1]
  BY <1>1, <1>2 DEF IsFolded
<1>4. \A s \in DOMAIN m : m[s][1] = t \/ m[s][2] = t => r < s
  BY <1>1, <1>2 DEF Monotonic
<1>5. SUFFICES ASSUME NEW k \in 1 .. n - 2, NEW s \in DOMAIN m, s < mv[k], m[s][1] = v[k]
               PROVE  s <= mv[k + 1] /\ m[s][2] # v[k + 1]
  <2>1. Len(v) - 1 = n - 2
    BY <1>2, <1>3
  <2> QED BY <2>1 DEF Calm
<1>6. /\ k \in 1 .. n - 1 /\ k + 1 \in 1 .. n - 1 /\ (k + 1) + 1 = k + 2
      /\ k \in 1 .. n /\ k + 1 \in 1 .. n /\ k + 2 \in 1 .. n /\ s \in Nat
  BY <1>2
<1>7. /\ mv[k] \in Nat /\ mv[k + 1] \in Nat
      /\ lv[k] \in Nat /\ lv[k + 1] \in Nat /\ lv[k + 2] \in Nat
  BY <1>1, <1>2, <1>6
<1>8. \A j \in 1 .. n - 1 : s < lv[j] /\ m[s][1] = w[j] =>
         s <= lv[j + 1] /\ m[s][2] # w[j + 1]
  BY <1>1 DEF Settled, Calm
<1>9. CASE k + 1 < i
  <2>1. /\ v[k] = w[k] /\ v[k + 1] = w[k + 1] /\ mv[k] = lv[k] /\ mv[k + 1] = lv[k + 1]
    BY <1>1, <1>2, <1>3, <1>6, <1>9
  <2> QED BY <1>5, <1>6, <1>8, <2>1
<1>10. CASE k + 1 = i
  <2>1. v[k] = w[k] /\ v[k + 1] = t /\ mv[k] = lv[k] /\ r < mv[k + 1]
    BY <1>1, <1>2, <1>3, <1>6, <1>10, SMTT(30)
  <2>2. s <= r
    BY <1>1, <1>5, <1>6, <1>8, <1>10, <2>1
  <2>3. m[s][2] # t
    BY <1>2, <1>4, <1>6, <2>2
  <2>4. s <= mv[k + 1]
    <3>1. \A a, b, c \in Nat : a <= b /\ b < c => a <= c
      OBVIOUS
    <3> QED BY ONLY <1>2, <1>6, <1>7, <2>1, <2>2, <3>1
  <2> QED BY <2>1, <2>3, <2>4
<1>11. CASE k = i
  <2>1. v[k] = t
    BY <1>2, <1>3, <1>6, <1>11
  <2>2. r < s
    BY <1>4, <1>5, <2>1
  <2> QED BY <1>1, <1>5, <1>11, <2>1, <2>2
<1>12. CASE k > i
  <2>1. /\ v[k] = w[k + 1] /\ v[k + 1] = w[k + 2]
        /\ mv[k] = lv[k + 1] /\ mv[k + 1] = lv[k + 2]
    BY <1>1, <1>2, <1>3, <1>6, <1>12
  <2> QED BY <1>5, <1>6, <1>8, <2>1
<1> QED BY <1>2, <1>9, <1>10, <1>11, <1>12

(***************************************************************************)
(* On such a table a merge makes no pair that is as urgent as itself, so    *)
(* what is left behind a lowest pair that was folded is no lower, and what  *)
(* is left up to it is higher.                                             *)
(***************************************************************************)
LEMMA RanksRise ==
  ASSUME NEW m, IsTable(m), Monotonic(m), NEW w \in Seq(Token), NEW i, IsLowest(m, w, i),
         NEW v, IsFolded(m, w, i, v)
  PROVE  \A k \in 1 .. Len(v) - 1 :
            /\ RankAt(m, w, i) <= RankAt(m, v, k)
            /\ k <= i => RankAt(m, w, i) < RankAt(m, v, k)
<1>1. PICK n, r, t : n = Len(w) /\ r = RankAt(m, w, i) /\ t = Target(m, w[i], w[i + 1])
  OBVIOUS
<1>2. /\ n \in Nat /\ i \in 1 .. n - 1 /\ i \in Nat /\ 1 <= i /\ i <= n - 1
      /\ r # NoRank /\ Mergeable(m, w, i)
  BY <1>1, LenProperties DEF IsLowest, Mergeable
<1>3. /\ DOMAIN m \subseteq Nat /\ NoRank \in Nat /\ r \in DOMAIN m /\ t = m[r][3]
      /\ r \in Nat /\ \A s \in DOMAIN m : s < NoRank
  <2>1. DOMAIN m = 1 .. Len(m) /\ Len(m) \in Nat /\ NoRank \in Nat /\ Len(m) < NoRank
    BY LenProperties DEF IsTable
  <2>2. r \in DOMAIN m
    BY <1>1, <1>2, RankMeans DEF RankAt
  <2>3. t = m[r][3]
    BY <1>1 DEF Target, RankAt
  <2> QED BY <2>1, <2>2, <2>3
<1>4. \A a, b : Rank(m, a, b) \in Nat
  BY <1>3, RankOfPair
<1>5. ASSUME NEW k \in 1 .. n - 1
      PROVE  r <= RankAt(m, w, k) /\ (k < i => r < RankAt(m, w, k))
  <2>1. RankAt(m, w, k) \in Nat
    BY <1>4 DEF RankAt
  <2>2. CASE RankAt(m, w, k) = NoRank
    BY <1>3, <2>2
  <2>3. CASE RankAt(m, w, k) # NoRank
    <3>1. <<RankAt(m, w, k), k>> \in Candidates(m, w)
      BY <1>1, <2>3 DEF Candidates
    <3>2. Precedes(<<r, i>>, <<RankAt(m, w, k), k>>)
      BY <1>1, <3>1 DEF IsLowest
    <3>3. r < RankAt(m, w, k) \/ (r = RankAt(m, w, k) /\ i <= k)
      BY <3>2 DEF Precedes
    <3> QED BY <1>2, <1>3, <2>1, <3>3
  <2> QED BY <2>2, <2>3
<1>6. ASSUME NEW a, NEW b, a = t \/ b = t PROVE r < Rank(m, a, b)
  <2>1. CASE Rank(m, a, b) = NoRank
    BY <1>3, <2>1
  <2>2. CASE Rank(m, a, b) # NoRank
    <3>1. /\ Rank(m, a, b) \in DOMAIN m
          /\ m[Rank(m, a, b)][1] = a /\ m[Rank(m, a, b)][2] = b
      BY <2>2, RankMeans
    <3> QED BY <1>3, <1>6, <3>1 DEF Monotonic
  <2> QED BY <2>1, <2>2
<1>7. /\ Len(v) = n - 1
      /\ \A k \in 1 .. n - 1 : v[k] = IF k < i THEN w[k] ELSE IF k = i THEN t ELSE w[k + 1]
  BY <1>1 DEF IsFolded
<1>8. ASSUME NEW k \in 1 .. n - 2
      PROVE  r <= RankAt(m, v, k) /\ (k <= i => r < RankAt(m, v, k))
  <2>1. /\ k \in Nat /\ k \in 1 .. n - 1 /\ k + 1 \in 1 .. n - 1 /\ (k + 1) + 1 = k + 2
    BY <1>2
  <2>2. RankAt(m, v, k) = Rank(m, v[k], v[k + 1]) /\ RankAt(m, v, k) \in Nat
    BY <1>4 DEF RankAt
  <2>3. CASE k + 1 < i
    <3>1. v[k] = w[k] /\ v[k + 1] = w[k + 1] /\ k < i
      BY <1>2, <1>7, <2>1, <2>3
    <3>2. RankAt(m, v, k) = RankAt(m, w, k)
      BY <3>1 DEF RankAt
    <3> QED BY <1>3, <1>5, <2>1, <3>1, <3>2
  <2>4. CASE k + 1 = i
    <3>1. v[k + 1] = t
      BY <1>2, <1>7, <2>1, <2>4
    <3> QED BY <1>3, <1>6, <2>2, <3>1
  <2>5. CASE k = i
    <3>1. v[k] = t
      BY <1>2, <1>7, <2>1, <2>5
    <3> QED BY <1>3, <1>6, <2>2, <3>1
  <2>6. CASE k > i
    <3>1. v[k] = w[k + 1] /\ v[k + 1] = w[(k + 1) + 1]
      <4>1. \A j \in 1 .. n - 1 : j > i => v[j] = w[j + 1]
        BY <1>2, <1>7
      <4>2. k + 1 > i
        BY <1>2, <2>1, <2>6
      <4> QED BY <2>1, <2>6, <4>1, <4>2
    <3>2. RankAt(m, v, k) = RankAt(m, w, k + 1)
      BY <3>1 DEF RankAt
    <3> QED BY <1>2, <1>5, <2>1, <2>6, <3>2
  <2> QED BY <1>2, <2>1, <2>3, <2>4, <2>5, <2>6
<1>9. Len(v) - 1 = n - 2
  BY <1>2, <1>7
<1> QED BY <1>1, <1>8, <1>9

(***************************************************************************)
(* A walk over the naturals, each position determined by the one before.   *)
(***************************************************************************)
Follows(f, n, g, a) ==
    /\ f \in [1 .. n -> Nat]
    /\ \A k \in 1 .. n : f[k] = IF k = 1 THEN a ELSE g[f[k - 1]]

LEMMA WalkExists ==
  ASSUME NEW n \in Nat, NEW g \in [Nat -> Nat], NEW a \in Nat
  PROVE  \E f : Follows(f, n, g, a)
<1> DEFINE Walks(j, f) == \A k \in 1 .. j : f[k] = IF k = 1 THEN a ELSE g[f[k - 1]]
           S == {j \in Nat : \E f \in [1 .. j -> Nat] : Walks(j, f)}
<1>1. ASSUME NEW j \in Nat, 0 .. j - 1 \subseteq S PROVE j \in S
  <2>1. CASE j = 0
    <3>1. [k \in 1 .. 0 |-> a] \in [1 .. 0 -> Nat] /\ Walks(0, [k \in 1 .. 0 |-> a])
      OBVIOUS
    <3> QED BY <2>1, <3>1
  <2>2. CASE j # 0
    <3>1. j - 1 \in S
      <4>1. j - 1 \in 0 .. j - 1
        BY <2>2
      <4> HIDE DEF S
      <4> QED BY <1>1, <4>1
    <3>2. PICK f \in [1 .. j - 1 -> Nat] : Walks(j - 1, f)
      BY <3>1
    <3>3. PICK e : e = IF j = 1 THEN a ELSE g[f[j - 1]]
      OBVIOUS
    <3>4. e \in Nat
      <4>1. CASE j = 1
        BY <3>3, <4>1
      <4>2. CASE j # 1
        <5>1. j - 1 \in 1 .. j - 1
          BY <2>2, <4>2
        <5> QED BY <3>3, <4>2, <5>1
      <4> QED BY <4>1, <4>2
    <3>5. PICK h : h = [k \in 1 .. j |-> IF k = j THEN e ELSE f[k]]
      OBVIOUS
    <3>6. \A k \in 1 .. j : k # j => k \in 1 .. j - 1 /\ h[k] = f[k]
      BY <3>5
    <3>7. h \in [1 .. j -> Nat]
      BY <3>4, <3>5, <3>6
    <3>8. ASSUME NEW k \in 1 .. j PROVE h[k] = IF k = 1 THEN a ELSE g[h[k - 1]]
      <4>1. CASE k = 1
        <5>1. k # j => f[k] = a
          BY <3>2, <3>6, <4>1
        <5> QED BY <3>3, <3>5, <3>6, <4>1, <5>1
      <4>2. CASE k # 1
        <5>1. k - 1 \in 1 .. j /\ k - 1 # j
          BY <4>2
        <5>2. h[k - 1] = f[k - 1]
          BY <3>6, <5>1
        <5>3. CASE k = j
          BY <3>3, <3>5, <4>2, <5>2, <5>3
        <5>4. CASE k # j
          BY <3>2, <3>6, <4>2, <5>2, <5>4
        <5> QED BY <5>3, <5>4
      <4> QED BY <4>1, <4>2
    <3> QED BY <3>7, <3>8
  <2> QED BY <2>1, <2>2
<1> HIDE DEF S
<1>2. n \in S
  BY <1>1, Induction
<1>3. PICK f \in [1 .. n -> Nat] : Walks(n, f)
  BY <1>2 DEF S
<1> QED BY <1>3 DEF Follows

-----------------------------------------------------------------------------
(* Sequences: what a prefix is, and what flattening a list makes of it.     *)
LEMMA Beginnings ==
  ASSUME NEW S, NEW s \in Seq(S), NEW k \in 0 .. Len(s)
  PROVE  /\ SubSeq(s, 1, k) \in Seq(S) /\ Len(SubSeq(s, 1, k)) = k
         /\ \A i \in 1 .. k : SubSeq(s, 1, k)[i] = s[i]
         /\ k = Len(s) => SubSeq(s, 1, k) = s
<1>1. Len(s) \in Nat /\ k \in Nat /\ \A i \in 1 .. Len(s) : s[i] \in S
  BY LenProperties, ElementOfSeq
<1>2. PICK f : f = SubSeq(s, 1, k)
  OBVIOUS
<1>3. 1 \in Int /\ k \in Int /\ \A i \in 1 .. k : s[i] \in S
  BY <1>1
<1>4. /\ f \in Seq(S) /\ Len(f) = IF 1 <= k THEN k - 1 + 1 ELSE 0
      /\ \A i \in 1 .. k - 1 + 1 : f[i] = s[1 + i - 1]
  BY <1>2, <1>3, SubSeqProperties
<1>5. Len(f) = k
  BY <1>1, <1>4
<1>6. ASSUME NEW i \in 1 .. k PROVE f[i] = s[i]
  <2>1. i \in 1 .. k - 1 + 1 /\ 1 + i - 1 = i
    BY <1>1
  <2> QED BY <1>4, <2>1
<1>7. k = Len(s) => f = s
  BY <1>4, <1>5, <1>6, SeqEqual
<1> QED BY <1>2, <1>4, <1>5, <1>6, <1>7

LEMMA SplitsAt ==
  ASSUME NEW S, NEW s \in Seq(S), NEW k \in 0 .. Len(s)
  PROVE  s = SubSeq(s, 1, k) \o SubSeq(s, k + 1, Len(s))
<1>1. Len(s) \in Nat /\ k \in Nat /\ k <= Len(s) /\ \A i \in 1 .. Len(s) : s[i] \in S
  BY LenProperties, ElementOfSeq
<1>2. PICK f, g, n : f = SubSeq(s, 1, k) /\ g = SubSeq(s, k + 1, n) /\ n = Len(s)
  OBVIOUS
<1>3. f \in Seq(S) /\ Len(f) = k /\ \A i \in 1 .. k : f[i] = s[i]
  BY <1>2, Beginnings
<1>4. /\ g \in Seq(S) /\ Len(g) = IF k + 1 <= n THEN n - (k + 1) + 1 ELSE 0
      /\ \A i \in 1 .. n - (k + 1) + 1 : g[i] = s[k + 1 + i - 1]
  <2>1. k + 1 \in Int /\ n \in Int /\ \A i \in k + 1 .. n : s[i] \in S
    BY <1>1, <1>2
  <2>2. PICK j : j = k + 1
    OBVIOUS
  <2>3. j \in Int /\ n \in Int /\ g = SubSeq(s, j, n) /\ \A i \in j .. n : s[i] \in S
    BY <1>2, <2>1, <2>2
  <2>4. /\ g \in Seq(S) /\ Len(g) = IF j <= n THEN n - j + 1 ELSE 0
        /\ \A i \in 1 .. n - j + 1 : g[i] = s[j + i - 1]
    BY ONLY <2>3, SubSeqProperties
  <2> QED BY <2>2, <2>4
<1>5. Len(g) = n - k /\ n \in Nat
  BY <1>1, <1>2, <1>4
<1>6. PICK h : h = f \o g
  OBVIOUS
<1>7. /\ h \in Seq(S) /\ Len(h) = n
      /\ \A i \in 1 .. n : h[i] = IF i <= k THEN f[i] ELSE g[i - k]
  <2>1. /\ h \in Seq(S) /\ Len(h) = Len(f) + Len(g)
        /\ \A i \in 1 .. Len(f) + Len(g) : h[i] = IF i <= Len(f) THEN f[i] ELSE g[i - Len(f)]
    BY <1>3, <1>4, <1>6, ConcatProperties
  <2>2. Len(f) + Len(g) = n
    BY <1>1, <1>3, <1>5
  <2> QED BY <1>3, <2>1, <2>2
<1>8. ASSUME NEW i \in 1 .. n PROVE h[i] = s[i]
  <2>1. CASE i <= k
    BY <1>1, <1>3, <1>7, <2>1
  <2>2. CASE ~(i <= k)
    <3>1. i - k \in 1 .. n - (k + 1) + 1 /\ k + 1 + (i - k) - 1 = i
      BY <1>1, <1>5, <2>2
    <3>2. g[i - k] = s[i]
      BY <1>4, <3>1
    <3> QED BY <1>7, <2>2, <3>2
  <2> QED BY <2>1, <2>2
<1>9. h = s
  BY <1>2, <1>7, <1>8, SeqEqual
<1> QED BY <1>2, <1>6, <1>9

(* The library's FlattenSeq, by its recursion.                             *)
Flattens(S, s, f) ==
    /\ f \in [1 .. Len(s) -> Seq(S)]
    /\ \A i \in 1 .. Len(s) : f[i] = IF i = 1 THEN s[i] ELSE f[i - 1] \o s[i]

LEMMA FlattensExists ==
  ASSUME NEW S, NEW s \in Seq(Seq(S))
  PROVE  \E f : Flattens(S, s, f)
<1>1. Len(s) \in Nat /\ \A i \in 1 .. Len(s) : s[i] \in Seq(S)
  BY LenProperties, ElementOfSeq
<1> DEFINE Upto(n, f) == \A i \in 1 .. n : f[i] = IF i = 1 THEN s[i] ELSE f[i - 1] \o s[i]
           T == {n \in Nat : n <= Len(s) => \E f \in [1 .. n -> Seq(S)] : Upto(n, f)}
<1>2. ASSUME NEW n \in Nat, 0 .. n - 1 \subseteq T PROVE n \in T
  <2>1. SUFFICES ASSUME n <= Len(s) PROVE \E f \in [1 .. n -> Seq(S)] : Upto(n, f)
    OBVIOUS
  <2>2. CASE n = 0
    <3>1. [i \in 1 .. 0 |-> <<>>] \in [1 .. 0 -> Seq(S)] /\ Upto(0, [i \in 1 .. 0 |-> <<>>])
      OBVIOUS
    <3> QED BY <2>2, <3>1
  <2>3. CASE n # 0
    <3>1. n - 1 \in T
      <4>1. n - 1 \in 0 .. n - 1
        BY <2>3
      <4> HIDE DEF T
      <4> QED BY <1>2, <4>1
    <3>2. PICK f \in [1 .. n - 1 -> Seq(S)] : Upto(n - 1, f)
      <4>1. n - 1 <= Len(s)
        BY <1>1, <2>1
      <4> QED BY <3>1, <4>1
    <3>3. PICK e : e = IF n = 1 THEN s[n] ELSE f[n - 1] \o s[n]
      OBVIOUS
    <3>4. e \in Seq(S)
      <4>1. s[n] \in Seq(S)
        BY <1>1, <2>1, <2>3
      <4>2. CASE n = 1
        BY <3>3, <4>1, <4>2
      <4>3. CASE n # 1
        <5>1. n - 1 \in 1 .. n - 1
          BY <2>3, <4>3
        <5>2. f[n - 1] \in Seq(S)
          BY <5>1
        <5> QED BY <3>3, <4>1, <4>3, <5>2, ConcatProperties
      <4> QED BY <4>2, <4>3
    <3>5. PICK h : h = [i \in 1 .. n |-> IF i = n THEN e ELSE f[i]]
      OBVIOUS
    <3>6. h[n] = e /\ \A i \in 1 .. n - 1 : h[i] = f[i]
      BY <2>3, <3>5
    <3>7. h \in [1 .. n -> Seq(S)]
      <4>1. \A i \in 1 .. n : i # n => i \in 1 .. n - 1
        OBVIOUS
      <4> QED BY <3>4, <3>5, <4>1
    <3>8. ASSUME NEW i \in 1 .. n PROVE h[i] = IF i = 1 THEN s[i] ELSE h[i - 1] \o s[i]
      <4>1. CASE i = n
        <5>1. i # 1 => i - 1 \in 1 .. n - 1
          BY <2>3, <4>1
        <5> QED BY <3>3, <3>6, <4>1, <5>1
      <4>2. CASE i # n
        <5>1. i \in 1 .. n - 1 /\ (i # 1 => i - 1 \in 1 .. n - 1)
          BY <4>2
        <5> QED BY <3>2, <3>6, <5>1
      <4> QED BY <4>1, <4>2
    <3> QED BY <3>7, <3>8
  <2> QED BY <2>2, <2>3
<1> HIDE DEF T
<1>3. Len(s) \in T
  BY <1>1, <1>2, Induction
<1>4. PICK f \in [1 .. Len(s) -> Seq(S)] : Upto(Len(s), f)
  BY <1>1, <1>3 DEF T
<1> QED BY <1>4 DEF Flattens

LEMMA FlattenIs ==
  ASSUME NEW S, NEW s \in Seq(Seq(S)), Len(s) # 0
  PROVE  \E f : Flattens(S, s, f) /\ FlattenSeq(s) = f[Len(s)]
<1> DEFINE body(g) == [i \in 1 .. Len(s) |-> IF i = 1 THEN s[i] ELSE g[i - 1] \o s[i]]
           f == CHOOSE g : g = body(g)
<1>1. PICK h : Flattens(S, s, h)
  BY FlattensExists
<1>2. h = body(h)
  BY <1>1 DEF Flattens
<1>3. f = body(f)
  BY <1>2
<1>4. FlattenSeq(s) = f[Len(s)]
  BY DEF FlattenSeq
<1> HIDE DEF f
<1>5. Flattens(S, s, f)
  <2>1. Len(s) \in Nat /\ (\A i \in 1 .. Len(s) : s[i] \in Seq(S)) /\ DOMAIN f = 1 .. Len(s)
    BY <1>3, LenProperties, ElementOfSeq
  <2>2. \A i \in 1 .. Len(s) : f[i] = IF i = 1 THEN s[i] ELSE f[i - 1] \o s[i]
    BY <1>3
  <2> DEFINE T == {n \in Nat : n \in 1 .. Len(s) => f[n] = h[n]}
  <2>3. ASSUME NEW n \in Nat, 0 .. n - 1 \subseteq T PROVE n \in T
    <3>1. SUFFICES ASSUME n \in 1 .. Len(s) PROVE f[n] = h[n]
      OBVIOUS
    <3>2. CASE n = 1
      BY <1>1, <2>2, <3>1, <3>2 DEF Flattens
    <3>3. CASE n # 1
      <4>1. n - 1 \in 0 .. n - 1 /\ n - 1 \in 1 .. Len(s)
        BY <2>1, <3>1, <3>3
      <4>2. f[n - 1] = h[n - 1]
        BY <2>3, <4>1
      <4> QED BY <1>1, <2>2, <3>1, <3>3, <4>2 DEF Flattens
    <3> QED BY <3>2, <3>3
  <2> HIDE DEF T
  <2>4. \A n \in Nat : n \in T
    BY <2>3, Induction
  <2>5. \A n \in 1 .. Len(s) : f[n] = h[n]
    BY <2>1, <2>4 DEF T
  <2>6. f \in [1 .. Len(s) -> Seq(S)]
    <3>1. f = [n \in 1 .. Len(s) |-> f[n]]
      BY <1>3, <2>1
    <3>2. \A n \in 1 .. Len(s) : f[n] \in Seq(S)
      BY <1>1, <2>5 DEF Flattens
    <3> QED BY <3>1, <3>2
  <2> QED BY <2>2, <2>6 DEF Flattens
<1> QED BY <1>4, <1>5

LEMMA Flattened ==
  ASSUME NEW S, NEW s \in Seq(Seq(S))
  PROVE  /\ FlattenSeq(s) \in Seq(S)
         /\ \A x \in Seq(S) : FlattenSeq(Append(s, x)) = FlattenSeq(s) \o x
<1>1. Len(s) \in Nat /\ \A i \in 1 .. Len(s) : s[i] \in Seq(S)
  BY LenProperties, ElementOfSeq
<1>2. ASSUME Len(s) = 0 PROVE FlattenSeq(s) = <<>>
  <2>1. s = <<>>
    BY <1>2, EmptySeq
  <2> QED BY <1>2, <2>1 DEF FlattenSeq
<1>3. ASSUME Len(s) # 0 PROVE FlattenSeq(s) \in Seq(S)
  <2>1. PICK f : Flattens(S, s, f) /\ FlattenSeq(s) = f[Len(s)]
    BY <1>3, FlattenIs
  <2>2. Len(s) \in 1 .. Len(s)
    BY <1>1, <1>3
  <2> QED BY <2>1, <2>2 DEF Flattens
<1>4. FlattenSeq(s) \in Seq(S)
  BY <1>2, <1>3
<1>5. ASSUME NEW x \in Seq(S) PROVE FlattenSeq(Append(s, x)) = FlattenSeq(s) \o x
  <2>1. PICK t, n : t = Append(s, x) /\ n = Len(s)
    OBVIOUS
  <2>2. /\ t \in Seq(Seq(S)) /\ Len(t) = n + 1 /\ t[n + 1] = x /\ n \in Nat
        /\ \A i \in 1 .. n : t[i] = s[i]
    BY <1>1, <2>1, AppendProperties
  <2>3. PICK g : Flattens(S, t, g) /\ FlattenSeq(t) = g[n + 1]
    <3>1. Len(t) # 0
      BY <2>2
    <3> QED BY <2>2, <3>1, FlattenIs
  <2>4. /\ g \in [1 .. n + 1 -> Seq(S)]
        /\ \A i \in 1 .. n + 1 : g[i] = IF i = 1 THEN t[i] ELSE g[i - 1] \o t[i]
    BY <2>2, <2>3 DEF Flattens
  <2>5. CASE n = 0
    <3>1. g[1] = x
      BY <2>2, <2>4, <2>5
    <3>2. FlattenSeq(s) = <<>>
      BY <1>2, <2>1, <2>5
    <3>3. <<>> \o x = x
      BY ConcatEmptySeq
    <3> QED BY <2>1, <2>3, <2>5, <3>1, <3>2, <3>3
  <2>6. CASE n # 0
    <3>1. PICK f : Flattens(S, s, f) /\ FlattenSeq(s) = f[n]
      BY <2>1, <2>6, FlattenIs
    <3>2. \A i \in 1 .. n : f[i] = IF i = 1 THEN s[i] ELSE f[i - 1] \o s[i]
      BY <2>1, <3>1 DEF Flattens
    <3> DEFINE T == {k \in Nat : k \in 1 .. n => g[k] = f[k]}
    <3>3. ASSUME NEW k \in Nat, 0 .. k - 1 \subseteq T PROVE k \in T
      <4>1. SUFFICES ASSUME k \in 1 .. n PROVE g[k] = f[k]
        OBVIOUS
      <4>2. k \in 1 .. n + 1 /\ t[k] = s[k]
        BY <2>2, <4>1
      <4>3. CASE k = 1
        BY <2>4, <3>2, <4>1, <4>2, <4>3
      <4>4. CASE k # 1
        <5>1. k - 1 \in 0 .. k - 1 /\ k - 1 \in 1 .. n
          BY <2>2, <4>1, <4>4
        <5>2. g[k - 1] = f[k - 1]
          BY <3>3, <5>1
        <5>3. g[k] = g[k - 1] \o t[k]
          BY <2>4, <4>2, <4>4
        <5>4. f[k] = f[k - 1] \o s[k]
          BY <3>2, <4>1, <4>4
        <5> QED BY <4>2, <5>2, <5>3, <5>4
      <4> QED BY <4>3, <4>4
    <3> HIDE DEF T
    <3>4. n \in T
      BY <2>2, <3>3, Induction
    <3>5. g[n] = f[n]
      BY <2>2, <2>6, <3>4 DEF T
    <3>6. g[n + 1] = g[n] \o x
      <4>1. PICK k : k = n + 1
        OBVIOUS
      <4>2. k \in 1 .. n + 1 /\ k # 1 /\ k - 1 = n
        BY <2>2, <2>6, <4>1
      <4>3. g[k] = g[k - 1] \o t[k]
        BY <2>4, <4>2
      <4> QED BY <2>2, <4>1, <4>2, <4>3
    <3> QED BY <2>1, <2>3, <3>1, <3>5, <3>6
  <2> QED BY <2>5, <2>6
<1> QED BY <1>4, <1>5

Associates(S) == \A f, x, y \in Seq(S) : (f \o x) \o y = f \o (x \o y)

LEMMA ConcatsAssociate == \A S : Associates(S)
  BY ConcatAssociative DEF Associates

LEMMA FlattensJoined ==
  ASSUME NEW S, NEW s \in Seq(Seq(S)), NEW t \in Seq(Seq(S))
  PROVE  FlattenSeq(s \o t) = FlattenSeq(s) \o FlattenSeq(t)
<1> DEFINE T == {n \in Nat : \A u \in Seq(Seq(S)) :
                    Len(u) = n => FlattenSeq(s \o u) = FlattenSeq(s) \o FlattenSeq(u)}
<1>1. ASSUME NEW n \in Nat, 0 .. n - 1 \subseteq T PROVE n \in T
  <2>1. SUFFICES ASSUME NEW u \in Seq(Seq(S)), Len(u) = n
                 PROVE  FlattenSeq(s \o u) = FlattenSeq(s) \o FlattenSeq(u)
    OBVIOUS
  <2>2. FlattenSeq(s) \in Seq(S)
    BY Flattened
  <2>3. CASE n = 0
    <3>1. u = <<>>
      BY <2>1, <2>3, EmptySeq
    <3>2. FlattenSeq(u) = <<>>
      BY <3>1 DEF FlattenSeq
    <3> QED BY <2>2, <3>1, <3>2, ConcatEmptySeq
  <2>4. CASE n # 0
    <3>1. PICK v, x : v = SubSeq(u, 1, n - 1) /\ x = u[n]
      OBVIOUS
    <3>2. /\ v \in Seq(Seq(S)) /\ Len(v) = n - 1 /\ \A i \in 1 .. n - 1 : v[i] = u[i]
          /\ x \in Seq(S)
      <4>1. n - 1 \in 0 .. Len(u) /\ n \in 1 .. Len(u)
        BY <2>1, <2>4
      <4> QED BY <2>1, <3>1, <4>1, Beginnings, ElementOfSeq
    <3>3. u = Append(v, x)
      <4>1. PICK w : w = Append(v, x)
        OBVIOUS
      <4>2. /\ w \in Seq(Seq(S)) /\ Len(w) = (n - 1) + 1 /\ w[(n - 1) + 1] = x
            /\ \A i \in 1 .. n - 1 : w[i] = v[i]
        BY <3>2, <4>1, AppendProperties
      <4>3. (n - 1) + 1 = n /\ \A i \in 1 .. n : i # n => i \in 1 .. n - 1
        BY <2>4
      <4>4. Len(w) = Len(u) /\ \A i \in 1 .. Len(u) : w[i] = u[i]
        BY <2>1, <3>1, <3>2, <4>2, <4>3
      <4>5. w = u
        BY <4>2, <4>4, SeqEqual
      <4> QED BY <4>1, <4>5
    <3>4. FlattenSeq(s \o v) = FlattenSeq(s) \o FlattenSeq(v)
      <4>1. n - 1 \in 0 .. n - 1
        BY <2>4
      <4> HIDE DEF T
      <4>2. n - 1 \in T
        BY <1>1, <4>1
      <4> QED BY <3>2, <4>2 DEF T
    <3>5. s \o v \in Seq(Seq(S)) /\ FlattenSeq(v) \in Seq(S)
      BY <3>2, ConcatProperties, Flattened
    <3>6. s \o u = Append(s \o v, x)
      <4>1. u = v \o <<x>> /\ <<x>> \in Seq(Seq(S))
        BY <3>2, <3>3, AppendIsConcat
      <4>2. (s \o v) \o <<x>> = s \o (v \o <<x>>)
        <5>1. PICK f, g, h, R : f = s /\ g = v /\ h = <<x>> /\ R = Seq(S)
          OBVIOUS
        <5>2. Associates(R)
          BY ConcatsAssociate
        <5>3. f \in Seq(R) /\ g \in Seq(R) /\ h \in Seq(R)
          BY <3>2, <4>1, <5>1
        <5>4. (f \o g) \o h = f \o (g \o h)
          BY ONLY <5>2, <5>3 DEF Associates
        <5> QED BY <5>1, <5>4
      <4>3. PICK z : z = s \o v /\ z \in Seq(Seq(S))
        BY <3>5
      <4>4. Append(z, x) = z \o <<x>>
        BY <3>2, <4>3, AppendIsConcat
      <4> QED BY <4>1, <4>2, <4>3, <4>4
    <3>7. FlattenSeq(s \o u) = (FlattenSeq(s) \o FlattenSeq(v)) \o x
      <4>1. PICK z : z = s \o v /\ z \in Seq(Seq(S))
        BY <3>5
      <4>2. FlattenSeq(Append(z, x)) = FlattenSeq(z) \o x
        BY <3>2, <4>1, Flattened
      <4> QED BY <3>4, <3>6, <4>1, <4>2
    <3>8. FlattenSeq(u) = FlattenSeq(v) \o x
      BY <3>2, <3>3, Flattened
    <3>9. FlattenSeq(s) \in Seq(S) /\ x \in Seq(S)
      BY <2>2, <3>2
    <3>10. (FlattenSeq(s) \o FlattenSeq(v)) \o x = FlattenSeq(s) \o (FlattenSeq(v) \o x)
      <4>1. Associates(S)
        BY ConcatsAssociate
      <4> QED BY ONLY <3>5, <3>9, <4>1 DEF Associates
    <3> QED BY <3>7, <3>8, <3>10
  <2> QED BY <2>3, <2>4
<1> HIDE DEF T
<1>2. Len(t) \in T
  BY <1>1, LenProperties, Induction
<1> QED BY <1>2 DEF T

(* Two neighbours become one that says what both said.                     *)
Contracts(w, v, i) ==
    /\ i \in 1 .. Len(w) - 1 /\ Len(v) = Len(w) - 1
    /\ v[i] = w[i] \o w[i + 1]
    /\ \A k \in 1 .. Len(w) - 1 : k < i => v[k] = w[k]
    /\ \A k \in 1 .. Len(w) - 1 : k > i => v[k] = w[k + 1]

LEMMA ContractedText ==
  ASSUME NEW S, NEW w \in Seq(Seq(S)), NEW v \in Seq(Seq(S)), NEW i, Contracts(w, v, i)
  PROVE  FlattenSeq(v) = FlattenSeq(w)
<1>1. PICK n, a, p, b, x, y :
        /\ n = Len(w) /\ a = SubSeq(w, 1, i - 1) /\ p = SubSeq(w, 1, i + 1)
        /\ b = SubSeq(w, i + 2, n) /\ x = w[i] /\ y = w[i + 1]
  OBVIOUS
<1>2. PICK q, c : q = SubSeq(v, 1, i) /\ c = SubSeq(v, i + 1, n - 1)
  OBVIOUS
<1>3. /\ n \in Nat /\ i \in Nat /\ 1 <= i /\ i <= n - 1 /\ Len(v) = n - 1
      /\ v[i] = x \o y /\ x \in Seq(S) /\ y \in Seq(S)
      /\ \A k \in 1 .. n - 1 : k < i => v[k] = w[k]
      /\ \A k \in 1 .. n - 1 : k > i => v[k] = w[k + 1]
  <2>1. /\ i \in 1 .. n - 1 /\ Len(v) = n - 1 /\ v[i] = x \o y
        /\ \A k \in 1 .. n - 1 : k < i => v[k] = w[k]
        /\ \A k \in 1 .. n - 1 : k > i => v[k] = w[k + 1]
    BY <1>1 DEF Contracts
  <2>2. n \in Nat /\ \A k \in 1 .. n : w[k] \in Seq(S)
    BY <1>1, LenProperties, ElementOfSeq
  <2>3. i \in 1 .. n /\ i + 1 \in 1 .. n
    BY <2>1, <2>2
  <2> QED BY <1>1, <2>1, <2>2, <2>3
<1>11. i \in Nat /\ n \in Nat /\ 1 <= i /\ i <= n - 1 /\ x \in Seq(S) /\ y \in Seq(S)
  BY <1>3
<1>4. w = p \o b /\ p \in Seq(Seq(S)) /\ Len(p) = i + 1 /\ \A k \in 1 .. i + 1 : p[k] = w[k]
  <2>1. i + 1 \in 0 .. Len(w) /\ (i + 1) + 1 = i + 2
    BY <1>1, <1>3
  <2> QED BY <1>1, <2>1, SplitsAt, Beginnings
<1>5. v = q \o c /\ q \in Seq(Seq(S)) /\ Len(q) = i /\ \A k \in 1 .. i : q[k] = v[k]
  <2>1. i \in 0 .. Len(v)
    BY <1>3
  <2> QED BY <1>2, <1>3, <2>1, SplitsAt, Beginnings
<1>6. a \in Seq(Seq(S)) /\ Len(a) = i - 1 /\ \A k \in 1 .. i - 1 : a[k] = w[k]
  <2>1. i - 1 \in 0 .. Len(w)
    BY <1>1, <1>3
  <2> QED BY <1>1, <2>1, Beginnings
<1>7. b \in Seq(Seq(S)) /\ c \in Seq(Seq(S)) /\ c = b
  <2>1. /\ b \in Seq(Seq(S)) /\ Len(b) = IF i + 2 <= n THEN n - (i + 2) + 1 ELSE 0
        /\ \A k \in 1 .. n - (i + 2) + 1 : b[k] = w[i + 2 + k - 1]
    <3>1. i + 2 \in Int /\ n \in Int /\ \A k \in i + 2 .. n : w[k] \in Seq(S)
      <4>1. \A k \in 1 .. n : w[k] \in Seq(S)
        BY <1>1, ElementOfSeq
      <4>2. \A k \in i + 2 .. n : k \in 1 .. n
        BY <1>11
      <4> QED BY <1>11, <4>1, <4>2
    <3>2. PICK j, z : j = i + 2 /\ z = w
      OBVIOUS
    <3>3. j \in Int /\ n \in Int /\ b = SubSeq(z, j, n) /\ \A k \in j .. n : z[k] \in Seq(S)
      BY <1>1, <3>1, <3>2
    <3>4. /\ b \in Seq(Seq(S)) /\ Len(b) = IF j <= n THEN n - j + 1 ELSE 0
          /\ \A k \in 1 .. n - j + 1 : b[k] = z[j + k - 1]
      BY ONLY <3>3, SubSeqProperties
    <3> QED BY <3>2, <3>4
  <2>2. /\ c \in Seq(Seq(S)) /\ Len(c) = IF i + 1 <= n - 1 THEN n - 1 - (i + 1) + 1 ELSE 0
        /\ \A k \in 1 .. n - 1 - (i + 1) + 1 : c[k] = v[i + 1 + k - 1]
    <3>1. i + 1 \in Int /\ n - 1 \in Int /\ \A k \in i + 1 .. n - 1 : v[k] \in Seq(S)
      BY <1>3, ElementOfSeq
    <3>2. PICK j, l, z : j = i + 1 /\ l = n - 1 /\ z = v
      OBVIOUS
    <3>3. j \in Int /\ l \in Int /\ c = SubSeq(z, j, l) /\ \A k \in j .. l : z[k] \in Seq(S)
      BY <1>2, <3>1, <3>2
    <3>4. /\ c \in Seq(Seq(S)) /\ Len(c) = IF j <= l THEN l - j + 1 ELSE 0
          /\ \A k \in 1 .. l - j + 1 : c[k] = z[j + k - 1]
      BY ONLY <3>3, SubSeqProperties
    <3> QED BY <3>2, <3>4
  <2>3. Len(c) = Len(b) /\ Len(b) = n - (i + 2) + 1
    BY <1>3, <2>1, <2>2
  <2>4. ASSUME NEW k \in 1 .. Len(b) PROVE c[k] = b[k]
    <3>1. /\ k \in 1 .. n - (i + 2) + 1 /\ k \in 1 .. n - 1 - (i + 1) + 1
          /\ i + 1 + k - 1 \in 1 .. n - 1 /\ i + 1 + k - 1 > i
          /\ (i + 1 + k - 1) + 1 = i + 2 + k - 1
      BY <1>3, <2>3
    <3> QED BY <1>3, <2>1, <2>2, <3>1
  <2> QED BY <2>1, <2>2, <2>3, <2>4, SeqEqual
<1>8. FlattenSeq(p) = (FlattenSeq(a) \o x) \o y
  <2>1. PICK d, e : d = Append(a, x) /\ e = Append(d, y)
    OBVIOUS
  <2>2. d \in Seq(Seq(S)) /\ Len(d) = i /\ d[i] = x /\ \A k \in 1 .. i - 1 : d[k] = a[k]
    <3>1. /\ d \in Seq(Seq(S)) /\ Len(d) = (i - 1) + 1 /\ d[(i - 1) + 1] = x
          /\ \A k \in 1 .. i - 1 : d[k] = a[k]
      BY <1>3, <1>6, <2>1, AppendProperties
    <3>2. (i - 1) + 1 = i
      BY <1>3
    <3> QED BY <3>1, <3>2
  <2>3. /\ e \in Seq(Seq(S)) /\ Len(e) = i + 1 /\ e[i + 1] = y
        /\ \A k \in 1 .. i : e[k] = d[k]
    <3>1. y \in Seq(S) /\ d \in Seq(Seq(S)) /\ e = Append(d, y)
      BY <1>11, <2>1, <2>2
    <3>2. /\ e \in Seq(Seq(S)) /\ Len(e) = Len(d) + 1 /\ e[Len(d) + 1] = y
          /\ \A k \in 1 .. Len(d) : e[k] = d[k]
      BY ONLY <3>1, AppendProperties
    <3> QED BY <2>2, <3>2
  <2>4. ASSUME NEW k \in 1 .. i + 1 PROVE e[k] = p[k]
    <3>1. k = i + 1 \/ k = i \/ k \in 1 .. i - 1
      BY <1>11
    <3>2. i \in 1 .. i /\ \A j \in 1 .. i - 1 : j \in 1 .. i
      BY <1>11
    <3>3. CASE k = i + 1
      BY <1>1, <1>4, <2>3, <3>3
    <3>4. CASE k = i
      BY <1>1, <1>4, <2>2, <2>3, <3>2, <3>4
    <3>5. CASE k \in 1 .. i - 1
      <4>1. p[k] = w[k] /\ a[k] = w[k]
        BY <1>4, <1>6, <3>5
      <4>2. e[k] = d[k] /\ d[k] = a[k]
        BY <2>2, <2>3, <3>2, <3>5
      <4> QED BY <4>1, <4>2
    <3> QED BY <3>1, <3>3, <3>4, <3>5
  <2>5. e = p
    BY <1>4, <2>3, <2>4, SeqEqual
  <2>6. FlattenSeq(d) = FlattenSeq(a) \o x
    BY <1>6, <1>11, <2>1, Flattened
  <2>7. FlattenSeq(e) = FlattenSeq(d) \o y
    BY <1>11, <2>1, <2>2, Flattened
  <2> QED BY <2>5, <2>6, <2>7
<1>9. FlattenSeq(q) = FlattenSeq(a) \o (x \o y)
  <2>1. PICK e : e = Append(a, x \o y)
    OBVIOUS
  <2>2. x \o y \in Seq(S)
    BY <1>3, ConcatProperties
  <2>3. e \in Seq(Seq(S)) /\ Len(e) = i /\ e[i] = x \o y /\ \A k \in 1 .. i - 1 : e[k] = a[k]
    <3>1. /\ e \in Seq(Seq(S)) /\ Len(e) = (i - 1) + 1 /\ e[(i - 1) + 1] = x \o y
          /\ \A k \in 1 .. i - 1 : e[k] = a[k]
      BY <1>6, <2>1, <2>2, AppendProperties
    <3>2. (i - 1) + 1 = i
      BY <1>3
    <3> QED BY <3>1, <3>2
  <2>4. ASSUME NEW k \in 1 .. i PROVE e[k] = q[k]
    <3>1. k \in 1 .. n - 1 /\ (k = i \/ (k \in 1 .. i - 1 /\ k < i))
      BY <1>3
    <3> QED BY <1>3, <1>5, <1>6, <2>3, <3>1
  <2>5. e = q
    BY <1>5, <2>3, <2>4, SeqEqual
  <2> QED BY <1>6, <2>1, <2>2, <2>5, Flattened
<1>10. FlattenSeq(q) = FlattenSeq(p)
  <2>1. PICK f : f = FlattenSeq(a)
    OBVIOUS
  <2>2. f \in Seq(S)
    BY <1>6, <2>1, Flattened
  <2>4. x \in Seq(S) /\ y \in Seq(S)
    BY <1>11
  <2>3. (f \o x) \o y = f \o (x \o y)
    <3>1. Associates(S)
      BY ConcatsAssociate
    <3> QED BY ONLY <2>2, <2>4, <3>1 DEF Associates
  <2> QED BY <1>8, <1>9, <2>1, <2>3
<1>12. FlattenSeq(w) = FlattenSeq(p) \o FlattenSeq(b)
  BY <1>4, <1>7, FlattensJoined, Zenon
<1>13. FlattenSeq(v) = FlattenSeq(q) \o FlattenSeq(c)
  BY <1>5, <1>7, FlattensJoined, Zenon
<1> QED BY <1>7, <1>10, <1>12, <1>13

(* A word that reads as four parts one after the other is their joining.   *)
Joins(w, a, b, c, d) ==
    /\ Len(w) = Len(a) + Len(b) + Len(c) + Len(d)
    /\ \A k \in 1 .. Len(a) : w[k] = a[k]
    /\ \A k \in 1 .. Len(b) : w[Len(a) + k] = b[k]
    /\ \A k \in 1 .. Len(c) : w[Len(a) + Len(b) + k] = c[k]
    /\ \A k \in 1 .. Len(d) : w[Len(a) + Len(b) + Len(c) + k] = d[k]

LEMMA JoinedFour ==
  ASSUME NEW S, NEW w \in Seq(S), NEW a \in Seq(S), NEW b \in Seq(S), NEW c \in Seq(S),
         NEW d \in Seq(S), Joins(w, a, b, c, d)
  PROVE  w = a \o b \o c \o d
<1>1. PICK n, l, m, o : n = Len(a) /\ l = Len(b) /\ m = Len(c) /\ o = Len(d)
  OBVIOUS
<1>2. n \in Nat /\ l \in Nat /\ m \in Nat /\ o \in Nat
  BY <1>1, LenProperties
<1>3. /\ Len(w) = n + l + m + o
      /\ \A k \in 1 .. n : w[k] = a[k]
      /\ \A k \in 1 .. l : w[n + k] = b[k]
      /\ \A k \in 1 .. m : w[n + l + k] = c[k]
      /\ \A k \in 1 .. o : w[n + l + m + k] = d[k]
  BY <1>1 DEF Joins
<1>4. PICK e, f, g : e = a \o b /\ f = e \o c /\ g = f \o d
  OBVIOUS
<1>5. /\ e \in Seq(S) /\ Len(e) = n + l
      /\ \A k \in 1 .. n + l : e[k] = IF k <= n THEN a[k] ELSE b[k - n]
  BY <1>1, <1>4, ConcatProperties
<1>6. /\ f \in Seq(S) /\ Len(f) = n + l + m
      /\ \A k \in 1 .. n + l + m : f[k] = IF k <= n + l THEN e[k] ELSE c[k - (n + l)]
  <2>1. PICK z : z = n + l
    OBVIOUS
  <2>2. Len(e) = z /\ e \in Seq(S) /\ f = e \o c /\ Len(c) = m
    BY <1>1, <1>4, <1>5, <2>1
  <2>3. /\ f \in Seq(S) /\ Len(f) = z + m
        /\ \A k \in 1 .. z + m : f[k] = IF k <= z THEN e[k] ELSE c[k - z]
    BY <2>2, ConcatProperties
  <2> QED BY <2>1, <2>3
<1>7. /\ g \in Seq(S) /\ Len(g) = n + l + m + o
      /\ \A k \in 1 .. n + l + m + o :
            g[k] = IF k <= n + l + m THEN f[k] ELSE d[k - (n + l + m)]
  <2>1. PICK z : z = n + l + m
    OBVIOUS
  <2>2. Len(f) = z /\ f \in Seq(S) /\ g = f \o d /\ Len(d) = o
    BY <1>1, <1>4, <1>6, <2>1
  <2>3. /\ g \in Seq(S) /\ Len(g) = z + o
        /\ \A k \in 1 .. z + o : g[k] = IF k <= z THEN f[k] ELSE d[k - z]
    BY <2>2, ConcatProperties
  <2> QED BY <2>1, <2>3
<1>8. ASSUME NEW k \in 1 .. n + l + m + o PROVE w[k] = g[k]
  <2>0. k \in Nat /\ 1 <= k /\ k <= n + l + m + o
    BY <1>2
  <2>1. CASE k <= n
    <3>1. k \in 1 .. n /\ k \in 1 .. n + l /\ k <= n + l /\ k \in 1 .. n + l + m /\ k <= n + l + m
      BY <1>2, <2>0, <2>1
    <3> QED BY <1>3, <1>5, <1>6, <1>7, <2>1, <3>1
  <2>2. CASE ~(k <= n) /\ k <= n + l
    <3>1. /\ k - n \in 1 .. l /\ n + (k - n) = k
          /\ k \in 1 .. n + l /\ k \in 1 .. n + l + m /\ k <= n + l + m
      BY <1>2, <2>0, <2>2
    <3>2. g[k] = b[k - n]
      BY <1>5, <1>6, <1>7, <2>2, <3>1
    <3>3. w[n + (k - n)] = b[k - n]
      BY <1>3, <3>1
    <3> QED BY <3>1, <3>2, <3>3
  <2>3. CASE ~(k <= n + l) /\ k <= n + l + m
    <3>1. PICK j : j = k - (n + l)
      OBVIOUS
    <3>2. j \in 1 .. m /\ n + l + j = k /\ k \in 1 .. n + l + m
      BY <1>2, <2>0, <2>3, <3>1
    <3>3. g[k] = c[j]
      BY <1>6, <1>7, <2>3, <3>1, <3>2
    <3> QED BY <1>3, <3>2, <3>3
  <2>4. CASE ~(k <= n + l + m)
    <3>1. PICK j : j = k - (n + l + m)
      OBVIOUS
    <3>2. j \in 1 .. o /\ n + l + m + j = k
      BY <1>2, <2>0, <2>4, <3>1
    <3>3. g[k] = d[j]
      BY <1>7, <2>4, <3>1
    <3> QED BY <1>3, <3>2, <3>3
  <2> QED BY <2>1, <2>2, <2>3, <2>4
<1>9. w = g
  BY <1>3, <1>7, <1>8, SeqEqual
<1> QED BY <1>4, <1>9

(* A sequence over a set is one over every larger set.                     *)
LEMMA Widened ==
  ASSUME NEW S, NEW T, S \subseteq T, NEW s \in Seq(S)
  PROVE  s \in Seq(T)
<1>1. Len(s) \in Nat /\ DOMAIN s = 1 .. Len(s) /\ \A i \in 1 .. Len(s) : s[i] \in T
  BY LenProperties, ElementOfSeq
<1>2. s \in [1 .. Len(s) -> T]
  <2>1. s = [i \in 1 .. Len(s) |-> s[i]]
    BY <1>1, LenProperties
  <2> QED BY <1>1, <2>1
<1> QED BY <1>1, <1>2, SeqDef

-----------------------------------------------------------------------------
(* Parts of a sequence, and sequences put together.                        *)
LEMMA Joined ==
  ASSUME NEW S, NEW s \in Seq(S), NEW t \in Seq(S)
  PROVE  /\ s \o t \in Seq(S) /\ Len(s \o t) = Len(s) + Len(t)
         /\ \A k \in 1 .. Len(s) : (s \o t)[k] = s[k]
         /\ \A k \in 1 .. Len(t) : (s \o t)[Len(s) + k] = t[k]
<1>1. PICK u, n, m : u = s \o t /\ n = Len(s) /\ m = Len(t)
  OBVIOUS
<1>2. n \in Nat /\ m \in Nat
  BY <1>1, LenProperties
<1>3. /\ u \in Seq(S) /\ Len(u) = n + m
      /\ \A k \in 1 .. n + m : u[k] = IF k <= n THEN s[k] ELSE t[k - n]
  BY <1>1, ConcatProperties
<1>4. ASSUME NEW k \in 1 .. n PROVE u[k] = s[k]
  <2>1. k \in 1 .. n + m /\ k <= n
    BY <1>2
  <2> QED BY <1>3, <2>1
<1>5. ASSUME NEW k \in 1 .. m PROVE u[n + k] = t[k]
  <2>1. PICK j : j = n + k
    OBVIOUS
  <2>2. j \in 1 .. n + m /\ ~(j <= n) /\ j - n = k
    BY <1>2, <2>1
  <2> QED BY <1>3, <2>1, <2>2
<1> QED BY <1>1, <1>3, <1>4, <1>5

LEMMA PartOf ==
  ASSUME NEW S, NEW s \in Seq(S), NEW a \in 0 .. Len(s), NEW b \in a .. Len(s)
  PROVE  /\ SubSeq(s, a + 1, b) \in Seq(S) /\ Len(SubSeq(s, a + 1, b)) = b - a
         /\ \A i \in 1 .. b - a : SubSeq(s, a + 1, b)[i] = s[a + i]
<1>1. Len(s) \in Nat /\ a \in Nat /\ b \in Nat /\ a <= b /\ b <= Len(s)
  BY LenProperties
<1>2. PICK f, j : f = SubSeq(s, a + 1, b) /\ j = a + 1
  OBVIOUS
<1>3. j \in Int /\ b \in Int /\ f = SubSeq(s, j, b) /\ \A i \in j .. b : s[i] \in S
  <2>1. \A i \in j .. b : i \in 1 .. Len(s)
    BY <1>1, <1>2
  <2> QED BY <1>1, <1>2, <2>1, ElementOfSeq
<1>4. /\ f \in Seq(S) /\ Len(f) = IF j <= b THEN b - j + 1 ELSE 0
      /\ \A i \in 1 .. b - j + 1 : f[i] = s[j + i - 1]
  BY ONLY <1>3, SubSeqProperties
<1>5. Len(f) = b - a
  BY <1>1, <1>2, <1>4
<1>6. ASSUME NEW i \in 1 .. b - a PROVE f[i] = s[a + i]
  <2>1. i \in 1 .. b - j + 1 /\ j + i - 1 = a + i
    BY <1>1, <1>2
  <2> QED BY <1>4, <2>1
<1> QED BY <1>2, <1>4, <1>5, <1>6

(* Two neighbouring parts make the part they span.                         *)
LEMMA PartsJoined ==
  ASSUME NEW S, NEW s \in Seq(S), NEW a \in 0 .. Len(s), NEW b \in a .. Len(s),
         NEW c \in b .. Len(s)
  PROVE  SubSeq(s, a + 1, c) = SubSeq(s, a + 1, b) \o SubSeq(s, b + 1, c)
<1>1. Len(s) \in Nat /\ a \in Nat /\ b \in Nat /\ c \in Nat /\ a <= b /\ b <= c /\ c <= Len(s)
  BY LenProperties
<1>2. PICK f, g, h, k : /\ f = SubSeq(s, a + 1, b) /\ g = SubSeq(s, b + 1, c)
                        /\ h = SubSeq(s, a + 1, c) /\ k = f \o g
  OBVIOUS
<1>3. f \in Seq(S) /\ Len(f) = b - a /\ \A i \in 1 .. b - a : f[i] = s[a + i]
  BY <1>2, PartOf
<1>4. g \in Seq(S) /\ Len(g) = c - b /\ \A i \in 1 .. c - b : g[i] = s[b + i]
  <2>1. b \in 0 .. Len(s)
    BY <1>1
  <2> QED BY <1>2, <2>1, PartOf
<1>5. h \in Seq(S) /\ Len(h) = c - a /\ \A i \in 1 .. c - a : h[i] = s[a + i]
  <2>1. c \in a .. Len(s)
    BY <1>1
  <2> QED BY <1>2, <2>1, PartOf
<1>6. /\ k \in Seq(S) /\ Len(k) = (b - a) + (c - b)
      /\ \A i \in 1 .. b - a : k[i] = f[i]
      /\ \A i \in 1 .. c - b : k[(b - a) + i] = g[i]
  <2>1. f \in Seq(S) /\ g \in Seq(S) /\ k = f \o g
    BY <1>2, <1>3, <1>4
  <2>2. /\ k \in Seq(S) /\ Len(k) = Len(f) + Len(g)
        /\ \A i \in 1 .. Len(f) : k[i] = f[i]
        /\ \A i \in 1 .. Len(g) : k[Len(f) + i] = g[i]
    BY ONLY <2>1, Joined
  <2>3. Len(f) = b - a /\ Len(g) = c - b
    BY <1>3, <1>4
  <2> QED BY ONLY <2>2, <2>3
<1>7. (b - a) + (c - b) = c - a
  BY <1>1
<1>8. ASSUME NEW i \in 1 .. c - a PROVE h[i] = k[i]
  <2>1. CASE i <= b - a
    <3>1. i \in 1 .. b - a
      BY <1>1, <2>1
    <3> QED BY <1>3, <1>5, <1>6, <3>1
  <2>2. CASE ~(i <= b - a)
    <3>1. PICK j : j = i - (b - a)
      OBVIOUS
    <3>2. j \in 1 .. c - b /\ b + j = a + i /\ (b - a) + j = i
      BY <1>1, <2>2, <3>1
    <3>3. k[i] = g[j] /\ g[j] = s[b + j]
      BY <1>4, <1>6, <3>2
    <3> QED BY <1>5, <3>2, <3>3
  <2> QED BY <2>1, <2>2
<1>9. h = k
  BY <1>5, <1>6, <1>7, <1>8, SeqEqual
<1> QED BY <1>2, <1>9

(* A prefix, longer by one.                                                *)
LEMMA NextPrefix ==
  ASSUME NEW S, NEW s \in Seq(S), NEW l \in 0 .. Len(s) - 1
  PROVE  /\ SubSeq(s, 1, l) \in Seq(S) /\ s[l + 1] \in S
         /\ SubSeq(s, 1, l + 1) = Append(SubSeq(s, 1, l), s[l + 1])
<1>1. PICK e, f, g, x : e = l + 1 /\ f = SubSeq(s, 1, l) /\ g = SubSeq(s, 1, e) /\ x = s[e]
  OBVIOUS
<1>2. Len(s) \in Nat /\ l \in 0 .. Len(s) /\ e \in 1 .. Len(s) /\ e \in 0 .. Len(s)
  BY <1>1, LenProperties
<1>3. f \in Seq(S) /\ Len(f) = l /\ \A i \in 1 .. l : f[i] = s[i]
  BY <1>1, <1>2, Beginnings
<1>4. g \in Seq(S) /\ Len(g) = e /\ \A i \in 1 .. e : g[i] = s[i]
  BY <1>1, <1>2, Beginnings
<1>5. x \in S
  BY <1>1, <1>2, ElementOfSeq
<1>6. PICK h : h = Append(f, x)
  OBVIOUS
<1>7. h \in Seq(S) /\ Len(h) = e /\ h[e] = x /\ \A i \in 1 .. l : h[i] = f[i]
  <2>1. /\ h \in Seq(S) /\ Len(h) = Len(f) + 1 /\ h[Len(f) + 1] = x
        /\ \A i \in 1 .. Len(f) : h[i] = f[i]
    BY ONLY <1>3, <1>5, <1>6, AppendProperties
  <2> QED BY <1>1, <1>3, <2>1
<1>8. ASSUME NEW i \in 1 .. e PROVE h[i] = g[i]
  <2>1. i = e \/ i \in 1 .. l
    BY <1>1, <1>2
  <2> QED BY <1>1, <1>3, <1>4, <1>7, <2>1
<1>9. h = g
  BY <1>4, <1>7, <1>8, SeqEqual
<1> QED BY <1>1, <1>3, <1>5, <1>6, <1>9

(* A sequence of one sequence.                                             *)
LEMMA FlattenOne ==
  ASSUME NEW S, NEW x \in Seq(S)
  PROVE  FlattenSeq(<<x>>) = x
<1>1. PICK e, u : e = <<>> /\ u = Append(e, x)
  OBVIOUS
<1>2. e \in Seq(Seq(S)) /\ u = <<x>> /\ <<x>> \in Seq(Seq(S))
  BY <1>1
<1>3. FlattenSeq(u) = FlattenSeq(e) \o x
  BY <1>1, <1>2, Flattened
<1>4. FlattenSeq(e) = <<>>
  BY <1>1 DEF FlattenSeq
<1> QED BY <1>2, <1>3, <1>4, ConcatEmptySeq
=============================================================================
