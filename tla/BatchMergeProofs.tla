-------------------------- MODULE BatchMergeProofs --------------------------
(***************************************************************************)
(* The batch engine, for every table and every set of chunks: the ranks it  *)
(* keeps from pass to pass stay those of the table, and on a monotonic      *)
(* table it never bails and returns canonical BPE.                          *)
(*                                                                         *)
(* A pass is explained as a walk over the word.  The words it stands for on *)
(* its way, what is written so far and the rest behind it, are the words    *)
(* canonical BPE passes through: the pair that is merged next is always the *)
(* leftmost of the lowest rank.                                            *)
(***************************************************************************)
EXTENDS BatchMerge, MergeTableProofs

-----------------------------------------------------------------------------
(* The starts of a pass over a word of n tokens: m of them, each behind the *)
(* token or pair before it, and the last one takes the end of the word.     *)
IsWalk(st, m, n) ==
    /\ n \in Nat /\ 1 <= n /\ DOMAIN ranks = 1 .. n - 1
    /\ m \in 1 .. n /\ st \in [1 .. m -> 1 .. n]
    /\ st[1] = 1
    /\ \A k \in 1 .. m - 1 : st[k + 1] = st[k] + Stride(st[k])
    /\ st[m] + Stride(st[m]) = n + 1

LEMMA WalkUnfolds ==
  ASSUME Len(tokens) \in Nat
  PROVE  /\ Walk \in [1 .. Len(tokens) -> Nat]
         /\ \A k \in 1 .. Len(tokens) :
               Walk[k] = IF k = 1 THEN 1 ELSE Walk[k - 1] + Stride(Walk[k - 1])
<1>1. PICK n, g : n = Len(tokens) /\ g = [i \in Nat |-> i + Stride(i)]
  OBVIOUS
<1>2. g \in [Nat -> Nat] /\ n \in Nat /\ \A i \in Nat : g[i] = i + Stride(i)
  BY <1>1 DEF Stride
<1> DEFINE body(f) == [k \in 1 .. Len(tokens) |->
                          IF k = 1 THEN 1 ELSE f[k - 1] + Stride(f[k - 1])]
<1>3. PICK f \in [1 .. n -> Nat] : \A k \in 1 .. n : f[k] = IF k = 1 THEN 1 ELSE g[f[k - 1]]
  <2>1. PICK one \in Nat : one = 1
    OBVIOUS
  <2>2. PICK f : Follows(f, n, g, one)
    BY <1>2, <2>1, WalkExists
  <2> QED BY <2>1, <2>2 DEF Follows
<1>4. f = body(f)
  <2>1. \A k \in 1 .. n : k # 1 => f[k - 1] \in Nat
    <3>1. \A k \in 1 .. n : k # 1 => k - 1 \in 1 .. n
      BY <1>2
    <3> QED BY <1>3, <3>1
  <2>2. \A k \in 1 .. n : (IF k = 1 THEN 1 ELSE g[f[k - 1]]) =
                          (IF k = 1 THEN 1 ELSE f[k - 1] + Stride(f[k - 1]))
    BY <1>2, <2>1
  <2> QED BY <1>1, <1>3, <2>2
<1>5. Walk = CHOOSE h : h = body(h)
  BY DEF Walk
<1>6. Walk = body(Walk)
  BY <1>4, <1>5
<1>7. DOMAIN Walk = 1 .. n /\ \A k \in 1 .. n :
         Walk[k] = IF k = 1 THEN 1 ELSE Walk[k - 1] + Stride(Walk[k - 1])
  BY <1>1, <1>6
<1> DEFINE S == {k \in Nat : k \in 1 .. n => Walk[k] \in Nat}
<1>8. ASSUME NEW k \in Nat, 0 .. k - 1 \subseteq S PROVE k \in S
  <2>1. SUFFICES ASSUME k \in 1 .. n PROVE Walk[k] \in Nat
    OBVIOUS
  <2>2. CASE k = 1
    BY <1>7, <2>1, <2>2
  <2>3. CASE k # 1
    <3>1. k - 1 \in 0 .. k - 1 /\ k - 1 \in 1 .. n
      BY <1>2, <2>1, <2>3
    <3>2. Walk[k - 1] \in Nat
      BY <1>8, <3>1
    <3> QED BY <1>7, <2>1, <2>3, <3>2 DEF Stride
  <2> QED BY <2>2, <2>3
<1> HIDE DEF S
<1>9. Nat \subseteq S
  BY <1>8, Induction
<1>10. \A k \in 1 .. n : Walk[k] \in Nat
  BY <1>9 DEF S
<1>11. Walk \in [1 .. n -> Nat]
  <2>1. Walk = [k \in 1 .. n |-> Walk[k]]
    BY <1>1, <1>6
  <2> QED BY <1>10, <2>1
<1> QED BY <1>1, <1>7, <1>11

LEMMA StartsAre ==
  ASSUME NEW n \in Nat, 1 <= n, n = Len(tokens), DOMAIN ranks = 1 .. n - 1
  PROVE  \E m \in 1 .. n : IsWalk(Starts, m, n)
<1>1. /\ Walk \in [1 .. n -> Nat] /\ Walk[1] = 1
      /\ \A k \in 1 .. n : k # 1 => Walk[k] = Walk[k - 1] + Stride(Walk[k - 1])
  BY WalkUnfolds
<1>2. \A i \in Nat : Stride(i) \in {1, 2} /\ (Stride(i) = 2 => i \in 1 .. n - 1)
  BY DEF Stride, Hit
<1>3. ASSUME NEW k \in 1 .. n - 1
      PROVE  /\ k \in 1 .. n /\ k + 1 \in 1 .. n
             /\ Walk[k + 1] = Walk[k] + Stride(Walk[k]) /\ Walk[k] < Walk[k + 1]
  <2>1. k \in 1 .. n /\ k + 1 \in 1 .. n /\ k + 1 # 1 /\ (k + 1) - 1 = k
    OBVIOUS
  <2>2. Walk[k + 1] = Walk[k] + Stride(Walk[k])
    BY <1>1, <2>1
  <2>3. Walk[k] \in Nat /\ Stride(Walk[k]) \in {1, 2}
    BY <1>1, <1>2, <2>1
  <2> QED BY <2>1, <2>2, <2>3
(* The positions only grow, so the walk leaves the word for good.          *)
<1> DEFINE S == {k \in Nat : k \in 1 .. n => k <= Walk[k]}
<1>4. ASSUME NEW k \in Nat, 0 .. k - 1 \subseteq S PROVE k \in S
  <2>1. SUFFICES ASSUME k \in 1 .. n PROVE k <= Walk[k]
    OBVIOUS
  <2>2. CASE k = 1
    BY <1>1, <2>2
  <2>3. CASE k # 1
    <3>1. k - 1 \in 0 .. k - 1 /\ k - 1 \in 1 .. n - 1 /\ k - 1 \in 1 .. n /\ (k - 1) + 1 = k
      BY <2>1, <2>3
    <3>2. k - 1 <= Walk[k - 1]
      BY <1>4, <3>1
    <3>3. Walk[k - 1] < Walk[k]
      BY <1>3, <3>1
    <3>4. Walk[k - 1] \in Nat /\ Walk[k] \in Nat
      BY <1>1, <2>1, <3>1
    <3> QED BY <3>2, <3>3, <3>4
  <2> QED BY <2>2, <2>3
<1>5. \A k \in 1 .. n : k <= Walk[k]
  <2> HIDE DEF S
  <2>1. Nat \subseteq S
    BY <1>4, Induction
  <2> QED BY <2>1 DEF S
<1> DEFINE D == {j \in 1 .. n : Walk[j] <= n}
           E == {j \in Nat : 1 <= j /\ j + 1 \notin D}
<1>6. PICK m \in Nat : 1 <= m /\ m + 1 \notin D /\ \A j \in E : m <= j
  <2>1. n \in E
    OBVIOUS
  <2>2. E \subseteq Nat /\ E # {}
    BY <2>1
  <2> HIDE DEF E
  <2>3. PICK m \in E : \A j \in E : m <= j
    BY <2>2, LeastNatural DEF IsFirst
  <2> QED BY <2>3 DEF E
<1>7. 1 \in D /\ m <= n
  BY <1>1, <1>6
<1>8. ASSUME NEW j \in 1 .. m PROVE j \in D
  <2>1. CASE j = 1
    BY <1>7, <2>1
  <2>2. CASE j # 1
    <3>1. j - 1 \in Nat /\ 1 <= j - 1 /\ ~(m <= j - 1) /\ (j - 1) + 1 = j
      BY <1>6, <2>2
    <3>2. j - 1 \notin E
      BY <1>6, <3>1
    <3> HIDE DEF D
    <3> QED BY <3>1, <3>2
  <2> QED BY <2>1, <2>2
<1> DEFINE T == {k \in Nat : k \in m + 1 .. n => n < Walk[k]}
<1>9. ASSUME NEW k \in Nat, 0 .. k - 1 \subseteq T PROVE k \in T
  <2>1. SUFFICES ASSUME k \in m + 1 .. n PROVE n < Walk[k]
    OBVIOUS
  <2>2. k \in 1 .. n /\ Walk[k] \in Nat
    BY <1>1, <1>6, <2>1
  <2>3. CASE k = m + 1
    BY <1>6, <2>2, <2>3
  <2>4. CASE k # m + 1
    <3>1. /\ k - 1 \in 0 .. k - 1 /\ k - 1 \in m + 1 .. n /\ k - 1 \in 1 .. n - 1
          /\ k - 1 \in 1 .. n /\ (k - 1) + 1 = k
      BY <1>6, <2>1, <2>4
    <3>2. n < Walk[k - 1]
      BY <1>9, <3>1
    <3>3. Walk[k - 1] < Walk[k]
      BY <1>3, <3>1
    <3>4. Walk[k - 1] \in Nat
      BY <1>1, <3>1
    <3> QED BY <2>2, <3>2, <3>3, <3>4
  <2> QED BY <2>3, <2>4
<1>10. \A k \in m + 1 .. n : n < Walk[k]
  <2> HIDE DEF T
  <2>1. Nat \subseteq T
    BY <1>9, Induction
  <2> QED BY <1>6, <2>1 DEF T
<1>11. D = 1 .. m
  <2>1. ASSUME NEW k \in D PROVE k \in 1 .. m
    <3>1. k \in 1 .. n /\ Walk[k] <= n /\ Walk[k] \in Nat
      BY <1>1
    <3>2. k \notin m + 1 .. n
      BY <1>10, <3>1
    <3> QED BY <1>6, <3>1, <3>2
  <2> QED BY <1>8, <2>1
<1>12. m \in 1 .. n
  BY <1>6, <1>7
<1>13. Walk[m] + Stride(Walk[m]) = n + 1
  <2>1. Walk[m] \in Nat /\ Walk[m] <= n /\ m <= Walk[m]
    BY <1>1, <1>5, <1>11, <1>12
  <2>2. Stride(Walk[m]) \in {1, 2} /\ (Stride(Walk[m]) = 2 => Walk[m] \in 1 .. n - 1)
    BY <1>2, <2>1
  <2>3. CASE m = n
    BY <2>1, <2>2, <2>3
  <2>4. CASE m # n
    <3>1. m \in 1 .. n - 1 /\ m + 1 \in m + 1 .. n
      BY <1>12, <2>4
    <3>2. n < Walk[m] + Stride(Walk[m])
      BY <1>3, <1>10, <3>1
    <3> QED BY <2>1, <2>2, <3>2
  <2> QED BY <2>3, <2>4
<1>14. /\ Starts \in [1 .. m -> 1 .. n] /\ \A k \in 1 .. m : Starts[k] = Walk[k]
  <2>1. Starts = [k \in D |-> Walk[k]]
    BY DEF Starts
  <2>2. \A k \in D : Walk[k] \in 1 .. n
    BY <1>1, <1>5
  <2> HIDE DEF D
  <2> QED BY <1>11, <2>1, <2>2
<1>15. IsWalk(Starts, m, n)
  <2>1. \A k \in 1 .. m - 1 : k \in 1 .. n - 1 /\ k \in 1 .. m /\ k + 1 \in 1 .. m
    BY <1>12
  <2>2. \A k \in 1 .. m - 1 : Starts[k + 1] = Starts[k] + Stride(Starts[k])
    BY <1>3, <1>14, <2>1
  <2>3. m \in 1 .. m /\ 1 \in 1 .. m
    BY <1>12
  <2> QED BY <1>1, <1>12, <1>13, <1>14, <2>2, <2>3 DEF IsWalk
<1> QED BY <1>12, <1>15
-----------------------------------------------------------------------------
(* What a pass starts from: a walk over a word whose cached ranks are those *)
(* of the table, min the lowest of them.                                   *)
Passing(st, m, n) ==
    /\ IsWalk(st, m, n) /\ IsTable(merges)
    /\ tokens \in Seq(Token) /\ Len(tokens) = n
    /\ \A k \in 1 .. n - 1 : ranks[k] = RankAt(merges, tokens, k) /\ ranks[k] \in Nat
    /\ min \in Nat /\ min # NoRank /\ \A k \in 1 .. n - 1 : min <= ranks[k]

(* What a pass writes.                                                     *)
Writes(st, m, w) ==
    /\ w \in Seq(Token) /\ Len(w) = m
    /\ \A k \in 1 .. m : w[k] = IF Hit(st[k]) THEN Target(merges, tokens[st[k]], tokens[st[k] + 1])
                                ELSE tokens[st[k]]

LEMMA Applying ==
  ASSUME NEW st, NEW m, NEW n, Passing(st, m, n)
  PROVE  Writes(st, m, Applied(st))
<1>1. /\ n \in Nat /\ m \in 1 .. n /\ st \in [1 .. m -> 1 .. n] /\ DOMAIN ranks = 1 .. n - 1
      /\ IsTable(merges) /\ tokens \in Seq(Token) /\ Len(tokens) = n /\ min # NoRank
      /\ \A k \in 1 .. n - 1 : ranks[k] = RankAt(merges, tokens, k)
  BY DEF Passing, IsWalk
<1>2. ASSUME NEW k \in 1 .. m
      PROVE  (IF Hit(st[k]) THEN Target(merges, tokens[st[k]], tokens[st[k] + 1])
              ELSE tokens[st[k]]) \in Token
  <2>1. st[k] \in 1 .. n /\ tokens[st[k]] \in Token
    BY <1>1, ElementOfSeq
  <2>2. CASE Hit(st[k])
    <3>1. RankAt(merges, tokens, st[k]) # NoRank
      BY <1>1, <2>2 DEF Hit
    <3> QED BY <1>1, <2>2, <3>1, RankOfPair DEF RankAt
  <2> QED BY <2>1, <2>2
<1>3. PICK w : w = Applied(st)
  OBVIOUS
<1>4. w \in [1 .. m -> Token] /\ \A k \in 1 .. m :
         w[k] = IF Hit(st[k]) THEN Target(merges, tokens[st[k]], tokens[st[k] + 1])
                ELSE tokens[st[k]]
  <2>1. DOMAIN st = 1 .. m
    BY <1>1
  <2> QED BY <1>2, <1>3, <2>1 DEF Applied
<1>5. w \in Seq(Token) /\ Len(w) = m
  <2>1. m \in Nat
    BY <1>1
  <2>2. w \in Seq(Token)
    BY <1>4, <2>1, SeqDef
  <2> QED BY <1>4, <2>1, <2>2, LenProperties
<1> QED BY <1>3, <1>4, <1>5 DEF Writes

(* Two copied tokens were neighbours before: every rank is the table's.    *)
LEMMA Rebuilding ==
  ASSUME NEW st, NEW m, NEW n, Passing(st, m, n), tokens' = Applied(st)
  PROVE  Rebuilt(st) = [k \in 1 .. m - 1 |-> RankAt(merges, tokens', k)]
<1>1. /\ n \in Nat /\ m \in 1 .. n /\ st \in [1 .. m -> 1 .. n] /\ DOMAIN ranks = 1 .. n - 1
      /\ \A k \in 1 .. m - 1 : st[k + 1] = st[k] + Stride(st[k])
      /\ \A k \in 1 .. n - 1 : ranks[k] = RankAt(merges, tokens, k)
  BY DEF Passing, IsWalk
<1>2. Writes(st, m, tokens')
  BY Applying
<1>3. Len(st) = m
  <2>1. m \in Nat
    BY <1>1
  <2>2. st \in Seq(1 .. n)
    BY <1>1, <2>1, SeqDef
  <2> QED BY <1>1, <2>1, <2>2, LenProperties
<1>4. ASSUME NEW k \in 1 .. m - 1, BothCopied(st, k)
      PROVE  ranks[st[k]] = RankAt(merges, tokens', k)
  <2>1. /\ k \in 1 .. m /\ k + 1 \in 1 .. m /\ ~Hit(st[k]) /\ ~Hit(st[k + 1])
    BY <1>1, <1>4 DEF BothCopied
  <2>2. /\ st[k] \in 1 .. n /\ st[k + 1] \in 1 .. n /\ st[k + 1] = st[k] + 1
    BY <1>1, <2>1 DEF Stride
  <2>3. st[k] \in 1 .. n - 1
    BY <1>1, <2>2
  <2>4. tokens'[k] = tokens[st[k]] /\ tokens'[k + 1] = tokens[st[k] + 1]
    BY <1>2, <2>1, <2>2 DEF Writes
  <2> QED BY <1>1, <2>3, <2>4 DEF RankAt
<1> QED BY <1>3, <1>4 DEF Rebuilt

-----------------------------------------------------------------------------
(* The word on the way: j tokens written, the rest still as it was.        *)
RestAt(st, j) == IF j = 0 THEN 1 ELSE st[j] + Stride(st[j])

OnTheWay(st, j) ==
    [k \in 1 .. j + (Len(tokens) + 1 - RestAt(st, j)) |->
        IF k <= j THEN Applied(st)[k] ELSE tokens[RestAt(st, j) + (k - j - 1)]]

IsOnTheWay(st, j, n, w, s) ==
    /\ w \in Seq(Token) /\ Len(w) = j + (n + 1 - s)
    /\ \A k \in 1 .. j + (n + 1 - s) :
          w[k] = IF k <= j THEN Applied(st)[k] ELSE tokens[s + (k - j - 1)]

LEMMA RestAfter ==
  ASSUME NEW st, NEW m, NEW n, IsWalk(st, m, n)
  PROVE  /\ RestAt(st, 0) = 1 /\ RestAt(st, m) = n + 1
         /\ \A j \in 0 .. m - 1 : /\ RestAt(st, j) = st[j + 1]
                                  /\ RestAt(st, j + 1) = st[j + 1] + Stride(st[j + 1])
         /\ \A j \in 0 .. m : RestAt(st, j) \in 1 .. n + 1
<1>1. /\ n \in Nat /\ m \in 1 .. n /\ st \in [1 .. m -> 1 .. n] /\ st[1] = 1
      /\ \A k \in 1 .. m - 1 : st[k + 1] = st[k] + Stride(st[k])
      /\ st[m] + Stride(st[m]) = n + 1
  BY DEF IsWalk
<1>2. RestAt(st, 0) = 1 /\ RestAt(st, m) = n + 1
  BY <1>1 DEF RestAt
<1>3. ASSUME NEW j \in 0 .. m - 1
      PROVE  /\ RestAt(st, j) = st[j + 1]
             /\ RestAt(st, j + 1) = st[j + 1] + Stride(st[j + 1])
             /\ RestAt(st, j) \in 1 .. n + 1
  <2>1. j + 1 # 0 /\ j + 1 \in 1 .. m /\ (j # 0 => j \in 1 .. m - 1)
    BY <1>1
  <2> QED BY <1>1, <2>1 DEF RestAt
<1>4. ASSUME NEW j \in 0 .. m PROVE RestAt(st, j) \in 1 .. n + 1
  <2>1. CASE j = m
    BY <1>1, <1>2, <2>1
  <2>2. CASE j # m
    <3>1. j \in 0 .. m - 1
      BY <1>1, <2>2
    <3> QED BY <1>3, <3>1
  <2> QED BY <2>1, <2>2
<1> QED BY <1>2, <1>3, <1>4

LEMMA WayOf ==
  ASSUME NEW st, NEW m, NEW n, Passing(st, m, n), NEW j \in 0 .. m
  PROVE  IsOnTheWay(st, j, n, OnTheWay(st, j), RestAt(st, j))
<1>1. /\ n \in Nat /\ m \in 1 .. n /\ tokens \in Seq(Token) /\ Len(tokens) = n
      /\ IsWalk(st, m, n)
  BY DEF Passing, IsWalk
<1>2. PICK s, w, l : s = RestAt(st, j) /\ w = OnTheWay(st, j) /\ l = j + (n + 1 - s)
  OBVIOUS
<1>3. s \in 1 .. n + 1 /\ j \in Nat /\ l \in Nat
  <2>1. s \in 1 .. n + 1
    BY <1>1, <1>2, RestAfter
  <2> QED BY <1>1, <1>2, <2>1
<1>4. \A k \in 1 .. m : Applied(st)[k] \in Token
  <2>1. PICK a : a = Applied(st)
    OBVIOUS
  <2>2. a \in Seq(Token) /\ Len(a) = m
    BY <2>1, Applying DEF Writes
  <2> QED BY <2>1, <2>2, ElementOfSeq
<1>5. ASSUME NEW k \in 1 .. l
      PROVE  (IF k <= j THEN Applied(st)[k] ELSE tokens[s + (k - j - 1)]) \in Token
  <2>1. CASE k <= j
    <3>1. k \in 1 .. m
      BY <1>1, <1>3, <2>1
    <3> QED BY <1>4, <2>1, <3>1
  <2>2. CASE ~(k <= j)
    <3>1. s + (k - j - 1) \in 1 .. n
      BY <1>1, <1>2, <1>3, <2>2
    <3> QED BY <1>1, <2>2, <3>1, ElementOfSeq
  <2> QED BY <2>1, <2>2
<1>6. w = [k \in 1 .. l |-> IF k <= j THEN Applied(st)[k] ELSE tokens[s + (k - j - 1)]]
  BY <1>1, <1>2 DEF OnTheWay
<1>7. w \in [1 .. l -> Token]
  BY <1>5, <1>6
<1>8. w \in Seq(Token) /\ Len(w) = l
  <2>1. w \in Seq(Token)
    BY <1>3, <1>7, SeqDef
  <2> QED BY <1>3, <1>7, <2>1, LenProperties
<1>9. \A k \in 1 .. l : w[k] = IF k <= j THEN Applied(st)[k] ELSE tokens[s + (k - j - 1)]
  BY <1>6
<1> QED BY <1>2, <1>8, <1>9 DEF IsOnTheWay
-----------------------------------------------------------------------------
(* On the way the word stays one that canonical BPE passes through, and the *)
(* pairs it leaves behind are higher than the lowest.                      *)
OnCourse(st, j) ==
    LET w == OnTheWay(st, j) IN
    /\ Canonical(merges, w) = Canonical(merges, tokens)
    /\ \A k \in 1 .. Len(w) - 1 :
          /\ min <= RankAt(merges, w, k)
          /\ k <= j => min < RankAt(merges, w, k)

(* A token is copied: the word is the same.                                *)
LEMMA CopiedOn ==
  ASSUME NEW st, NEW m, NEW n, Passing(st, m, n), NEW j \in 0 .. m - 1, OnCourse(st, j),
         ~Hit(st[j + 1])
  PROVE  OnCourse(st, j + 1)
<1>1. PICK s, w, v : s = st[j + 1] /\ w = OnTheWay(st, j) /\ v = OnTheWay(st, j + 1)
  OBVIOUS
<1>2. /\ n \in Nat /\ m \in 1 .. n /\ tokens \in Seq(Token) /\ Len(tokens) = n
      /\ IsWalk(st, m, n) /\ st \in [1 .. m -> 1 .. n] /\ DOMAIN ranks = 1 .. n - 1
      /\ \A k \in 1 .. n - 1 : ranks[k] = RankAt(merges, tokens, k) /\ ranks[k] \in Nat
                               /\ min <= ranks[k]
      /\ min \in Nat
  BY DEF Passing, IsWalk
<1>3. /\ j \in Nat /\ j \in 0 .. m /\ j + 1 \in 0 .. m /\ j + 1 \in 1 .. m /\ s \in 1 .. n
      /\ s \in Nat /\ 1 <= s /\ s <= n
      /\ RestAt(st, j) = s /\ RestAt(st, j + 1) = s + 1
  <2>1. j \in Nat /\ j \in 0 .. m /\ j + 1 \in 0 .. m /\ j + 1 \in 1 .. m
    BY <1>2
  <2>2. s \in 1 .. n
    BY <1>1, <1>2, <2>1
  <2>3. RestAt(st, j) = s /\ RestAt(st, j + 1) = s + Stride(s)
    BY <1>1, <1>2, RestAfter
  <2>4. Stride(s) = 1
    BY <1>1 DEF Stride
  <2> QED BY <1>2, <2>1, <2>2, <2>3, <2>4
<1>4. IsOnTheWay(st, j, n, w, s) /\ IsOnTheWay(st, j + 1, n, v, s + 1)
  BY <1>1, <1>3, WayOf
<1>5. PICK l : l = j + (n + 1 - s)
  OBVIOUS
<1>6. l \in Nat /\ (j + 1) + (n + 1 - (s + 1)) = l /\ j + 1 <= l
  BY <1>2, <1>3, <1>5
<1>7. /\ w \in Seq(Token) /\ Len(w) = l /\ v \in Seq(Token) /\ Len(v) = l
      /\ \A k \in 1 .. l : w[k] = IF k <= j THEN Applied(st)[k] ELSE tokens[s + (k - j - 1)]
      /\ \A k \in 1 .. l : v[k] = IF k <= j + 1 THEN Applied(st)[k]
                                  ELSE tokens[(s + 1) + (k - (j + 1) - 1)]
  BY <1>4, <1>5, <1>6 DEF IsOnTheWay
<1>8. Applied(st)[j + 1] = tokens[s]
  <2>1. PICK a : a = Applied(st)
    OBVIOUS
  <2>2. Writes(st, m, a)
    BY <2>1, Applying
  <2> QED BY <1>1, <1>3, <2>1, <2>2 DEF Writes
<1>9. ASSUME NEW k \in 1 .. l PROVE v[k] = w[k]
  <2>1. CASE k <= j
    <3>1. k <= j + 1
      BY <1>3, <2>1
    <3> QED BY <1>7, <2>1, <3>1
  <2>2. CASE k = j + 1
    <3>1. ~(k <= j) /\ k <= j + 1 /\ s + (k - j - 1) = s
      BY <1>3, <2>2
    <3> QED BY <1>7, <1>8, <2>2, <3>1
  <2>3. CASE k > j + 1
    <3>1. ~(k <= j) /\ ~(k <= j + 1) /\ (s + 1) + (k - (j + 1) - 1) = s + (k - j - 1)
      BY <1>3, <2>3
    <3> QED BY <1>7, <3>1
  <2> QED BY <1>3, <2>1, <2>2, <2>3
<1>10. v = w
  BY <1>7, <1>9, SeqEqual
<1>11. ASSUME NEW k \in 1 .. l - 1, k <= j + 1 PROVE min < RankAt(merges, w, k)
  <2>1. CASE k <= j
    BY <1>1, <1>7, <2>1 DEF OnCourse
  <2>2. CASE k = j + 1
    <3>1. k \in 1 .. l /\ k + 1 \in 1 .. l /\ s \in 1 .. n - 1
          /\ ~(k <= j) /\ ~(k + 1 <= j) /\ s + (k - j - 1) = s /\ s + ((k + 1) - j - 1) = s + 1
      BY <1>2, <1>3, <1>5, <1>6, <2>2
    <3>2. w[k] = tokens[s] /\ w[k + 1] = tokens[s + 1]
      <4>1. \A q \in 1 .. l : ~(q <= j) => w[q] = tokens[s + (q - j - 1)]
        BY <1>7
      <4> QED BY <3>1, <4>1
    <3>3. RankAt(merges, w, k) = ranks[s]
      BY <1>2, <3>1, <3>2 DEF RankAt
    <3>4. ranks[s] # min
      BY <1>1, <1>2, <3>1 DEF Hit
    <3> QED BY <1>2, <3>1, <3>3, <3>4
  <2> QED BY <1>3, <1>11, <2>1, <2>2
<1> QED BY <1>1, <1>7, <1>10, <1>11 DEF OnCourse

(* A pair is merged: canonical BPE merges it next.                         *)
LEMMA MergedOn ==
  ASSUME NEW st, NEW m, NEW n, Passing(st, m, n), Monotonic(merges),
         NEW j \in 0 .. m - 1, OnCourse(st, j), Hit(st[j + 1])
  PROVE  OnCourse(st, j + 1)
<1>1. PICK s, w, v, i : s = st[j + 1] /\ w = OnTheWay(st, j) /\ v = OnTheWay(st, j + 1)
                        /\ i = j + 1
  OBVIOUS
<1>2. /\ n \in Nat /\ m \in 1 .. n /\ tokens \in Seq(Token) /\ Len(tokens) = n
      /\ IsWalk(st, m, n) /\ st \in [1 .. m -> 1 .. n] /\ DOMAIN ranks = 1 .. n - 1
      /\ \A k \in 1 .. n - 1 : ranks[k] = RankAt(merges, tokens, k)
      /\ min \in Nat /\ min # NoRank /\ IsTable(merges)
  BY DEF Passing, IsWalk
<1>3. /\ j \in Nat /\ j \in 0 .. m /\ i \in 0 .. m /\ i \in 1 .. m
      /\ s \in Nat /\ 1 <= s /\ s <= n - 1
      /\ RestAt(st, j) = s /\ RestAt(st, i) = s + 2
  <2>1. j \in Nat /\ j \in 0 .. m /\ i \in 0 .. m /\ i \in 1 .. m
    BY <1>1, <1>2
  <2>2. s \in 1 .. n - 1
    BY <1>1, <1>2 DEF Hit
  <2>3. RestAt(st, j) = s /\ RestAt(st, i) = s + Stride(s)
    BY <1>1, <1>2, RestAfter
  <2>4. Stride(s) = 2
    BY <1>1 DEF Stride
  <2> QED BY <1>2, <2>1, <2>2, <2>3, <2>4
<1>4. IsOnTheWay(st, j, n, w, s) /\ IsOnTheWay(st, i, n, v, s + 2)
  BY <1>1, <1>3, WayOf
<1>5. PICK l : l = j + (n + 1 - s)
  OBVIOUS
<1>6. l \in Nat /\ i + (n + 1 - (s + 2)) = l - 1 /\ i + 1 <= l
  <2>1. i = j + 1 /\ j \in Nat /\ s \in Nat /\ n \in Nat /\ s <= n - 1 /\ l = j + (n + 1 - s)
    BY <1>1, <1>2, <1>3, <1>5
  <2>2. PICK e : e = n - 1 - s
    OBVIOUS
  <2>3. e \in Nat /\ l = j + e + 2 /\ n + 1 - (s + 2) = e
    BY <2>1, <2>2
  <2> QED BY <2>1, <2>3
<1>7. /\ w \in Seq(Token) /\ Len(w) = l /\ v \in Seq(Token) /\ Len(v) = l - 1
      /\ \A k \in 1 .. l : w[k] = IF k <= j THEN Applied(st)[k] ELSE tokens[s + (k - j - 1)]
      /\ \A k \in 1 .. l - 1 : v[k] = IF k <= i THEN Applied(st)[k]
                                      ELSE tokens[(s + 2) + (k - i - 1)]
  BY <1>4, <1>5, <1>6 DEF IsOnTheWay
<1>8. w[i] = tokens[s] /\ w[i + 1] = tokens[s + 1]
  <2>1. /\ ~(i <= j) /\ ~(i + 1 <= j) /\ s + (i - j - 1) = s /\ s + ((i + 1) - j - 1) = s + 1
        /\ i \in 1 .. l /\ i + 1 \in 1 .. l
    BY <1>1, <1>3, <1>6
  <2> QED BY <1>7, <2>1
<1>9. RankAt(merges, w, i) = min
  <2>1. s \in 1 .. n - 1 /\ ranks[s] = min
    BY <1>1, <1>2 DEF Hit
  <2> QED BY <1>2, <1>8, <2>1 DEF RankAt
<1>10. Applied(st)[i] = Target(merges, w[i], w[i + 1])
  <2>1. PICK a : a = Applied(st)
    OBVIOUS
  <2>2. Writes(st, m, a)
    BY <2>1, Applying
  <2> QED BY <1>1, <1>3, <1>8, <2>1, <2>2 DEF Writes
<1>11. IsFolded(merges, w, i, v)
  <2>1. ASSUME NEW k \in 1 .. l - 1
        PROVE  v[k] = IF k < i THEN w[k] ELSE IF k = i THEN Target(merges, w[i], w[i + 1])
                      ELSE w[k + 1]
    <3>0. k \in 1 .. l /\ k + 1 \in 1 .. l /\ k \in Nat
      BY <1>6
    <3>1. CASE k < i
      <4>1. k <= j /\ k <= i
        BY <1>1, <1>3, <3>0, <3>1
      <4> QED BY <1>7, <3>0, <3>1, <4>1
    <3>2. CASE k = i
      <4>1. k <= i /\ ~(k < i)
        BY <1>3, <3>2
      <4> QED BY <1>7, <1>10, <3>2, <4>1
    <3>3. CASE k > i
      <4>1. /\ ~(k <= i) /\ ~(k < i) /\ k # i /\ ~(k + 1 <= j)
            /\ (s + 2) + (k - i - 1) = s + ((k + 1) - j - 1)
        BY <1>1, <1>3, <3>0, <3>3
      <4> QED BY <1>7, <3>0, <4>1
    <3> QED BY <1>3, <3>0, <3>1, <3>2, <3>3
  <2> QED BY <1>7, <2>1 DEF IsFolded
<1>12. Mergeable(merges, w, i)
  <2>1. i \in 1 .. l - 1
    BY <1>3, <1>6
  <2> QED BY <1>2, <1>7, <1>9, <2>1 DEF Mergeable
<1>13. IsLowest(merges, w, i)
  <2>1. ASSUME NEW k \in 1 .. Len(w) - 1
        PROVE  Precedes(<<min, i>>, <<RankAt(merges, w, k), k>>)
    <3>1. /\ min <= RankAt(merges, w, k) /\ (k <= j => min < RankAt(merges, w, k))
      BY <1>1 DEF OnCourse
    <3>2. RankAt(merges, w, k) \in Nat
      BY <1>2, RankOfPair DEF RankAt, IsTable
    <3>3. k <= j \/ i <= k
      BY <1>1, <1>3, <1>6, <1>7
    <3> QED BY <1>2, <3>1, <3>2, <3>3 DEF Precedes
  <2> QED BY <1>9, <1>12, <2>1 DEF IsLowest, Candidates
<1>14. v = FoldAt(merges, w, i)
  <2>1. PICK f : f = FoldAt(merges, w, i)
    OBVIOUS
  <2>2. IsFolded(merges, w, i, f)
    BY <1>2, <1>7, <1>12, <2>1, Folded
  <2> QED BY <1>11, <2>1, <2>2, SeqEqual DEF IsFolded
<1>15. Canonical(merges, w) = Canonical(merges, v)
  BY <1>2, <1>7, <1>13, <1>14, CanonicalUnfolds
<1>16. \A k \in 1 .. Len(v) - 1 : /\ min <= RankAt(merges, v, k)
                                  /\ k <= i => min < RankAt(merges, v, k)
  <2>1. IsTable(merges) /\ w \in Seq(Token)
    BY <1>2, <1>7
  <2> QED BY <1>9, <1>11, <1>13, <2>1, RanksRise
<1> QED BY <1>1, <1>15, <1>16 DEF OnCourse
(* A whole pass: canonical BPE reaches the word it writes, and no pair of   *)
(* that word is lower than those it merged.                                *)
LEMMA Passed ==
  ASSUME NEW st, NEW m, NEW n, Passing(st, m, n), Monotonic(merges)
  PROVE  /\ Canonical(merges, Applied(st)) = Canonical(merges, tokens)
         /\ \A k \in 1 .. m - 1 : min <= RankAt(merges, Applied(st), k)
<1>1. /\ n \in Nat /\ m \in 1 .. n /\ m \in Nat /\ 1 <= m
      /\ tokens \in Seq(Token) /\ Len(tokens) = n /\ IsWalk(st, m, n)
      /\ \A k \in 1 .. n - 1 : ranks[k] = RankAt(merges, tokens, k) /\ min <= ranks[k]
  BY DEF Passing, IsWalk
<1> DEFINE S == {j \in Nat : j \in 0 .. m => OnCourse(st, j)}
<1>2. OnCourse(st, 0)
  <2>1. PICK w, z : w = OnTheWay(st, 0) /\ z = 0
    OBVIOUS
  <2>2. RestAt(st, z) = 1 /\ z \in 0 .. m
    BY <1>1, <2>1, RestAfter
  <2>3. IsOnTheWay(st, z, n, w, 1)
    BY <2>1, <2>2, WayOf
  <2>4. w \in Seq(Token) /\ Len(w) = n /\ \A k \in 1 .. n : w[k] = tokens[k]
    <3>1. z + (n + 1 - 1) = n /\ \A k \in 1 .. n : ~(k <= z) /\ 1 + (k - z - 1) = k
      BY <1>1, <2>1
    <3>2. /\ w \in Seq(Token) /\ Len(w) = n
          /\ \A k \in 1 .. n : w[k] = IF k <= z THEN Applied(st)[k] ELSE tokens[1 + (k - z - 1)]
      BY <2>3, <3>1 DEF IsOnTheWay
    <3> QED BY <3>1, <3>2
  <2>5. w = tokens
    BY <1>1, <2>4, SeqEqual
  <2>6. \A k \in 1 .. n - 1 : ~(k <= 0)
    BY <1>1
  <2> QED BY <1>1, <2>1, <2>5, <2>6 DEF OnCourse
<1>3. ASSUME NEW j \in Nat, 0 .. j - 1 \subseteq S PROVE j \in S
  <2>1. SUFFICES ASSUME j \in 0 .. m, j # 0 PROVE OnCourse(st, j)
    BY <1>2
  <2>2. PICK i : i = j - 1
    OBVIOUS
  <2>3. i \in 0 .. j - 1 /\ i \in 0 .. m - 1 /\ i \in 0 .. m /\ i + 1 = j
    BY <1>1, <2>1, <2>2
  <2>4. OnCourse(st, i)
    BY <1>3, <2>3
  <2>5. OnCourse(st, i + 1)
    BY <2>3, <2>4, CopiedOn, MergedOn
  <2> QED BY <2>3, <2>5
<1>4. OnCourse(st, m)
  <2> HIDE DEF S
  <2>1. Nat \subseteq S
    BY <1>3, Induction
  <2>2. m \in S /\ m \in 0 .. m
    BY <1>1, <2>1
  <2> QED BY <2>2 DEF S
<1>5. OnTheWay(st, m) = Applied(st) /\ Len(Applied(st)) = m
  <2>1. PICK w, a : w = OnTheWay(st, m) /\ a = Applied(st)
    OBVIOUS
  <2>2. RestAt(st, m) = n + 1 /\ m \in 0 .. m
    BY <1>1, RestAfter
  <2>3. IsOnTheWay(st, m, n, w, n + 1)
    BY <2>1, <2>2, WayOf
  <2>4. w \in Seq(Token) /\ Len(w) = m /\ \A k \in 1 .. m : w[k] = a[k]
    <3>1. m + (n + 1 - (n + 1)) = m /\ \A k \in 1 .. m : k <= m
      BY <1>1
    <3> QED BY <2>1, <2>3, <3>1 DEF IsOnTheWay
  <2>5. a \in Seq(Token) /\ Len(a) = m
    BY <2>1, Applying DEF Writes
  <2>6. w = a
    BY <2>4, <2>5, SeqEqual
  <2> QED BY <2>1, <2>5, <2>6
<1> QED BY <1>4, <1>5 DEF OnCourse

-----------------------------------------------------------------------------
LEMMA LowestIs ==
  ASSUME NEW r \in Seq(Nat), NoRank \in Nat
  PROVE  /\ LowestOf(r) \in Nat /\ LowestOf(r) <= NoRank
         /\ \A k \in DOMAIN r : LowestOf(r) <= r[k]
         /\ LowestOf(r) = NoRank \/ \E k \in DOMAIN r : LowestOf(r) = r[k]
<1> DEFINE all == {NoRank} \cup ToSet(r)
<1>1. ToSet(r) = {r[k] : k \in DOMAIN r} /\ ToSet(r) \subseteq Nat
  <2>1. DOMAIN r = 1 .. Len(r)
    BY LenProperties
  <2> QED BY <2>1, ElementOfSeq DEF ToSet
<1>2. \E x \in all : \A y \in all : x <= y
  <2>1. all \subseteq Nat /\ all # {}
    BY <1>1
  <2> HIDE DEF all
  <2> QED BY <2>1, LeastNatural DEF IsFirst
<1>3. LowestOf(r) \in all /\ \A y \in all : LowestOf(r) <= y
  <2>1. LowestOf(r) = CHOOSE x \in all : \A y \in all : x <= y
    BY DEF LowestOf, Min
  <2> HIDE DEF all
  <2> QED BY <1>2, <2>1
<1> QED BY <1>1, <1>3

(* The rank of a pair is that of a merge of the table, or NoRank.          *)
LEMMA RanksOf ==
  ASSUME IsTable(merges), NEW w \in Seq(Token), 1 <= Len(w)
  PROVE  /\ PairRanks(w) \in Seq(1 .. NoRank) /\ PairRanks(w) \in Seq(Nat)
         /\ Len(PairRanks(w)) + 1 = Len(w)
         /\ DOMAIN PairRanks(w) = 1 .. Len(w) - 1
         /\ \A k \in 1 .. Len(w) - 1 : PairRanks(w)[k] = RankAt(merges, w, k)
         /\ LowestOf(PairRanks(w)) \in 1 .. NoRank /\ NoRank \in Nat
<1>1. Len(w) \in Nat /\ Len(w) - 1 \in Nat
  BY LenProperties
<1>2. NoRank \in Nat /\ \A k : RankAt(merges, w, k) \in 1 .. NoRank
  BY RankOfPair DEF RankAt, IsTable
<1>3. PICK r : r = PairRanks(w)
  OBVIOUS
<1>4. /\ r \in [1 .. Len(w) - 1 -> 1 .. NoRank] /\ r \in [1 .. Len(w) - 1 -> Nat]
      /\ \A k \in 1 .. Len(w) - 1 : r[k] = RankAt(merges, w, k)
  BY <1>2, <1>3 DEF PairRanks
<1>5. r \in Seq(1 .. NoRank) /\ r \in Seq(Nat)
  <2>1. PICK n : n = Len(w) - 1
    OBVIOUS
  <2>2. n \in Nat /\ r \in [1 .. n -> 1 .. NoRank] /\ r \in [1 .. n -> Nat]
    BY <1>1, <1>4, <2>1
  <2>3. r \in Seq(1 .. NoRank)
    <3>1. PICK S : S = 1 .. NoRank
      OBVIOUS
    <3>2. n \in Nat /\ r \in [1 .. n -> S]
      BY <2>2, <3>1
    <3>3. r \in Seq(S)
      BY ONLY <3>2, SeqDef
    <3> QED BY <3>1, <3>3
  <2>4. r \in Seq(Nat)
    BY <2>2, SeqDef
  <2> QED BY <2>3, <2>4
<1>6. Len(r) = Len(w) - 1 /\ DOMAIN r = 1 .. Len(w) - 1
  <2>1. DOMAIN r = 1 .. Len(r) /\ Len(r) \in Nat /\ DOMAIN r = 1 .. Len(w) - 1
    BY <1>4, <1>5, LenProperties
  <2> QED BY <1>1, <2>1
<1>7. LowestOf(r) \in 1 .. NoRank
  <2>1. /\ LowestOf(r) \in Nat /\ LowestOf(r) <= NoRank
        /\ LowestOf(r) = NoRank \/ \E k \in DOMAIN r : LowestOf(r) = r[k]
    BY <1>2, <1>5, LowestIs
  <2>2. NoRank \in 1 .. NoRank
    <3>1. Len(merges) \in Nat /\ Len(merges) < NoRank
      BY LenProperties DEF IsTable
    <3> QED BY <1>2, <3>1
  <2> QED BY <1>4, <1>6, <2>1, <2>2
<1> QED BY <1>1, <1>2, <1>3, <1>4, <1>5, <1>6, <1>7
-----------------------------------------------------------------------------
(* What the loader and the encoder hand over: tables with fewer merges than *)
(* u32::MAX and chunks of token ids.                                        *)
Loadable ==
    /\ \A m \in Tables : IsTable(m)
    /\ Chunks \subseteq Seq(Token)

IInv == TypeOK /\ CacheFresh

(* On a monotonic table the engine never bailed, and what canonical BPE     *)
(* makes of the word is what it makes of the chunk.                         *)
OnCanonicalWay ==
    Monotonic(merges) =>
        /\ ok
        /\ engine = "batch" => Canonical(merges, tokens) = Canonical(merges, chunk)

IInvCanonical == IInv /\ OnCanonicalWay /\ MonotonicIsCanonical

(* A word without ranks is in normal form.                                 *)
LEMMA NothingLower ==
  ASSUME IsTable(merges), NEW w \in Seq(Token),
         \A k \in 1 .. Len(w) - 1 : RankAt(merges, w, k) = NoRank
  PROVE  Canonical(merges, w) = w
<1>1. NormalForm(merges, w)
  BY DEF NormalForm
<1> QED BY <1>1, CanonicalUnfolds

LEMMA InitIInv == ASSUME Loadable, Init PROVE IInvCanonical
<1>1. /\ merges \in Tables /\ engine = "idle" /\ tokens = <<>> /\ chunk = <<>>
      /\ ranks = <<>> /\ min = NoRank /\ ok = TRUE
  BY DEF Init
<1>2. IsTable(merges)
  BY <1>1 DEF Loadable
<1>3. NoRank \in 1 .. NoRank
  <2>1. Len(merges) \in Nat /\ NoRank \in Nat /\ Len(merges) < NoRank
    BY <1>2, LenProperties DEF IsTable
  <2> QED BY <2>1
<1>4. TypeOK /\ CacheFresh
  BY <1>1, <1>3 DEF TypeOK, CacheFresh
<1>5. OnCanonicalWay
  BY <1>1 DEF OnCanonicalWay
<1>6. MonotonicIsCanonical
  <2>1. tokens \in Seq(Token) /\ Len(tokens) = 0
    BY <1>1
  <2>2. 1 .. Len(tokens) - 1 = {}
    BY <2>1
  <2>3. Canonical(merges, tokens) = tokens
    BY <1>2, <2>1, <2>2, NothingLower
  <2> QED BY <1>1, <2>3 DEF MonotonicIsCanonical
<1> QED BY <1>4, <1>5, <1>6 DEF IInvCanonical, IInv

LEMMA TrivialKeeps ==
  ASSUME Loadable, IInvCanonical, NEW c \in Chunks, Trivial(c)
  PROVE  IInvCanonical'
<1>1. /\ engine = "idle" /\ Len(c) <= 1 /\ tokens' = c /\ chunk' = c /\ ok' = TRUE
      /\ merges' = merges /\ engine' = engine /\ ranks' = ranks /\ min' = min
  BY DEF Trivial
<1>2. /\ merges \in Tables /\ IsTable(merges) /\ c \in Seq(Token)
      /\ ranks \in Seq(1 .. NoRank) /\ min \in 1 .. NoRank
  BY DEF IInvCanonical, IInv, TypeOK, Loadable
<1>3. TypeOK' /\ CacheFresh'
  BY <1>1, <1>2 DEF TypeOK, CacheFresh
<1>4. Canonical(merges, c) = c
  <2>1. Len(c) \in Nat
    BY <1>2, LenProperties
  <2>2. 1 .. Len(c) - 1 = {}
    BY <1>1, <2>1
  <2> QED BY <1>2, <2>2, NothingLower
<1> QED BY <1>1, <1>3, <1>4 DEF IInvCanonical, IInv, OnCanonicalWay, MonotonicIsCanonical

(* Starting on a chunk, whatever the buffers hold.                         *)
LEMMA Begun ==
  ASSUME Loadable, merges \in Tables, ok \in BOOLEAN, Monotonic(merges) => ok,
         NEW c \in Seq(Token), Begin(c)
  PROVE  IInvCanonical'
<1>1. /\ engine = "idle" /\ Len(c) > 1 /\ engine' = "batch" /\ tokens' = c /\ chunk' = c
      /\ ranks' = PairRanks(c) /\ min' = LowestOf(PairRanks(c)) /\ merges' = merges /\ ok' = ok
  BY DEF Begin
<1>2. IsTable(merges) /\ Len(c) \in Nat
  BY LenProperties DEF Loadable
<1>3. /\ PairRanks(c) \in Seq(1 .. NoRank) /\ Len(PairRanks(c)) + 1 = Len(c)
      /\ LowestOf(PairRanks(c)) \in 1 .. NoRank
  BY <1>1, <1>2, RanksOf
<1>4. TypeOK'
  BY <1>1, <1>2, <1>3 DEF TypeOK
<1>5. CacheFresh'
  BY <1>1 DEF CacheFresh, PairRanks, LowestOf
<1> QED BY <1>1, <1>4, <1>5 DEF IInvCanonical, IInv, OnCanonicalWay, MonotonicIsCanonical

LEMMA BeginKeeps ==
  ASSUME Loadable, IInvCanonical, NEW c \in Chunks, Begin(c)
  PROVE  IInvCanonical'
<1>1. engine = "idle" /\ merges \in Tables /\ ok \in BOOLEAN /\ c \in Seq(Token)
  BY DEF Begin, IInvCanonical, IInv, TypeOK, Loadable
<1>2. Monotonic(merges) => ok
  BY DEF IInvCanonical, OnCanonicalWay
<1> QED BY <1>1, <1>2, Begun

(* The state a pass starts from.                                           *)
LEMMA PassStarts ==
  ASSUME Loadable, IInvCanonical, engine = "batch"
  PROVE  /\ IsTable(merges) /\ NoRank \in Nat /\ min \in 1 .. NoRank
         /\ tokens \in Seq(Token) /\ Len(tokens) \in Nat /\ 1 <= Len(tokens)
         /\ min # NoRank => \E m \in 1 .. Len(tokens) : Passing(Starts, m, Len(tokens))
         /\ min = NoRank => \A k \in 1 .. Len(tokens) - 1 : RankAt(merges, tokens, k) = NoRank
<1>1. /\ merges \in Tables /\ IsTable(merges) /\ tokens \in Seq(Token)
      /\ ranks \in Seq(1 .. NoRank) /\ Len(ranks) + 1 = Len(tokens)
      /\ ranks = PairRanks(tokens) /\ min = LowestOf(ranks) /\ min \in 1 .. NoRank
  BY DEF IInvCanonical, IInv, TypeOK, CacheFresh, Loadable
<1>2. Len(tokens) \in Nat /\ 1 <= Len(tokens)
  <2>1. Len(ranks) \in Nat /\ Len(tokens) \in Nat
    BY <1>1, LenProperties
  <2> QED BY <1>1, <2>1
<1>3. /\ ranks \in Seq(Nat) /\ DOMAIN ranks = 1 .. Len(tokens) - 1 /\ NoRank \in Nat
      /\ \A k \in 1 .. Len(tokens) - 1 : ranks[k] = RankAt(merges, tokens, k)
  BY <1>1, <1>2, RanksOf
<1>4. /\ min \in Nat
      /\ \A k \in 1 .. Len(tokens) - 1 : min <= ranks[k]
  BY <1>1, <1>3, LowestIs
<1>5. \A k \in 1 .. Len(tokens) - 1 : ranks[k] \in 1 .. NoRank /\ ranks[k] \in Nat
  <2>1. \A k \in 1 .. Len(ranks) : ranks[k] \in 1 .. NoRank
    BY <1>1, ElementOfSeq
  <2>2. DOMAIN ranks = 1 .. Len(ranks)
    BY <1>1, LenProperties
  <2> QED BY <1>3, <2>1, <2>2
<1>6. ASSUME min # NoRank
      PROVE  \E m \in 1 .. Len(tokens) : Passing(Starts, m, Len(tokens))
  <2>1. PICK n : n = Len(tokens)
    OBVIOUS
  <2>2. PICK m \in 1 .. n : IsWalk(Starts, m, n)
    BY <1>2, <1>3, <2>1, StartsAre
  <2>3. Passing(Starts, m, n)
    BY <1>1, <1>3, <1>4, <1>5, <1>6, <2>1, <2>2 DEF Passing
  <2> QED BY <2>1, <2>3
<1>7. ASSUME min = NoRank, NEW k \in 1 .. Len(tokens) - 1
      PROVE  RankAt(merges, tokens, k) = NoRank
  <2>1. ranks[k] \in Nat /\ ranks[k] <= NoRank /\ NoRank <= ranks[k]
    BY <1>3, <1>4, <1>5, <1>7
  <2> QED BY <1>3, <2>1
<1> QED BY <1>1, <1>2, <1>3, <1>6, <1>7

LEMMA PassKeeps ==
  ASSUME Loadable, IInvCanonical, Pass
  PROVE  IInvCanonical'
<1>1. PICK n, st : n = Len(tokens) /\ st = Starts
  OBVIOUS
<1>2. /\ engine = "batch" /\ min # NoRank /\ tokens' = Applied(st) /\ ranks' = Rebuilt(st)
      /\ min' = LowestOf(ranks') /\ merges' = merges /\ chunk' = chunk
      /\ IF min' < min THEN engine' = "idle" /\ ok' = FALSE ELSE engine' = engine /\ ok' = ok
  BY <1>1 DEF Pass
<1>3. /\ IsTable(merges) /\ NoRank \in Nat /\ min \in 1 .. NoRank /\ tokens \in Seq(Token)
  BY <1>2, PassStarts
<1>4. PICK m \in 1 .. n : Passing(st, m, n)
  BY <1>1, <1>2, PassStarts
<1>5. m \in Nat /\ 1 <= m
  BY <1>4 DEF Passing, IsWalk
<1>6. tokens' \in Seq(Token) /\ Len(tokens') = m
  <2>1. PICK a : a = Applied(st)
    OBVIOUS
  <2>2. Writes(st, m, a)
    BY <1>4, <2>1, Applying
  <2> QED BY <1>2, <2>1, <2>2 DEF Writes
<1>7. PICK w : w = tokens'
  OBVIOUS
<1>8. ranks' = PairRanks(w)
  <2>1. ranks' = [k \in 1 .. m - 1 |-> RankAt(merges, tokens', k)]
    BY <1>2, <1>4, Rebuilding
  <2> QED BY <1>6, <1>7, <2>1 DEF PairRanks
<1>9. /\ PairRanks(w) \in Seq(1 .. NoRank) /\ PairRanks(w) \in Seq(Nat)
      /\ Len(PairRanks(w)) + 1 = Len(w) /\ DOMAIN PairRanks(w) = 1 .. Len(w) - 1
      /\ \A k \in 1 .. Len(w) - 1 : PairRanks(w)[k] = RankAt(merges, w, k)
      /\ LowestOf(PairRanks(w)) \in 1 .. NoRank
  BY <1>3, <1>5, <1>6, <1>7, RanksOf
<1>10. TypeOK'
  <2>1. /\ merges' \in Tables /\ engine' \in {"idle", "batch"} /\ chunk' \in Seq(Token)
        /\ ok' \in BOOLEAN
    BY <1>2 DEF IInvCanonical, IInv, TypeOK
  <2>2. ranks' \in Seq(1 .. NoRank) /\ min' \in 1 .. NoRank /\ Len(ranks') + 1 = Len(tokens')
    BY <1>2, <1>7, <1>8, <1>9
  <2> QED BY <1>6, <2>1, <2>2 DEF TypeOK
<1>11. CacheFresh'
  BY <1>2, <1>7, <1>8 DEF CacheFresh, PairRanks, LowestOf
<1>12. ASSUME Monotonic(merges)
       PROVE  ~(min' < min) /\ ok /\ Canonical(merges, w) = Canonical(merges, chunk)
  <2>1. /\ Canonical(merges, w) = Canonical(merges, tokens)
        /\ \A k \in 1 .. m - 1 : min <= RankAt(merges, w, k)
    BY <1>2, <1>4, <1>7, <1>12, Passed
  <2>2. ok /\ Canonical(merges, tokens) = Canonical(merges, chunk)
    BY <1>2, <1>12 DEF IInvCanonical, OnCanonicalWay
  <2>3. min <= min'
    <3>1. PICK r : r = PairRanks(w)
      OBVIOUS
    <3>2. /\ r \in Seq(Nat) /\ min' = LowestOf(r) /\ DOMAIN r = 1 .. m - 1
          /\ \A k \in 1 .. m - 1 : min <= r[k]
      BY <1>2, <1>6, <1>7, <1>8, <1>9, <2>1, <3>1
    <3>3. LowestOf(r) = NoRank \/ \E k \in DOMAIN r : LowestOf(r) = r[k]
      BY <1>3, <3>2, LowestIs
    <3> QED BY <1>3, <3>2, <3>3
  <2>4. min' \in Nat /\ min \in Nat
    BY <1>2, <1>3, <1>8, <1>9
  <2> QED BY <2>1, <2>2, <2>3, <2>4
<1>13. OnCanonicalWay'
  BY <1>2, <1>7, <1>12 DEF OnCanonicalWay
<1>14. MonotonicIsCanonical'
  BY <1>2, <1>12 DEF MonotonicIsCanonical
<1> QED BY <1>10, <1>11, <1>13, <1>14 DEF IInvCanonical, IInv

LEMMA ReturnKeeps ==
  ASSUME Loadable, IInvCanonical, Return
  PROVE  IInvCanonical'
<1>1. /\ engine = "batch" /\ min = NoRank /\ engine' = "idle" /\ ok' = TRUE
      /\ merges' = merges /\ tokens' = tokens /\ ranks' = ranks /\ min' = min /\ chunk' = chunk
  BY DEF Return
<1>2. /\ IsTable(merges) /\ tokens \in Seq(Token)
      /\ \A k \in 1 .. Len(tokens) - 1 : RankAt(merges, tokens, k) = NoRank
  BY <1>1, PassStarts
<1>3. Canonical(merges, tokens) = tokens
  BY <1>2, NothingLower
<1>4. TypeOK' /\ CacheFresh'
  BY <1>1 DEF IInvCanonical, IInv, TypeOK, CacheFresh
<1>5. MonotonicIsCanonical'
  BY <1>1, <1>3 DEF IInvCanonical, OnCanonicalWay, MonotonicIsCanonical
<1> QED BY <1>1, <1>4, <1>5 DEF IInvCanonical, IInv, OnCanonicalWay

LEMMA NextIInv == ASSUME Loadable, IInvCanonical, [Next]_vars PROVE IInvCanonical'
<1>1. CASE Pass
  BY <1>1, PassKeeps
<1>2. CASE Return
  BY <1>2, ReturnKeeps
<1>3. ASSUME NEW c \in Chunks, Trivial(c) PROVE IInvCanonical'
  BY <1>3, TrivialKeeps
<1>4. ASSUME NEW c \in Chunks, Begin(c) PROVE IInvCanonical'
  BY <1>4, BeginKeeps
<1>5. CASE UNCHANGED vars
  BY <1>5 DEF vars, IInvCanonical, IInv, TypeOK, CacheFresh, OnCanonicalWay,
              MonotonicIsCanonical, PairRanks, LowestOf
<1> QED BY <1>1, <1>2, <1>3, <1>4, <1>5 DEF Next, Step

(* What a caller relies on: the flag never drops on a monotonic table, and  *)
(* what is returned is canonical BPE of the chunk.                         *)
LEMMA Stepping ==
  ASSUME Loadable, IInvCanonical, Step
  PROVE  /\ IInvCanonical' /\ merges' = merges /\ chunk' = chunk
         /\ engine' \in {"batch", "idle"} /\ tokens' \in Seq(Token)
         /\ ok' \in BOOLEAN /\ (Monotonic(merges) => ok')
         /\ engine' = "idle" /\ Monotonic(merges) => tokens' = Canonical(merges, chunk)
<1>1. IInvCanonical'
  BY NextIInv DEF Next
<1>2. merges' = merges /\ chunk' = chunk
  BY DEF Step, Pass, Return
<1>3. engine' \in {"batch", "idle"} /\ tokens' \in Seq(Token) /\ ok' \in BOOLEAN
  BY <1>1 DEF IInvCanonical, IInv, TypeOK
<1>4. Monotonic(merges) => ok'
  BY <1>1, <1>2 DEF IInvCanonical, OnCanonicalWay
<1>5. engine' = "idle" /\ Monotonic(merges) => tokens' = Canonical(merges, chunk)
  BY <1>1, <1>2 DEF IInvCanonical, MonotonicIsCanonical
<1> QED BY <1>1, <1>2, <1>3, <1>4, <1>5

THEOREM Invariance == ASSUME Loadable PROVE Spec => []IInvCanonical
<1>1. Init => IInvCanonical
  BY InitIInv
<1>2. IInvCanonical /\ [Next]_vars => IInvCanonical'
  BY NextIInv
<1> QED BY <1>1, <1>2, PTL DEF Spec

(***************************************************************************)
(* The ranks that `merge` copies from pass to pass without looking them up  *)
(* again are those of the table, and min is the lowest of them.            *)
(***************************************************************************)
THEOREM CacheStaysFresh == ASSUME Loadable PROVE Spec => []CacheFresh
<1>1. IInvCanonical => CacheFresh
  BY DEF IInvCanonical, IInv
<1> QED BY <1>1, Invariance, PTL

(***************************************************************************)
(* "On monotonic vocabularies this never fires": no pass leaves a pair      *)
(* below the rank it applied.                                              *)
(***************************************************************************)
THEOREM NeverBails == ASSUME Loadable PROVE Spec => []MonotonicNeverBails
<1>1. IInvCanonical => MonotonicNeverBails
  BY DEF IInvCanonical, OnCanonicalWay, MonotonicNeverBails
<1> QED BY <1>1, Invariance, PTL

(***************************************************************************)
(* On a monotonic table `merge` returns canonical BPE of the chunk, although*)
(* it merges all pairs of a rank at once.                                  *)
(***************************************************************************)
THEOREM BatchIsCanonical == ASSUME Loadable PROVE Spec => []MonotonicIsCanonical
<1>1. IInvCanonical => MonotonicIsCanonical
  BY DEF IInvCanonical
<1> QED BY <1>1, Invariance, PTL
=============================================================================
