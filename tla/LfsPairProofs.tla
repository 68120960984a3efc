---------------------------- MODULE LfsPairProofs ----------------------------
(***************************************************************************)
(* Proofs about LfsPair: the entry point of a metadata pair survives every *)
(* failure, and commits program erased units only.                         *)
(***************************************************************************)
EXTENDS LfsPair, SequenceTheorems, WellFoundedInduction, TLAPS

------------------------------------------------------------------------------
(* Induction over numbers and the functions defined by recursion on them.  *)

LEMMA NatOrder ==
  \E R : IsWellFoundedOn(R, Nat) /\ \A x, y \in Nat : <<y, x>> \in R <=> y < x
<1>1. \A x, y \in Nat : <<y, x>> \in OpToRel(<, Nat) <=> y < x
  BY DEF OpToRel
<1> QED BY <1>1, NatLessThanWellFounded

LEMMA LeastNat ==
  ASSUME NEW T, T \subseteq Nat, T # {}
  PROVE  \E x \in T : \A y \in T : x <= y
<1>1. PICK R : IsWellFoundedOn(R, Nat) /\ \A x, y \in Nat : <<y, x>> \in R <=> y < x
  BY NatOrder
<1>2. PICK x \in T : \A y \in T : ~(<<y, x>> \in R)
  BY <1>1, WFMin
<1>3. ASSUME NEW y \in T PROVE x <= y
  <2>1. x \in Nat /\ y \in Nat
    OBVIOUS
  <2>2. ~(y < x)
    BY <1>1, <1>2, <2>1
  <2> QED BY <2>1, <2>2
<1> QED BY <1>3

\* Induction, stated of a set so that it can be cited without an operator.
LEMMA SetInduction ==
  ASSUME NEW S, 0 \in S, \A n \in Nat : n \in S => n + 1 \in S
  PROVE  Nat \subseteq S
<1> SUFFICES ASSUME Nat \ S # {} PROVE FALSE
  OBVIOUS
<1>1. PICK x \in Nat \ S : \A y \in Nat \ S : x <= y
  BY LeastNat
<1>2. x # 0 /\ x - 1 \in Nat /\ x - 1 \in S
  BY <1>1
<1> QED BY <1>2

\* A fold over steps 1 to L with an accumulator: the recursive equation has a
\* solution, and it runs through the values s.
FoldEq(g, L, V, F) ==
  g = [n \in 1..L + 1 |-> [v \in V |-> IF n > L THEN v ELSE g[n + 1][F[n][v]]]]

LEMMA FoldExists ==
  ASSUME NEW V, NEW F, NEW L \in Nat, F \in [1..L -> [V -> V]]
  PROVE  \E g \in [1..L + 1 -> [V -> V]] : FoldEq(g, L, V, F)
<1> DEFINE Part(g, i) == \A n \in i..L + 1, v \in V :
                            g[n][v] = IF n > L THEN v ELSE g[n + 1][F[n][v]]
           S == {k \in Nat : k <= L => \E g \in [L + 1 - k..L + 1 -> [V -> V]] : Part(g, L + 1 - k)}
<1>1. 0 \in S
  <2> DEFINE g == [n \in L + 1..L + 1 |-> [v \in V |-> v]]
  <2>1. g \in [L + 1..L + 1 -> [V -> V]] /\ Part(g, L + 1)
    OBVIOUS
  <2>2. L + 1 - 0 = L + 1
    OBVIOUS
  <2> HIDE DEF g
  <2> QED BY <2>1, <2>2
<1>2. ASSUME NEW k \in Nat, k \in S PROVE k + 1 \in S
  <2> DEFINE i == L - k
  <2> DEFINE Solved(m) == \E h \in [m..L + 1 -> [V -> V]] : Part(h, m)
  <2>0. SUFFICES ASSUME k + 1 <= L PROVE Solved(i)
    <3>1. k + 1 \in Nat /\ L + 1 - (k + 1) = i
      OBVIOUS
    <3> HIDE DEF Part, i
    <3>2. (k + 1 <= L => Solved(i)) => k + 1 \in S
      BY <3>1
    <3> QED BY <3>2
  <2>2. i \in 1..L /\ L + 1 - k = i + 1 /\ L + 1 - (k + 1) = i
    BY <2>0
  <2>1. PICK g \in [i + 1..L + 1 -> [V -> V]] : Part(g, i + 1)
    BY <1>2, <2>2
  <2> DEFINE h == [n \in i..L + 1 |-> IF n = i THEN [v \in V |-> g[i + 1][F[i][v]]] ELSE g[n]]
  <2>3. \A v \in V : F[i][v] \in V
    BY <2>2
  <2>4. \A n \in i + 1..L + 1 : h[n] = g[n] /\ g[n] \in [V -> V]
    BY <2>1, <2>2
  <2>5. \A v \in V : h[i][v] = g[i + 1][F[i][v]] /\ h[i] \in [V -> V]
    BY <2>2, <2>3, <2>4
  <2>6. h \in [i..L + 1 -> [V -> V]]
    <3>1. \A n \in i..L + 1 : h[n] \in [V -> V]
      <4>1. [v \in V |-> g[i + 1][F[i][v]]] \in [V -> V]
        BY <2>2, <2>3, <2>4
      <4> QED BY <4>1, <2>4, <2>2
    <3> QED BY <3>1
  <2>7. ASSUME NEW n \in i..L + 1, NEW v \in V
        PROVE  h[n][v] = IF n > L THEN v ELSE h[n + 1][F[n][v]]
    <3>1. CASE n = i
      BY <3>1, <2>2, <2>4, <2>5
    <3>2. CASE n # i
      <4>1. n \in i + 1..L + 1 /\ (n <= L => n + 1 \in i + 1..L + 1)
        BY <3>2, <2>2
      <4>2. g[n][v] = IF n > L THEN v ELSE g[n + 1][F[n][v]]
        BY <4>1, <2>1
      <4> QED BY <4>1, <4>2, <2>2, <2>4
    <3> QED BY <3>1, <3>2
  <2> HIDE DEF h
  <2> QED BY <2>6, <2>7
<1> HIDE DEF S
<1>3. L \in S
  BY <1>1, <1>2, SetInduction
<1> L + 1 - L = 1 /\ L <= L
  OBVIOUS
<1>4. PICK g \in [1..L + 1 -> [V -> V]] : Part(g, 1)
  <2> HIDE DEF Part
  <2> QED BY <1>3 DEF S
<1>5. \A n \in 1..L + 1 : g[n] = [v \in V |-> IF n > L THEN v ELSE g[n + 1][F[n][v]]]
  BY <1>4
<1>6. g = [n \in 1..L + 1 |-> [v \in V |-> IF n > L THEN v ELSE g[n + 1][F[n][v]]]]
  BY <1>4, <1>5
<1> QED BY <1>4, <1>6 DEF FoldEq

\* The values that a fold goes through.
Runs(s, L, V, F, v) ==
  s \in [0..L -> V] /\ s[0] = v /\ \A n \in 1..L : s[n] = F[n][s[n - 1]]

RunsTo(x, L, V, F, v) == \E s : Runs(s, L, V, F, v) /\ x = s[L]

LEMMA FoldRuns ==
  ASSUME NEW V, NEW F, NEW L \in Nat, F \in [1..L -> [V -> V]], NEW v \in V,
         NEW g, FoldEq(g, L, V, F)
  PROVE  RunsTo(g[1][v], L, V, F, v)
<1> DEFINE Upto(s, k) == /\ s \in [0..k -> V] /\ s[0] = v
                         /\ \A n \in 1..k : s[n] = F[n][s[n - 1]]
                         /\ g[1][v] = g[k + 1][s[k]]
           S == {k \in Nat : k <= L => \E s : Upto(s, k)}
<1>0. ASSUME NEW n \in 1..L + 1, NEW w \in V
      PROVE  g[n][w] = IF n > L THEN w ELSE g[n + 1][F[n][w]]
  <2>1. g[n] = [x \in V |-> IF n > L THEN x ELSE g[n + 1][F[n][x]]]
    BY DEF FoldEq
  <2> QED BY <2>1
<1>1. 0 \in S
  <2> DEFINE s == [n \in 0..0 |-> v]
  <2>1. Upto(s, 0)
    OBVIOUS
  <2> QED BY <2>1
<1>2. ASSUME NEW k \in Nat, k \in S PROVE k + 1 \in S
  <2> SUFFICES ASSUME k + 1 <= L PROVE \E t : Upto(t, k + 1)
    <3>1. k + 1 \in Nat
      OBVIOUS
    <3> HIDE DEF Upto
    <3>2. (k + 1 <= L => \E t : Upto(t, k + 1)) => k + 1 \in S
      BY <3>1
    <3> QED BY <3>2
  <2>1. PICK s : Upto(s, k)
    <3> HIDE DEF Upto
    <3> QED BY <1>2
  <2> DEFINE w == F[k + 1][s[k]]
             t == [n \in 0..k + 1 |-> IF n = k + 1 THEN w ELSE s[n]]
  <2>2. s[k] \in V /\ w \in V
    BY <2>1
  <2>3. t \in [0..k + 1 -> V] /\ t[0] = v /\ t[k + 1] = w
    BY <2>1, <2>2
  <2>4. \A n \in 1..k + 1 : t[n] = F[n][t[n - 1]]
    BY <2>1
  <2>5. g[k + 1][s[k]] = g[k + 2][w]
    BY <1>0, <2>2
  <2> QED BY <2>1, <2>3, <2>4, <2>5
<1> HIDE DEF S
<1>3. L \in S
  BY <1>1, <1>2, SetInduction
<1>4. PICK s : Upto(s, L)
  <2> HIDE DEF Upto
  <2> QED BY <1>3 DEF S
<1>5. g[L + 1][s[L]] = s[L]
  BY <1>0, <1>4
<1> QED BY <1>4, <1>5 DEF Runs, RunsTo

\* A function defined by recursion from 0 on.
LEMMA RunExists ==
  ASSUME NEW V, NEW F, NEW L \in Nat, F \in [1..L -> [V -> V]], NEW v \in V
  PROVE  \E s : Runs(s, L, V, F, v)
<1>1. PICK g : FoldEq(g, L, V, F)
  BY FoldExists
<1>2. RunsTo(g[1][v], L, V, F, v)
  BY <1>1, FoldRuns
<1> QED BY <1>2 DEF RunsTo

\* A set that every step stays in.
Closed(W, L, F) == \A n \in 1..L, w \in W : F[n][w] \in W

LEMMA FoldClosed ==
  ASSUME NEW V, NEW F, NEW L \in Nat, F \in [1..L -> [V -> V]], NEW g, FoldEq(g, L, V, F),
         NEW W, W \subseteq V, Closed(W, L, F)
  PROVE  Closed(W, L + 1, g)
<1> DEFINE S == {k \in Nat : k <= L => \A w \in W : g[L + 1 - k][w] \in W}
<1>0. ASSUME NEW n \in 1..L + 1, NEW w \in V
      PROVE  g[n][w] = IF n > L THEN w ELSE g[n + 1][F[n][w]]
  <2>1. g[n] = [x \in V |-> IF n > L THEN x ELSE g[n + 1][F[n][x]]]
    BY DEF FoldEq
  <2> QED BY <2>1
<1>1. 0 \in S
  BY <1>0
<1>2. ASSUME NEW k \in Nat, k \in S PROVE k + 1 \in S
  <2> SUFFICES ASSUME k + 1 <= L, NEW w \in W PROVE g[L + 1 - (k + 1)][w] \in W
    OBVIOUS
  <2> DEFINE i == L - k
  <2>1. i \in 1..L /\ L + 1 - (k + 1) = i /\ L + 1 - k = i + 1
    OBVIOUS
  <2>2. g[i][w] = g[i + 1][F[i][w]] /\ F[i][w] \in W
    BY <1>0, <2>1 DEF Closed
  <2>3. \A x \in W : g[i + 1][x] \in W
    BY <1>2, <2>1
  <2> QED BY <2>1, <2>2, <2>3
<1> HIDE DEF S
<1>3. ASSUME NEW n \in 1..L + 1, NEW w \in W PROVE g[n][w] \in W
  <2>1. L + 1 - n \in S
    BY <1>1, <1>2, SetInduction
  <2>2. L + 1 - (L + 1 - n) = n
    OBVIOUS
  <2>3. CASE n = L + 1
    BY <2>3, <1>0
  <2>4. CASE n <= L
    BY <2>1, <2>2, <2>4 DEF S
  <2> QED BY <2>3, <2>4
<1> QED BY <1>3 DEF Closed

------------------------------------------------------------------------------
(* The operators of LfsTags and what they return.                          *)

LEMMA CountedType ==
  ASSUME NEW c \in Int, NEW t \in Tags
  PROVE  Counted(c, t) \in Int
BY DEF Counted, Splice, IsSplice, Tags

CountSteps(log) == [n \in 1..Len(log) |-> [c \in Int |-> Counted(c, log[n])]]

LEMMA CountRuns ==
  ASSUME NEW log \in Seq(Tags)
  PROVE  RunsTo(Count(log), Len(log), Int, CountSteps(log), 0)
<1> DEFINE L == Len(log)
           F == CountSteps(log)
           Eq(g) == g = [n \in 1..L + 1 |-> [c \in Int |-> IF n > L THEN c
                                                   ELSE g[n + 1][Counted(c, log[n])]]]
<1>1. L \in Nat /\ F \in [1..L -> [Int -> Int]]
  <2>1. \A n \in 1..L : log[n] \in Tags
    OBVIOUS
  <2>2. \A n \in 1..L : [c \in Int |-> Counted(c, log[n])] \in [Int -> Int]
    BY <2>1, CountedType
  <2> QED BY <2>2 DEF CountSteps
<1>2. ASSUME NEW g PROVE FoldEq(g, L, Int, F) <=> Eq(g)
  <2>1. ASSUME NEW n \in 1..L + 1
        PROVE  [c \in Int |-> IF n > L THEN c ELSE g[n + 1][F[n][c]]]
             = [c \in Int |-> IF n > L THEN c ELSE g[n + 1][Counted(c, log[n])]]
    <3>1. n <= L => \A c \in Int : F[n][c] = Counted(c, log[n])
      BY DEF CountSteps
    <3> QED BY <3>1
  <2> QED BY <2>1 DEF FoldEq
<1>3. \E g : Eq(g)
  <2>1. \E g : FoldEq(g, L, Int, F)
    BY <1>1, FoldExists
  <2> QED BY <2>1, <1>2
<1>4. PICK g : Eq(g) /\ Count(log) = g[1][0]
  BY <1>3 DEF Count
<1>5. FoldEq(g, L, Int, F)
  BY <1>2, <1>4
<1> DEFINE v == 0
<1>6. v \in Int
  OBVIOUS
<1> HIDE DEF L, F, Eq, v
<1>7. RunsTo(g[1][v], L, Int, F, v)
  BY <1>1, <1>5, <1>6, FoldRuns
<1> QED BY <1>4, <1>7 DEF L, F, v

LEMMA BestType ==
  ASSUME NEW best \in Best, NEW t \in Tags, NEW name
  PROVE  BestAfter(best, t, name) \in Best
<1>1. BestAfterName(best, t, name) \in Best
  BY DEF BestAfterName, Best, NoBest, NoId, Tags
<1>2. BestAfterSplice(best, t) \in Best
  <2>1. [best EXCEPT !.valid = FALSE] \in Best
    BY DEF Best
  <2>2. IsSplice(t) => [best EXCEPT !.id = @ + Splice(t)] \in Best
    BY DEF Best, Splice, Tags
  <2> QED BY <2>1, <2>2 DEF BestAfterSplice
<1> QED BY <1>1, <1>2 DEF BestAfter

BestSteps(log, name) ==
  [n \in 1..Len(log) |-> [best \in Best |-> BestAfter(best, log[n], name)]]

\* The last best tag of a search, and what Find makes of it.
FindOf(last, count) ==
  [found |-> last.valid, id |-> IF last.id < count THEN last.id ELSE count]

LEMMA FindRuns ==
  ASSUME NEW log \in Seq(Tags), NEW name
  PROVE  \E last : /\ RunsTo(last, Len(log), Best, BestSteps(log, name), NoBest)
                   /\ Find(log, name) = FindOf(last, Count(log))
<1> DEFINE L == Len(log)
           F == BestSteps(log, name)
           Eq(g) == g = [n \in 1..L + 1 |-> [best \in Best |-> IF n > L THEN best
                                               ELSE g[n + 1][BestAfter(best, log[n], name)]]]
<1>1. L \in Nat /\ F \in [1..L -> [Best -> Best]]
  <2>1. \A n \in 1..L : log[n] \in Tags
    OBVIOUS
  <2>2. \A n \in 1..L : [best \in Best |-> BestAfter(best, log[n], name)] \in [Best -> Best]
    BY <2>1, BestType
  <2> QED BY <2>2 DEF BestSteps
<1>2. ASSUME NEW g PROVE FoldEq(g, L, Best, F) <=> Eq(g)
  <2>1. ASSUME NEW n \in 1..L + 1
        PROVE  [best \in Best |-> IF n > L THEN best ELSE g[n + 1][F[n][best]]]
             = [best \in Best |-> IF n > L THEN best
                                  ELSE g[n + 1][BestAfter(best, log[n], name)]]
    <3>1. n <= L => \A best \in Best : F[n][best] = BestAfter(best, log[n], name)
      BY DEF BestSteps
    <3> QED BY <3>1
  <2> QED BY <2>1 DEF FoldEq
<1>3. \E g : Eq(g)
  <2>1. \E g : FoldEq(g, L, Best, F)
    BY <1>1, FoldExists
  <2> QED BY <2>1, <1>2
<1>4. PICK g : Eq(g) /\ Find(log, name) = FindOf(g[1][NoBest], Count(log))
  BY <1>3 DEF Find, FindOf
<1>5. FoldEq(g, L, Best, F)
  BY <1>2, <1>4
<1>6. NoBest \in Best
  BY DEF NoBest, Best, NoId
<1> HIDE DEF L, F, Eq
<1>7. RunsTo(g[1][NoBest], L, Best, F, NoBest)
  BY <1>1, <1>5, <1>6, FoldRuns
<1> QED BY <1>4, <1>7 DEF L, F

LEMMA CountType ==
  ASSUME NEW log \in Seq(Tags)
  PROVE  Count(log) \in Int
<1>1. Len(log) \in Nat
  OBVIOUS
<1> QED BY <1>1, CountRuns DEF RunsTo, Runs

LEMMA FindType ==
  ASSUME NEW log \in Seq(Tags), NEW name
  PROVE  Find(log, name) \in [found : BOOLEAN, id : Int]
<1>1. PICK last : /\ RunsTo(last, Len(log), Best, BestSteps(log, name), NoBest)
                  /\ Find(log, name) = FindOf(last, Count(log))
  BY FindRuns
<1>2. last \in Best /\ Count(log) \in Int
  <2>1. Len(log) \in Nat
    OBVIOUS
  <2> QED BY <1>1, <2>1, CountType DEF RunsTo, Runs
<1> QED BY <1>1, <1>2 DEF FindOf, Best

------------------------------------------------------------------------------
(* lfs_dir_traverse_filter and lfs_dir_getslice                            *)

\* A filtered tag keeps its type or becomes redundant.
LEMMA FilteredType ==
  ASSUME NEW f \in Tags, NEW t \in Tags
  PROVE  Filtered(f, t) \in Tags /\ Filtered(f, t).type \in {f.type, "noop"}
<1>1. Tag("noop", 0, 0) \in Tags /\ Tag("noop", 0, 0).type = "noop"
  BY DEF Tag, Tags, TagTypes
<1>2. IsSplice(t) => [f EXCEPT !.id = @ + Splice(t)] \in Tags
                     /\ [f EXCEPT !.id = @ + Splice(t)].type = f.type
  BY DEF Tags, Splice
<1> QED BY <1>1, <1>2 DEF Filtered

UniqueSteps(tags) == [n \in 1..Len(tags) |-> [f \in Tags |-> Filtered(f, tags[n])]]

LEMMA UniqueFold ==
  ASSUME NEW tags \in Seq(Tags)
  PROVE  /\ UniqueSteps(tags) \in [1..Len(tags) -> [Tags -> Tags]]
         /\ \E g : /\ FoldEq(g, Len(tags), Tags, UniqueSteps(tags))
                   /\ \A i : Unique(tags, i) = g[i + 1][tags[i]]
<1> DEFINE L == Len(tags)
           F == UniqueSteps(tags)
           Eq(g) == g = [n \in 1..L + 1 |-> [f \in Tags |-> IF n > L THEN f
                                                   ELSE g[n + 1][Filtered(f, tags[n])]]]
<1>1. L \in Nat /\ F \in [1..L -> [Tags -> Tags]]
  <2>1. \A n \in 1..L : tags[n] \in Tags
    OBVIOUS
  <2>2. \A n \in 1..L : [f \in Tags |-> Filtered(f, tags[n])] \in [Tags -> Tags]
    BY <2>1, FilteredType
  <2> QED BY <2>2 DEF UniqueSteps
<1>2. ASSUME NEW g PROVE FoldEq(g, L, Tags, F) <=> Eq(g)
  <2>1. ASSUME NEW n \in 1..L + 1
        PROVE  [f \in Tags |-> IF n > L THEN f ELSE g[n + 1][F[n][f]]]
             = [f \in Tags |-> IF n > L THEN f ELSE g[n + 1][Filtered(f, tags[n])]]
    <3>1. n <= L => \A f \in Tags : F[n][f] = Filtered(f, tags[n])
      BY DEF UniqueSteps
    <3> QED BY <3>1
  <2> QED BY <2>1 DEF FoldEq
<1>3. \E g : Eq(g)
  <2>1. \E g : FoldEq(g, L, Tags, F)
    BY <1>1, FoldExists
  <2> QED BY <2>1, <1>2
<1> DEFINE g == CHOOSE g : Eq(g)
<1>4. Eq(g)
  BY <1>3
<1>5. \A i : Unique(tags, i) = g[i + 1][tags[i]]
  BY DEF Unique
<1> QED BY <1>1, <1>2, <1>4, <1>5

LEMMA UniqueType ==
  ASSUME NEW tags \in Seq(Tags), NEW i \in 1..Len(tags)
  PROVE  Unique(tags, i) \in Tags /\ Unique(tags, i).type \in {tags[i].type, "noop"}
<1> DEFINE W == {f \in Tags : f.type \in {tags[i].type, "noop"}}
           L == Len(tags)
           F == UniqueSteps(tags)
<1>1. PICK g : FoldEq(g, L, Tags, F) /\ Unique(tags, i) = g[i + 1][tags[i]]
  BY UniqueFold
<1>2. L \in Nat /\ F \in [1..L -> [Tags -> Tags]] /\ i + 1 \in 1..L + 1 /\ tags[i] \in W
  BY UniqueFold
<1>3. Closed(W, L, F)
  <2>1. ASSUME NEW n \in 1..L, NEW w \in W PROVE F[n][w] \in W
    <3>1. F[n][w] = Filtered(w, tags[n]) /\ tags[n] \in Tags
      BY DEF UniqueSteps
    <3> QED BY <3>1, FilteredType
  <2> QED BY <2>1 DEF Closed
<1>4. W \subseteq Tags
  OBVIOUS
<1> HIDE DEF W, L, F
<1>5. Closed(W, L + 1, g)
  BY <1>1, <1>2, <1>3, <1>4, FoldClosed
<1>6. Unique(tags, i) \in W
  BY <1>1, <1>2, <1>5 DEF Closed
<1> QED BY <1>6 DEF W

Slices == [found : BOOLEAN, val : Int]
ReadTypes == {"name", "struct"}

LEMMA SliceAfterType ==
  ASSUME NEW a \in [Int -> Slices], NEW t \in Tags, NEW type, NEW id \in Int
  PROVE  SliceAfter(a, t, type, id) \in Slices
<1>1. NOENT \in Slices /\ [found |-> TRUE, val |-> t.val] \in Slices
  BY DEF NOENT, Slices, Tags
<1>2. Unspliced(t, id) \in Int
  BY DEF Unspliced, Splice, Tags
<1>3. a[Unspliced(t, id)] \in Slices
  BY <1>2
<1> QED BY <1>1, <1>3 DEF SliceAfter

\* The lookups in the prefixes of a log.
SlicesOf(s, log, type) ==
  s = [n \in 0..Len(log) |->
         [id \in Int |-> IF n = 0 THEN NOENT ELSE SliceAfter(s[n - 1], log[n], type, id)]]

LEMMA SlicesType ==
  ASSUME NEW log \in Seq(Tags), NEW type, NEW s, SlicesOf(s, log, type)
  PROVE  s \in [0..Len(log) -> [Int -> Slices]]
<1> DEFINE L == Len(log)
           S == {n \in Nat : n <= L => s[n] \in [Int -> Slices]}
<1>0. L \in Nat /\ NOENT \in Slices
  BY DEF NOENT, Slices
<1>1. \A n \in 0..L : s[n] = [id \in Int |-> IF n = 0 THEN NOENT
                                             ELSE SliceAfter(s[n - 1], log[n], type, id)]
  BY DEF SlicesOf
<1>2. 0 \in S
  <2>1. s[0] = [id \in Int |-> NOENT]
    BY <1>0, <1>1
  <2> QED BY <1>0, <2>1
<1>3. ASSUME NEW n \in Nat, n \in S PROVE n + 1 \in S
  <2> SUFFICES ASSUME n + 1 <= L PROVE s[n + 1] \in [Int -> Slices]
    OBVIOUS
  <2>1. log[n + 1] \in Tags /\ s[n] \in [Int -> Slices] /\ n + 1 - 1 = n
    BY <1>0, <1>3
  <2>2. s[n + 1] = [id \in Int |-> SliceAfter(s[n], log[n + 1], type, id)]
    BY <1>0, <1>1, <2>1
  <2> QED BY <2>1, <2>2, SliceAfterType
<1>4. \A n \in 0..L : s[n] \in [Int -> Slices]
  <2> HIDE DEF S
  <2>1. Nat \subseteq S
    BY <1>2, <1>3, SetInduction
  <2> QED BY <1>0, <2>1 DEF S
<1> QED BY <1>4 DEF SlicesOf

LEMMA GetSliceRuns ==
  ASSUME NEW log \in Seq(Tags), NEW type
  PROVE  \E s : SlicesOf(s, log, type) /\ \A gid : GetSlice(log, type, gid) = s[Len(log)][gid]
<1> DEFINE L == Len(log)
           V == [Int -> Slices]
           F == [n \in 1..L |-> [a \in V |-> [id \in Int |-> SliceAfter(a, log[n], type, id)]]]
           v == [id \in Int |-> NOENT]
<1>1. L \in Nat /\ F \in [1..L -> [V -> V]] /\ v \in V
  <2>1. ASSUME NEW n \in 1..L, NEW a \in V
        PROVE  [id \in Int |-> SliceAfter(a, log[n], type, id)] \in V
    <3>1. log[n] \in Tags
      OBVIOUS
    <3> QED BY <3>1, SliceAfterType
  <2>2. v \in V
    BY DEF NOENT, Slices
  <2> QED BY <2>1, <2>2
<1>2. PICK s : Runs(s, L, V, F, v)
  <2> HIDE DEF V, F, v, L
  <2> QED BY <1>1, RunExists
<1>3. SlicesOf(s, log, type)
  <2>1. ASSUME NEW n \in 0..L
        PROVE  s[n] = [id \in Int |-> IF n = 0 THEN NOENT
                                      ELSE SliceAfter(s[n - 1], log[n], type, id)]
    <3>1. CASE n = 0
      BY <3>1, <1>2 DEF Runs
    <3>2. CASE n # 0
      <4>1. s[n] = F[n][s[n - 1]] /\ s[n - 1] \in V /\ n \in 1..L
        <5> HIDE DEF F, V, v
        <5> QED BY <3>2, <1>1, <1>2 DEF Runs
      <4>2. F[n][s[n - 1]] = [id \in Int |-> SliceAfter(s[n - 1], log[n], type, id)]
        BY <4>1
      <4> QED BY <3>2, <4>1, <4>2
    <3> QED BY <3>1, <3>2
  <2>2. s = [n \in 0..L |-> s[n]]
    BY <1>2 DEF Runs
  <2> QED BY <2>1, <2>2 DEF SlicesOf
<1> DEFINE at == CHOOSE at : SlicesOf(at, log, type)
<1>4. SlicesOf(at, log, type)
  BY <1>3
<1>5. \A gid : GetSlice(log, type, gid) = at[L][gid]
  BY DEF GetSlice, SlicesOf
<1> QED BY <1>4, <1>5

LEMMA GetSliceType ==
  ASSUME NEW log \in Seq(Tags), NEW type, NEW gid \in Int
  PROVE  GetSlice(log, type, gid) \in Slices
<1>1. PICK s : SlicesOf(s, log, type) /\ GetSlice(log, type, gid) = s[Len(log)][gid]
  BY GetSliceRuns
<1>2. s \in [0..Len(log) -> [Int -> Slices]] /\ Len(log) \in Nat
  BY <1>1, SlicesType
<1> QED BY <1>1, <1>2

------------------------------------------------------------------------------
(* What a unit, a directory and a commit in progress may be.               *)

Digests == Bits \X Tags
LogTags == {t \in Tags : t.type # "crc"}

UnitWords ==
  {w \in [top : Bits, tag : Tags, covers : Seq(Digests), fcrc : {NoFcrc} \cup Digests] :
     w.tag.type = "crc" => w.tag.id \in Bits}

Devices == [Block -> [rev : 0..REVS - 1, units : [Units -> UnitWords]]]

Dirs == [pair : {p \in Block \X Block : p[1] # p[2]}, rev : 0..REVS - 1, off : 0..UNITS,
         top : Bits, erased : BOOLEAN, log : Seq(LogTags)]

Ops(target) ==
  [pc : {"idle", "compact", "relocate", "erase", "rev", "write", "verify", "parent", "done"},
   mode : {"none", "append", "compact"}, dir : Dirs \cup {NoDir},
   attrs : Seq(LogTags), words : Seq(LogTags), block : Block \cup {0}, off : 0..UNITS,
   top : Bits, covers : Seq(Digests), tired : BOOLEAN, relocated : BOOLEAN,
   tried : SUBSET Block, target : {target}, result : {"none", "ok", "nospc", "lost"}]

------------------------------------------------------------------------------
(* The logs that a fetch and a compaction make.                            *)

LEMMA AppendType ==
  ASSUME NEW T, NEW s \in Seq(T), NEW x \in T
  PROVE  Append(s, x) \in Seq(T)
OBVIOUS

LogUpto(g, units, off) ==
  g = [i \in 0..off |-> CASE i = 0 -> <<>>
                         [] i > 0 /\ units[i].tag.type # "crc" -> Append(g[i - 1], units[i].tag)
                         [] OTHER -> g[i - 1]]

LEMMA LogRuns ==
  ASSUME NEW blocks \in Devices, NEW b \in Block, NEW off \in 0..UNITS
  PROVE  \E g : /\ LogUpto(g, blocks[b].units, off) /\ g \in [0..off -> Seq(LogTags)]
                /\ LogOf(blocks, b, off) = g[off]
<1> DEFINE units == blocks[b].units
           V == Seq(LogTags)
           Step(a, i) == IF units[i].tag.type # "crc" THEN Append(a, units[i].tag) ELSE a
           F == [i \in 1..off |-> [a \in V |-> Step(a, i)]]
           S(g) == {i \in Nat : i <= off => g[i] \in V}
           v == <<>>
<1>0. off \in Nat /\ off <= UNITS /\ UNITS \in Nat
  BY PairAssumption
<1>1. ASSUME NEW i \in 1..off, NEW a \in V PROVE Step(a, i) \in V
  <2>1. units[i].tag \in Tags
    BY <1>0 DEF Devices, UnitWords, Units
  <2>2. CASE units[i].tag.type # "crc"
    <3>1. units[i].tag \in LogTags
      BY <2>1, <2>2 DEF LogTags
    <3> HIDE DEF units
    <3> QED BY <2>2, <3>1
  <2> QED BY <2>2
<1>2. F \in [1..off -> [V -> V]] /\ v \in V
  <2> HIDE DEF Step
  <2> QED BY <1>1
<1>3. PICK s : Runs(s, off, V, F, v)
  <2> HIDE DEF V, F, v
  <2> QED BY <1>0, <1>2, RunExists
<1>4. LogUpto(s, units, off)
  <2>1. ASSUME NEW i \in 0..off
        PROVE  s[i] = CASE i = 0 -> <<>>
                        [] i > 0 /\ units[i].tag.type # "crc" -> Append(s[i - 1], units[i].tag)
                        [] OTHER -> s[i - 1]
    <3>1. CASE i = 0
      BY <3>1, <1>3 DEF Runs
    <3>2. CASE i # 0
      <4>1. s[i] = F[i][s[i - 1]] /\ s[i - 1] \in V /\ i \in 1..off
        <5> HIDE DEF F, V, v
        <5> QED BY <3>2, <1>0, <1>3 DEF Runs
      <4>2. F[i][s[i - 1]] = Step(s[i - 1], i)
        BY <4>1
      <4> HIDE DEF units, F
      <4> QED BY <3>2, <4>1, <4>2
    <3> QED BY <3>1, <3>2
  <2>2. s = [i \in 0..off |-> s[i]]
    BY <1>3 DEF Runs
  <2> HIDE DEF units, F, V
  <2> QED BY <2>1, <2>2 DEF LogUpto
<1> DEFINE upto == CHOOSE upto : LogUpto(upto, units, off)
<1>5. LogUpto(upto, units, off)
  BY <1>4
<1>6. LogOf(blocks, b, off) = upto[off]
  BY DEF LogOf, LogUpto
<1> HIDE DEF upto
<1>7. \A i \in 0..off : upto[i] \in V
  <2>0. ASSUME NEW i \in 0..off
        PROVE  upto[i] = IF i = 0 THEN <<>> ELSE Step(upto[i - 1], i)
    <3>1. upto[i] = CASE i = 0 -> <<>>
                      [] i > 0 /\ units[i].tag.type # "crc" -> Append(upto[i - 1], units[i].tag)
                      [] OTHER -> upto[i - 1]
      BY <1>5 DEF LogUpto
    <3> HIDE DEF units
    <3> QED BY <3>1, <1>0
  <2>1. 0 \in S(upto)
    <3>1. upto[0] = <<>>
      <4> HIDE DEF Step
      <4> QED BY <2>0, <1>0
    <3> HIDE DEF V
    <3> QED BY <3>1, <1>2
  <2>2. ASSUME NEW i \in Nat, i \in S(upto) PROVE i + 1 \in S(upto)
    <3> HIDE DEF Step, V
    <3> SUFFICES ASSUME i + 1 <= off PROVE upto[i + 1] \in V
      OBVIOUS
    <3>1. i + 1 \in 0..off /\ i + 1 \in 1..off /\ i + 1 - 1 = i /\ upto[i] \in V
      BY <1>0, <2>2
    <3> QED BY <3>1, <2>0, <1>1
  <2> HIDE DEF S
  <2>3. Nat \subseteq S(upto)
    BY <2>1, <2>2, SetInduction
  <2> QED BY <2>3, <1>0 DEF S
<1>8. upto = [i \in 0..off |-> upto[i]]
  BY <1>5 DEF LogUpto
<1>9. upto \in [0..off -> V]
  BY <1>7, <1>8
<1> QED BY <1>5, <1>6, <1>9

LEMMA LogType ==
  ASSUME NEW blocks \in Devices, NEW b \in Block, NEW off \in 0..UNITS
  PROVE  LogOf(blocks, b, off) \in Seq(LogTags)
<1>1. off \in 0..off
  BY PairAssumption
<1>2. PICK g : /\ g \in [0..off -> Seq(LogTags)]
               /\ LogOf(blocks, b, off) = g[off]
  BY LogRuns, Zenon
<1> QED BY <1>1, <1>2, Zenon

\* The attributes of a commit: what a commit writes, and moves.
LEMMA FromDiskType ==
  ASSUME NEW log \in Seq(Tags), NEW t \in LogTags
  PROVE  FromDisk(log, t) \in LogTags /\ FromDisk(log, t).type \in {t.type, "struct"}
<1>1. t.type = "move" => GetSlice(log, "struct", t.val).val \in Int
  BY GetSliceType DEF LogTags, Tags, Slices
<1>2. t.type = "move" => Tag("struct", t.id, GetSlice(log, "struct", t.val).val) \in LogTags
  BY <1>1 DEF Tag, LogTags, Tags, TagTypes
<1> QED BY <1>2 DEF FromDisk, Tag

LEMMA LogTagsAreTags == Seq(LogTags) \subseteq Seq(Tags)
<1>1. LogTags \subseteq Tags
  BY DEF LogTags
<1> QED BY <1>1, SeqMonotonic

LEMMA ExpandType ==
  ASSUME NEW log \in Seq(Tags), NEW attrs \in Seq(LogTags)
  PROVE  Expand(log, attrs) \in Seq(LogTags) /\ Len(Expand(log, attrs)) = Len(attrs)
<1> DEFINE e == [i \in 1..Len(attrs) |-> FromDisk(log, attrs[i])]
<1>1. Expand(log, attrs) = e
  BY DEF Expand
<1>2. \A i \in 1..Len(attrs) : FromDisk(log, attrs[i]) \in LogTags
  BY FromDiskType
<1>3. e \in Seq(LogTags) /\ Len(e) = Len(attrs)
  BY <1>2, IsASeq
<1> QED BY <1>1, <1>3

LEMMA ShiftedType ==
  ASSUME NEW t \in Tags, NEW k \in Int
  PROVE  [t EXCEPT !.id = @ - k] \in Tags /\ [t EXCEPT !.id = @ - k].type = t.type
BY DEF Tags

CompactedStep(log, tags, n, begin, end, a) ==
  IF Kept(Unique(tags, n), begin, end)
  THEN Append(a, [FromDisk(log, Unique(tags, n)) EXCEPT !.id = @ - begin]) ELSE a

LEMMA CompactedStepType ==
  ASSUME NEW log \in Seq(Tags), NEW tags \in Seq(LogTags), NEW n \in 1..Len(tags),
         NEW begin \in Int, NEW end \in Int, NEW a \in Seq(LogTags)
  PROVE  CompactedStep(log, tags, n, begin, end, a) \in Seq(LogTags)
<1> DEFINE u == Unique(tags, n)
<1>1. u \in LogTags
  <2>1. tags \in Seq(Tags) /\ tags[n] \in LogTags
    BY LogTagsAreTags
  <2>2. u \in Tags /\ u.type \in {tags[n].type, "noop"}
    BY <2>1, UniqueType
  <2> QED BY <2>1, <2>2 DEF LogTags
<1> DEFINE d == FromDisk(log, u)
           e == [d EXCEPT !.id = @ - begin]
<1> HIDE DEF u
<1>2. d \in LogTags
  BY <1>1, FromDiskType
<1>3. e \in LogTags
  <2> HIDE DEF d
  <2>1. d \in Tags /\ d.type # "crc"
    BY <1>2 DEF LogTags
  <2>2. e \in Tags /\ e.type = d.type
    BY <2>1, ShiftedType
  <2> HIDE DEF e
  <2> QED BY <2>1, <2>2 DEF LogTags
<1> HIDE DEF d, e
<1>4. Append(a, e) \in Seq(LogTags)
  BY <1>3, AppendType
<1> QED BY <1>4 DEF CompactedStep, u, d, e

CompactedUpto(g, log, tags, begin, end) ==
  g = [n \in 0..Len(tags) |->
         CASE n = 0 -> <<>>
           [] n > 0 /\ Kept(Unique(tags, n), begin, end) ->
                Append(g[n - 1], [FromDisk(log, Unique(tags, n)) EXCEPT !.id = @ - begin])
           [] OTHER -> g[n - 1]]

LEMMA CompactedRuns ==
  ASSUME NEW log \in Seq(LogTags), NEW attrs \in Seq(LogTags), NEW begin \in Int, NEW end \in Int
  PROVE  \E g : /\ CompactedUpto(g, log, log \o attrs, begin, end)
                /\ g \in [0..Len(log \o attrs) -> Seq(LogTags)]
                /\ Compacted(log, attrs, begin, end) = g[Len(log \o attrs)]
<1> DEFINE tags == log \o attrs
           L == Len(tags)
           V == Seq(LogTags)
           Step(a, n) == CompactedStep(log, tags, n, begin, end, a)
           F == [n \in 1..L |-> [a \in V |-> Step(a, n)]]
           S(g) == {n \in Nat : n <= L => g[n] \in V}
           v == <<>>
<1>0. log \in Seq(Tags) /\ tags \in Seq(LogTags) /\ L \in Nat
  BY LogTagsAreTags
<1>1. ASSUME NEW n \in 1..L, NEW a \in V PROVE Step(a, n) \in V
  <2> HIDE DEF tags
  <2> QED BY <1>0, CompactedStepType
<1>2. F \in [1..L -> [V -> V]] /\ v \in V
  <2> HIDE DEF Step, L
  <2> QED BY <1>1
<1>3. PICK s : Runs(s, L, V, F, v)
  <2> HIDE DEF V, F, v, L
  <2> QED BY <1>0, <1>2, RunExists
<1>4. CompactedUpto(s, log, tags, begin, end)
  <2>1. ASSUME NEW n \in 0..L
        PROVE  s[n] = CASE n = 0 -> <<>>
                        [] n > 0 /\ Kept(Unique(tags, n), begin, end) ->
                             Append(s[n - 1], [FromDisk(log, Unique(tags, n)) EXCEPT !.id = @ - begin])
                        [] OTHER -> s[n - 1]
    <3>1. CASE n = 0
      BY <3>1, <1>3 DEF Runs
    <3>2. CASE n # 0
      <4>1. s[n] = F[n][s[n - 1]] /\ s[n - 1] \in V /\ n \in 1..L
        <5> HIDE DEF F, V, v, L
        <5> QED BY <3>2, <1>0, <1>3 DEF Runs
      <4>2. F[n][s[n - 1]] = Step(s[n - 1], n)
        <5> HIDE DEF Step, V, L
        <5> QED BY <4>1
      <4> HIDE DEF tags, L, F
      <4> QED BY <3>2, <4>1, <4>2 DEF CompactedStep
    <3> QED BY <3>1, <3>2
  <2>2. s = [n \in 0..L |-> s[n]]
    <3> HIDE DEF L, F, V
    <3> QED BY <1>3 DEF Runs
  <2> QED BY <2>1, <2>2 DEF CompactedUpto
<1> DEFINE after == CHOOSE after : CompactedUpto(after, log, tags, begin, end)
<1>5. CompactedUpto(after, log, tags, begin, end)
  BY <1>4
<1>6. Compacted(log, attrs, begin, end) = after[L]
  BY DEF Compacted, CompactedUpto
<1> HIDE DEF after
<1>7. \A n \in 0..L : after[n] \in V
  <2>0. ASSUME NEW n \in 0..L
        PROVE  after[n] = IF n = 0 THEN <<>> ELSE Step(after[n - 1], n)
    <3>1. after[n] = CASE n = 0 -> <<>>
                       [] n > 0 /\ Kept(Unique(tags, n), begin, end) ->
                            Append(after[n - 1], [FromDisk(log, Unique(tags, n)) EXCEPT !.id = @ - begin])
                       [] OTHER -> after[n - 1]
      BY <1>5 DEF CompactedUpto
    <3> HIDE DEF tags, L
    <3> QED BY <3>1, <1>0 DEF CompactedStep
  <2>1. 0 \in S(after)
    <3>1. after[0] = <<>>
      <4> HIDE DEF Step, L
      <4> QED BY <2>0, <1>0
    <3> HIDE DEF V, L
    <3> QED BY <3>1, <1>2
  <2>2. ASSUME NEW n \in Nat, n \in S(after) PROVE n + 1 \in S(after)
    <3> HIDE DEF Step, V, L
    <3> SUFFICES ASSUME n + 1 <= L PROVE after[n + 1] \in V
      OBVIOUS
    <3>1. n + 1 \in 0..L /\ n + 1 \in 1..L /\ n + 1 - 1 = n /\ after[n] \in V
      BY <1>0, <2>2
    <3> QED BY <3>1, <2>0, <1>1
  <2> HIDE DEF S
  <2>3. Nat \subseteq S(after)
    BY <2>1, <2>2, SetInduction
  <2> QED BY <2>3, <1>0 DEF S
<1>8. after = [n \in 0..L |-> after[n]]
  BY <1>5 DEF CompactedUpto
<1>9. after \in [0..L -> V]
  <2> HIDE DEF V, L
  <2> QED BY <1>7, <1>8
<1> QED BY <1>5, <1>6, <1>9

LEMMA CompactedType ==
  ASSUME NEW log \in Seq(LogTags), NEW attrs \in Seq(LogTags), NEW begin \in Int, NEW end \in Int
  PROVE  Compacted(log, attrs, begin, end) \in Seq(LogTags)
<1>1. Len(log \o attrs) \in 0..Len(log \o attrs)
  OBVIOUS
<1> QED BY <1>1, CompactedRuns

------------------------------------------------------------------------------
(* The scan for commits and the fetch.                                     *)

\* The first commit of block b ends at unit n or before it.
StartsBy(blocks, b, n) == \E j \in 1..n : IsCommit(blocks, b, 0, j)

\* The units up to n continue each other.
Chained(units, n) == \A k \in 1..n : units[k].top = LeftTop(units, k - 1)

HasNext(blocks, b, i) == \E j \in i + 1..UNITS : IsCommit(blocks, b, i, j)
NextEnd(blocks, b, i) == CHOOSE j \in i + 1..UNITS : IsCommit(blocks, b, i, j)

ScanFrom(g, blocks, b) ==
  g = [i \in 0..UNITS |-> IF HasNext(blocks, b, i) THEN g[NextEnd(blocks, b, i)] ELSE i]

LEMMA NextEndIs ==
  ASSUME NEW blocks, NEW b, NEW i \in 0..UNITS, HasNext(blocks, b, i)
  PROVE  /\ NextEnd(blocks, b, i) \in i + 1..UNITS
         /\ IsCommit(blocks, b, i, NextEnd(blocks, b, i))
BY DEF HasNext, NextEnd

LEMMA ScanRuns ==
  ASSUME NEW blocks, NEW b
  PROVE  \E g : ScanFrom(g, blocks, b) /\ ScanEnd(blocks, b) = g[0]
<1> DEFINE Val(g, i) == IF HasNext(blocks, b, i) THEN g[NextEnd(blocks, b, i)] ELSE i
           Part(g, m) == g \in [m..UNITS -> 0..UNITS] /\ \A i \in m..UNITS : g[i] = Val(g, i)
           S == {k \in Nat : k <= UNITS => \E g : Part(g, UNITS - k)}
<1>0. UNITS \in Nat
  BY PairAssumption
<1>1. 0 \in S
  <2> DEFINE g == [i \in UNITS..UNITS |-> i]
  <2>1. ~HasNext(blocks, b, UNITS)
    BY <1>0 DEF HasNext
  <2>2. Part(g, UNITS)
    <3> HIDE DEF g
    <3>1. g \in [UNITS..UNITS -> 0..UNITS] /\ g[UNITS] = UNITS
      BY <1>0 DEF g
    <3>2. \A i \in UNITS..UNITS : i = UNITS
      BY <1>0
    <3> QED BY <3>1, <3>2, <2>1
  <2>3. UNITS - 0 = UNITS
    BY <1>0
  <2> HIDE DEF Part, g
  <2> QED BY <2>2, <2>3
<1>2. ASSUME NEW k \in Nat, k \in S PROVE k + 1 \in S
  <2> SUFFICES ASSUME k + 1 <= UNITS PROVE \E h : Part(h, UNITS - (k + 1))
    <3>1. k + 1 \in Nat
      OBVIOUS
    <3> HIDE DEF Part
    <3>2. (k + 1 <= UNITS => \E h : Part(h, UNITS - (k + 1))) => k + 1 \in S
      BY <3>1
    <3> QED BY <3>2
  <2> DEFINE m == UNITS - (k + 1)
  <2>1. m \in 0..UNITS /\ UNITS - k = m + 1 /\ k <= UNITS
    BY <1>0
  <2>2. PICK g : Part(g, m + 1)
    <3> HIDE DEF Part
    <3> QED BY <1>2, <2>1
  <2> DEFINE h == [i \in m..UNITS |-> IF i = m THEN Val(g, m) ELSE g[i]]
  <2>3. \A i \in m..UNITS : HasNext(blocks, b, i) =>
           NextEnd(blocks, b, i) \in m + 1..UNITS /\ i + 1 <= NextEnd(blocks, b, i)
    BY <1>0, <2>1, NextEndIs
  <2>4. Val(g, m) \in 0..UNITS
    BY <2>1, <2>2, <2>3
  <2>5. h \in [m..UNITS -> 0..UNITS]
    <3> HIDE DEF Val
    <3> QED BY <2>1, <2>2, <2>4
  <2>6. \A i \in m + 1..UNITS : h[i] = g[i]
    BY <2>1
  <2>7. ASSUME NEW i \in m..UNITS PROVE h[i] = Val(h, i)
    <3>1. Val(h, i) = Val(g, i)
      <4> HIDE DEF h
      <4> QED BY <2>3, <2>6
    <3>2. CASE i = m
      <4> HIDE DEF Val
      <4> QED BY <3>1, <3>2, <2>1
    <3>3. CASE i # m
      <4>1. i \in m + 1..UNITS
        BY <3>3, <2>1
      <4> HIDE DEF Val, h
      <4> QED BY <4>1, <3>1, <2>2, <2>6
    <3> QED BY <3>2, <3>3
  <2> HIDE DEF h
  <2> QED BY <2>5, <2>7
<1> HIDE DEF S
<1>3. UNITS \in S
  BY <1>0, <1>1, <1>2, SetInduction
<1>4. UNITS - UNITS = 0 /\ UNITS <= UNITS
  BY <1>0
<1>5. PICK g : Part(g, 0)
  <2> HIDE DEF Part
  <2> QED BY <1>0, <1>3, <1>4 DEF S
<1>6. ScanFrom(g, blocks, b)
  <2>1. g = [i \in 0..UNITS |-> g[i]]
    BY <1>5
  <2>2. \A i \in 0..UNITS : g[i] = IF HasNext(blocks, b, i) THEN g[NextEnd(blocks, b, i)] ELSE i
    BY <1>5
  <2> QED BY <2>1, <2>2 DEF ScanFrom
<1> DEFINE from == CHOOSE from : ScanFrom(from, blocks, b)
<1>7. ScanFrom(from, blocks, b)
  BY <1>6
<1>8. ScanEnd(blocks, b) = from[0]
  BY DEF ScanEnd, ScanFrom, HasNext, NextEnd
<1> QED BY <1>7, <1>8

\* Where a scan that starts behind unit i ends.
ScanStops(blocks, b, i, e) ==
  LET units == blocks[b].units
  IN  /\ e \in i..UNITS /\ ~HasNext(blocks, b, e)
      /\ \A k \in i + 1..e : units[k].top = LeftTop(units, k - 1)
      /\ e > i => units[e].tag.type = "crc" /\ \E j \in i + 1..e : IsCommit(blocks, b, i, j)
      /\ HasNext(blocks, b, i) => e > i

LEMMA ScanStep ==
  ASSUME NEW blocks, NEW b, NEW i \in 0..UNITS, NEW j \in i + 1..UNITS, NEW e,
         IsCommit(blocks, b, i, j), ScanStops(blocks, b, j, e)
  PROVE  ScanStops(blocks, b, i, e)
<1> DEFINE units == blocks[b].units
<1>0. UNITS \in Nat /\ i \in Nat /\ j \in Nat /\ e \in j..UNITS /\ i < j
  BY PairAssumption DEF ScanStops
<1>1. \A k \in i + 1..e : units[k].top = LeftTop(units, k - 1)
  <2>1. \A k \in i + 1..j : units[k].top = LeftTop(units, k - 1)
    BY DEF IsCommit
  <2>2. \A k \in j + 1..e : units[k].top = LeftTop(units, k - 1)
    BY DEF ScanStops
  <2>3. \A k \in i + 1..e : k \in i + 1..j \/ k \in j + 1..e
    BY <1>0
  <2> QED BY <2>1, <2>2, <2>3
<1>2. units[e].tag.type = "crc"
  <2>1. CASE e = j
    BY <2>1 DEF IsCommit
  <2>2. CASE e > j
    BY <2>2 DEF ScanStops
  <2> QED BY <1>0, <2>1, <2>2
<1>3. e \in i..UNITS /\ e > i /\ j \in i + 1..e
  BY <1>0
<1>4. ~HasNext(blocks, b, e)
  BY DEF ScanStops
<1> QED BY <1>1, <1>2, <1>3, <1>4 DEF ScanStops

LEMMA ScanEndStops ==
  ASSUME NEW blocks, NEW b
  PROVE  ScanStops(blocks, b, 0, ScanEnd(blocks, b))
<1>1. PICK g : ScanFrom(g, blocks, b) /\ ScanEnd(blocks, b) = g[0]
  BY ScanRuns
<1> DEFINE S == {k \in Nat : k <= UNITS =>
                   \A i \in UNITS - k..UNITS : ScanStops(blocks, b, i, g[i])}
<1>0. UNITS \in Nat
  BY PairAssumption
<1>2. ASSUME NEW i \in 0..UNITS
      PROVE  g[i] = IF HasNext(blocks, b, i) THEN g[NextEnd(blocks, b, i)] ELSE i
  BY <1>1 DEF ScanFrom
<1>3. ASSUME NEW i \in 0..UNITS, ~HasNext(blocks, b, i) PROVE ScanStops(blocks, b, i, g[i])
  <2>1. g[i] = i
    BY <1>2, <1>3
  <2> QED BY <2>1, <1>0, <1>3 DEF ScanStops
<1>4. 0 \in S
  <2>1. ~HasNext(blocks, b, UNITS)
    BY <1>0 DEF HasNext
  <2>2. \A i \in UNITS - 0..UNITS : i = UNITS /\ i \in 0..UNITS
    BY <1>0
  <2> QED BY <2>1, <2>2, <1>3
<1>5. ASSUME NEW k \in Nat, k \in S PROVE k + 1 \in S
  <2> SUFFICES ASSUME k + 1 <= UNITS, NEW i \in UNITS - (k + 1)..UNITS
               PROVE  ScanStops(blocks, b, i, g[i])
    OBVIOUS
  <2>1. k <= UNITS /\ i \in 0..UNITS /\ i + 1 >= UNITS - k
    BY <1>0
  <2>2. CASE ~HasNext(blocks, b, i)
    BY <2>1, <2>2, <1>3
  <2>3. CASE HasNext(blocks, b, i)
    <3> DEFINE j == NextEnd(blocks, b, i)
    <3>1. j \in i + 1..UNITS /\ IsCommit(blocks, b, i, j) /\ g[i] = g[j]
      BY <2>1, <2>3, <1>2, NextEndIs
    <3>2. j \in UNITS - k..UNITS
      BY <2>1, <3>1, <1>0
    <3> HIDE DEF j
    <3>3. ScanStops(blocks, b, j, g[j])
      BY <3>2, <2>1, <1>5
    <3> QED BY <2>1, <3>1, <3>3, ScanStep
  <2> QED BY <2>2, <2>3
<1> HIDE DEF S
<1>6. UNITS \in S /\ 0 \in UNITS - UNITS..UNITS /\ UNITS <= UNITS
  BY <1>0, <1>4, <1>5, SetInduction
<1> QED BY <1>1, <1>6 DEF S

\* The end of the scan of a block.
LEMMA ScanEndIs ==
  ASSUME NEW blocks, NEW b, NEW e, e = ScanEnd(blocks, b)
  PROVE  /\ e \in 0..UNITS /\ Chained(blocks[b].units, e)
         /\ e > 0 => blocks[b].units[e].tag.type = "crc" /\ StartsBy(blocks, b, e)
         /\ StartsBy(blocks, b, UNITS) => e > 0
<1>1. ScanStops(blocks, b, 0, e)
  BY ScanEndStops
<1>2. HasNext(blocks, b, 0) <=> StartsBy(blocks, b, UNITS)
  BY DEF HasNext, StartsBy
<1> QED BY <1>1, <1>2 DEF ScanStops, Chained, StartsBy

LEMMA LeftTopIsBit ==
  ASSUME NEW blocks \in Devices, NEW b \in Block, NEW i \in 0..UNITS
  PROVE  LeftTop(blocks[b].units, i) \in Bits
<1>1. CASE i = 0
  BY <1>1 DEF LeftTop, Bits
<1>2. CASE i # 0
  <2>1. blocks[b].units[i] \in UnitWords
    BY <1>2, PairAssumption DEF Devices, Units
  <2> QED BY <1>2, <2>1 DEF LeftTop, Bits, UnitWords
<1> QED BY <1>1, <1>2

Pairs == {p \in Block \X Block : p[1] # p[2]}

LEMMA DirAtIs ==
  ASSUME NEW blocks \in Devices, NEW p \in Pairs, NEW off \in 0..UNITS, NEW d,
         d = DirAt(blocks, p)[off]
  PROVE  /\ d \in Dirs
         /\ d = [pair |-> p, rev |-> blocks[p[1]].rev, off |-> off,
                 top |-> LeftTop(blocks[p[1]].units, off),
                 erased |-> SeemsErased(blocks, p[1], off), log |-> LogOf(blocks, p[1], off)]
<1> DEFINE r == [pair |-> p, rev |-> blocks[p[1]].rev, off |-> off,
                 top |-> LeftTop(blocks[p[1]].units, off),
                 erased |-> SeemsErased(blocks, p[1], off), log |-> LogOf(blocks, p[1], off)]
<1>1. d = r
  BY Zenon DEF DirAt
<1>2. p[1] \in Block
  BY DEF Pairs
<1>3. LeftTop(blocks[p[1]].units, off) \in Bits /\ LogOf(blocks, p[1], off) \in Seq(LogTags)
  BY <1>2, LeftTopIsBit, LogType
<1>4. SeemsErased(blocks, p[1], off) \in BOOLEAN
  BY Zenon DEF SeemsErased
<1>5. blocks[p[1]].rev \in 0..REVS - 1
  BY <1>2 DEF Devices
<1>6. r \in Dirs
  BY <1>3, <1>4, <1>5, Zenon DEF Dirs, Pairs
<1> QED BY <1>1, <1>6

Pair(p) == {p[1], p[2]}

\* The first block of p is the one that a fetch looks at, or would be if the
\* other one held a commit.
Leads(blocks, pair, p) ==
  LET q == FetchOrder(blocks, pair)
  IN  p = q \/ (p = <<q[2], q[1]>> /\ ScanEnd(blocks, q[1]) = 0)

\* Of a pair with a commit, a fetch finds the end of the scan of a block.
LEMMA FetchIs ==
  ASSUME NEW blocks \in Devices, NEW pair \in Pairs, NEW f, f = Fetch(blocks, pair),
         \E b \in Pair(pair) : StartsBy(blocks, b, UNITS)
  PROVE  \E p \in Pairs :
           /\ Pair(p) = Pair(pair) /\ f.pair = p
           /\ f \in Dirs /\ f.off > 0 /\ f.off = ScanEnd(blocks, p[1])
           /\ f = DirAt(blocks, p)[f.off] /\ Leads(blocks, pair, p)
<1> DEFINE p == FetchOrder(blocks, pair)
           q == <<p[2], p[1]>>
<1>1. p \in Pairs /\ q \in Pairs /\ q[1] = p[2] /\ Pair(p) = Pair(pair) /\ Pair(q) = Pair(pair)
  BY DEF FetchOrder, Pairs, Pair
<1>2. ScanEnd(blocks, p[1]) \in 0..UNITS /\ ScanEnd(blocks, p[2]) \in 0..UNITS
  BY ScanEndIs
<1>3. ScanEnd(blocks, p[1]) > 0 \/ ScanEnd(blocks, p[2]) > 0
  <2>1. StartsBy(blocks, p[1], UNITS) \/ StartsBy(blocks, p[2], UNITS)
    BY <1>1 DEF Pair
  <2> QED BY <2>1, ScanEndIs
<1>4. f = IF ScanEnd(blocks, p[1]) > 0 THEN DirAt(blocks, p)[ScanEnd(blocks, p[1])]
          ELSE DirAt(blocks, q)[ScanEnd(blocks, p[2])]
  <2>1. PairAssumption /\ UNITS \in Nat
    BY PairAssumption
  <2>2. CASE ScanEnd(blocks, p[1]) > 0
    <3>1. ~(ScanEnd(blocks, p[1]) = 0 /\ ScanEnd(blocks, p[2]) > 0)
      BY <2>2
    <3> QED BY <2>2, <3>1, Zenon DEF Fetch
  <2>3. CASE ~(ScanEnd(blocks, p[1]) > 0)
    <3>1. ScanEnd(blocks, p[1]) = 0 /\ ScanEnd(blocks, p[2]) > 0
      BY <2>3, <1>2, <1>3, <2>1
    <3> QED BY <2>3, <3>1, Zenon DEF Fetch
  <2> QED BY <2>2, <2>3
<1>7. Leads(blocks, pair, p) /\ (ScanEnd(blocks, p[1]) = 0 => Leads(blocks, pair, q))
  BY Zenon DEF Leads
<1> HIDE DEF p, q
<1>5. CASE ScanEnd(blocks, p[1]) > 0
  <2> DEFINE e == ScanEnd(blocks, p[1])
  <2>1. f = DirAt(blocks, p)[e] /\ e > 0 /\ e \in 0..UNITS
    BY <1>2, <1>4, <1>5
  <2> HIDE DEF e
  <2>2. f \in Dirs /\ f.pair = p /\ f.off = e
    BY <1>1, <2>1, DirAtIs
  <2> QED BY <1>1, <1>7, <2>1, <2>2 DEF e
<1>6. CASE ~(ScanEnd(blocks, p[1]) > 0)
  <2> DEFINE e == ScanEnd(blocks, p[2])
  <2>1. f = DirAt(blocks, q)[e] /\ e > 0 /\ e \in 0..UNITS /\ e = ScanEnd(blocks, q[1])
    BY <1>1, <1>2, <1>3, <1>4, <1>6
  <2> HIDE DEF e
  <2>2. f \in Dirs /\ f.pair = q /\ f.off = e
    BY <1>1, <2>1, DirAtIs
  <2>3. Leads(blocks, pair, q)
    BY <1>2, <1>6, <1>7
  <2> QED BY <1>1, <2>1, <2>2, <2>3
<1> QED BY <1>5, <1>6

------------------------------------------------------------------------------
(* What a change of one block leaves alone.                                *)

\* Block b is the same in x and in y up to unit n.
Agree(x, y, b, n) ==
  x[b].rev = y[b].rev /\ \A k \in 1..n : x[b].units[k] = y[b].units[k]

LEMMA LeftTopKept ==
  ASSUME NEW x, NEW y, NEW n \in 0..UNITS, \A k \in 1..n : x[k] = y[k], NEW i \in 0..n
  PROVE  LeftTop(x, i) = LeftTop(y, i)
BY PairAssumption DEF LeftTop

LEMMA CommitKept ==
  ASSUME NEW x, NEW y, NEW b, NEW n \in 0..UNITS, Agree(x, y, b, n), NEW i \in 0..n,
         NEW j \in i + 1..n, IsCommit(x, b, i, j)
  PROVE  IsCommit(y, b, i, j)
<1> DEFINE xu == x[b].units
           yu == y[b].units
<1>0. /\ n \in Nat /\ j \in 1..n /\ j \in Int /\ i \in Int
      /\ \A k \in i + 1..j : k \in 1..n /\ k - 1 \in 0..n
      /\ \A k \in i + 1..j - 1 : k \in 1..n
      /\ \A k \in 1..j - i - 1 : i + k \in 1..n
  BY PairAssumption
<1>1. \A k \in 1..n : xu[k] = yu[k]
  BY DEF Agree
<1> HIDE DEF xu, yu
<1>2. \A k \in 0..n : LeftTop(xu, k) = LeftTop(yu, k)
  BY <1>1, LeftTopKept
<1>3. [k \in 1..j - i - 1 |-> Digest(xu[i + k])] = [k \in 1..j - i - 1 |-> Digest(yu[i + k])]
  BY <1>0, <1>1
<1>4. Header(x[b].rev, i) = Header(y[b].rev, i)
  BY DEF Agree
<1>5. /\ xu[j].tag.type = "crc"
      /\ \A k \in i + 1..j : xu[k].top = LeftTop(xu, k - 1)
      /\ \A k \in i + 1..j - 1 : IsAttr(xu[k])
      /\ xu[j].covers = Header(x[b].rev, i) \o [k \in 1..j - i - 1 |-> Digest(xu[i + k])]
  BY Zenon DEF IsCommit, xu
<1>6. /\ yu[j].tag.type = "crc"
      /\ \A k \in i + 1..j : yu[k].top = LeftTop(yu, k - 1)
      /\ \A k \in i + 1..j - 1 : IsAttr(yu[k])
  BY <1>0, <1>1, <1>2, <1>5
<1>7. yu[j].covers = Header(y[b].rev, i) \o [k \in 1..j - i - 1 |-> Digest(yu[i + k])]
  <2>1. yu[j].covers = xu[j].covers
    BY <1>1
  <2> QED BY <2>1, <1>3, <1>4, <1>5
<1> QED BY <1>6, <1>7, Zenon DEF IsCommit, yu

LEMMA StartsByKept ==
  ASSUME NEW x, NEW y, NEW b, NEW n \in 0..UNITS, Agree(x, y, b, n), StartsBy(x, b, n),
         NEW m \in n..UNITS
  PROVE  StartsBy(y, b, m)
<1>1. PICK j \in 1..n : IsCommit(x, b, 0, j)
  BY DEF StartsBy
<1>2. IsCommit(y, b, 0, j)
  <2>1. 0 \in 0..n /\ j \in 0 + 1..n
    BY <1>1, PairAssumption
  <2> QED BY <1>1, <2>1, CommitKept
<1>3. j \in 1..m
  BY PairAssumption
<1> QED BY <1>2, <1>3 DEF StartsBy

LEMMA StartsBySame ==
  ASSUME NEW x, NEW y, NEW b, x[b] = y[b], NEW n
  PROVE  StartsBy(x, b, n) = StartsBy(y, b, n)
<1>1. \A j \in 1..n : IsCommit(x, b, 0, j) <=> IsCommit(y, b, 0, j)
  BY Zenon DEF IsCommit
<1> QED BY <1>1 DEF StartsBy

\* A unit that is programmed.
Programmed(blocks, b, i, w) == [blocks EXCEPT ![b].units[i] = w]

LEMMA ProgIs ==
  ASSUME NEW blocks \in Devices, NEW b \in Block, NEW i \in Units, NEW w \in UnitWords,
         NEW y, y = Programmed(blocks, b, i, w)
  PROVE  /\ y \in Devices /\ y[b].units[i] = w /\ y[b].rev = blocks[b].rev
         /\ \A k \in Units \ {i} : y[b].units[k] = blocks[b].units[k]
         /\ \A c \in Block \ {b} : y[c] = blocks[c]
<1> DEFINE u == [blocks[b].units EXCEPT ![i] = w]
           r == [blocks[b] EXCEPT !.units = u]
<1>1. u \in [Units -> UnitWords] /\ u[i] = w
      /\ \A k \in Units \ {i} : u[k] = blocks[b].units[k]
  BY DEF Devices
<1> HIDE DEF u
<1>2. r \in [rev : 0..REVS - 1, units : [Units -> UnitWords]] /\ r.units = u
      /\ r.rev = blocks[b].rev
  BY <1>1 DEF Devices
<1>3. y = [blocks EXCEPT ![b] = r]
  BY Zenon DEF r, u, Programmed
<1> HIDE DEF r
<1>4. y \in Devices /\ y[b] = r /\ \A c \in Block \ {b} : y[c] = blocks[c]
  BY <1>2, <1>3 DEF Devices
<1> QED BY <1>1, <1>2, <1>4

LEMMA WordType ==
  ASSUME NEW top \in Bits, NEW tag \in LogTags
  PROVE  Word(top, tag) \in UnitWords /\ Word(top, tag).top = top /\ Word(top, tag).tag = tag
<1>1. <<>> \in Seq(Digests) /\ <<>> \in {NoFcrc} \cup Digests
  BY DEF NoFcrc
<1> QED BY <1>1 DEF Word, UnitWords, LogTags

LEMMA JunkType ==
  ASSUME NEW top \in Bits, NEW n \in Bits
  PROVE  Junk(top, n) \in UnitWords /\ Junk(top, n).tag.type = "junk"
<1>1. Tag("junk", n, 0) \in LogTags /\ Tag("junk", n, 0).type = "junk"
  BY DEF Tag, LogTags, Tags, TagTypes, Bits
<1> QED BY <1>1, WordType DEF Junk

LEMMA BlankType == Blank \in UnitWords /\ Blank.tag.type = "blank" /\ Blank.top = 1
<1>1. Tag("blank", 0, 0) \in LogTags /\ Tag("blank", 0, 0).type = "blank"
  BY DEF Tag, LogTags, Tags, TagTypes
<1>2. 1 \in Bits
  BY DEF Bits
<1> QED BY <1>1, <1>2, WordType DEF Blank

LEMMA DigestType ==
  ASSUME NEW w \in UnitWords
  PROVE  Digest(w) \in Digests
BY DEF UnitWords, Digest, Digests

------------------------------------------------------------------------------
(* The inductive invariant.                                                *)

TypeInv ==
  /\ dev \in Devices
  /\ bad \in [Block -> {"no", "error", "noop", "taken"}]
  /\ erasing \in {"ones", "anything"}
  /\ parent \in Pairs
  /\ dir \in Dirs
  /\ op \in Ops(op.target)
  /\ op.pc # "idle" => op.dir \in Dirs
  /\ programmed \in [Block -> 0..UNITS]
  /\ commits \in Nat /\ losses \in Nat

\* A crc at unit n describes the unit behind it.
Foretold(units, n) ==
  n > 0 /\ n < UNITS /\ units[n].tag.type = "crc" => units[n].fcrc = Digest(units[n + 1])

\* The half of the pair that a commit writes to.
Half == IF op.mode = "append" THEN op.dir.pair[1] ELSE op.dir.pair[2]

\* A mount finds an entry point: one block of the pair holds a commit.
Mountable == found = Fetch(dev, parent) /\ \E b \in Pair(parent) : StartsBy(dev, b, UNITS)

\* A commit leaves alone the block that it starts from, up to where it starts.
KeepsOld ==
  /\ op.pc \in {"compact", "relocate", "erase", "rev", "write", "verify"} =>
       op.dir.pair[1] \in Pair(parent) /\ StartsBy(dev, op.dir.pair[1], UNITS)
  /\ op.pc = "parent" => op.dir.pair[2] \in Pair(parent) /\ StartsBy(dev, op.dir.pair[2], UNITS)
  /\ op.pc \in {"relocate", "erase", "rev"} => op.mode = "compact"
  /\ op.pc \in {"rev", "write", "verify"} => op.mode # "none" /\ op.block = Half
  /\ op.pc \in {"write", "verify"} /\ op.mode = "append" =>
       StartsBy(dev, op.block, op.off) /\ ~op.relocated

\* There is room for what is written next.
Fits ==
  /\ op.pc = "rev" => op.off = 0 /\ op.top = 1
  /\ op.pc = "write" => Written >= 0 /\ (op.off < UNITS \/ Pending)

\* The block written to is erased behind the commit, whose units continue
\* each other; the crc before it still describes the unit behind it.
WritesErased ==
  op.pc \in {"rev", "write"} /\ bad[op.block] # "noop" =>
    LET units == dev[op.block].units
    IN  /\ programmed[op.block] <= op.off
        /\ Chained(units, op.off) /\ op.top = LeftTop(units, op.off)
        /\ Foretold(units, op.off)

\* A crc in front of a unit that was programmed after the erase does not
\* describe it, or the unit continues the log.
NoLies ==
  \A b \in Block, i \in Units :
    i < programmed[b] /\ dev[b].units[i].tag.type = "crc" =>
      LET units == dev[b].units
      IN  units[i].fcrc # Digest(units[i + 1]) \/ units[i + 1].top = LeftTop(units, i)

IInv == TypeInv /\ Mountable /\ KeepsOld /\ Fits /\ WritesErased /\ NoLies

\* What follows a directory that can be appended to.
Appendable(blocks, d) ==
  LET units == blocks[d.pair[1]].units
  IN  /\ programmed[d.pair[1]] <= d.off
      /\ Chained(units, d.off) /\ d.top = LeftTop(units, d.off)
      /\ Foretold(units, d.off)

LEMMA FoundType ==
  ASSUME dev \in Devices, parent \in Pairs, Mountable
  PROVE  found \in Dirs
BY FetchIs DEF Mountable

LEMMA FoundIs ==
  ASSUME TypeInv, Mountable, NoLies
  PROVE  /\ found \in Dirs /\ found.off > 0
         /\ found.pair[1] \in Pair(parent) /\ StartsBy(dev, found.pair[1], found.off)
         /\ found.erased => Appendable(dev, found)
         /\ found.off = UNITS => Appendable(dev, found)
<1>0. dev \in Devices /\ parent \in Pairs /\ UNITS \in Nat /\ programmed \in [Block -> 0..UNITS]
  BY PairAssumption DEF TypeInv
<1>1. PICK p \in Pairs :
           /\ Pair(p) = Pair(parent) /\ found.pair = p
           /\ found \in Dirs /\ found.off > 0 /\ found.off = ScanEnd(dev, p[1])
           /\ found = DirAt(dev, p)[found.off]
  BY <1>0, FetchIs DEF Mountable
<1> DEFINE b == p[1]
           units == dev[b].units
           n == found.off
<1>2. b \in Block /\ b \in Pair(parent) /\ n \in 1..UNITS /\ found.pair[1] = b
  <2>1. p[1] \in Block /\ p[1] \in Pair(p)
    BY DEF Pairs, Pair
  <2>2. n \in 0..UNITS
    BY <1>1 DEF Dirs
  <2> QED BY <1>0, <1>1, <2>1, <2>2
<1>3. Chained(units, n) /\ units[n].tag.type = "crc" /\ StartsBy(dev, b, n)
  BY <1>1, ScanEndIs
<1>4. found.top = LeftTop(units, n) /\ found.erased = SeemsErased(dev, b, n)
  <2>1. n \in 0..UNITS
    BY <1>2
  <2> HIDE DEF n, b
  <2> QED BY <1>0, <1>1, <2>1, DirAtIs DEF b, n
<1>5. ASSUME found.erased PROVE programmed[b] <= n /\ Foretold(units, n)
  <2>1. n < UNITS /\ units[n + 1].top # LeftTop(units, n) /\ units[n].fcrc = Digest(units[n + 1])
    BY <1>4, <1>5, Zenon DEF SeemsErased
  <2>2. ~(n < programmed[b])
    <3>1. n \in Units
      BY <1>2 DEF Units
    <3> HIDE DEF n, b
    <3> QED BY <2>1, <3>1, <1>2, <1>3 DEF NoLies
  <2>3. programmed[b] \in Nat /\ n \in Nat
    BY <1>0, <1>2
  <2> QED BY <2>1, <2>2, <2>3 DEF Foretold
<1>6. ASSUME n = UNITS PROVE programmed[b] <= n /\ Foretold(units, n)
  <2>1. programmed[b] \in 0..UNITS
    BY <1>0, <1>2
  <2> HIDE DEF n, b
  <2> QED BY <1>0, <1>6, <2>1 DEF Foretold
<1> QED BY <1>1, <1>2, <1>3, <1>4, <1>5, <1>6 DEF Appendable

\* What the runs check of the device and the commit.
LEMMA IInvDevice == IInv => TypeOK /\ ErasedIsErased /\ ProgsErased
<1> SUFFICES ASSUME IInv PROVE TypeOK /\ ErasedIsErased /\ ProgsErased
  OBVIOUS
<1>1. TypeOK
  BY DEF IInv, TypeInv, TypeOK, Devices, Pairs, Dirs, Ops
<1>2. ErasedIsErased
  BY FoundIs DEF IInv, ErasedIsErased, Appendable
<1>3. ProgsErased
  BY DEF IInv, WritesErased, ProgsErased
<1> QED BY <1>1, <1>2, <1>3

------------------------------------------------------------------------------
(* Steps that leave the device and the parent alone.                       *)

LEMMA SameDevice ==
  ASSUME Mountable, NoLies, UNCHANGED <<device, parent>>
  PROVE  Mountable' /\ NoLies'
BY DEF Mountable, NoLies, device

LEMMA IdleIs ==
  /\ Idle \in Ops(<<>>) /\ Idle.pc = "idle" /\ Idle.mode = "none" /\ Idle.words = <<>>
  /\ Idle.covers = <<>> /\ Idle.relocated = FALSE
<1>1. <<>> \in Seq(LogTags) /\ <<>> \in Seq(Digests) /\ UNITS \in Nat
  BY PairAssumption
<1> QED BY <1>1 DEF Idle, Ops, Bits

\* A commit begins.
LEMMA BeginStep ==
  ASSUME IInv, NEW d \in Dirs, NEW attrs \in Seq(LogTags), attrs # <<>>, Begin(d, attrs),
         d.pair[1] \in Pair(parent), StartsBy(dev, d.pair[1], d.off),
         d.erased => Appendable(dev, d)
  PROVE  IInv'
<1> DEFINE words == Expand(d.log, attrs)
           goal == Replay(d.log \o words)
           new == [Idle EXCEPT !.dir = d, !.attrs = attrs, !.target = goal]
           app == [new EXCEPT !.pc = "write", !.mode = "append", !.words = words,
                              !.block = d.pair[1], !.off = d.off, !.top = d.top]
           com == [new EXCEPT !.pc = "compact"]
<1>0. /\ UNITS \in Nat /\ d.off \in 0..UNITS /\ d.pair \in Pairs /\ d.pair[1] \in Block
      /\ d.top \in Bits /\ 1 \in Bits
  BY PairAssumption DEF Dirs, Pairs, Bits
<1>1. words \in Seq(LogTags) /\ Len(words) > 0
  <2>1. d.log \in Seq(Tags)
    BY LogTagsAreTags DEF Dirs
  <2>2. Len(attrs) > 0
    BY EmptySeq
  <2> QED BY <2>1, <2>2, ExpandType
<1>2. op' = IF d.erased THEN app ELSE com
  BY DEF Begin
<1>3. UNCHANGED <<device, bad, erasing, parent, dir, losses>> /\ commits' = commits + 1
  BY DEF Begin
<1> HIDE DEF words, goal
<1>4. /\ app \in Ops(goal) /\ app.target = goal /\ app.dir = d
      /\ com \in Ops(goal) /\ com.target = goal /\ com.dir = d
  <2>1. new \in Ops(goal)
    BY <1>0, <1>1, IdleIs DEF Ops
  <2>2. new.dir = d
    BY IdleIs DEF Ops
  <2> HIDE DEF new
  <2>3. com \in Ops(goal) /\ com.dir = d
    BY <2>1, <2>2 DEF Ops
  <2>4. app \in Ops(goal) /\ app.dir = d
    BY <1>0, <1>1, <2>1, <2>2 DEF Ops
  <2> HIDE DEF app, com
  <2> QED BY <2>3, <2>4 DEF Ops
<1>5. TypeInv'
  <2>1. op' \in Ops(op'.target) /\ op'.dir = d
    <3> HIDE DEF app, com
    <3> QED BY <1>2, <1>4
  <2> QED BY <1>3, <2>1 DEF TypeInv, IInv, device
<1>6. Mountable' /\ NoLies'
  BY <1>3, SameDevice DEF IInv
<1>7. dev' = dev /\ parent' = parent /\ programmed' = programmed /\ bad' = bad
  BY <1>3 DEF device
<1>8. StartsBy(dev, d.pair[1], UNITS)
  <2>1. Agree(dev, dev, d.pair[1], d.off) /\ UNITS \in d.off..UNITS
    BY <1>0 DEF Agree
  <2> QED BY <1>0, <2>1, StartsByKept
<1>9. CASE d.erased
  <2>1. op' = app
    BY <1>2, <1>9
  <2> HIDE DEF app
  <2>2. /\ op'.pc = "write" /\ op'.mode = "append" /\ op'.dir = d /\ op'.block = d.pair[1]
        /\ op'.off = d.off /\ op'.top = d.top /\ op'.words = words /\ op'.covers = <<>>
        /\ op'.relocated = FALSE
    BY <2>1, IdleIs DEF app, Ops
  <2>3. KeepsOld'
    BY <2>2, <1>7, <1>8 DEF KeepsOld, Half
  <2>4. Fits'
    BY <2>2, <1>1 DEF Fits, Written, Pending
  <2>5. WritesErased'
    BY <2>2, <1>7, <1>9 DEF WritesErased, Appendable
  <2> QED BY <1>5, <1>6, <2>3, <2>4, <2>5 DEF IInv
<1>10. CASE ~d.erased
  <2>1. op' = com
    BY <1>2, <1>10
  <2> HIDE DEF com
  <2>2. op'.pc = "compact" /\ op'.dir = d
    BY <2>1, IdleIs DEF com, Ops
  <2>3. KeepsOld'
    BY <2>2, <1>7, <1>8 DEF KeepsOld
  <2>4. Fits' /\ WritesErased'
    BY <2>2 DEF Fits, WritesErased
  <2> QED BY <1>5, <1>6, <2>3, <2>4 DEF IInv
<1> QED BY <1>9, <1>10

LEMMA ConcatType ==
  ASSUME NEW S, NEW s \in Seq(S), NEW t \in Seq(S)
  PROVE  s \o t \in Seq(S) /\ Len(s \o t) = Len(s) + Len(t)
OBVIOUS

LEMMA LogTagIs ==
  ASSUME NEW type \in {"create", "delete", "name", "struct", "move"}, NEW id \in Int, NEW val \in Int
  PROVE  Tag(type, id, val) \in LogTags
BY DEF Tag, LogTags, Tags, TagTypes

LEMMA NumbersAre == Name \subseteq Int /\ Content \subseteq Int /\ EMPTY \in Int /\ 0 \in Int
BY PairAssumption

\* A commit that starts from what a fetch finds.
LEMMA BeginFound ==
  ASSUME IInv, NEW attrs \in Seq(LogTags), attrs # <<>>, Begin(found, attrs)
  PROVE  IInv'
BY FoundIs, BeginStep DEF IInv

LEMMA FoundLookup ==
  ASSUME IInv, NEW n \in Name
  PROVE  Find(found.log, n).id \in Int
<1>1. found.log \in Seq(Tags)
  BY FoundIs, LogTagsAreTags DEF IInv, Dirs
<1> QED BY <1>1, FindType, NumbersAre

LEMMA CreateStep == IInv /\ Create => IInv'
<1> SUFFICES ASSUME IInv, NEW n \in Name,
                    Begin(found, <<Tag("create", Find(found.log, n).id, 0),
                                   Tag("name", Find(found.log, n).id, n),
                                   Tag("struct", Find(found.log, n).id, EMPTY)>>)
             PROVE  IInv'
  BY DEF Create
<1> DEFINE id == Find(found.log, n).id
           attrs == <<Tag("create", id, 0), Tag("name", id, n), Tag("struct", id, EMPTY)>>
<1>1. id \in Int /\ n \in Int
  BY FoundLookup, NumbersAre
<1> HIDE DEF id
<1>2. attrs \in Seq(LogTags) /\ attrs # <<>>
  BY <1>1, NumbersAre, LogTagIs
<1> HIDE DEF attrs
<1> QED BY <1>2, BeginFound DEF attrs, id

LEMMA RemoveStep == IInv /\ Remove => IInv'
<1> SUFFICES ASSUME IInv, NEW n \in Name,
                    Begin(found, <<Tag("delete", Find(found.log, n).id, 0)>>)
             PROVE  IInv'
  BY DEF Remove
<1> DEFINE attrs == <<Tag("delete", Find(found.log, n).id, 0)>>
<1>1. attrs \in Seq(LogTags) /\ attrs # <<>>
  BY FoundLookup, NumbersAre, LogTagIs
<1> HIDE DEF attrs
<1> QED BY <1>1, BeginFound DEF attrs

LEMMA RenameStep == IInv /\ Rename => IInv'
<1> SUFFICES ASSUME IInv, Rename PROVE IInv'
  OBVIOUS
<1>1. PICK n \in Name, m \in Name :
        LET old == Find(found.log, n)
            new == Find(found.log, m)
            newold == IF ~new.found /\ new.id <= old.id THEN old.id + 1 ELSE old.id
            replaced == IF new.found THEN <<Tag("delete", new.id, 0)>> ELSE <<>>
        IN  Begin(found, replaced \o <<Tag("create", new.id, 0), Tag("name", new.id, m),
                                        Tag("move", new.id, old.id), Tag("delete", newold, 0)>>)
  BY Zenon DEF Rename
<1> DEFINE old == Find(found.log, n)
           new == Find(found.log, m)
           newold == IF ~new.found /\ new.id <= old.id THEN old.id + 1 ELSE old.id
           replaced == IF new.found THEN <<Tag("delete", new.id, 0)>> ELSE <<>>
           moved == <<Tag("create", new.id, 0), Tag("name", new.id, m),
                      Tag("move", new.id, old.id), Tag("delete", newold, 0)>>
<1>2. old.id \in Int /\ new.id \in Int /\ m \in Int
  BY FoundLookup, NumbersAre
<1> HIDE DEF old, new
<1>3. newold \in Int
  BY <1>2
<1> HIDE DEF newold
<1>4. replaced \in Seq(LogTags)
  BY <1>2, NumbersAre, LogTagIs
<1>5. moved \in Seq(LogTags) /\ Len(moved) = 4
  BY <1>2, <1>3, NumbersAre, LogTagIs
<1> HIDE DEF replaced, moved
<1>6. replaced \o moved \in Seq(LogTags) /\ Len(replaced \o moved) = Len(replaced) + 4
  <2>1. replaced \o moved \in Seq(LogTags) /\ Len(replaced \o moved) = Len(replaced) + Len(moved)
    BY <1>4, <1>5, ConcatType, Zenon
  <2> QED BY <2>1, <1>5
<1>7. replaced \o moved # <<>>
  BY <1>4, <1>6
<1>8. Begin(found, replaced \o moved)
  BY <1>1 DEF replaced, moved, newold, old, new
<1> QED BY <1>6, <1>7, <1>8, BeginFound

\* The open file's directory is as good as what a fetch finds.
LEMMA SyncStep == ~StaleSyncs /\ IInv /\ Sync => IInv'
<1> SUFFICES ASSUME ~StaleSyncs, IInv, Sync PROVE IInv'
  OBVIOUS
<1>1. Current
  BY DEF Sync
<1>2. PICK id \in 0..Count(dir.log) - 1, c \in Content : Begin(dir, <<Tag("struct", id, c)>>)
  BY Zenon DEF Sync
<1>3. id \in Int /\ c \in Int
  <2>1. dir.log \in Seq(Tags)
    BY LogTagsAreTags DEF IInv, TypeInv, Dirs
  <2> QED BY <2>1, CountType, NumbersAre
<1> DEFINE attrs == <<Tag("struct", id, c)>>
<1>4. attrs \in Seq(LogTags) /\ attrs # <<>> /\ Begin(dir, attrs)
  BY <1>2, <1>3, LogTagIs
<1> HIDE DEF attrs
<1>5. found \in Dirs /\ dir \in Dirs
  BY FoundIs DEF IInv, TypeInv
<1>6. dir.pair = found.pair /\ dir.off = found.off /\ dir.top = found.top
  <2>1. dir = [found EXCEPT !.erased = dir.erased]
    BY <1>1 DEF Current
  <2> DEFINE e == dir.erased
  <2> HIDE DEF e
  <2>2. dir = [found EXCEPT !.erased = e]
    BY <2>1 DEF e
  <2> QED BY <2>2, <1>5 DEF Dirs
<1>7. dir.erased => Appendable(dev, dir)
  <2>1. dir.erased => found.erased \/ found.off = UNITS
    BY <1>1, <1>6 DEF Current
  <2>2. dir.erased => Appendable(dev, found)
    BY <2>1, FoundIs DEF IInv
  <2> QED BY <2>2, <1>6 DEF Appendable
<1> QED BY <1>4, <1>5, <1>6, <1>7, FoundIs, BeginStep DEF IInv

\* A commit that ends.
LEMMA ReturnIs ==
  ASSUME NEW r \in {"none", "ok", "nospc", "lost"}, Return(r)
  PROVE  op' \in Ops(op'.target) /\ op'.pc = "idle" /\ KeepsOld' /\ Fits' /\ WritesErased'
<1>1. op' = [Idle EXCEPT !.result = r]
  BY DEF Return
<1>2. op' \in Ops(op'.target) /\ op'.pc = "idle"
  BY <1>1, IdleIs DEF Ops
<1>3. KeepsOld' /\ Fits' /\ WritesErased'
  BY <1>2 DEF KeepsOld, Fits, WritesErased
<1> QED BY <1>2, <1>3

\* A commit that the device or the check refuses.
LEMMA CorruptStep ==
  ASSUME IInv, op.pc \in {"erase", "rev", "write", "verify"}, op' = Corrupt,
         UNCHANGED <<device, bad, erasing, parent, dir, commits, losses>>
  PROVE  IInv'
<1> DEFINE T == op.target
<1> HIDE DEF T
<1>0. op \in Ops(T)
  BY DEF IInv, TypeInv, T
<1>1. CASE op.mode = "append"
  <2>1. op' = [op EXCEPT !.pc = "compact"]
    BY <1>1 DEF Corrupt
  <2>2. op' \in Ops(T) /\ op'.pc = "compact" /\ op'.dir = op.dir
    BY <1>0, <2>1 DEF Ops
  <2>3. TypeInv'
    <3>1. op' \in Ops(op'.target)
      BY <2>2 DEF Ops
    <3> QED BY <2>2, <3>1 DEF IInv, TypeInv, device
  <2>4. KeepsOld' /\ Fits' /\ WritesErased'
    BY <2>2 DEF IInv, KeepsOld, Fits, WritesErased, device
  <2> QED BY <2>3, <2>4, SameDevice DEF IInv
<1>2. CASE op.mode # "append"
  <2>1. op' = [op EXCEPT !.pc = "relocate", !.relocated = TRUE] /\ op.mode = "compact"
    BY <1>0, <1>2 DEF Corrupt, IInv, KeepsOld, Ops
  <2>2. op' \in Ops(T) /\ op'.pc = "relocate" /\ op'.dir = op.dir /\ op'.mode = "compact"
    BY <1>0, <2>1 DEF Ops
  <2>3. TypeInv'
    <3>1. op' \in Ops(op'.target)
      BY <2>2 DEF Ops
    <3> QED BY <2>2, <3>1 DEF IInv, TypeInv, device
  <2>4. KeepsOld' /\ Fits' /\ WritesErased'
    BY <2>2 DEF IInv, KeepsOld, Fits, WritesErased, device
  <2> QED BY <2>3, <2>4, SameDevice DEF IInv
<1> QED BY <1>1, <1>2

LEMMA StartCompactStep == IInv /\ StartCompact => IInv'
<1> SUFFICES ASSUME IInv, StartCompact PROVE IInv'
  OBVIOUS
<1> DEFINE T == op.target
           rev == (op.dir.rev + 1) % REVS
           tired == CYCLES > 0 /\ rev % CYCLES = 0
           words == Compacted(op.dir.log, op.attrs, 0, Count(op.dir.log \o op.attrs))
           next == IF tired THEN "relocate" ELSE "erase"
           d == [op.dir EXCEPT !.rev = rev]
           moded == [op EXCEPT !.mode = "compact", !.tired = tired, !.relocated = tired]
<1> HIDE DEF T
<1>0. op \in Ops(T) /\ op.dir \in Dirs /\ op.pc = "compact"
  BY DEF IInv, TypeInv, T, StartCompact
<1>1. op' = [moded EXCEPT !.dir = d, !.words = words, !.pc = next]
  <2>1. op' = [op EXCEPT !.mode = "compact", !.tired = tired, !.relocated = tired,
                         !.dir.rev = rev, !.words = words, !.pc = next]
    BY Zenon DEF StartCompact
  <2> HIDE DEF tired, words, next, rev
  <2> QED BY <2>1, <1>0, Zenon DEF d
<1>2. UNCHANGED <<device, bad, erasing, parent, dir, commits, losses>>
  BY Zenon DEF StartCompact
<1>3. rev \in 0..REVS - 1
  BY <1>0, PairAssumption, SMTT(30) DEF Dirs
<1>4. words \in Seq(LogTags)
  <2>1. op.dir.log \in Seq(LogTags) /\ op.attrs \in Seq(LogTags)
    BY <1>0 DEF Ops, Dirs
  <2>2. op.dir.log \o op.attrs \in Seq(Tags)
    BY <2>1, ConcatType, LogTagsAreTags
  <2>3. Count(op.dir.log \o op.attrs) \in Int
    BY <2>2, CountType, Zenon
  <2>4. 0 \in Int
    OBVIOUS
  <2> QED BY <2>1, <2>3, <2>4, CompactedType, Zenon
<1>5. tired \in BOOLEAN /\ next \in {"relocate", "erase"}
  BY Zenon
<1> HIDE DEF words, tired, next, rev
<1>6. d \in Dirs /\ d.pair = op.dir.pair
  BY <1>0, <1>3 DEF Dirs
<1> HIDE DEF d
<1>7. moded \in Ops(T) /\ moded.mode = "compact"
  BY <1>0, <1>5 DEF Ops
<1> HIDE DEF moded
<1>8. op' \in Ops(T) /\ op'.dir = d /\ op'.mode = "compact" /\ op'.pc \in {"relocate", "erase"}
  BY <1>1, <1>4, <1>5, <1>6, <1>7 DEF Ops
<1>9. TypeInv'
  <2>1. op' \in Ops(op'.target)
    BY <1>8 DEF Ops
  <2> QED BY <1>2, <1>6, <1>8, <2>1 DEF IInv, TypeInv, device
<1>10. KeepsOld' /\ Fits' /\ WritesErased'
  BY <1>0, <1>2, <1>6, <1>8 DEF IInv, KeepsOld, Fits, WritesErased, device
<1> QED BY <1>2, <1>9, <1>10, SameDevice DEF IInv

LEMMA RelocateStep == IInv /\ Relocate => IInv'
<1> SUFFICES ASSUME IInv, Relocate PROVE IInv'
  OBVIOUS
<1> DEFINE T == op.target
<1> HIDE DEF T
<1>1. op.pc = "relocate" /\ UNCHANGED <<device, bad, erasing, parent, dir, commits, losses>>
  BY Zenon DEF Relocate
<1>0. op \in Ops(T) /\ op.dir \in Dirs /\ op.mode = "compact"
      /\ op.dir.pair[1] \in Pair(parent) /\ StartsBy(dev, op.dir.pair[1], UNITS)
  BY <1>1 DEF IInv, TypeInv, T, KeepsOld
<1>2. ASSUME op' \in Ops(T), op'.dir \in Dirs, op'.pc = "erase", op'.mode = "compact",
             op'.dir.pair[1] = op.dir.pair[1]
      PROVE  IInv'
  <2>1. TypeInv'
    <3>1. op' \in Ops(op'.target)
      BY <1>2 DEF Ops
    <3> QED BY <1>1, <1>2, <3>1 DEF IInv, TypeInv, device
  <2>2. KeepsOld' /\ Fits' /\ WritesErased'
    BY <1>0, <1>1, <1>2 DEF KeepsOld, Fits, WritesErased, device
  <2> QED BY <1>1, <2>1, <2>2, SameDevice DEF IInv
<1>3. ASSUME NEW b \in Free,
             op' = [op EXCEPT !.pc = "erase", !.tired = FALSE, !.dir.pair[2] = b,
                              !.tried = @ \cup {b}]
      PROVE  IInv'
  <2> DEFINE p == [op.dir.pair EXCEPT ![2] = b]
             d == [op.dir EXCEPT !.pair = p]
             t == op.tried \cup {b}
  <2>1. b \in Block /\ b # op.dir.pair[1]
    BY DEF Free
  <2>2. p \in Pairs /\ p[1] = op.dir.pair[1]
    BY <1>0, <2>1 DEF Dirs, Pairs
  <2> HIDE DEF p
  <2>3. d \in Dirs /\ d.pair = p
    BY <1>0, <2>2 DEF Dirs, Pairs
  <2>4. t \in SUBSET Block
    BY <1>0, <2>1 DEF Ops
  <2>5. op' = [op EXCEPT !.pc = "erase", !.tired = FALSE, !.dir = d, !.tried = t]
    BY <1>3, Zenon DEF p
  <2> HIDE DEF d, t
  <2>6. op' \in Ops(T) /\ op'.dir = d /\ op'.pc = "erase" /\ op'.mode = "compact"
    BY <1>0, <2>3, <2>4, <2>5 DEF Ops
  <2> QED BY <1>2, <2>2, <2>3, <2>6
<1>4. ASSUME op' = [op EXCEPT !.pc = "erase", !.tired = FALSE] PROVE IInv'
  <2>1. op' \in Ops(T) /\ op'.dir = op.dir /\ op'.pc = "erase" /\ op'.mode = "compact"
    BY <1>0, <1>4 DEF Ops
  <2> QED BY <1>0, <1>2, <2>1
<1>5. ASSUME Return("nospc") PROVE IInv'
  <2>1. op' \in Ops(op'.target) /\ op'.pc = "idle" /\ KeepsOld' /\ Fits' /\ WritesErased'
    BY <1>5, ReturnIs
  <2>2. TypeInv'
    BY <1>1, <2>1 DEF IInv, TypeInv, device
  <2> QED BY <1>1, <2>1, <2>2, SameDevice DEF IInv
<1> QED BY <1>3, <1>4, <1>5, Zenon DEF Relocate

\* Blocks other than b keep what is said of them.
LEMMA OtherBlock ==
  ASSUME NEW b \in Block, dev' \in Devices, \A c \in Block \ {b} : dev'[c] = dev[c],
         found' = Fetch(dev', parent), parent' = parent, NEW d \in Pairs, d[1] # b,
         d[1] \in Pair(parent), StartsBy(dev, d[1], UNITS)
  PROVE  Mountable' /\ d[1] \in Pair(parent)' /\ StartsBy(dev', d[1], UNITS)
<1>1. dev'[d[1]] = dev[d[1]]
  BY DEF Pairs
<1>2. StartsBy(dev', d[1], UNITS)
  BY <1>1, StartsBySame
<1>3. d[1] \in Pair(parent')
  OBVIOUS
<1> QED BY <1>2, <1>3 DEF Mountable

LEMMA NoLiesElsewhere ==
  ASSUME NoLies, NEW b \in Block, \A c \in Block \ {b} : dev'[c] = dev[c] /\ programmed'[c] = programmed[c],
         \A i \in Units :
           i < programmed'[b] /\ dev'[b].units[i].tag.type = "crc" =>
             \/ dev'[b].units[i].fcrc # Digest(dev'[b].units[i + 1])
             \/ dev'[b].units[i + 1].top = LeftTop(dev'[b].units, i)
  PROVE  NoLies'
<1> SUFFICES ASSUME NEW c \in Block, NEW i \in Units, i < programmed'[c],
                    dev'[c].units[i].tag.type = "crc"
             PROVE  \/ dev'[c].units[i].fcrc # Digest(dev'[c].units[i + 1])
                    \/ dev'[c].units[i + 1].top = LeftTop(dev'[c].units, i)
  BY DEF NoLies
<1>1. CASE c = b
  BY <1>1
<1>2. CASE c # b
  <2>1. dev'[c] = dev[c] /\ programmed'[c] = programmed[c]
    BY <1>2
  <2> QED BY <2>1 DEF NoLies
<1> QED BY <1>1, <1>2

LEMMA BlankUnitsType == BlankUnits \in [Units -> UnitWords]
BY BlankType DEF BlankUnits

LEMMA EraseBlockIs ==
  ASSUME TypeInv, Mountable, NoLies, NEW b \in Block, EraseBlock(b), parent' = parent
  PROVE  /\ dev' \in Devices /\ programmed' \in [Block -> 0..UNITS]
         /\ \A c \in Block \ {b} : dev'[c] = dev[c] /\ programmed'[c] = programmed[c]
         /\ bad[b] # "noop" => programmed'[b] = 0
         /\ found' = Fetch(dev', parent) /\ NoLies'
<1>0. dev \in Devices /\ programmed \in [Block -> 0..UNITS] /\ 0 \in 0..UNITS /\ REVS - 1 \in 0..REVS - 1
  BY PairAssumption DEF TypeInv
<1>1. CASE bad[b] = "noop"
  <2>1. dev' = dev /\ programmed' = programmed /\ found' = found
    BY <1>1, Zenon DEF EraseBlock, device
  <2>2. NoLies'
    BY <2>1 DEF NoLies
  <2> QED BY <1>0, <1>1, <2>1, <2>2 DEF Mountable
<1>2. CASE bad[b] # "noop"
  <2>1. /\ dev' = IF erasing = "ones"
                  THEN [dev EXCEPT ![b] = [rev |-> REVS - 1, units |-> BlankUnits]] ELSE dev
        /\ programmed' = [programmed EXCEPT ![b] = 0] /\ found' = Fetch(dev', parent)
    BY <1>2, Zenon DEF EraseBlock, Refetch
  <2>2. dev' \in Devices /\ \A c \in Block \ {b} : dev'[c] = dev[c]
    <3>1. CASE erasing = "ones"
      <4>1. dev' = [dev EXCEPT ![b] = [rev |-> REVS - 1, units |-> BlankUnits]]
        BY <2>1, <3>1
      <4> QED BY <1>0, <4>1, BlankUnitsType DEF Devices
    <3>2. CASE erasing # "ones"
      BY <1>0, <2>1, <3>2
    <3> QED BY <3>1, <3>2
  <2>3. /\ programmed' \in [Block -> 0..UNITS] /\ programmed'[b] = 0
        /\ \A c \in Block \ {b} : programmed'[c] = programmed[c]
    BY <1>0, <2>1
  <2>4. \A i \in Units : ~(i < programmed'[b])
    BY <2>3 DEF Units
  <2>5. NoLies'
    BY <2>2, <2>3, <2>4, NoLiesElsewhere
  <2> QED BY <2>1, <2>2, <2>3, <2>5
<1> QED BY <1>1, <1>2

LEMMA EraseStep == IInv /\ Erase => IInv'
<1> SUFFICES ASSUME IInv, Erase PROVE IInv'
  OBVIOUS
<1> DEFINE T == op.target
           b == op.dir.pair[2]
<1> HIDE DEF T
<1>1. op.pc = "erase" /\ UNCHANGED <<bad, erasing, parent, dir, commits, losses>>
  BY Zenon DEF Erase
<1>0. op \in Ops(T) /\ op.dir \in Dirs /\ op.mode = "compact"
      /\ op.dir.pair[1] \in Pair(parent) /\ StartsBy(dev, op.dir.pair[1], UNITS)
  BY <1>1 DEF IInv, TypeInv, T, KeepsOld
<1>2. CASE Refuses(b)
  <2>1. op' = Corrupt /\ UNCHANGED device
    BY <1>2, Zenon DEF Erase
  <2> QED BY <1>1, <2>1, CorruptStep
<1>3. CASE ~Refuses(b)
  <2>1. EraseBlock(b) /\ op' = [op EXCEPT !.pc = "rev", !.block = b, !.off = 0, !.top = 1]
    BY <1>3, Zenon DEF Erase
  <2>2. b \in Block /\ op.dir.pair \in Pairs /\ op.dir.pair[1] # b
    BY <1>0 DEF Dirs, Pairs
  <2>3. /\ dev' \in Devices /\ programmed' \in [Block -> 0..UNITS]
        /\ \A c \in Block \ {b} : dev'[c] = dev[c]
        /\ bad[b] # "noop" => programmed'[b] = 0
        /\ found' = Fetch(dev', parent) /\ NoLies'
    <3> HIDE DEF b
    <3> QED BY <1>1, <2>1, <2>2, EraseBlockIs DEF IInv
  <2>4. Mountable' /\ op.dir.pair[1] \in Pair(parent)' /\ StartsBy(dev', op.dir.pair[1], UNITS)
    <3> HIDE DEF b
    <3> QED BY <1>0, <1>1, <2>2, <2>3, OtherBlock
  <2>5. /\ op' \in Ops(T) /\ op'.dir = op.dir /\ op'.pc = "rev" /\ op'.mode = "compact"
        /\ op'.block = b /\ op'.off = 0 /\ op'.top = 1
    <3>1. 0 \in 0..UNITS /\ 1 \in Bits
      BY PairAssumption DEF Bits
    <3> HIDE DEF b
    <3> QED BY <1>0, <2>1, <2>2, <3>1 DEF Ops
  <2>6. TypeInv'
    <3>1. op' \in Ops(op'.target)
      BY <2>5 DEF Ops
    <3> QED BY <1>0, <1>1, <2>3, <2>5, <3>1 DEF IInv, TypeInv
  <2>7. KeepsOld'
    BY <1>1, <2>4, <2>5 DEF KeepsOld, Half
  <2>8. Fits'
    BY <2>5 DEF Fits
  <2>9. WritesErased'
    <3> HIDE DEF b
    <3>1. Chained(dev'[b].units, 0) /\ 1 = LeftTop(dev'[b].units, 0) /\ Foretold(dev'[b].units, 0)
      BY DEF Chained, LeftTop, Foretold
    <3>2. bad' = bad /\ (bad[b] # "noop" => programmed'[b] <= 0)
      BY <1>1, <2>3
    <3> QED BY <2>5, <3>1, <3>2 DEF WritesErased
  <2> QED BY <2>3, <2>4, <2>6, <2>7, <2>8, <2>9 DEF IInv
<1> QED BY <1>2, <1>3

\* The revision of the block that is being compacted, as it is written or as
\* a power loss leaves it.
LEMMA RevisionStep ==
  ASSUME IInv, op.pc = "rev", NEW rev \in 0..REVS - 1, ProgRevision(op.block, rev),
         UNCHANGED <<bad, erasing, parent>>
  PROVE  /\ dev' \in Devices /\ programmed' = programmed
         /\ \A c \in Block : dev'[c].units = dev[c].units
         /\ Mountable' /\ op.dir.pair[1] \in Pair(parent)'
         /\ StartsBy(dev', op.dir.pair[1], UNITS) /\ NoLies'
<1>0. /\ dev \in Devices /\ op.dir \in Dirs /\ op.block = op.dir.pair[2]
      /\ op.dir.pair[1] \in Pair(parent) /\ StartsBy(dev, op.dir.pair[1], UNITS)
      /\ parent' = parent
  BY DEF IInv, TypeInv, KeepsOld, Half
<1>1. op.dir.pair \in Pairs /\ op.block \in Block /\ op.dir.pair[1] # op.block
  BY <1>0 DEF Dirs, Pairs
<1>2. /\ dev' = [dev EXCEPT ![op.block].rev = rev]
      /\ found' = Fetch(dev', parent) /\ programmed' = programmed
  BY Zenon DEF ProgRevision, Refetch
<1>3. dev' \in Devices /\ \A c \in Block : dev'[c].units = dev[c].units
  BY <1>0, <1>1, <1>2 DEF Devices
<1>4. \A c \in Block \ {op.block} : dev'[c] = dev[c]
  BY <1>0, <1>1, <1>2 DEF Devices
<1>5. Mountable' /\ op.dir.pair[1] \in Pair(parent)' /\ StartsBy(dev', op.dir.pair[1], UNITS)
  BY <1>0, <1>1, <1>2, <1>3, <1>4, OtherBlock
<1>6. NoLies'
  BY <1>2, <1>3 DEF NoLies, IInv
<1> QED BY <1>2, <1>3, <1>5, <1>6

LEMMA HeaderType ==
  ASSUME NEW rev \in 0..REVS - 1
  PROVE  Header(rev, 0) \in Seq(Digests) /\ Len(Header(rev, 0)) = 1
<1>1. rev \in Int
  BY PairAssumption
<1>2. Tag("rev", rev, 0) \in Tags
  BY <1>1 DEF Tag, Tags, TagTypes
<1>3. <<1, Tag("rev", rev, 0)>> \in Digests
  BY <1>2 DEF Digests, Bits
<1> QED BY <1>3 DEF Header

LEMMA ProgRevStep == IInv /\ ProgRev => IInv'
<1> SUFFICES ASSUME IInv, ProgRev PROVE IInv'
  OBVIOUS
<1> DEFINE T == op.target
           h == Header(op.dir.rev, 0)
<1> HIDE DEF T
<1>1. op.pc = "rev" /\ UNCHANGED <<bad, erasing, parent, dir, commits, losses>>
  BY Zenon DEF ProgRev
<1>0. /\ op \in Ops(T) /\ op.dir \in Dirs /\ op.mode = "compact" /\ op.block = op.dir.pair[2]
      /\ op.dir.pair[1] \in Pair(parent) /\ StartsBy(dev, op.dir.pair[1], UNITS)
      /\ op.off = 0 /\ op.top = 1
  BY <1>1 DEF IInv, TypeInv, T, KeepsOld, Half, Fits
<1>2. CASE Refuses(op.block)
  <2>1. op' = Corrupt /\ UNCHANGED device
    BY <1>2, Zenon DEF ProgRev
  <2> QED BY <1>1, <2>1, CorruptStep
<1>3. CASE ~Refuses(op.block)
  <2>1. /\ op' = [op EXCEPT !.pc = "write", !.covers = h]
        /\ IF bad[op.block] = "noop" THEN UNCHANGED device
           ELSE ProgRevision(op.block, op.dir.rev)
    BY <1>3, Zenon DEF ProgRev
  <2>2. h \in Seq(Digests) /\ Len(h) = 1
    <3>1. op.dir.rev \in 0..REVS - 1
      BY <1>0 DEF Dirs
    <3> QED BY <3>1, HeaderType
  <2> HIDE DEF h
  <2>3. /\ op' \in Ops(T) /\ op'.dir = op.dir /\ op'.pc = "write" /\ op'.mode = "compact"
        /\ op'.block = op.block /\ op'.off = 0 /\ op'.top = 1 /\ op'.covers = h
    BY <1>0, <2>1, <2>2 DEF Ops
  <2>4. /\ dev' \in Devices /\ programmed' = programmed
        /\ \A c \in Block : dev'[c].units = dev[c].units
        /\ Mountable' /\ op.dir.pair[1] \in Pair(parent)'
        /\ StartsBy(dev', op.dir.pair[1], UNITS) /\ NoLies'
    <3>1. CASE bad[op.block] = "noop"
      <4>1. UNCHANGED <<device, parent>>
        BY <1>1, <2>1, <3>1
      <4>2. Mountable' /\ NoLies'
        BY <4>1, SameDevice DEF IInv
      <4> QED BY <1>0, <4>1, <4>2 DEF device, IInv, TypeInv
    <3>2. CASE bad[op.block] # "noop"
      <4>1. ProgRevision(op.block, op.dir.rev) /\ op.dir.rev \in 0..REVS - 1
        BY <1>0, <2>1, <3>2 DEF Dirs
      <4> QED BY <1>1, <4>1, RevisionStep
    <3> QED BY <3>1, <3>2
  <2>5. TypeInv'
    <3>1. op' \in Ops(op'.target)
      BY <2>3 DEF Ops
    <3> QED BY <1>0, <1>1, <2>3, <2>4, <3>1 DEF IInv, TypeInv
  <2>6. KeepsOld'
    BY <1>0, <1>1, <2>3, <2>4 DEF KeepsOld, Half
  <2>7. Fits'
    <3>0. Len(op'.covers) = 1 /\ op'.mode = "compact"
      BY <2>2, <2>3
    <3>1. Written' >= 0
      BY <3>0 DEF Written
    <3>2. op'.off < UNITS
      BY <2>3, PairAssumption
    <3>3. op'.pc # "rev"
      BY <2>3
    <3> QED BY <3>1, <3>2, <3>3, Zenon DEF Fits
  <2>8. WritesErased'
    <3>1. op.block \in Block
      BY <1>0 DEF Dirs
    <3>2. dev'[op.block].units = dev[op.block].units /\ programmed' = programmed /\ bad' = bad
      BY <1>1, <2>4, <3>1
    <3> QED BY <1>0, <1>1, <2>3, <3>2 DEF IInv, WritesErased
  <2> QED BY <2>4, <2>5, <2>6, <2>7, <2>8 DEF IInv
<1> QED BY <1>2, <1>3

LEMMA ChainedAt ==
  ASSUME NEW units, NEW n \in Nat, Chained(units, n), NEW i \in 1..n - 1
  PROVE  units[i + 1].top = LeftTop(units, i)
<1>1. i + 1 \in 1..n /\ i + 1 - 1 = i
  OBVIOUS
<1>2. \A k \in 1..n : k = i + 1 => units[k].top = LeftTop(units, k - 1)
  BY DEF Chained
<1>3. PICK k \in 1..n : k = i + 1
  BY <1>1
<1>4. units[k].top = LeftTop(units, k - 1) /\ k - 1 = i
  BY <1>1, <1>2, <1>3
<1> QED BY <1>3, <1>4

\* A unit programmed behind a commit: it continues the log, or the power went
\* and left something else than was there.
LEMMA ProgStep ==
  ASSUME IInv, op.pc = "write", op.off < UNITS, NEW w \in UnitWords,
         Prog(op.block, op.off + 1, w), UNCHANGED <<bad, erasing, parent>>,
         w.top = op.top \/ Digest(w) # Digest(dev[op.block].units[op.off + 1])
  PROVE  /\ dev' \in Devices /\ programmed' \in [Block -> 0..UNITS]
         /\ Mountable' /\ op.dir.pair[1] \in Pair(parent)'
         /\ StartsBy(dev', op.dir.pair[1], UNITS) /\ NoLies'
         /\ op.mode = "append" => StartsBy(dev', op.block, op.off)
         /\ bad[op.block] # "noop" =>
              /\ programmed'[op.block] <= op.off + 1
              /\ dev'[op.block].units[op.off + 1] = w
              /\ \A k \in 1..op.off : dev'[op.block].units[k] = dev[op.block].units[k]
<1> DEFINE b == op.block
           n == op.off
           p == op.dir.pair
           units == dev[b].units
<1>0. /\ dev \in Devices /\ programmed \in [Block -> 0..UNITS] /\ op.dir \in Dirs
      /\ b = Half /\ p[1] \in Pair(parent) /\ StartsBy(dev, p[1], UNITS)
      /\ parent' = parent /\ bad' = bad /\ n \in 0..UNITS
      /\ op.mode = "append" => StartsBy(dev, b, n)
  BY DEF IInv, TypeInv, KeepsOld, Ops
<1>1. /\ p \in Pairs /\ b \in Block /\ n + 1 \in Units /\ UNITS \in Nat /\ n \in Nat
      /\ op.mode # "append" => p[1] # b
      /\ op.mode = "append" => p[1] = b
  <2> DEFINE d == op.dir
  <2>a. d \in Dirs
    BY <1>0, Zenon
  <2>b. d.pair \in Pairs
    <3> HIDE DEF d
    <3> QED BY <2>a DEF Dirs, Pairs
  <2>1. p \in Pairs
    BY <2>b, Zenon
  <2>2. p \in Block \X Block /\ p[1] # p[2]
    <3> HIDE DEF p
    <3> QED BY <2>1 DEF Pairs
  <2>3. p[1] \in Block /\ p[2] \in Block
    BY <2>2
  <2>4. b = IF op.mode = "append" THEN p[1] ELSE p[2]
    BY <1>0, Zenon DEF Half
  <2>5. UNITS \in Nat /\ n \in 0..UNITS /\ n < UNITS
    BY <1>0, PairAssumption, Zenon
  <2>6. n \in Nat /\ n + 1 \in Units
    <3> HIDE DEF n
    <3> QED BY <2>5 DEF Units
  <2> HIDE DEF b, n, p
  <2> QED BY <2>1, <2>2, <2>3, <2>4, <2>5, <2>6
<1>2. CASE bad[b] = "noop"
  <2>1. UNCHANGED device
    BY <1>2, Zenon DEF Prog
  <2>2. Mountable' /\ NoLies'
    BY <1>0, <2>1, SameDevice DEF IInv
  <2> QED BY <1>0, <1>2, <2>1, <2>2 DEF device
<1>3. CASE bad[b] # "noop"
  <2>1. /\ dev' = [dev EXCEPT ![b].units[n + 1] = w]
        /\ programmed' = [programmed EXCEPT ![b] = IF @ < n + 1 THEN n + 1 ELSE @]
        /\ found' = Fetch(dev', parent)
    BY <1>3, Zenon DEF Prog, Refetch
  <2>2. /\ programmed[b] <= n /\ Chained(units, n) /\ op.top = LeftTop(units, n)
        /\ Foretold(units, n)
    BY <1>3, Zenon DEF IInv, WritesErased
  <2>3. /\ dev' \in Devices /\ dev'[b].units[n + 1] = w /\ dev'[b].rev = dev[b].rev
        /\ \A k \in Units \ {n + 1} : dev'[b].units[k] = dev[b].units[k]
        /\ \A c \in Block \ {b} : dev'[c] = dev[c]
    <3> DEFINE i == n + 1
               y == dev'
    <3>1. y = Programmed(dev, b, i, w)
      BY <2>1, Zenon DEF Programmed
    <3> HIDE DEF i, y, b
    <3>2. /\ y \in Devices /\ y[b].units[i] = w /\ y[b].rev = dev[b].rev
          /\ \A k \in Units \ {i} : y[b].units[k] = dev[b].units[k]
          /\ \A c \in Block \ {b} : y[c] = dev[c]
      BY <1>0, <1>1, <3>1, ProgIs DEF i
    <3> QED BY <3>2 DEF y, i
  <2>4. /\ programmed' \in [Block -> 0..UNITS] /\ programmed'[b] = n + 1
        /\ \A c \in Block \ {b} : programmed'[c] = programmed[c]
    <3>1. programmed[b] \in 0..UNITS /\ programmed[b] < n + 1 /\ n + 1 \in 0..UNITS
      BY <1>0, <1>1, <2>2 DEF Units
    <3> HIDE DEF b, n
    <3> QED BY <1>0, <1>1, <2>1, <3>1
  <2>5. \A k \in 1..n : dev'[b].units[k] = units[k]
    <3>1. \A k \in 1..n : k \in Units \ {n + 1}
      BY <1>1 DEF Units
    <3> QED BY <2>3, <3>1
  <2>6. Agree(dev, dev', b, n)
    BY <2>3, <2>5 DEF Agree
  <2>7. op.mode = "append" => StartsBy(dev', b, n) /\ StartsBy(dev', b, UNITS)
    <3>1. n \in n..UNITS /\ UNITS \in n..UNITS
      BY <1>0, <1>1
    <3> HIDE DEF b, n
    <3> QED BY <1>0, <2>6, <3>1, StartsByKept
  <2>8. Mountable' /\ p[1] \in Pair(parent)' /\ StartsBy(dev', p[1], UNITS)
    <3>1. CASE op.mode = "append"
      <4> HIDE DEF b, n, p
      <4> QED BY <1>0, <1>1, <2>1, <2>7, <3>1 DEF Mountable
    <3>2. CASE op.mode # "append"
      <4> HIDE DEF b, n, p
      <4> QED BY <1>0, <1>1, <2>1, <2>3, <3>2, OtherBlock
    <3> QED BY <3>1, <3>2
  <2>9. NoLies'
    <3> DEFINE new == dev'[b].units
    <3>1. ASSUME NEW i \in Units, i < programmed'[b], new[i].tag.type = "crc"
          PROVE  new[i].fcrc # Digest(new[i + 1]) \/ new[i + 1].top = LeftTop(new, i)
      <4>1. i \in 1..n /\ i \in 0..n
        BY <1>1, <2>4, <3>1 DEF Units
      <4>2. new[i] = units[i] /\ LeftTop(new, i) = LeftTop(units, i)
        <5>1. \A k \in 1..n : new[k] = units[k]
          BY <2>5
        <5> HIDE DEF new, units, n
        <5> QED BY <1>0, <4>1, <5>1, LeftTopKept
      <4>3. CASE i < n
        <5>1. i + 1 \in 1..n /\ i + 1 - 1 = i
          BY <4>1, <4>3, <1>1
        <5>2. new[i + 1] = units[i + 1] /\ units[i + 1].top = LeftTop(units, i)
          <6>1. new[i + 1] = units[i + 1]
            BY <2>5, <5>1
          <6>2. n \in Nat /\ i \in 1..n - 1
            BY <1>1, <4>1, <4>3
          <6> HIDE DEF units, n, new
          <6> QED BY <2>2, <6>1, <6>2, ChainedAt
        <5> QED BY <4>2, <5>2
      <4>4. CASE i = n
        <5>1. new[i + 1] = w /\ units[n].tag.type = "crc" /\ n > 0 /\ n < UNITS
          BY <1>1, <2>3, <3>1, <4>1, <4>2, <4>4
        <5>2. units[n].fcrc = Digest(units[n + 1])
          <6> HIDE DEF units, n
          <6> QED BY <2>2, <5>1 DEF Foretold
        <5> HIDE DEF new, units
        <5> QED BY <2>2, <4>2, <4>4, <5>1, <5>2 DEF units, b, n
      <4> QED BY <4>1, <4>3, <4>4, <1>1
    <3>2. \A c \in Block \ {b} : dev'[c] = dev[c] /\ programmed'[c] = programmed[c]
      BY <2>3, <2>4
    <3>3. NoLies /\ b \in Block
      BY <1>1 DEF IInv
    <3> HIDE DEF b
    <3> QED BY <3>1, <3>2, <3>3, NoLiesElsewhere
  <2>10. programmed'[b] <= n + 1
    BY <1>1, <2>4
  <2> QED BY <2>3, <2>4, <2>5, <2>7, <2>8, <2>9, <2>10
<1> QED BY <1>2, <1>3

LEMMA ChainedOn ==
  ASSUME NEW x, NEW y, NEW n \in 0..UNITS, Chained(x, n), \A k \in 1..n : y[k] = x[k],
         y[n + 1].top = LeftTop(x, n)
  PROVE  Chained(y, n + 1)
<1>0. n \in Nat /\ n \in 0..n /\ n + 1 - 1 = n
  BY PairAssumption
<1>1. \A i \in 0..n : LeftTop(y, i) = LeftTop(x, i)
  BY LeftTopKept
<1>2. ASSUME NEW k \in 1..n + 1 PROVE y[k].top = LeftTop(y, k - 1)
  <2>1. CASE k \in 1..n
    <3>1. k - 1 \in 0..n
      BY <1>0, <2>1
    <3> QED BY <1>1, <2>1, <3>1 DEF Chained
  <2>2. CASE k = n + 1
    BY <1>0, <1>1, <2>2
  <2> QED BY <1>0, <2>1, <2>2
<1> QED BY <1>2 DEF Chained

LEMMA CommitAttrStep == IInv /\ CommitAttr => IInv'
<1> SUFFICES ASSUME IInv, CommitAttr PROVE IInv'
  OBVIOUS
<1> DEFINE T == op.target
           w == NextWord
<1> HIDE DEF T
<1>1. op.pc = "write" /\ Written < Len(op.words)
      /\ UNCHANGED <<bad, erasing, parent, dir, commits, losses>>
  BY Zenon DEF CommitAttr, Pending
<1>0. /\ op \in Ops(T) /\ op.dir \in Dirs /\ op.block = Half /\ op.mode # "none"
      /\ op.dir.pair[1] \in Pair(parent) /\ StartsBy(dev, op.dir.pair[1], UNITS)
      /\ Written >= 0 /\ UNITS \in Nat /\ op.off \in 0..UNITS
      /\ op.mode = "append" => StartsBy(dev, op.block, op.off) /\ ~op.relocated
  BY <1>1, PairAssumption DEF IInv, TypeInv, T, KeepsOld, Fits, Ops
<1>2. w \in UnitWords /\ w.top = op.top /\ w.tag.type # "crc" /\ Digest(w) \in Digests
  <2>1. Written \in Int /\ op.words \in Seq(LogTags) /\ op.top \in Bits
    BY <1>0 DEF Written, Ops
  <2>2. op.words[Written + 1] \in LogTags
    <3>1. Written + 1 \in 1..Len(op.words)
      BY <1>0, <1>1, <2>1
    <3> QED BY <2>1, <3>1
  <2>3. w \in UnitWords /\ w.top = op.top /\ w.tag = op.words[Written + 1]
    BY <2>1, <2>2, WordType DEF NextWord
  <2> HIDE DEF w
  <2> QED BY <2>2, <2>3, DigestType DEF LogTags
<1> HIDE DEF w
<1>3. CASE ~Room(op.off)
  <2>1. /\ UNCHANGED device
        /\ IF op.mode = "append" THEN op' = [op EXCEPT !.pc = "compact"] ELSE Return("nospc")
    BY <1>3, Zenon DEF CommitAttr
  <2>2. CASE op.mode = "append"
    <3>1. op' = Corrupt
      BY <2>1, <2>2, Zenon DEF Corrupt
    <3> QED BY <1>1, <2>1, <3>1, CorruptStep
  <2>3. CASE op.mode # "append"
    <3>1. op' \in Ops(op'.target) /\ op'.pc = "idle" /\ KeepsOld' /\ Fits' /\ WritesErased'
      BY <2>1, <2>3, ReturnIs
    <3>2. TypeInv'
      BY <1>1, <2>1, <3>1 DEF IInv, TypeInv, device
    <3> QED BY <1>1, <2>1, <3>1, <3>2, SameDevice DEF IInv
  <2> QED BY <2>2, <2>3
<1>4. CASE Room(op.off) /\ Refuses(op.block)
  <2>1. op' = Corrupt /\ UNCHANGED device
    BY <1>4, Zenon DEF CommitAttr
  <2> QED BY <1>1, <2>1, CorruptStep
<1>5. CASE Room(op.off) /\ ~Refuses(op.block)
  <2> DEFINE n == op.off + 1
             cs == Append(op.covers, Digest(w))
  <2>1. /\ Prog(op.block, n, w)
        /\ op' = [op EXCEPT !.off = n, !.top = 0, !.covers = cs]
    BY <1>5, Zenon DEF CommitAttr, w
  <2>2. n < UNITS /\ op.off < UNITS /\ n \in 0..UNITS /\ n > 0
    BY <1>0, <1>5 DEF Room
  <2>3. cs \in Seq(Digests) /\ Len(cs) = Len(op.covers) + 1
    BY <1>0, <1>2 DEF Ops
  <2>4. /\ dev' \in Devices /\ programmed' \in [Block -> 0..UNITS]
        /\ Mountable' /\ op.dir.pair[1] \in Pair(parent)'
        /\ StartsBy(dev', op.dir.pair[1], UNITS) /\ NoLies'
        /\ op.mode = "append" => StartsBy(dev', op.block, op.off)
        /\ bad[op.block] # "noop" =>
             /\ programmed'[op.block] <= n
             /\ dev'[op.block].units[n] = w
             /\ \A k \in 1..op.off : dev'[op.block].units[k] = dev[op.block].units[k]
    BY <1>1, <1>2, <2>1, <2>2, ProgStep
  <2> HIDE DEF cs
  <2>5. /\ op' \in Ops(T) /\ op'.dir = op.dir /\ op'.pc = "write" /\ op'.mode = op.mode
        /\ op'.block = op.block /\ op'.off = n /\ op'.top = 0 /\ op'.covers = cs
        /\ op'.relocated = op.relocated
    <3>1. 0 \in Bits
      BY DEF Bits
    <3> HIDE DEF n
    <3> QED BY <1>0, <1>1, <2>1, <2>2, <2>3, <3>1 DEF Ops
  <2>6. TypeInv'
    <3>1. op' \in Ops(op'.target)
      BY <2>5 DEF Ops
    <3> QED BY <1>0, <1>1, <2>4, <2>5, <3>1 DEF IInv, TypeInv
  <2>7. KeepsOld'
    <3>1. op.mode = "append" => StartsBy(dev', op.block, n)
      <4>1. Agree(dev', dev', op.block, op.off) /\ n \in op.off..UNITS
        BY <1>0, <2>2 DEF Agree
      <4> HIDE DEF n
      <4> QED BY <1>0, <2>4, <4>1, StartsByKept
    <3> HIDE DEF n
    <3> QED BY <1>0, <2>4, <2>5, <3>1 DEF KeepsOld, Half
  <2>8. Fits'
    <3>1. Written' = Written + 1
      BY <1>0, <2>3, <2>5 DEF Written, Ops
    <3>2. Written' >= 0
      <4>1. Written \in Int
        BY <1>0 DEF Written, Ops
      <4> QED BY <1>0, <3>1, <4>1
    <3>3. op'.off < UNITS /\ op'.pc # "rev"
      BY <2>2, <2>5
    <3> QED BY <3>2, <3>3, Zenon DEF Fits
  <2>9. WritesErased'
    <3> SUFFICES ASSUME bad'[op'.block] # "noop"
                 PROVE  LET units == dev'[op'.block].units
                        IN  /\ programmed'[op'.block] <= op'.off
                            /\ Chained(units, op'.off) /\ op'.top = LeftTop(units, op'.off)
                            /\ Foretold(units, op'.off)
      BY DEF WritesErased
    <3> DEFINE old == dev[op.block].units
               new == dev'[op.block].units
    <3>1. bad[op.block] # "noop"
      BY <1>1, <2>5
    <3>2. /\ programmed'[op.block] <= n /\ new[n] = w /\ \A k \in 1..op.off : new[k] = old[k]
      BY <2>4, <3>1
    <3>3. Chained(old, op.off) /\ op.top = LeftTop(old, op.off)
      BY <1>1, <3>1, Zenon DEF IInv, WritesErased
    <3> HIDE DEF old, new
    <3>4. Chained(new, n)
      BY <1>0, <1>2, <3>2, <3>3, ChainedOn
    <3>5. LeftTop(new, n) = 0 /\ Foretold(new, n)
      BY <1>2, <2>2, <3>2 DEF LeftTop, Foretold
    <3> QED BY <2>5, <3>2, <3>4, <3>5 DEF new
  <2> QED BY <2>4, <2>6, <2>7, <2>8, <2>9 DEF IInv
<1> QED BY <1>3, <1>4, <1>5

LEMMA CrcWordType ==
  ASSUME TypeInv, op.block \in Block, op.off + 1 \in Units
  PROVE  /\ CrcWord \in UnitWords /\ CrcWord.top = op.top /\ CrcWord.tag.type = "crc"
         /\ CrcWord.tag.id \in Bits /\ CrcWord.covers = op.covers
<1> DEFINE i == op.off + 2
           e == Eperturb(op.block, i)
           f == Fcrc(op.block, i)
           t == Tag("crc", 1 - e, 0)
<1>0. dev \in Devices /\ op.top \in Bits /\ op.covers \in Seq(Digests) /\ UNITS \in Nat
      /\ op.off \in Nat
  BY PairAssumption DEF TypeInv, Ops
<1>1. e \in Bits /\ f \in {NoFcrc} \cup Digests
  <2>1. CASE i <= UNITS
    <3>1. i \in Units
      BY <1>0, <2>1 DEF Units
    <3> HIDE DEF i
    <3>2. dev[op.block].units[i] \in UnitWords
      BY <1>0, <3>1 DEF Devices
    <3> QED BY <2>1, <3>2, DigestType DEF Eperturb, Fcrc, UnitWords
  <2>2. CASE ~(i <= UNITS)
    <3> HIDE DEF i
    <3> QED BY <2>2 DEF Eperturb, Fcrc, Bits
  <2> QED BY <2>1, <2>2
<1> HIDE DEF e, f
<1>2. t \in Tags /\ t.type = "crc" /\ t.id \in Bits
  BY <1>1 DEF Tag, Tags, TagTypes, Bits
<1> HIDE DEF t
<1> DEFINE w == [top |-> op.top, tag |-> t, covers |-> op.covers, fcrc |-> f]
<1>3. w \in UnitWords
  BY <1>0, <1>1, <1>2 DEF UnitWords
<1>4. CrcWord = w
  BY Zenon DEF CrcWord, t, e, f, i
<1> QED BY <1>2, <1>3, <1>4

LEMMA CommitCrcStep == IInv /\ CommitCrc => IInv'
<1> SUFFICES ASSUME IInv, CommitCrc PROVE IInv'
  OBVIOUS
<1> DEFINE T == op.target
           w == CrcWord
           n == op.off + 1
<1> HIDE DEF T
<1>1. op.pc = "write" /\ ~Pending /\ UNCHANGED <<bad, erasing, parent, dir, commits, losses>>
  BY Zenon DEF CommitCrc
<1>0. /\ op \in Ops(T) /\ op.dir \in Dirs /\ op.block = Half /\ op.mode # "none"
      /\ op.dir.pair[1] \in Pair(parent) /\ StartsBy(dev, op.dir.pair[1], UNITS)
      /\ op.off < UNITS /\ UNITS \in Nat /\ op.off \in 0..UNITS
      /\ op.mode = "append" => StartsBy(dev, op.block, op.off) /\ ~op.relocated
  BY <1>1, PairAssumption DEF IInv, TypeInv, T, KeepsOld, Fits, Ops
<1>2. CASE Refuses(op.block)
  <2>1. op' = Corrupt /\ UNCHANGED device
    BY <1>2, Zenon DEF CommitCrc
  <2> QED BY <1>1, <2>1, CorruptStep
<1>3. CASE ~Refuses(op.block)
  <2>1. /\ Prog(op.block, n, w)
        /\ op' = [op EXCEPT !.pc = "verify", !.off = n, !.top = w.tag.id]
    BY <1>3, Zenon DEF CommitCrc
  <2>2. op.block \in Block /\ n \in Units /\ n \in 0..UNITS
    BY <1>0 DEF Half, Dirs, Units
  <2>3. w \in UnitWords /\ w.top = op.top /\ w.tag.id \in Bits
    <3> HIDE DEF w
    <3> QED BY <2>2, CrcWordType DEF IInv, w
  <2> HIDE DEF w
  <2>4. /\ dev' \in Devices /\ programmed' \in [Block -> 0..UNITS]
        /\ Mountable' /\ op.dir.pair[1] \in Pair(parent)'
        /\ StartsBy(dev', op.dir.pair[1], UNITS) /\ NoLies'
        /\ op.mode = "append" => StartsBy(dev', op.block, op.off)
    BY <1>0, <1>1, <2>1, <2>3, ProgStep
  <2>5. /\ op' \in Ops(T) /\ op'.dir = op.dir /\ op'.pc = "verify" /\ op'.mode = op.mode
        /\ op'.block = op.block /\ op'.off = n /\ op'.relocated = op.relocated
    <3> HIDE DEF n
    <3> QED BY <1>0, <1>1, <2>1, <2>2, <2>3 DEF Ops
  <2>6. TypeInv'
    <3>1. op' \in Ops(op'.target)
      BY <2>5 DEF Ops
    <3> QED BY <1>0, <1>1, <2>4, <2>5, <3>1 DEF IInv, TypeInv
  <2>7. KeepsOld'
    <3>1. op.mode = "append" => StartsBy(dev', op.block, n)
      <4>1. Agree(dev', dev', op.block, op.off) /\ n \in op.off..UNITS
        BY <1>0, <2>2 DEF Agree
      <4> HIDE DEF n
      <4> QED BY <1>0, <2>4, <4>1, StartsByKept
    <3> HIDE DEF n
    <3> QED BY <1>0, <2>4, <2>5, <3>1 DEF KeepsOld, Half
  <2>8. Fits' /\ WritesErased'
    BY <2>5 DEF Fits, WritesErased
  <2> QED BY <2>4, <2>6, <2>7, <2>8 DEF IInv
<1> QED BY <1>2, <1>3

LEMMA VerifyStep == IInv /\ Verify => IInv'
<1> SUFFICES ASSUME IInv, Verify PROVE IInv'
  OBVIOUS
<1> DEFINE T == op.target
           u == Updated
<1> HIDE DEF T
<1>1. op.pc = "verify" /\ UNCHANGED <<device, bad, erasing, parent, commits, losses>>
  BY Zenon DEF Verify
<1>0. /\ op \in Ops(T) /\ op.dir \in Dirs /\ op.mode \in {"append", "compact"}
      /\ op.dir.pair[1] \in Pair(parent) /\ StartsBy(dev, op.dir.pair[1], UNITS)
      /\ op.mode = "append" => ~op.relocated
  BY <1>1 DEF IInv, TypeInv, T, KeepsOld, Ops
<1>2. CASE ~ReadsBack
  <2>1. op' = Corrupt /\ UNCHANGED dir
    BY <1>2, Zenon DEF Verify
  <2> QED BY <1>1, <2>1, CorruptStep
<1>3. CASE ReadsBack
  <2>1. /\ dir' = u
        /\ IF op.relocated THEN op' = [op EXCEPT !.pc = "parent", !.dir = u] ELSE Return("ok")
    BY <1>3, Zenon DEF Verify
  <2>2. u \in Dirs /\ (op.mode # "append" => u.pair[2] = op.dir.pair[1])
    <3> DEFINE d == [op.dir EXCEPT !.off = op.off, !.top = op.top]
    <3>1. d \in Dirs /\ d.pair = op.dir.pair
      BY <1>0 DEF Dirs, Ops
    <3> HIDE DEF d
    <3>2. CASE op.mode = "append"
      <4> DEFINE log == d.log \o op.words
      <4>1. u = [d EXCEPT !.log = log]
        BY <3>2, Zenon DEF Updated, d
      <4>2. log \in Seq(LogTags)
        BY <1>0, <3>1, ConcatType DEF Ops, Dirs
      <4> HIDE DEF log, u
      <4>3. u \in Dirs
        BY <3>1, <4>1, <4>2 DEF Dirs
      <4> QED BY <3>2, <4>3
    <3>3. CASE op.mode # "append"
      <4> DEFINE q == <<op.dir.pair[2], op.dir.pair[1]>>
                 ws == op.words
      <4>1. u = [d EXCEPT !.log = ws, !.pair = q]
        BY <3>3, Zenon DEF Updated, d
      <4>2. q \in Pairs /\ q[2] = op.dir.pair[1] /\ ws \in Seq(LogTags)
        BY <1>0 DEF Dirs, Pairs, Ops
      <4> HIDE DEF q, ws, u
      <4>3. u \in Dirs /\ u.pair = q
        BY <3>1, <4>1, <4>2 DEF Dirs, Pairs
      <4> QED BY <4>2, <4>3
    <3> QED BY <3>2, <3>3
  <2> HIDE DEF u
  <2>3. CASE op.relocated
    <3>1. op.mode # "append" /\ op' = [op EXCEPT !.pc = "parent", !.dir = u]
      BY <1>0, <2>1, <2>3
    <3>2. op' \in Ops(T) /\ op'.dir = u /\ op'.pc = "parent"
      BY <1>0, <2>2, <3>1 DEF Ops
    <3>3. TypeInv'
      <4>1. op' \in Ops(op'.target)
        BY <3>2 DEF Ops
      <4> QED BY <1>1, <2>1, <2>2, <3>2, <4>1 DEF IInv, TypeInv, device
    <3>4. KeepsOld' /\ Fits' /\ WritesErased'
      BY <1>0, <1>1, <2>2, <3>1, <3>2 DEF KeepsOld, Fits, WritesErased, device
    <3> QED BY <1>1, <3>3, <3>4, SameDevice DEF IInv
  <2>4. CASE ~op.relocated
    <3>1. op' \in Ops(op'.target) /\ op'.pc = "idle" /\ KeepsOld' /\ Fits' /\ WritesErased'
      BY <2>1, <2>4, ReturnIs
    <3>2. TypeInv'
      BY <1>1, <2>1, <2>2, <3>1 DEF IInv, TypeInv, device
    <3> QED BY <1>1, <3>1, <3>2, SameDevice DEF IInv
  <2> QED BY <2>3, <2>4
<1> QED BY <1>2, <1>3

LEMMA UpdateParentStep == IInv /\ UpdateParent => IInv'
<1> SUFFICES ASSUME IInv, UpdateParent PROVE IInv'
  OBVIOUS
<1> DEFINE T == op.target
<1> HIDE DEF T
<1>1. /\ op.pc = "parent" /\ parent' = op.dir.pair /\ found' = Fetch(dev, op.dir.pair)
      /\ op' = [op EXCEPT !.pc = "done"]
      /\ UNCHANGED <<dev, bad, erasing, dir, programmed, commits, losses>>
  BY Zenon DEF UpdateParent
<1>0. op \in Ops(T) /\ op.dir \in Dirs /\ StartsBy(dev, op.dir.pair[2], UNITS)
  BY <1>1 DEF IInv, TypeInv, T, KeepsOld
<1>2. op' \in Ops(T) /\ op'.dir = op.dir /\ op'.pc = "done"
  BY <1>0, <1>1 DEF Ops
<1>3. TypeInv'
  <2>1. op' \in Ops(op'.target) /\ op.dir.pair \in Pairs
    BY <1>0, <1>2 DEF Ops, Dirs, Pairs
  <2> QED BY <1>0, <1>1, <1>2, <2>1 DEF IInv, TypeInv
<1>4. Mountable'
  BY <1>0, <1>1 DEF Mountable, Pair
<1>5. KeepsOld' /\ Fits' /\ WritesErased' /\ NoLies'
  BY <1>1, <1>2 DEF IInv, KeepsOld, Fits, WritesErased, NoLies
<1> QED BY <1>3, <1>4, <1>5 DEF IInv

LEMMA FinishStep == IInv /\ Finish => IInv'
<1> SUFFICES ASSUME IInv, Finish PROVE IInv'
  OBVIOUS
<1>1. Return("ok") /\ UNCHANGED <<device, bad, erasing, parent, dir, commits, losses>>
  BY Zenon DEF Finish
<1>2. op' \in Ops(op'.target) /\ op'.pc = "idle" /\ KeepsOld' /\ Fits' /\ WritesErased'
  BY <1>1, ReturnIs
<1>3. TypeInv'
  BY <1>1, <1>2 DEF IInv, TypeInv, device
<1> QED BY <1>1, <1>2, <1>3, SameDevice DEF IInv

\* What a power loss in the middle of an erase leaves.
LEMMA TornErase ==
  ASSUME IInv, op.pc = "erase", NEW rev \in 0..REVS - 1, NEW top \in Bits,
         dev' = [dev EXCEPT ![op.dir.pair[2]] =
                  [rev |-> rev, units |-> [i \in Units |-> Junk(top, 0)]]],
         programmed' = [programmed EXCEPT ![op.dir.pair[2]] = UNITS],
         found' = Fetch(dev', parent), parent' = parent
  PROVE  dev' \in Devices /\ programmed' \in [Block -> 0..UNITS] /\ Mountable' /\ NoLies'
<1> DEFINE b == op.dir.pair[2]
           u == [i \in Units |-> Junk(top, 0)]
<1>0. /\ dev \in Devices /\ programmed \in [Block -> 0..UNITS] /\ op.dir \in Dirs
      /\ op.dir.pair[1] \in Pair(parent) /\ StartsBy(dev, op.dir.pair[1], UNITS)
      /\ UNITS \in 0..UNITS /\ NoLies
  BY PairAssumption DEF IInv, TypeInv, KeepsOld
<1>1. b \in Block /\ op.dir.pair \in Pairs /\ op.dir.pair[1] # b
  BY <1>0 DEF Dirs, Pairs
<1>2. u \in [Units -> UnitWords] /\ \A i \in Units : u[i].tag.type = "junk"
  <2>1. Junk(top, 0) \in UnitWords /\ Junk(top, 0).tag.type = "junk"
    BY JunkType DEF Bits
  <2> QED BY <2>1
<1>3. dev' = [dev EXCEPT ![b] = [rev |-> rev, units |-> u]]
  OBVIOUS
<1> HIDE DEF b, u
<1>4. dev' \in Devices /\ dev'[b].units = u /\ \A c \in Block \ {b} : dev'[c] = dev[c]
  <2> DEFINE r == [rev |-> rev, units |-> u]
  <2>1. r \in [rev : 0..REVS - 1, units : [Units -> UnitWords]] /\ r.units = u
    BY <1>2
  <2>2. dev' = [dev EXCEPT ![b] = r]
    BY <1>3
  <2> HIDE DEF r
  <2> QED BY <1>0, <1>1, <2>1, <2>2 DEF Devices
<1>5. programmed' \in [Block -> 0..UNITS] /\ \A c \in Block \ {b} : programmed'[c] = programmed[c]
  BY <1>0, <1>1 DEF b
<1>6. Mountable'
  BY <1>0, <1>1, <1>4, OtherBlock
<1>7. NoLies'
  <2>1. \A i \in Units : dev'[b].units[i].tag.type # "crc"
    BY <1>2, <1>4
  <2>2. \A c \in Block \ {b} : dev'[c] = dev[c] /\ programmed'[c] = programmed[c]
    BY <1>4, <1>5
  <2> QED BY <1>0, <1>1, <2>1, <2>2, NoLiesElsewhere
<1> QED BY <1>4, <1>5, <1>6, <1>7

LEMMA PowerLossStep == IInv /\ PowerLoss => IInv'
<1> SUFFICES ASSUME IInv, PowerLoss PROVE IInv'
  OBVIOUS
<1>1. /\ losses' = losses + 1 /\ op.pc # "idle" /\ Torn /\ Return("lost")
      /\ UNCHANGED <<bad, erasing, parent, commits>> /\ dir' = found'
  BY Zenon DEF PowerLoss
<1>2. op' \in Ops(op'.target) /\ op'.pc = "idle" /\ KeepsOld' /\ Fits' /\ WritesErased'
  BY <1>1, ReturnIs
<1>3. dev \in Devices /\ parent \in Pairs /\ parent' = parent
  BY <1>1 DEF IInv, TypeInv
<1>4. dev' \in Devices /\ programmed' \in [Block -> 0..UNITS] /\ Mountable' /\ NoLies'
  <2>1. CASE UNCHANGED device
    <3>1. Mountable' /\ NoLies'
      BY <1>1, <2>1, SameDevice DEF IInv
    <3> QED BY <1>3, <2>1, <3>1 DEF IInv, TypeInv, device
  <2>2. ASSUME TornUnit, NEW top \in Bits, NEW n \in Bits,
               Digest(Junk(top, n)) # Digest(dev[op.block].units[op.off + 1]),
               Prog(op.block, op.off + 1, Junk(top, n))
        PROVE  dev' \in Devices /\ programmed' \in [Block -> 0..UNITS] /\ Mountable' /\ NoLies'
    <3>1. op.pc = "write" /\ op.off < UNITS
      <4>1. op.off \in 0..UNITS /\ UNITS \in Nat
        BY PairAssumption DEF IInv, TypeInv, Ops
      <4>2. CASE Pending /\ Room(op.off)
        BY <4>1, <4>2 DEF Pending, Room
      <4>3. CASE op.pc = "write" /\ ~Pending
        BY <4>3 DEF IInv, Fits
      <4> QED BY <2>2, <4>2, <4>3 DEF TornUnit
    <3>2. Junk(top, n) \in UnitWords
      BY JunkType
    <3> QED BY <1>1, <2>2, <3>1, <3>2, ProgStep
  <2>3. ASSUME op.pc = "rev", NEW rev \in 0..REVS - 1, ProgRevision(op.block, rev)
        PROVE  dev' \in Devices /\ programmed' \in [Block -> 0..UNITS] /\ Mountable' /\ NoLies'
    <3>1. programmed \in [Block -> 0..UNITS]
      BY DEF IInv, TypeInv
    <3> QED BY <1>1, <2>3, <3>1, RevisionStep
  <2>4. ASSUME op.pc = "erase", NEW rev \in 0..REVS - 1, NEW top \in Bits,
               dev' = [dev EXCEPT ![op.dir.pair[2]] =
                        [rev |-> rev, units |-> [i \in Units |-> Junk(top, 0)]]],
               programmed' = [programmed EXCEPT ![op.dir.pair[2]] = UNITS], Refetch
        PROVE  dev' \in Devices /\ programmed' \in [Block -> 0..UNITS] /\ Mountable' /\ NoLies'
    BY <1>3, <2>4, TornErase DEF Refetch
  <2> QED BY <1>1, <2>1, <2>2, <2>3, <2>4, Zenon DEF Torn
<1>5. found' \in Dirs
  BY <1>3, <1>4, FetchIs DEF Mountable
<1>6. TypeInv'
  BY <1>1, <1>2, <1>4, <1>5 DEF IInv, TypeInv
<1> QED BY <1>2, <1>4, <1>6 DEF IInv

LEMMA ReopenStep == IInv /\ Reopen => IInv'
<1> SUFFICES ASSUME IInv, Reopen PROVE IInv'
  OBVIOUS
<1>1. op.pc = "idle" /\ dir' = found
      /\ UNCHANGED <<device, bad, erasing, parent, op, commits, losses>>
  BY DEF Reopen
<1>2. found \in Dirs
  BY FoundIs DEF IInv
<1>3. TypeInv'
  BY <1>1, <1>2 DEF IInv, TypeInv, device
<1>4. KeepsOld' /\ Fits' /\ WritesErased'
  BY <1>1 DEF KeepsOld, Fits, WritesErased
<1> QED BY <1>1, <1>3, <1>4, SameDevice DEF IInv

LEMMA GoesBadStep == IInv /\ GoesBad => IInv'
<1> SUFFICES ASSUME IInv, GoesBad PROVE IInv'
  OBVIOUS
<1>1. PICK b \in Block, how \in {"error", "noop"} :
        bad[b] = "no" /\ bad' = [bad EXCEPT ![b] = how]
  BY Zenon DEF GoesBad
<1>2. UNCHANGED <<device, erasing, parent, dir, op, commits, losses>>
  BY Zenon DEF GoesBad
<1>3. bad \in [Block -> {"no", "error", "noop", "taken"}]
  BY DEF IInv, TypeInv
<1>4. bad' \in [Block -> {"no", "error", "noop", "taken"}]
      /\ \A c \in Block : bad'[c] # "noop" => bad[c] # "noop"
  BY <1>1, <1>3
<1>5. TypeInv' /\ KeepsOld' /\ Fits'
  <2>1. TypeInv'
    BY <1>2, <1>4 DEF IInv, TypeInv, device
  <2>2. KeepsOld'
    BY <1>2 DEF IInv, KeepsOld, Half, device
  <2>3. Fits'
    BY <1>2 DEF IInv, Fits, Written, Pending
  <2> QED BY <2>1, <2>2, <2>3
<1>6. WritesErased'
  <2>1. op.pc \in {"rev", "write"} => op.block \in Block
    BY DEF IInv, TypeInv, KeepsOld, Half, Dirs
  <2>2. op' = op /\ dev' = dev /\ programmed' = programmed
    BY <1>2 DEF device
  <2>3. WritesErased
    BY DEF IInv
  <2> QED BY <1>4, <2>1, <2>2, <2>3 DEF WritesErased
<1> QED BY <1>2, <1>5, <1>6, SameDevice DEF IInv

LEMMA NextStep == ~StaleSyncs /\ IInv /\ [Next]_vars => IInv'
<1> SUFFICES ASSUME ~StaleSyncs, IInv, [Next]_vars PROVE IInv'
  OBVIOUS
<1>1. CASE UNCHANGED vars
  <2>1. UNCHANGED <<device, bad, erasing, parent, dir, op, commits, losses>>
    BY <1>1 DEF vars
  <2>2. TypeInv' /\ KeepsOld'
    BY <2>1 DEF IInv, TypeInv, KeepsOld, Half, device
  <2>3. Fits' /\ WritesErased'
    BY <2>1 DEF IInv, Fits, Written, Pending, WritesErased, device
  <2> QED BY <2>1, <2>2, <2>3, SameDevice DEF IInv
<1> QED BY <1>1, CreateStep, SyncStep, RemoveStep, RenameStep, StartCompactStep, RelocateStep,
           EraseStep, ProgRevStep, CommitAttrStep, CommitCrcStep, VerifyStep, UpdateParentStep,
           FinishStep, PowerLossStep, ReopenStep, GoesBadStep, Zenon DEF Next

------------------------------------------------------------------------------
(* The pair that a run starts with.                                        *)

LEMMA FirstLogType ==
  /\ FirstLog[1] \in LogTags /\ FirstLog[2] \in LogTags /\ FirstLog \in Seq(LogTags)
  /\ FirstLog[1].type = "name" /\ FirstLog[2].type = "struct"
<1>1. FirstName \in Int /\ EMPTY \in Int
  BY PairAssumption
<1>2. Tag("name", 0, FirstName) \in LogTags /\ Tag("struct", 0, EMPTY) \in LogTags
  BY <1>1, LogTagIs
<1>3. Tag("name", 0, FirstName).type = "name" /\ Tag("struct", 0, EMPTY).type = "struct"
  BY DEF Tag
<1> QED BY <1>2, <1>3 DEF FirstLog

FirstCovers == <<<<1, FirstLog[1]>>, <<0, FirstLog[2]>>>>

LEMMA CrcOfType ==
  ASSUME NEW top \in Bits, NEW covers \in Seq(Digests), NEW next \in UnitWords, NEW w,
         w = CrcOf(top, covers, next)
  PROVE  /\ w \in UnitWords /\ w.top = top /\ w.tag.type = "crc" /\ w.tag.id = 0
         /\ w.covers = covers /\ w.fcrc = Digest(next)
<1>1. Tag("crc", 0, 0) \in Tags /\ Tag("crc", 0, 0).id = 0 /\ Tag("crc", 0, 0).type = "crc"
  BY DEF Tag, Tags, TagTypes
<1>2. Digest(next) \in Digests
  BY DigestType
<1> QED BY <1>1, <1>2 DEF CrcOf, UnitWords, Bits

LEMMA FirstUnitsIs ==
  ASSUME NEW rev \in 0..REVS - 1, NEW x \in UnitWords, NEW y \in UnitWords, NEW u,
         u = FirstUnits(rev, <<x, y>>)
  PROVE  /\ u \in [Units -> UnitWords]
         /\ u[1] = Word(1, FirstLog[1]) /\ u[2] = Word(0, FirstLog[2])
         /\ u[3] = CrcOf(0, Header(rev, 0) \o FirstCovers, Blank)
         /\ u[4] = x /\ u[5] = y
         /\ \A i \in Units : i > 5 => u[i] = Blank
<1> DEFINE w1 == Word(1, FirstLog[1])
           w2 == Word(0, FirstLog[2])
           w3 == CrcOf(0, Header(rev, 0) \o FirstCovers, Blank)
<1>1. w1 \in UnitWords /\ w2 \in UnitWords
  BY FirstLogType, WordType DEF Bits
<1>2. w3 \in UnitWords
  <2>1. FirstCovers \in Seq(Digests)
    BY FirstLogType DEF FirstCovers, Digests, LogTags, Bits
  <2>2. Header(rev, 0) \o FirstCovers \in Seq(Digests)
    BY <2>1, HeaderType, ConcatType
  <2>3. 0 \in Bits
    BY DEF Bits
  <2> QED BY <2>2, <2>3, BlankType, CrcOfType
<1> DEFINE U == [Units -> UnitWords]
           a1 == [BlankUnits EXCEPT ![1] = w1]
           a2 == [a1 EXCEPT ![2] = w2]
           a3 == [a2 EXCEPT ![3] = w3]
           a4 == [a3 EXCEPT ![4] = x]
           a5 == [a4 EXCEPT ![5] = y]
<1>3. u = a5
  BY DEF FirstUnits, FirstCovers
<1> HIDE DEF w1, w2, w3
<1>4. 1 \in Units /\ 2 \in Units /\ 3 \in Units /\ 4 \in Units /\ 5 \in Units
  BY PairAssumption DEF Units
<1>5. BlankUnits \in U /\ \A i \in Units : BlankUnits[i] = Blank
  BY BlankUnitsType DEF BlankUnits
<1>6. a1 \in U /\ a1[1] = w1 /\ \A i \in Units : i > 5 => a1[i] = Blank
  BY <1>1, <1>4, <1>5
<1> HIDE DEF a1
<1>7. a2 \in U /\ a2[1] = w1 /\ a2[2] = w2 /\ \A i \in Units : i > 5 => a2[i] = Blank
  BY <1>1, <1>4, <1>6
<1> HIDE DEF a2
<1>8. a3 \in U /\ a3[1] = w1 /\ a3[2] = w2 /\ a3[3] = w3 /\ \A i \in Units : i > 5 => a3[i] = Blank
  BY <1>2, <1>4, <1>7
<1> HIDE DEF a3
<1>9. /\ a4 \in U /\ a4[1] = w1 /\ a4[2] = w2 /\ a4[3] = w3 /\ a4[4] = x
      /\ \A i \in Units : i > 5 => a4[i] = Blank
  BY <1>4, <1>8
<1> HIDE DEF a4
<1>10. /\ a5 \in U /\ a5[1] = w1 /\ a5[2] = w2 /\ a5[3] = w3 /\ a5[4] = x /\ a5[5] = y
       /\ \A i \in Units : i > 5 => a5[i] = Blank
  BY <1>4, <1>9
<1> HIDE DEF a5
<1> QED BY <1>3, <1>10 DEF w1, w2, w3

\* Up to unit 3 the first commit, whatever follows.
LEMMA FirstCommit ==
  ASSUME NEW blocks \in Devices, NEW b \in Block, NEW rev \in 0..REVS - 1,
         blocks[b].rev = rev, NEW x \in UnitWords, NEW y \in UnitWords,
         blocks[b].units = FirstUnits(rev, <<x, y>>)
  PROVE  IsCommit(blocks, b, 0, 3)
<1> DEFINE u == blocks[b].units
<1>1. /\ u[1] = Word(1, FirstLog[1]) /\ u[2] = Word(0, FirstLog[2])
      /\ u[3] = CrcOf(0, Header(rev, 0) \o FirstCovers, Blank)
  BY FirstUnitsIs
<1> HIDE DEF u
<1>2. /\ u[1].top = 1 /\ u[1].tag = FirstLog[1] /\ u[2].top = 0 /\ u[2].tag = FirstLog[2]
      /\ u[3].top = 0 /\ u[3].tag.type = "crc" /\ u[3].covers = Header(rev, 0) \o FirstCovers
  BY <1>1 DEF Word, CrcOf, Tag
<1>3. LeftTop(u, 0) = 1 /\ LeftTop(u, 1) = 0 /\ LeftTop(u, 2) = 0
  BY <1>2, FirstLogType DEF LeftTop
<1>4. \A k \in 0 + 1..3 : u[k].top = LeftTop(u, k - 1)
  <2>1. \A k \in 0 + 1..3 : k = 1 \/ k = 2 \/ k = 3
    OBVIOUS
  <2>2. 1 - 1 = 0 /\ 2 - 1 = 1 /\ 3 - 1 = 2
    OBVIOUS
  <2> QED BY <1>2, <1>3, <2>1, <2>2
<1>5. \A k \in 0 + 1..3 - 1 : IsAttr(u[k])
  <2>1. \A k \in 0 + 1..3 - 1 : k = 1 \/ k = 2
    OBVIOUS
  <2> QED BY <1>2, <2>1, FirstLogType DEF IsAttr
<1>6. FirstCovers = [k \in 1..3 - 0 - 1 |-> Digest(u[0 + k])]
  <2> DEFINE f == [k \in 1..3 - 0 - 1 |-> Digest(u[0 + k])]
  <2>1. Digest(u[1]) = <<1, FirstLog[1]>> /\ Digest(u[2]) = <<0, FirstLog[2]>>
    BY <1>2 DEF Digest
  <2>2. f = [k \in 1..2 |-> Digest(u[k])]
    OBVIOUS
  <2> DEFINE g == [k \in 1..2 |-> Digest(u[k])]
  <2>3. g[1] = <<1, FirstLog[1]>> /\ g[2] = <<0, FirstLog[2]>>
    BY <2>1
  <2>4. g = <<g[1], g[2]>>
    OBVIOUS
  <2> HIDE DEF f, g
  <2> QED BY <2>2, <2>3, <2>4 DEF FirstCovers, f, g
<1>7. u[3].covers = Header(blocks[b].rev, 0) \o [k \in 1..3 - 0 - 1 |-> Digest(u[0 + k])]
  BY <1>2, <1>6
<1> QED BY <1>2, <1>4, <1>5, <1>7, Zenon DEF IsCommit, u

LEMMA FirstRevs ==
  /\ FirstRev \in 0..REVS - 1 /\ FirstRev - 1 \in 0..REVS - 1 /\ REVS - 1 \in 0..REVS - 1
  /\ ~(Scmp(FirstRev - 1, FirstRev) > 0)
<1>1. REVS \in Nat /\ REVS >= 4
  BY PairAssumption
<1>2. FirstRev \in 0..REVS - 1 /\ FirstRev - 1 \in 0..REVS - 1 /\ REVS - 1 \in 0..REVS - 1
  BY <1>1 DEF FirstRev
<1>3. (FirstRev - 1 - FirstRev + REVS) % REVS = REVS - 1
  <2>1. FirstRev - 1 - FirstRev + REVS = REVS - 1
    BY <1>1, <1>2
  <2>2. (REVS - 1) % REVS = REVS - 1
    BY <1>1
  <2> QED BY <2>1, <2>2
<1>4. ~(REVS - 1 < REVS \div 2)
  BY <1>1
<1>5. Scmp(FirstRev - 1, FirstRev) = REVS - 1 - REVS
  BY <1>3, <1>4, Zenon DEF Scmp
<1> QED BY <1>1, <1>2, <1>5

LEMMA InitDevice ==
  ASSUME Init
  PROVE  /\ dev \in Devices /\ parent = <<1, 2>> /\ parent \in Pairs /\ parent[1] = 1 /\ parent[2] = 2
         /\ 1 \in Block /\ 2 \in Block
         /\ dev[1].rev = FirstRev /\ dev[1].units = FirstUnits(FirstRev, <<Blank, Blank>>)
         /\ dev[2].rev = FirstRev - 1
         /\ dev[2].units = FirstUnits(FirstRev - 1, <<Word(0, FirstLog[2]),
                                                      CrcOf(0, <<<<0, FirstLog[2]>>>>, Blank)>>)
<1> DEFINE u1 == FirstUnits(FirstRev, <<Blank, Blank>>)
           x == Word(0, FirstLog[2])
           y == CrcOf(0, <<<<0, FirstLog[2]>>>>, Blank)
           u2 == FirstUnits(FirstRev - 1, <<x, y>>)
           R == [rev : 0..REVS - 1, units : [Units -> UnitWords]]
           b1 == [rev |-> FirstRev, units |-> u1]
           b2 == [rev |-> FirstRev - 1, units |-> u2]
           b3 == [rev |-> REVS - 1, units |-> BlankUnits]
<1>1. x \in UnitWords /\ y \in UnitWords
  <2>1. <<<<0, FirstLog[2]>>>> \in Seq(Digests) /\ 0 \in Bits
    BY FirstLogType DEF Digests, LogTags, Bits
  <2> QED BY <2>1, FirstLogType, WordType, BlankType, CrcOfType
<1>2. u1 \in [Units -> UnitWords]
  BY FirstRevs, BlankType, FirstUnitsIs
<1> HIDE DEF x, y
<1>3. u2 \in [Units -> UnitWords]
  BY <1>1, FirstRevs, FirstUnitsIs
<1> HIDE DEF u1, u2
<1>4. b1 \in R /\ b2 \in R /\ b3 \in R
  BY <1>2, <1>3, FirstRevs, BlankUnitsType
<1>5. 1 \in Block /\ 2 \in Block /\ parent = <<1, 2>>
  BY PairAssumption DEF Block, Init
<1>6. dev = [b \in Block |-> CASE b = 1 -> b1 [] b = 2 -> b2 [] OTHER -> b3]
  BY DEF Init, FirstBlock, OldBlock, u1, u2, x, y
<1>7. /\ b1.rev = FirstRev /\ b1.units = u1
      /\ b2.rev = FirstRev - 1 /\ b2.units = u2
  OBVIOUS
<1> HIDE DEF b1, b2, b3, R
<1>8. dev \in [Block -> R] /\ dev[1] = b1 /\ dev[2] = b2
  <2>1. \A b \in Block : dev[b] \in R
    BY <1>4, <1>6
  <2>2. dev = [b \in Block |-> dev[b]]
    BY <1>6
  <2>3. dev[1] = b1 /\ dev[2] = b2
    BY <1>5, <1>6
  <2> QED BY <2>1, <2>2, <2>3
<1> QED BY <1>5, <1>7, <1>8 DEF Devices, Pairs, R, u1, u2, x, y

LEMMA TwoAppends ==
  ASSUME NEW S, NEW a \in S, NEW b \in S
  PROVE  Append(Append(<<>>, a), b) = <<a, b>>
<1> DEFINE s == Append(<<a>>, b)
           t == <<a, b>>
<1>1. Append(<<>>, a) = <<a>>
  OBVIOUS
<1>2. s \in Seq(S) /\ Len(s) = 2 /\ s[1] = a /\ s[2] = b
  OBVIOUS
<1>3. t \in Seq(S) /\ Len(t) = 2 /\ t[1] = a /\ t[2] = b
  OBVIOUS
<1>4. \A i \in 1..2 : i = 1 \/ i = 2
  OBVIOUS
<1> HIDE DEF s, t
<1>5. s = t
  BY <1>2, <1>3, <1>4, SeqEqual
<1> QED BY <1>1, <1>5 DEF s, t

\* A mount finds the first commit.
LEMMA InitFound ==
  ASSUME Init
  PROVE  found = Fetch(dev, parent) /\ found \in Dirs /\ StartsBy(dev, 1, UNITS)
<1> DEFINE u == dev[1].units
           p == <<1, 2>>
<1>0. /\ dev \in Devices /\ parent = p /\ p \in Pairs /\ p[1] = 1 /\ p[2] = 2 /\ 1 \in Block
      /\ dev[1].rev = FirstRev /\ u = FirstUnits(FirstRev, <<Blank, Blank>>)
      /\ dev[2].rev = FirstRev - 1 /\ UNITS \in Nat /\ UNITS >= 5
  BY InitDevice, PairAssumption
<1>1. /\ u[1] = Word(1, FirstLog[1]) /\ u[2] = Word(0, FirstLog[2])
      /\ u[3] = CrcOf(0, Header(FirstRev, 0) \o FirstCovers, Blank)
      /\ u[4] = Blank /\ u[5] = Blank /\ \A i \in Units : i > 5 => u[i] = Blank
  <2> HIDE DEF u
  <2> QED BY <1>0, FirstRevs, BlankType, FirstUnitsIs
<1>2. IsCommit(dev, 1, 0, 3)
  BY <1>0, FirstRevs, BlankType, FirstCommit
<1>3. StartsBy(dev, 1, UNITS)
  BY <1>0, <1>2 DEF StartsBy
<1> HIDE DEF u
<1>4. /\ u[1].tag = FirstLog[1] /\ u[2].tag = FirstLog[2] /\ u[3].tag.type = "crc"
      /\ u[3].tag.id = 0 /\ u[3].fcrc = Digest(u[4]) /\ u[4].top = 1
  BY <1>1, BlankType DEF Word, CrcOf, Tag
<1>5. \A i \in Units : u[i].tag.type = "crc" => i = 3
  <2>1. u[1].tag.type # "crc" /\ u[2].tag.type # "crc" /\ u[4].tag.type # "crc" /\ u[5].tag.type # "crc"
    BY <1>1, <1>4, FirstLogType, BlankType
  <2>2. \A i \in Units : i > 5 => u[i].tag.type # "crc"
    BY <1>1, BlankType
  <2>3. \A i \in Units : i = 1 \/ i = 2 \/ i = 3 \/ i = 4 \/ i = 5 \/ i > 5
    BY DEF Units
  <2> QED BY <2>1, <2>2, <2>3
<1>6. ScanEnd(dev, 1) = 3
  <2> DEFINE e == ScanEnd(dev, 1)
  <2>1. e \in 0..UNITS /\ (e > 0 => u[e].tag.type = "crc") /\ e > 0
    BY <1>3, ScanEndIs DEF u
  <2> HIDE DEF e
  <2>2. e \in Units
    BY <1>0, <2>1 DEF Units
  <2> QED BY <1>5, <2>1, <2>2 DEF e
<1>7. LogOf(dev, 1, 3) = FirstLog
  <2>1. 3 \in 0..UNITS
    BY <1>0
  <2>2. PICK g : LogUpto(g, dev[1].units, 3) /\ LogOf(dev, 1, 3) = g[3]
    BY <1>0, <2>1, LogRuns
  <2>3. g = [i \in 0..3 |-> CASE i = 0 -> <<>>
                         [] i > 0 /\ u[i].tag.type # "crc" -> Append(g[i - 1], u[i].tag)
                         [] OTHER -> g[i - 1]]
    BY <2>2 DEF LogUpto, u
  <2>4. g[0] = <<>>
    BY <2>3
  <2>5. g[1] = Append(g[0], FirstLog[1])
    BY <2>3, <1>4, FirstLogType
  <2>6. g[2] = Append(g[1], FirstLog[2])
    BY <2>3, <1>4, FirstLogType
  <2>7. g[3] = g[2]
    <3>1. 3 \in 0..3 /\ ~(3 = 0) /\ 3 - 1 = 2 /\ u[3].tag.type = "crc"
      BY <1>4
    <3> QED BY <2>3, <3>1
  <2>8. FirstLog = <<FirstLog[1], FirstLog[2]>>
    BY DEF FirstLog
  <2>9. Append(Append(<<>>, FirstLog[1]), FirstLog[2]) = <<FirstLog[1], FirstLog[2]>>
    BY FirstLogType, TwoAppends
  <2> QED BY <2>2, <2>4, <2>5, <2>6, <2>7, <2>8, <2>9
<1>8. SeemsErased(dev, 1, 3) = TRUE /\ LeftTop(u, 3) = 0
  <2>1. LeftTop(u, 3) = 0
    BY <1>4 DEF LeftTop
  <2>2. 3 < UNITS /\ u[3 + 1].top # LeftTop(u, 3) /\ u[3].fcrc = Digest(u[3 + 1])
    <3>1. 3 + 1 = 4 /\ 3 < UNITS
      BY <1>0
    <3> QED BY <1>4, <2>1, <3>1
  <2> QED BY <2>1, <2>2, Zenon DEF SeemsErased, u
<1>9. Fetch(dev, p) = DirAt(dev, p)[3]
  <2>1. FetchOrder(dev, p) = p
    BY <1>0, FirstRevs, Zenon DEF FetchOrder
  <2>2. ScanEnd(dev, p[1]) = 3 /\ 3 > 0 /\ ~(3 = 0)
    BY <1>0, <1>6
  <2> HIDE DEF p
  <2> QED BY <2>1, <2>2, Zenon DEF Fetch
<1>10. Fetch(dev, p) \in Dirs
       /\ Fetch(dev, p) = [pair |-> p, rev |-> FirstRev, off |-> 3, top |-> 0,
                           erased |-> TRUE, log |-> FirstLog]
  <2>1. 3 \in 0..UNITS
    BY <1>0
  <2> DEFINE d == Fetch(dev, p)
             r == [pair |-> p, rev |-> dev[p[1]].rev, off |-> 3,
                   top |-> LeftTop(dev[p[1]].units, 3),
                   erased |-> SeemsErased(dev, p[1], 3), log |-> LogOf(dev, p[1], 3)]
  <2>2. d \in Dirs /\ d = r
    <3>1. d = DirAt(dev, p)[3]
      BY <1>9
    <3> HIDE DEF p, d
    <3> QED BY <1>0, <2>1, <3>1, DirAtIs
  <2>3. r = [pair |-> p, rev |-> FirstRev, off |-> 3, top |-> 0, erased |-> TRUE, log |-> FirstLog]
    BY <1>0, <1>7, <1>8, Zenon DEF u
  <2> QED BY <2>2, <2>3
<1>11. found = [pair |-> parent, rev |-> FirstRev, off |-> 3, top |-> 0,
                erased |-> TRUE, log |-> FirstLog]
  BY Zenon DEF Init
<1> QED BY <1>0, <1>3, <1>10, <1>11

LEMMA InitIInv == Init => IInv
<1> SUFFICES ASSUME Init PROVE IInv
  OBVIOUS
<1>1. /\ op = Idle /\ dir = found /\ commits = 0 /\ losses = 0 /\ erasing \in ErasedTo
      /\ programmed = [b \in Block |-> CASE b = 1 -> 3 [] b = 2 -> 5 [] OTHER -> 0]
  BY DEF Init
<1>2. /\ dev \in Devices /\ parent \in Pairs /\ parent[1] = 1 /\ 1 \in Block /\ 2 \in Block
      /\ UNITS \in Nat /\ UNITS >= 5
  BY InitDevice, PairAssumption
<1>3. found = Fetch(dev, parent) /\ found \in Dirs /\ StartsBy(dev, 1, UNITS)
  BY InitFound
<1>4. bad \in [Block -> {"no", "error", "noop", "taken"}]
  <2>1. PICK taken : bad = [b \in Block |-> IF b \in taken THEN "taken" ELSE "no"]
    BY Zenon DEF Init
  <2> QED BY <2>1
<1>5. TypeInv
  <2>1. op \in Ops(op.target) /\ op.pc = "idle"
    BY <1>1, IdleIs DEF Ops
  <2>2. programmed \in [Block -> 0..UNITS]
    BY <1>1, <1>2
  <2>3. erasing \in {"ones", "anything"}
    BY <1>1, PairAssumption
  <2> QED BY <1>1, <1>2, <1>3, <1>4, <2>1, <2>2, <2>3 DEF TypeInv
<1>6. Mountable
  BY <1>2, <1>3 DEF Mountable, Pair
<1>7. KeepsOld /\ Fits /\ WritesErased
  BY <1>1, IdleIs DEF KeepsOld, Fits, WritesErased
<1>8. NoLies
  <2> SUFFICES ASSUME NEW b \in Block, NEW i \in Units, i < programmed[b],
                      dev[b].units[i].tag.type = "crc"
               PROVE  \/ dev[b].units[i].fcrc # Digest(dev[b].units[i + 1])
                      \/ dev[b].units[i + 1].top = LeftTop(dev[b].units, i)
    BY DEF NoLies
  <2> DEFINE u == dev[b].units
             x == Word(0, FirstLog[2])
             y == CrcOf(0, <<<<0, FirstLog[2]>>>>, Blank)
  <2>1. x \in UnitWords /\ y \in UnitWords /\ x.top = 0
    <3>1. <<<<0, FirstLog[2]>>>> \in Seq(Digests) /\ 0 \in Bits
      BY FirstLogType DEF Digests, LogTags, Bits
    <3> QED BY <3>1, FirstLogType, WordType, BlankType, CrcOfType
  <2>2. i \in Nat /\ i > 0
    BY DEF Units
  <2>3. CASE b = 1
    <3>1. i = 1 \/ i = 2
      BY <1>1, <1>2, <2>2, <2>3
    <3>2. u[1] = Word(1, FirstLog[1]) /\ u[2] = Word(0, FirstLog[2])
      BY <2>3, InitDevice, FirstRevs, BlankType, FirstUnitsIs
    <3> QED BY <3>1, <3>2, FirstLogType DEF Word
  <2>4. CASE b = 2
    <3>1. i = 1 \/ i = 2 \/ i = 3 \/ i = 4
      BY <1>1, <1>2, <2>2, <2>4
    <3> HIDE DEF x, y
    <3>2. /\ u[1] = Word(1, FirstLog[1]) /\ u[2] = Word(0, FirstLog[2])
          /\ u[3] = CrcOf(0, Header(FirstRev - 1, 0) \o FirstCovers, Blank) /\ u[4] = x
      <4>1. u = FirstUnits(FirstRev - 1, <<x, y>>)
        BY <2>4, InitDevice DEF x, y
      <4> HIDE DEF u
      <4> QED BY <2>1, <4>1, FirstRevs, FirstUnitsIs
    <3>3. i = 3
      <4>1. u[1].tag.type # "crc" /\ u[2].tag.type # "crc" /\ u[4].tag.type # "crc"
        BY <3>2, FirstLogType DEF Word, x
      <4> QED BY <3>1, <4>1
    <3>4. LeftTop(u, 3) = 0
      BY <3>2 DEF LeftTop, CrcOf, Tag
    <3>5. i + 1 = 4
      BY <3>3
    <3> HIDE DEF u
    <3>6. u[i + 1].top = LeftTop(u, i)
      BY <2>1, <3>2, <3>3, <3>4, <3>5
    <3> QED BY <3>6 DEF u
  <2>5. CASE b # 1 /\ b # 2
    BY <1>1, <2>2, <2>5
  <2> QED BY <2>3, <2>4, <2>5
<1> QED BY <1>5, <1>6, <1>7, <1>8 DEF IInv

------------------------------------------------------------------------------
(* An open file follows: what is written and what is found again.          *)

\* The tags on disk, and those a commit is given.
AttrTypes == {"create", "delete", "name", "struct"}
AttrTags == {t \in Tags : t.type \in AttrTypes}
GivenTags == {t \in Tags : t.type \in AttrTypes \cup {"move"}}

LEMMA AttrTagsAreLogTags ==
  /\ AttrTags \subseteq GivenTags /\ GivenTags \subseteq LogTags /\ LogTags \subseteq Tags
  /\ Seq(AttrTags) \subseteq Seq(GivenTags) /\ Seq(GivenTags) \subseteq Seq(LogTags)
  /\ Seq(AttrTags) \subseteq Seq(LogTags) /\ Seq(LogTags) \subseteq Seq(Tags)
<1>1. AttrTags \subseteq GivenTags /\ GivenTags \subseteq LogTags /\ LogTags \subseteq Tags
  BY DEF AttrTags, GivenTags, LogTags, AttrTypes
<1>2. Seq(AttrTags) \subseteq Seq(GivenTags) /\ Seq(GivenTags) \subseteq Seq(LogTags)
      /\ Seq(LogTags) \subseteq Seq(Tags)
  BY <1>1, SeqMonotonic
<1> QED BY <1>1, <1>2

LEMMA FromDiskAttr ==
  ASSUME NEW log \in Seq(Tags), NEW t \in GivenTags
  PROVE  /\ FromDisk(log, t) \in AttrTags
         /\ t.type # "move" => FromDisk(log, t) = t
<1>1. CASE t.type = "move"
  <2>1. t \in LogTags
    BY AttrTagsAreLogTags
  <2>2. FromDisk(log, t) \in Tags
    BY <2>1, FromDiskType DEF LogTags
  <2>3. FromDisk(log, t).type = "struct"
    BY <1>1 DEF FromDisk, Tag
  <2> QED BY <1>1, <2>2, <2>3 DEF AttrTags, AttrTypes
<1>2. CASE t.type # "move"
  BY <1>2 DEF FromDisk, GivenTags, AttrTags
<1> QED BY <1>1, <1>2

LEMMA ExpandAttrs ==
  ASSUME NEW log \in Seq(Tags), NEW attrs \in Seq(GivenTags)
  PROVE  Expand(log, attrs) \in Seq(AttrTags)
<1> DEFINE e == [i \in 1..Len(attrs) |-> FromDisk(log, attrs[i])]
<1>1. Expand(log, attrs) = e
  BY DEF Expand
<1>2. \A i \in 1..Len(attrs) : FromDisk(log, attrs[i]) \in AttrTags
  BY FromDiskAttr
<1>3. e \in Seq(AttrTags)
  BY <1>2, IsASeq
<1> QED BY <1>1, <1>3

\* What a compaction appends to the log it writes.
LEMMA CompactedStepAttr ==
  ASSUME NEW log \in Seq(Tags), NEW tags \in Seq(GivenTags), NEW n \in 1..Len(tags),
         NEW begin \in Int, NEW end \in Int, NEW a \in Seq(AttrTags)
  PROVE  CompactedStep(log, tags, n, begin, end, a) \in Seq(AttrTags)
<1> DEFINE u == Unique(tags, n)
<1>1. u \in Tags /\ u.type \in {tags[n].type, "noop"} /\ tags[n] \in GivenTags
  BY AttrTagsAreLogTags, UniqueType
<1> DEFINE d == FromDisk(log, u)
           e == [d EXCEPT !.id = @ - begin]
<1> HIDE DEF u
<1>2. CASE Kept(u, begin, end)
  <2>1. u \in GivenTags
    BY <1>1, <1>2 DEF Kept, GivenTags
  <2>2. d \in AttrTags
    BY <2>1, FromDiskAttr
  <2> HIDE DEF d
  <2>3. e \in Tags /\ e.type = d.type
    BY <2>2, ShiftedType DEF AttrTags
  <2>4. e \in AttrTags
    <3> HIDE DEF e
    <3> QED BY <2>2, <2>3 DEF AttrTags
  <2> HIDE DEF e
  <2>5. Append(a, e) \in Seq(AttrTags)
    BY <2>4, AppendType
  <2> QED BY <1>2, <2>5 DEF CompactedStep, u, d, e
<1>3. CASE ~Kept(u, begin, end)
  BY <1>3 DEF CompactedStep, u
<1> QED BY <1>2, <1>3

LEMMA CompactedAttrs ==
  ASSUME NEW log \in Seq(AttrTags), NEW attrs \in Seq(GivenTags), NEW begin \in Int, NEW end \in Int
  PROVE  Compacted(log, attrs, begin, end) \in Seq(AttrTags)
<1> DEFINE tags == log \o attrs
           L == Len(tags)
<1>0. log \in Seq(Tags) /\ log \in Seq(LogTags) /\ attrs \in Seq(LogTags)
      /\ tags \in Seq(GivenTags) /\ L \in Nat
  <2>1. log \in Seq(GivenTags)
    BY AttrTagsAreLogTags
  <2>2. tags \in Seq(GivenTags)
    BY <2>1, ConcatType
  <2> HIDE DEF tags
  <2> QED BY <2>2, AttrTagsAreLogTags
<1>1. PICK g : /\ CompactedUpto(g, log, tags, begin, end)
               /\ Compacted(log, attrs, begin, end) = g[L]
  BY <1>0, CompactedRuns
<1> DEFINE S == {n \in Nat : n <= L => g[n] \in Seq(AttrTags)}
<1> HIDE DEF tags, L
<1>2. ASSUME NEW n \in 0..L
      PROVE  g[n] = IF n = 0 THEN <<>> ELSE CompactedStep(log, tags, n, begin, end, g[n - 1])
  <2>1. g[n] = CASE n = 0 -> <<>>
                 [] n > 0 /\ Kept(Unique(tags, n), begin, end) ->
                      Append(g[n - 1], [FromDisk(log, Unique(tags, n)) EXCEPT !.id = @ - begin])
                 [] OTHER -> g[n - 1]
    BY <1>1 DEF CompactedUpto, L
  <2> QED BY <2>1, <1>0 DEF CompactedStep
<1>3. 0 \in S
  <2>1. 0 \in 0..L
    BY <1>0
  <2>2. g[0] = <<>>
    BY <1>2, <2>1, Zenon
  <2>3. <<>> \in Seq(AttrTags)
    OBVIOUS
  <2> QED BY <2>2, <2>3
<1>4. ASSUME NEW n \in Nat, n \in S PROVE n + 1 \in S
  <2> SUFFICES ASSUME n + 1 <= L PROVE g[n + 1] \in Seq(AttrTags)
    OBVIOUS
  <2>1. n + 1 \in 1..L /\ n + 1 \in 0..L /\ n + 1 - 1 = n /\ n + 1 # 0
    BY <1>0
  <2>2. g[n] \in Seq(AttrTags)
    BY <1>4, <2>1, <1>0
  <2>3. g[n + 1] = CompactedStep(log, tags, n + 1, begin, end, g[n])
    BY <1>2, <2>1
  <2> QED BY <1>0, <2>1, <2>2, <2>3, CompactedStepAttr DEF L
<1> HIDE DEF S
<1>5. L \in S
  BY <1>0, <1>3, <1>4, SetInduction, SMTT(30)
<1> QED BY <1>0, <1>1, <1>5 DEF S

\* The scan from unit i passes unit e: R holds the ends of the commits.
Path(R, blocks, b, i, e) ==
  /\ R \subseteq i..e /\ i \in R /\ e \in R
  /\ \A k \in R : k # e => \E j \in R : k < j /\ IsCommit(blocks, b, k, j)

Reaches(blocks, b, i, e) == \E R : Path(R, blocks, b, i, e)

\* A commit ends at one unit only.
LEMMA CommitEnd ==
  ASSUME NEW blocks, NEW b, NEW i \in Nat, NEW j \in Nat, NEW k \in Nat, i < j, i < k,
         IsCommit(blocks, b, i, j), IsCommit(blocks, b, i, k)
  PROVE  j = k
<1>1. ASSUME NEW m \in Nat, NEW n \in Nat, i < m, m < n,
             IsCommit(blocks, b, i, m), IsCommit(blocks, b, i, n)
      PROVE  FALSE
  <2>1. m \in i + 1..n - 1
    BY <1>1
  <2>2. IsAttr(blocks[b].units[m]) /\ blocks[b].units[m].tag.type = "crc"
    BY <1>1, <2>1 DEF IsCommit
  <2> QED BY <2>2 DEF IsAttr
<1>2. ~(j < k) /\ ~(k < j)
  BY <1>1
<1> QED BY <1>2

LEMMA PathNext ==
  ASSUME NEW blocks, NEW b, NEW i \in 0..UNITS, NEW e \in i..UNITS, NEW R,
         Path(R, blocks, b, i, e), NEW k \in R, k # e
  PROVE  /\ HasNext(blocks, b, k) /\ NextEnd(blocks, b, k) \in R
         /\ k < NextEnd(blocks, b, k) /\ k \in 0..UNITS
<1>0. UNITS \in Nat /\ R \subseteq i..e /\ \A n \in i..e : n \in Nat /\ n <= UNITS
  BY PairAssumption DEF Path
<1>1. PICK j \in R : k < j /\ IsCommit(blocks, b, k, j)
  BY DEF Path
<1>2. k \in Nat /\ k <= UNITS /\ j \in Nat /\ j <= UNITS
  BY <1>0, <1>1
<1>3. j \in k + 1..UNITS /\ k \in 0..UNITS
  BY <1>0, <1>1, <1>2
<1>4. HasNext(blocks, b, k)
  BY <1>1, <1>3 DEF HasNext
<1> DEFINE n == NextEnd(blocks, b, k)
<1>5. n \in k + 1..UNITS /\ IsCommit(blocks, b, k, n)
  BY <1>3, <1>4, NextEndIs
<1> HIDE DEF n
<1>6. n = j
  <2>1. n \in Nat /\ k < n
    BY <1>0, <1>2, <1>5
  <2> QED BY <1>1, <1>2, <1>5, <2>1, CommitEnd
<1> QED BY <1>1, <1>3, <1>4, <1>6 DEF n

\* The scan of a block goes through the ends of its commits.
LEMMA ScanReaches ==
  ASSUME NEW blocks, NEW b
  PROVE  Reaches(blocks, b, 0, ScanEnd(blocks, b)) /\ ScanEnd(blocks, b) \in 0..UNITS
<1>1. PICK g : ScanFrom(g, blocks, b) /\ ScanEnd(blocks, b) = g[0]
  BY ScanRuns
<1> DEFINE S == {k \in Nat : k <= UNITS =>
                   \A i \in UNITS - k..UNITS : g[i] \in i..UNITS /\ Reaches(blocks, b, i, g[i])}
<1>0. UNITS \in Nat
  BY PairAssumption
<1>2. ASSUME NEW i \in 0..UNITS
      PROVE  g[i] = IF HasNext(blocks, b, i) THEN g[NextEnd(blocks, b, i)] ELSE i
  BY <1>1 DEF ScanFrom
<1>3. ASSUME NEW i \in 0..UNITS, ~HasNext(blocks, b, i)
      PROVE  g[i] \in i..UNITS /\ Reaches(blocks, b, i, g[i])
  <2>1. g[i] = i
    BY <1>2, <1>3
  <2>2. Path({i}, blocks, b, i, i)
    BY DEF Path
  <2> QED BY <1>0, <2>1, <2>2 DEF Reaches
<1>4. 0 \in S
  <2>1. ~HasNext(blocks, b, UNITS)
    BY <1>0 DEF HasNext
  <2>2. \A i \in UNITS - 0..UNITS : i = UNITS /\ i \in 0..UNITS
    BY <1>0
  <2> QED BY <2>1, <2>2, <1>3
<1>5. ASSUME NEW k \in Nat, k \in S PROVE k + 1 \in S
  <2> SUFFICES ASSUME k + 1 <= UNITS, NEW i \in UNITS - (k + 1)..UNITS
               PROVE  g[i] \in i..UNITS /\ Reaches(blocks, b, i, g[i])
    OBVIOUS
  <2>1. k <= UNITS /\ i \in 0..UNITS /\ i + 1 >= UNITS - k
    BY <1>0
  <2>2. CASE ~HasNext(blocks, b, i)
    BY <2>1, <2>2, <1>3
  <2>3. CASE HasNext(blocks, b, i)
    <3> DEFINE j == NextEnd(blocks, b, i)
               e == g[i]
    <3>1. j \in i + 1..UNITS /\ IsCommit(blocks, b, i, j) /\ e = g[j]
      BY <2>1, <2>3, <1>2, NextEndIs
    <3>2. j \in UNITS - k..UNITS
      BY <2>1, <3>1, <1>0
    <3> HIDE DEF j
    <3>3. e \in j..UNITS /\ Reaches(blocks, b, j, e)
      BY <3>1, <3>2, <2>1, <1>5
    <3> HIDE DEF e
    <3>4. PICK R : Path(R, blocks, b, j, e)
      BY <3>3 DEF Reaches
    <3>5. i < j /\ i \in i..e /\ j..e \subseteq i..e /\ ~(i \in j..e) /\ e \in i..UNITS
      BY <2>1, <3>1, <3>3, <1>0
    <3>6. Path(R \cup {i}, blocks, b, i, e)
      BY <3>1, <3>4, <3>5 DEF Path
    <3> QED BY <3>5, <3>6 DEF Reaches, e
  <2> QED BY <2>2, <2>3
<1> HIDE DEF S
<1>6. UNITS \in S /\ 0 \in UNITS - UNITS..UNITS /\ UNITS <= UNITS
  BY <1>0, <1>4, <1>5, SetInduction
<1> QED BY <1>1, <1>6 DEF S

\* A scan ends where it passes and no commit follows.
LEMMA ReachEnd ==
  ASSUME NEW blocks, NEW b, NEW e \in 0..UNITS, Reaches(blocks, b, 0, e), ~HasNext(blocks, b, e)
  PROVE  ScanEnd(blocks, b) = e
<1>1. PICK g : ScanFrom(g, blocks, b) /\ ScanEnd(blocks, b) = g[0]
  BY ScanRuns
<1>2. PICK R : Path(R, blocks, b, 0, e)
  BY DEF Reaches
<1>0. UNITS \in Nat /\ e \in Nat /\ e <= UNITS /\ R \subseteq 0..e /\ 0 \in R /\ e \in R
  BY <1>2, PairAssumption DEF Path
<1> DEFINE S == {k \in Nat : \A i \in R : i + k >= e => g[i] = e}
<1>3. ASSUME NEW i \in 0..UNITS
      PROVE  g[i] = IF HasNext(blocks, b, i) THEN g[NextEnd(blocks, b, i)] ELSE i
  BY <1>1 DEF ScanFrom
<1>4. g[e] = e
  BY <1>3
<1>5. 0 \in S
  <2>1. \A i \in R : i + 0 >= e => i = e
    BY <1>0
  <2> QED BY <2>1, <1>4
<1>6. ASSUME NEW k \in Nat, k \in S PROVE k + 1 \in S
  <2> SUFFICES ASSUME NEW i \in R, i + (k + 1) >= e PROVE g[i] = e
    OBVIOUS
  <2>1. CASE i = e
    BY <2>1, <1>4
  <2>2. CASE i # e
    <3> DEFINE j == NextEnd(blocks, b, i)
    <3>1. HasNext(blocks, b, i) /\ j \in R /\ i < j /\ i \in 0..UNITS
      <4>1. 0 \in 0..UNITS /\ e \in 0..UNITS
        BY <1>0
      <4> QED BY <4>1, <1>2, <2>2, PathNext
    <3>2. g[i] = g[j]
      BY <3>1, <1>3
    <3> HIDE DEF j
    <3>3. j + k >= e
      BY <3>1, <1>0
    <3> QED BY <3>1, <3>2, <3>3, <1>6
  <2> QED BY <2>1, <2>2
<1> HIDE DEF S
<1>7. e \in S /\ 0 + e >= e
  BY <1>0, <1>5, <1>6, SetInduction
<1> QED BY <1>0, <1>1, <1>7 DEF S

LEMMA ReachesKept ==
  ASSUME NEW x, NEW y, NEW b, NEW e \in 0..UNITS, Agree(x, y, b, e), Reaches(x, b, 0, e)
  PROVE  Reaches(y, b, 0, e)
<1>1. PICK R : Path(R, x, b, 0, e)
  BY DEF Reaches
<1>2. ASSUME NEW k \in R, k # e PROVE \E j \in R : k < j /\ IsCommit(y, b, k, j)
  <2>1. PICK j \in R : k < j /\ IsCommit(x, b, k, j)
    BY <1>1, <1>2 DEF Path
  <2>2. k \in 0..e /\ j \in k + 1..e
    BY <1>1, <2>1, PairAssumption DEF Path
  <2> QED BY <2>1, <2>2, CommitKept
<1>3. Path(R, y, b, 0, e)
  BY <1>1, <1>2 DEF Path
<1> QED BY <1>3 DEF Reaches

\* One commit more.
LEMMA ReachesOn ==
  ASSUME NEW blocks, NEW b, NEW n \in 0..UNITS, NEW m \in n + 1..UNITS,
         Reaches(blocks, b, 0, n), IsCommit(blocks, b, n, m)
  PROVE  Reaches(blocks, b, 0, m)
<1>1. PICK R : Path(R, blocks, b, 0, n)
  BY DEF Reaches
<1>2. n < m /\ m \in 0..m /\ 0..n \subseteq 0..m /\ 0 \in 0..m
  BY PairAssumption
<1>3. Path(R \cup {m}, blocks, b, 0, m)
  <2>1. R \subseteq 0..n /\ 0 \in R /\ n \in R
    BY <1>1 DEF Path
  <2>2. ASSUME NEW k \in R PROVE \E j \in R \cup {m} : k < j /\ IsCommit(blocks, b, k, j)
    <3>1. CASE k = n
      BY <3>1, <1>2
    <3>2. CASE k # n
      BY <3>2, <1>1 DEF Path
    <3> QED BY <3>1, <3>2
  <2> QED BY <1>2, <2>1, <2>2 DEF Path
<1> QED BY <1>3 DEF Reaches

\* The end of a scan whose last commit is not continued.
LEMMA EndsAt ==
  ASSUME NEW blocks, NEW b, NEW m \in 0..UNITS, Reaches(blocks, b, 0, m),
         m < UNITS => blocks[b].units[m + 1].top # LeftTop(blocks[b].units, m)
  PROVE  ScanEnd(blocks, b) = m
<1>1. ASSUME NEW j \in m + 1..UNITS, IsCommit(blocks, b, m, j) PROVE FALSE
  <2>1. m < UNITS /\ m + 1 \in m + 1..j /\ m + 1 - 1 = m
    BY PairAssumption
  <2>2. blocks[b].units[m + 1].top = LeftTop(blocks[b].units, m)
    BY <1>1, <2>1 DEF IsCommit
  <2> QED BY <2>1, <2>2
<1>2. ~HasNext(blocks, b, m)
  BY <1>1 DEF HasNext
<1> QED BY <1>2, ReachEnd

\* Up to where a scan gets there are tags of entries and ends of commits.
LEMMA ReachAttrs ==
  ASSUME NEW blocks, NEW b, NEW e \in 0..UNITS, Reaches(blocks, b, 0, e), NEW k \in 1..e
  PROVE  IsAttr(blocks[b].units[k]) \/ blocks[b].units[k].tag.type = "crc"
<1>1. PICK R : Path(R, blocks, b, 0, e)
  BY DEF Reaches
<1>0. UNITS \in Nat /\ e \in Nat /\ k \in Nat /\ k > 0 /\ k <= e /\ R \subseteq Nat /\ e \in R
  BY <1>1, PairAssumption DEF Path
<1> DEFINE S == {n \in Nat : \A i \in R : i < k /\ i + n >= k =>
                    \E h \in R : h < k /\ \E l \in R : h < l /\ k <= l /\ IsCommit(blocks, b, h, l)}
<1>3. 0 \in S
  BY <1>0
<1>4. ASSUME NEW n \in Nat, n \in S PROVE n + 1 \in S
  <2> SUFFICES ASSUME NEW i \in R, i < k, i + (n + 1) >= k
               PROVE  \E h \in R : h < k /\ \E l \in R : h < l /\ k <= l /\ IsCommit(blocks, b, h, l)
    OBVIOUS
  <2>1. i # e
    BY <1>0
  <2>2. PICK l \in R : i < l /\ IsCommit(blocks, b, i, l)
    BY <1>1, <2>1 DEF Path
  <2>3. CASE k <= l
    BY <2>2, <2>3
  <2>4. CASE ~(k <= l)
    <3>1. l < k /\ l + n >= k
      BY <1>0, <2>2, <2>4
    <3> QED BY <3>1, <1>4
  <2> QED BY <2>3, <2>4
<1> HIDE DEF S
<1>5. k \in S /\ 0 \in R /\ 0 < k /\ 0 + k >= k
  BY <1>0, <1>1, <1>3, <1>4, SetInduction DEF Path
<1>6. PICK h \in R, l \in R : h < k /\ k <= l /\ IsCommit(blocks, b, h, l)
  BY <1>5 DEF S
<1>7. k = l \/ k \in h + 1..l - 1
  BY <1>0, <1>6
<1> QED BY <1>6, <1>7 DEF IsCommit

\* The log of one unit more.
LEMMA LogStep ==
  ASSUME NEW blocks \in Devices, NEW b \in Block, NEW n \in 1..UNITS
  PROVE  LogOf(blocks, b, n) =
           IF blocks[b].units[n].tag.type = "crc" THEN LogOf(blocks, b, n - 1)
           ELSE Append(LogOf(blocks, b, n - 1), blocks[b].units[n].tag)
<1> DEFINE units == blocks[b].units
           m == n - 1
<1>0. UNITS \in Nat /\ n \in Nat /\ n \in 0..UNITS /\ m \in 0..UNITS /\ m \in Nat /\ n = m + 1
      /\ n > 0
  BY PairAssumption
<1> HIDE DEF m
<1>1. PICK g : LogUpto(g, units, n) /\ LogOf(blocks, b, n) = g[n]
  BY <1>0, LogRuns
<1>2. PICK h : LogUpto(h, units, m) /\ LogOf(blocks, b, m) = h[m]
  BY <1>0, LogRuns
<1> HIDE DEF units
<1> DEFINE Next1(f, i) == CASE i = 0 -> <<>>
                            [] i > 0 /\ units[i].tag.type # "crc" -> Append(f[i - 1], units[i].tag)
                            [] OTHER -> f[i - 1]
<1>3. ASSUME NEW i \in 0..n PROVE g[i] = Next1(g, i)
  BY <1>1, Zenon DEF LogUpto
<1>4. ASSUME NEW i \in 0..m PROVE h[i] = Next1(h, i)
  BY <1>2, Zenon DEF LogUpto
<1>5. ASSUME NEW f, NEW i \in 0..n
      PROVE  Next1(f, i) = IF i = 0 THEN <<>>
                           ELSE IF units[i].tag.type = "crc" THEN f[i - 1]
                           ELSE Append(f[i - 1], units[i].tag)
  <2>1. i = 0 \/ i > 0
    BY <1>0
  <2>2. i > 0 => i # 0
    BY <1>0
  <2> QED BY <2>1, <2>2
<1> HIDE DEF Next1
<1> DEFINE S == {i \in Nat : i <= m => g[i] = h[i]}
<1>6. 0 \in S
  <2>1. 0 \in 0..n /\ 0 \in 0..m
    BY <1>0
  <2> QED BY <2>1, <1>3, <1>4, <1>5
<1>7. ASSUME NEW i \in Nat, i \in S PROVE i + 1 \in S
  <2> SUFFICES ASSUME i + 1 <= m PROVE g[i + 1] = h[i + 1]
    OBVIOUS
  <2>1. i + 1 \in 0..n /\ i + 1 \in 0..m /\ i + 1 # 0 /\ i + 1 - 1 = i /\ i <= m
    BY <1>0
  <2>2. g[i] = h[i]
    BY <1>7, <2>1
  <2> DEFINE j == i + 1
  <2>3. j \in 0..n /\ j \in 0..m /\ j # 0 /\ j - 1 = i
    BY <2>1
  <2> HIDE DEF j
  <2>4. g[j] = IF units[j].tag.type = "crc" THEN g[j - 1] ELSE Append(g[j - 1], units[j].tag)
    BY <2>3, <1>3, <1>5
  <2>5. h[j] = IF units[j].tag.type = "crc" THEN h[j - 1] ELSE Append(h[j - 1], units[j].tag)
    BY <2>3, <1>4, <1>5
  <2>6. g[j] = h[j]
    BY <2>2, <2>3, <2>4, <2>5
  <2> QED BY <2>6 DEF j
<1> HIDE DEF S
<1>8. m \in S
  BY <1>0, <1>6, <1>7, SetInduction
<1>9. g[m] = h[m]
  BY <1>0, <1>8 DEF S
<1>10. n \in 0..n /\ n # 0 /\ n - 1 = m
  BY <1>0
<1>11. g[n] = IF units[n].tag.type = "crc" THEN g[m] ELSE Append(g[m], units[n].tag)
  BY <1>3, <1>5, <1>10
<1> QED BY <1>1, <1>2, <1>9, <1>11 DEF units, m

LEMMA LogStart ==
  ASSUME NEW blocks \in Devices, NEW b \in Block
  PROVE  LogOf(blocks, b, 0) = <<>>
<1>0. 0 \in 0..UNITS /\ 0 \in 0..0
  BY PairAssumption
<1>1. PICK g : LogUpto(g, blocks[b].units, 0) /\ LogOf(blocks, b, 0) = g[0]
  BY <1>0, LogRuns
<1>2. g[0] = CASE 0 = 0 -> <<>>
               [] 0 > 0 /\ blocks[b].units[0].tag.type # "crc" -> Append(g[0 - 1], blocks[b].units[0].tag)
               [] OTHER -> g[0 - 1]
  BY <1>0, <1>1, Zenon DEF LogUpto
<1>3. ~(0 > 0)
  OBVIOUS
<1> QED BY <1>1, <1>2, <1>3, Zenon

LEMMA LogKept ==
  ASSUME NEW x \in Devices, NEW y \in Devices, NEW b \in Block, NEW n \in 0..UNITS, Agree(x, y, b, n)
  PROVE  LogOf(x, b, n) = LogOf(y, b, n)
<1>0. UNITS \in Nat /\ n \in Nat /\ n <= UNITS
  BY PairAssumption
<1> DEFINE S == {i \in Nat : i <= n => LogOf(x, b, i) = LogOf(y, b, i)}
<1>1. 0 \in S
  BY LogStart
<1>2. ASSUME NEW i \in Nat, i \in S PROVE i + 1 \in S
  <2> SUFFICES ASSUME i + 1 <= n PROVE LogOf(x, b, i + 1) = LogOf(y, b, i + 1)
    OBVIOUS
  <2>1. i + 1 \in 1..UNITS /\ i + 1 \in 1..n /\ i + 1 - 1 = i /\ i <= n
    BY <1>0
  <2> DEFINE j == i + 1
  <2>2. x[b].units[j] = y[b].units[j]
    BY <2>1 DEF Agree
  <2>3. LogOf(x, b, i) = LogOf(y, b, i)
    BY <1>2, <2>1
  <2>4. j \in 1..UNITS /\ j - 1 = i
    BY <2>1
  <2> HIDE DEF j
  <2>5. LogOf(x, b, j) = IF x[b].units[j].tag.type = "crc" THEN LogOf(x, b, j - 1)
                         ELSE Append(LogOf(x, b, j - 1), x[b].units[j].tag)
    BY <2>4, LogStep
  <2>6. LogOf(y, b, j) = IF y[b].units[j].tag.type = "crc" THEN LogOf(y, b, j - 1)
                         ELSE Append(LogOf(y, b, j - 1), y[b].units[j].tag)
    BY <2>4, LogStep
  <2>7. LogOf(x, b, j) = LogOf(y, b, j)
    BY <2>2, <2>3, <2>4, <2>5, <2>6
  <2> QED BY <2>7 DEF j
<1> HIDE DEF S
<1>3. n \in S
  BY <1>0, <1>1, <1>2, SetInduction
<1> QED BY <1>0, <1>3 DEF S

\* The log that a scan finds is one of tags of entries.
LEMMA LogAttrs ==
  ASSUME NEW blocks \in Devices, NEW b \in Block, NEW e \in 0..UNITS, Reaches(blocks, b, 0, e)
  PROVE  LogOf(blocks, b, e) \in Seq(AttrTags)
<1>0. UNITS \in Nat /\ e \in Nat /\ e <= UNITS
  BY PairAssumption
<1> DEFINE S == {i \in Nat : i <= e => LogOf(blocks, b, i) \in Seq(AttrTags)}
<1>1. 0 \in S
  <2>1. <<>> \in Seq(AttrTags)
    OBVIOUS
  <2> QED BY <2>1, LogStart
<1>2. ASSUME NEW i \in Nat, i \in S PROVE i + 1 \in S
  <2> SUFFICES ASSUME i + 1 <= e PROVE LogOf(blocks, b, i + 1) \in Seq(AttrTags)
    OBVIOUS
  <2> DEFINE w == blocks[b].units[i + 1]
             l == LogOf(blocks, b, i)
  <2>1. i + 1 \in 1..UNITS /\ i + 1 \in 1..e /\ i + 1 \in Units /\ i + 1 - 1 = i /\ i <= e
    BY <1>0 DEF Units
  <2>2. IsAttr(w) \/ w.tag.type = "crc"
    BY <2>1, ReachAttrs
  <2>3. w.tag \in Tags
    BY <2>1 DEF Devices, UnitWords
  <2>4. l \in Seq(AttrTags)
    BY <1>2, <2>1
  <2>5. LogOf(blocks, b, i + 1) = IF w.tag.type = "crc" THEN l ELSE Append(l, w.tag)
    <3> DEFINE j == i + 1
    <3>1. j \in 1..UNITS /\ j - 1 = i
      BY <2>1
    <3> HIDE DEF j
    <3>2. LogOf(blocks, b, j) = IF blocks[b].units[j].tag.type = "crc" THEN LogOf(blocks, b, j - 1)
                                ELSE Append(LogOf(blocks, b, j - 1), blocks[b].units[j].tag)
      BY <3>1, LogStep
    <3>3. LogOf(blocks, b, j) = IF blocks[b].units[j].tag.type = "crc" THEN LogOf(blocks, b, i)
                                ELSE Append(LogOf(blocks, b, i), blocks[b].units[j].tag)
      BY <3>1, <3>2
    <3> QED BY <3>3 DEF j
  <2> HIDE DEF w, l
  <2>6. CASE w.tag.type = "crc"
    BY <2>4, <2>5, <2>6
  <2>7. CASE w.tag.type # "crc"
    <3>1. w.tag \in AttrTags
      BY <2>2, <2>3, <2>7 DEF IsAttr, AttrTags, AttrTypes
    <3>2. Append(l, w.tag) \in Seq(AttrTags)
      BY <2>4, <3>1, AppendType
    <3> QED BY <2>5, <2>7, <3>2
  <2> QED BY <2>6, <2>7
<1> HIDE DEF S
<1>3. e \in S
  BY <1>0, <1>1, <1>2, SetInduction
<1> QED BY <1>0, <1>3 DEF S

LEMMA AppendNext ==
  ASSUME NEW T, NEW s \in Seq(T), NEW w \in Seq(T), NEW k \in 0..Len(w) - 1
  PROVE  Append(s \o SubSeq(w, 1, k), w[k + 1]) = s \o SubSeq(w, 1, k + 1)
<1> DEFINE l == Append(s \o SubSeq(w, 1, k), w[k + 1])
           r == s \o SubSeq(w, 1, k + 1)
<1>0. k \in Nat /\ k + 1 \in 1..Len(w) /\ Len(w) \in Nat /\ Len(s) \in Nat /\ w[k + 1] \in T
  OBVIOUS
<1>1. /\ SubSeq(w, 1, k) \in Seq(T) /\ Len(SubSeq(w, 1, k)) = k
      /\ \A i \in 1..k : SubSeq(w, 1, k)[i] = w[i]
  BY <1>0
<1>2. /\ SubSeq(w, 1, k + 1) \in Seq(T) /\ Len(SubSeq(w, 1, k + 1)) = k + 1
      /\ \A i \in 1..k + 1 : SubSeq(w, 1, k + 1)[i] = w[i]
  BY <1>0
<1>3. l \in Seq(T) /\ Len(l) = Len(s) + k + 1
  BY <1>0, <1>1
<1>4. r \in Seq(T) /\ Len(r) = Len(s) + k + 1
  BY <1>0, <1>2
<1>5. ASSUME NEW i \in 1..Len(s) + k + 1 PROVE l[i] = r[i]
  <2>1. CASE i <= Len(s)
    BY <2>1, <1>0, <1>1, <1>2
  <2>2. CASE i > Len(s) /\ i <= Len(s) + k
    BY <2>2, <1>0, <1>1, <1>2
  <2>3. CASE i = Len(s) + k + 1
    BY <2>3, <1>0, <1>1, <1>2
  <2>4. i <= Len(s) \/ (i > Len(s) /\ i <= Len(s) + k) \/ i = Len(s) + k + 1
    BY <1>0
  <2> HIDE DEF l, r
  <2> QED BY <2>1, <2>2, <2>3, <2>4
<1> HIDE DEF l, r
<1>6. l = r
  BY <1>3, <1>4, <1>5, SeqEqual
<1> QED BY <1>6 DEF l, r

\* The log after a commit is the log before it and what was written.
LEMMA LogExtends ==
  ASSUME NEW blocks \in Devices, NEW b \in Block, NEW n \in 0..UNITS, NEW words \in Seq(AttrTags),
         n + Len(words) + 1 <= UNITS,
         \A k \in 1..Len(words) : blocks[b].units[n + k].tag = words[k],
         blocks[b].units[n + Len(words) + 1].tag.type = "crc"
  PROVE  LogOf(blocks, b, n + Len(words) + 1) = LogOf(blocks, b, n) \o words
<1> DEFINE l == LogOf(blocks, b, n)
           L == Len(words)
<1>0. UNITS \in Nat /\ n \in Nat /\ L \in Nat /\ n + L + 1 <= UNITS
  BY PairAssumption
<1>1. l \in Seq(LogTags) /\ words \in Seq(LogTags)
  BY LogType, AttrTagsAreLogTags
<1> HIDE DEF l, L
<1> DEFINE S == {k \in Nat : k <= L => LogOf(blocks, b, n + k) = l \o SubSeq(words, 1, k)}
<1>2. 0 \in S
  <2>1. n + 0 = n /\ l \o SubSeq(words, 1, 0) = l
    BY <1>0, <1>1
  <2> QED BY <2>1 DEF l
<1>3. ASSUME NEW k \in Nat, k \in S PROVE k + 1 \in S
  <2> SUFFICES ASSUME k + 1 <= L PROVE LogOf(blocks, b, n + (k + 1)) = l \o SubSeq(words, 1, k + 1)
    <3>1. k + 1 \in Nat
      OBVIOUS
    <3> QED BY <3>1, Zenon
  <2> DEFINE m == n + (k + 1)
  <2>1. m \in 1..UNITS /\ m - 1 = n + k /\ k <= L /\ k + 1 \in 1..L /\ k \in 0..L - 1
    BY <1>0
  <2> HIDE DEF m
  <2>2. blocks[b].units[m].tag = words[k + 1]
    BY <2>1 DEF m, L
  <2>3. words[k + 1].type # "crc"
    <3>1. words[k + 1] \in AttrTags
      BY <2>1 DEF L
    <3> QED BY <3>1 DEF AttrTags, AttrTypes
  <2>4. LogOf(blocks, b, m) = Append(LogOf(blocks, b, n + k), words[k + 1])
    BY <2>1, <2>2, <2>3, LogStep
  <2>5. LogOf(blocks, b, n + k) = l \o SubSeq(words, 1, k)
    BY <1>3, <2>1
  <2>6. Append(l \o SubSeq(words, 1, k), words[k + 1]) = l \o SubSeq(words, 1, k + 1)
    BY <1>1, <2>1, AppendNext DEF L
  <2> QED BY <2>4, <2>5, <2>6 DEF m
<1> HIDE DEF S
<1>4. L \in S
  BY <1>0, <1>2, <1>3, SetInduction
<1>5. LogOf(blocks, b, n + L) = l \o words
  <2>1. SubSeq(words, 1, L) = words
    BY <1>1 DEF L
  <2>2. L <= L
    BY <1>0
  <2>3. LogOf(blocks, b, n + L) = l \o SubSeq(words, 1, L)
    BY <1>4, <2>2, Zenon DEF S
  <2> QED BY <2>1, <2>3
<1>6. n + L + 1 \in 1..UNITS /\ n + L + 1 - 1 = n + L
  BY <1>0
<1> QED BY <1>5, <1>6, LogStep DEF l, L

------------------------------------------------------------------------------
(* Which block of a pair a fetch takes.                                    *)

LEMMA ScanSame ==
  ASSUME NEW x, NEW y, NEW b, x[b] = y[b]
  PROVE  ScanEnd(x, b) = ScanEnd(y, b)
<1> DEFINE e == ScanEnd(x, b)
<1>1. Reaches(x, b, 0, e) /\ e \in 0..UNITS /\ ~HasNext(x, b, e)
  BY ScanReaches, ScanEndStops DEF ScanStops
<1> HIDE DEF e
<1>2. Reaches(y, b, 0, e)
  BY <1>1, ReachesKept DEF Agree
<1>3. \A i, j : IsCommit(x, b, i, j) <=> IsCommit(y, b, i, j)
  BY Zenon DEF IsCommit
<1>4. ~HasNext(y, b, e)
  BY <1>1, <1>3 DEF HasNext
<1> QED BY <1>1, <1>2, <1>4, ReachEnd DEF e

LEMMA OrderIs ==
  ASSUME NEW blocks, NEW pair \in Pairs
  PROVE  /\ FetchOrder(blocks, pair) \in {pair, <<pair[2], pair[1]>>}
         /\ FetchOrder(blocks, pair) \in Pairs
         /\ Pair(FetchOrder(blocks, pair)) = Pair(pair)
BY DEF FetchOrder, Pairs, Pair

LEMMA LeadsIs ==
  ASSUME NEW blocks, NEW pair \in Pairs, NEW p, Leads(blocks, pair, p)
  PROVE  p \in Pairs /\ Pair(p) = Pair(pair)
<1> DEFINE q == FetchOrder(blocks, pair)
<1>1. q \in Pairs /\ Pair(q) = Pair(pair)
  BY OrderIs
<1>2. p = q \/ p = <<q[2], q[1]>>
  BY DEF Leads
<1> HIDE DEF q
<1>3. CASE p = <<q[2], q[1]>>
  BY <1>1, <1>3 DEF Pairs, Pair
<1> QED BY <1>1, <1>2, <1>3

\* A block that is not the leading one decides nothing by what follows its scan.
LEMMA LeadsKept ==
  ASSUME NEW x, NEW y, NEW pair \in Pairs, NEW p, Leads(x, pair, p),
         x[p[2]] = y[p[2]], x[p[1]].rev = y[p[1]].rev
  PROVE  Leads(y, pair, p)
<1> DEFINE q == FetchOrder(x, pair)
<1>1. p \in Pairs /\ Pair(p) = Pair(pair)
  BY LeadsIs
<1>2. x[pair[1]].rev = y[pair[1]].rev /\ x[pair[2]].rev = y[pair[2]].rev
  <2>1. pair[1] \in {p[1], p[2]} /\ pair[2] \in {p[1], p[2]}
    BY <1>1 DEF Pair
  <2> QED BY <2>1
<1>3. FetchOrder(y, pair) = q
  BY <1>2 DEF FetchOrder
<1>4. p = q \/ (p = <<q[2], q[1]>> /\ ScanEnd(x, q[1]) = 0)
  BY DEF Leads
<1> HIDE DEF q
<1>5. CASE p = <<q[2], q[1]>> /\ ScanEnd(x, q[1]) = 0
  <2>1. p[2] = q[1]
    BY <1>5
  <2>2. ScanEnd(y, q[1]) = 0
    BY <1>5, <2>1, ScanSame
  <2> QED BY <1>3, <1>5, <2>2 DEF Leads
<1>6. CASE p = q
  BY <1>3, <1>6 DEF Leads
<1> QED BY <1>4, <1>5, <1>6

LEMMA ScmpNext ==
  ASSUME NEW r \in 0..REVS - 1, NEW s, s = (r + 1) % REVS
  PROVE  s \in 0..REVS - 1 /\ Scmp(s, r) = 1 /\ Scmp(r, s) = -1
<1>0. REVS \in Nat /\ REVS >= 4 /\ REVS \div 2 \in Nat /\ 1 < REVS \div 2 /\ REVS \div 2 <= REVS - 1
  BY PairAssumption
<1>1. s = IF r = REVS - 1 THEN 0 ELSE r + 1
  BY <1>0
<1>2. (s - r + REVS) % REVS = 1
  <2>1. CASE r = REVS - 1
    <3>1. s - r + REVS = 1
      BY <1>0, <1>1, <2>1
    <3> QED BY <1>0, <3>1
  <2>2. CASE r # REVS - 1
    <3>1. s - r + REVS = REVS + 1
      BY <1>0, <1>1, <2>2
    <3>2. (REVS + 1) % REVS = 1
      BY <1>0
    <3> QED BY <3>1, <3>2
  <2> QED BY <2>1, <2>2
<1>3. (r - s + REVS) % REVS = REVS - 1
  <2>1. CASE r = REVS - 1
    <3>1. r - s + REVS = REVS + (REVS - 1)
      BY <1>0, <1>1, <2>1
    <3>2. (REVS + (REVS - 1)) % REVS = REVS - 1
      BY <1>0
    <3> QED BY <3>1, <3>2
  <2>2. CASE r # REVS - 1
    <3>1. r - s + REVS = REVS - 1
      BY <1>0, <1>1, <2>2
    <3>2. (REVS - 1) % REVS = REVS - 1
      BY <1>0
    <3> QED BY <3>1, <3>2
  <2> QED BY <2>1, <2>2
<1>4. ~(REVS - 1 < REVS \div 2)
  BY <1>0
<1> QED BY <1>0, <1>1, <1>2, <1>3, <1>4 DEF Scmp

\* The block with the revision after the other's leads.
LEMMA NewerLeads ==
  ASSUME NEW blocks \in Devices, NEW pair \in Pairs, NEW p \in Pairs, Pair(p) = Pair(pair),
         blocks[p[1]].rev = (blocks[p[2]].rev + 1) % REVS
  PROVE  Leads(blocks, pair, p)
<1> DEFINE r == blocks[p[2]].rev
           s == blocks[p[1]].rev
<1>1. r \in 0..REVS - 1
  BY DEF Pairs, Devices
<1>2. Scmp(s, r) = 1 /\ Scmp(r, s) = -1
  BY <1>1, ScmpNext
<1>3. /\ p = <<p[1], p[2]>> /\ pair = <<pair[1], pair[2]>> /\ p[1] # p[2]
      /\ (pair[1] = p[1] /\ pair[2] = p[2]) \/ (pair[1] = p[2] /\ pair[2] = p[1])
  BY DEF Pairs, Pair
<1> HIDE DEF r, s
<1>4. CASE pair[1] = p[1] /\ pair[2] = p[2]
  <2>1. ~(Scmp(r, s) > 0)
    BY <1>2
  <2>2. FetchOrder(blocks, pair) = pair
    BY <1>4, <2>1 DEF FetchOrder, r, s
  <2> QED BY <1>3, <1>4, <2>2 DEF Leads
<1>5. CASE pair[1] = p[2] /\ pair[2] = p[1]
  <2>1. Scmp(s, r) > 0
    BY <1>2
  <2>2. FetchOrder(blocks, pair) = <<pair[2], pair[1]>>
    BY <1>5, <2>1 DEF FetchOrder, r, s
  <2> QED BY <1>3, <1>5, <2>2 DEF Leads
<1> QED BY <1>3, <1>4, <1>5

LEMMA FetchAt ==
  ASSUME NEW blocks \in Devices, NEW pair \in Pairs, NEW p, Leads(blocks, pair, p),
         NEW n, n = ScanEnd(blocks, p[1]), n > 0
  PROVE  Fetch(blocks, pair) = DirAt(blocks, p)[n]
<1> DEFINE q == FetchOrder(blocks, pair)
<1>1. p = q \/ (p = <<q[2], q[1]>> /\ ScanEnd(blocks, q[1]) = 0)
  BY DEF Leads
<1>2. CASE p = q
  <2>1. ScanEnd(blocks, q[1]) > 0 /\ ~(ScanEnd(blocks, q[1]) = 0 /\ ScanEnd(blocks, q[2]) > 0)
    BY <1>2
  <2> QED BY <1>2, <2>1, Zenon DEF Fetch
<1>3. CASE p = <<q[2], q[1]>> /\ ScanEnd(blocks, q[1]) = 0
  <2>1. ~(ScanEnd(blocks, q[1]) > 0) /\ p[1] = q[2]
    BY <1>3
  <2>2. ScanEnd(blocks, q[1]) = 0 /\ ScanEnd(blocks, q[2]) > 0
    BY <1>3, <2>1
  <2>3. Fetch(blocks, pair) = DirAt(blocks, <<q[2], q[1]>>)[ScanEnd(blocks, q[2])]
    BY <2>1, <2>2, Zenon DEF Fetch
  <2> HIDE DEF q
  <2> QED BY <1>3, <2>1, <2>3
<1> QED BY <1>1, <1>2, <1>3

\* d is what the fetch f finds, up to what it may not know of erased units.
Tells(d, f) == d = [f EXCEPT !.erased = d.erased] /\ (d.erased => f.erased \/ d.off = UNITS)

LEMMA TellsItself ==
  ASSUME NEW d \in Dirs
  PROVE  Tells(d, d)
BY DEF Tells, Dirs

LEMMA FetchTells ==
  ASSUME NEW blocks \in Devices, NEW pair \in Pairs, NEW d \in Dirs, Leads(blocks, pair, d.pair),
         ScanEnd(blocks, d.pair[1]) = d.off, d.off > 0, d.rev = blocks[d.pair[1]].rev,
         d.top = LeftTop(blocks[d.pair[1]].units, d.off),
         d.log = LogOf(blocks, d.pair[1], d.off),
         d.erased => SeemsErased(blocks, d.pair[1], d.off) \/ d.off = UNITS
  PROVE  Tells(d, Fetch(blocks, pair))
<1> DEFINE f == Fetch(blocks, pair)
<1>1. f = DirAt(blocks, d.pair)[d.off]
  BY FetchAt
<1>2. d.pair \in Pairs /\ d.off \in 0..UNITS
  BY LeadsIs DEF Dirs
<1>3. f \in Dirs /\ f.pair = d.pair /\ f.rev = d.rev /\ f.off = d.off /\ f.top = d.top
      /\ f.log = d.log /\ f.erased = SeemsErased(blocks, d.pair[1], d.off)
  BY <1>1, <1>2, DirAtIs
<1> HIDE DEF f
<1> DEFINE e == d.erased
           s == SeemsErased(blocks, d.pair[1], d.off)
<1>4. e => f.erased \/ d.off = UNITS
  BY <1>3
<1> HIDE DEF e
<1>5. d = [f EXCEPT !.erased = e]
  BY <1>3 DEF Dirs, e
<1> QED BY <1>4, <1>5 DEF Tells, f, e

\* What a mount and a fetch would find, in terms of the device.
LEMMA FoundBase ==
  ASSUME TypeInv, Mountable
  PROVE  /\ found \in Dirs /\ found.off > 0 /\ Leads(dev, parent, found.pair)
         /\ found.rev = dev[found.pair[1]].rev
         /\ found.log = LogOf(dev, found.pair[1], found.off)
         /\ Reaches(dev, found.pair[1], 0, found.off) /\ found.log \in Seq(AttrTags)
<1>0. dev \in Devices /\ parent \in Pairs
  BY DEF TypeInv
<1>1. PICK p \in Pairs :
           /\ found.pair = p /\ found \in Dirs /\ found.off > 0
           /\ found.off = ScanEnd(dev, p[1]) /\ found = DirAt(dev, p)[found.off]
           /\ Leads(dev, parent, p)
  BY <1>0, FetchIs DEF Mountable
<1> DEFINE n == found.off
<1>2. n \in 0..UNITS /\ p[1] \in Block
  BY <1>1 DEF Dirs, Pairs
<1>3. Reaches(dev, p[1], 0, n)
  BY <1>1, ScanReaches
<1>4. found.rev = dev[p[1]].rev /\ found.log = LogOf(dev, p[1], n)
  <2> HIDE DEF n
  <2> QED BY <1>0, <1>1, <1>2, DirAtIs DEF n
<1>5. LogOf(dev, p[1], n) \in Seq(AttrTags)
  BY <1>0, <1>2, <1>3, LogAttrs
<1> QED BY <1>1, <1>3, <1>4, <1>5

\* A commit is given what the fetch of its pair found, with the revision that
\* it writes, and it stays on the pair unless half of it moves.
Given ==
  op.pc \in {"compact", "relocate", "erase", "rev", "write", "verify"} =>
    /\ op.dir.log \in Seq(AttrTags)
    /\ op.attrs \in Seq(GivenTags) /\ op.words \in Seq(AttrTags)
    /\ ~op.relocated => Pair(op.dir.pair) = Pair(parent)
    /\ op.dir.rev = IF op.mode = "compact" THEN (dev[op.dir.pair[1]].rev + 1) % REVS
                    ELSE dev[op.dir.pair[1]].rev
    /\ op.pc = "compact" => op.mode # "compact" /\ ~op.relocated
    /\ op.pc = "relocate" => op.relocated

\* An append goes on where a fetch of the pair would end.
Follows(blocks) ==
  /\ Leads(blocks, parent, op.dir.pair)
  /\ op.dir.log = LogOf(blocks, op.dir.pair[1], op.dir.off)
  /\ Reaches(blocks, op.dir.pair[1], 0, op.dir.off)

Continues ==
  op.pc \in {"write", "verify"} /\ op.mode = "append" => op.dir.off > 0 /\ Follows(dev)

\* The checksum has seen the tags that were to be written, one unit for each.
Start == IF op.mode = "append" THEN op.dir.off ELSE 0
Ahead == IF op.mode = "compact" THEN 1 ELSE 0

Intent ==
  op.pc \in {"write", "verify"} =>
    /\ op.off = Start + Written + (IF op.pc = "verify" THEN 1 ELSE 0)
    /\ Written \in 0..Len(op.words)
    /\ op.pc = "verify" => Written = Len(op.words)
    /\ op.mode = "compact" => op.covers[1] = <<1, Tag("rev", op.dir.rev, 0)>>
    /\ \A k \in 1..Written : op.covers[Ahead + k][2] = op.words[k]

\* The crc of a commit makes the unit behind it invalid and describes it.
Ends(units, n, top) ==
  /\ Chained(units, n) /\ units[n].tag.type = "crc" /\ units[n].tag.id = top
  /\ n < UNITS => units[n + 1].top # top /\ units[n].fcrc = Digest(units[n + 1])

Closes ==
  op.pc = "verify" /\ bad[op.block] # "noop" => Ends(dev[op.block].units, op.off, op.top)

\* The copy of an open file after a commit and after a mount.
Settled ==
  /\ op.pc = "idle" /\ op.result # "nospc" /\ bad[dir.pair[1]] # "noop" => Tells(dir, found)
  /\ op.pc = "parent" =>
       dir = op.dir /\ (bad[dir.pair[1]] # "noop" => Tells(dir, Fetch(dev, dir.pair)))
  /\ op.pc = "done" /\ bad[dir.pair[1]] # "noop" => Tells(dir, found)

Tracks == Given /\ Continues /\ Intent /\ Closes /\ Settled

\* A commit that ends.
LEMMA ReturnTracks ==
  ASSUME NEW r \in {"none", "ok", "nospc", "lost"}, Return(r),
         r # "nospc" /\ bad'[dir'.pair[1]] # "noop" => Tells(dir', found')
  PROVE  Tracks'
<1>1. op' = [Idle EXCEPT !.result = r]
  BY DEF Return
<1>2. op'.pc = "idle" /\ op'.result = r
  BY <1>1, IdleIs DEF Ops
<1>3. Given' /\ Continues' /\ Intent' /\ Closes'
  BY <1>2 DEF Given, Continues, Intent, Closes
<1>4. Settled'
  BY <1>2 DEF Settled, Tells
<1> QED BY <1>3, <1>4 DEF Tracks

\* Steps that leave the commit's plan as it is.
LEMMA GivenKept ==
  ASSUME Given, op.pc \in {"compact", "relocate", "erase", "rev", "write", "verify"},
         op'.dir = op.dir, op'.attrs = op.attrs, op'.words = op.words, op'.mode = op.mode,
         op'.relocated \in BOOLEAN, op.relocated => op'.relocated, op.relocated \in BOOLEAN,
         op'.pc = "compact" => op.mode # "compact" /\ ~op'.relocated,
         op'.pc = "relocate" => op'.relocated,
         parent' = parent, dev'[op.dir.pair[1]].rev = dev[op.dir.pair[1]].rev
  PROVE  Given'
BY DEF Given

LEMMA NotWriting ==
  ASSUME op'.pc \in {"compact", "relocate", "erase", "rev"}
  PROVE  Continues' /\ Intent' /\ Closes' /\ Settled'
BY DEF Continues, Intent, Closes, Settled

LEMMA CorruptTracks ==
  ASSUME IInv, Tracks, op.pc \in {"erase", "rev", "write", "verify"}, op' = Corrupt,
         UNCHANGED <<device, parent>>
  PROVE  Tracks'
<1> DEFINE T == op.target
<1> HIDE DEF T
<1>0. /\ op \in Ops(T) /\ dev' = dev /\ parent' = parent /\ Given
      /\ op.mode = "append" => ~op.relocated
  BY DEF IInv, TypeInv, KeepsOld, T, Tracks, device
<1>1. CASE op.mode = "append"
  <2>1. op' = [op EXCEPT !.pc = "compact"]
    BY <1>1 DEF Corrupt
  <2>2. /\ op'.pc = "compact" /\ op'.dir = op.dir /\ op'.attrs = op.attrs /\ op'.words = op.words
        /\ op'.mode = op.mode /\ op'.relocated = op.relocated /\ op.relocated \in BOOLEAN
    BY <1>0, <2>1 DEF Ops
  <2>3. Given'
    BY <1>0, <1>1, <2>2, GivenKept
  <2> QED BY <2>2, <2>3, NotWriting DEF Tracks
<1>2. CASE op.mode # "append"
  <2>1. op' = [op EXCEPT !.pc = "relocate", !.relocated = TRUE]
    BY <1>2 DEF Corrupt
  <2>2. /\ op'.pc = "relocate" /\ op'.dir = op.dir /\ op'.attrs = op.attrs /\ op'.words = op.words
        /\ op'.mode = op.mode /\ op'.relocated = TRUE /\ op.relocated \in BOOLEAN
    BY <1>0, <2>1 DEF Ops
  <2>3. Given'
    BY <1>0, <1>2, <2>2, GivenKept
  <2> QED BY <2>2, <2>3, NotWriting DEF Tracks
<1> QED BY <1>1, <1>2

\* A commit begins.
LEMMA BeginTracks ==
  ASSUME TypeInv, Mountable, NEW d \in Dirs, NEW attrs \in Seq(GivenTags), Begin(d, attrs), Tells(d, found)
  PROVE  Tracks'
<1> DEFINE words == Expand(d.log, attrs)
           goal == Replay(d.log \o words)
           new == [Idle EXCEPT !.dir = d, !.attrs = attrs, !.target = goal]
           app == [new EXCEPT !.pc = "write", !.mode = "append", !.words = words,
                              !.block = d.pair[1], !.off = d.off, !.top = d.top]
           com == [new EXCEPT !.pc = "compact"]
<1>1. op' = IF d.erased THEN app ELSE com
  BY DEF Begin
<1>2. dev' = dev /\ parent' = parent
  BY DEF Begin, device
<1>3. /\ found \in Dirs /\ found.off > 0 /\ Leads(dev, parent, found.pair)
      /\ found.rev = dev[found.pair[1]].rev
      /\ found.log = LogOf(dev, found.pair[1], found.off)
      /\ Reaches(dev, found.pair[1], 0, found.off) /\ found.log \in Seq(AttrTags)
  BY FoundBase
<1>4. d.pair = found.pair /\ d.off = found.off /\ d.log = found.log /\ d.rev = found.rev
  <2> DEFINE e == d.erased
  <2> HIDE DEF e
  <2>1. d = [found EXCEPT !.erased = e]
    BY DEF Tells, e
  <2> QED BY <2>1, <1>3 DEF Dirs
<1>5. d.log \in Seq(Tags)
  BY LogTagsAreTags DEF Dirs
<1>6. words \in Seq(AttrTags)
  BY <1>5, ExpandAttrs
<1>7. Pair(d.pair) = Pair(parent)
  BY <1>3, <1>4, LeadsIs DEF TypeInv
<1>8. <<>> \in Seq(AttrTags)
  OBVIOUS
<1> HIDE DEF words, goal
<1>9. /\ new.dir = d /\ new.attrs = attrs /\ new.words = <<>> /\ new.covers = <<>>
      /\ new.mode = "none" /\ new.relocated = FALSE
  BY IdleIs DEF Ops
<1>10. CASE d.erased
  <2>1. op' = app
    BY <1>1, <1>10
  <2>2. /\ op'.pc = "write" /\ op'.mode = "append" /\ op'.dir = d /\ op'.attrs = attrs
        /\ op'.off = d.off /\ op'.words = words /\ op'.covers = <<>> /\ op'.relocated = FALSE
    BY <2>1, IdleIs DEF Ops
  <2> HIDE DEF app, new
  <2>3. Given'
    BY <1>2, <1>3, <1>4, <1>6, <1>7, <2>2 DEF Given
  <2>4. Continues'
    BY <1>2, <1>3, <1>4, <2>2 DEF Continues, Follows
  <2>5. Intent'
    <3>1. Written' = 0 /\ Start' = d.off /\ d.off \in Nat /\ Len(words) \in Nat
      BY <1>6, <2>2, PairAssumption DEF Written, Start, Dirs
    <3> QED BY <2>2, <3>1 DEF Intent
  <2>6. Closes' /\ Settled'
    BY <2>2 DEF Closes, Settled
  <2> QED BY <2>3, <2>4, <2>5, <2>6 DEF Tracks
<1>11. CASE ~d.erased
  <2>1. op' = com
    BY <1>1, <1>11
  <2>2. /\ op'.pc = "compact" /\ op'.mode = "none" /\ op'.dir = d /\ op'.attrs = attrs
        /\ op'.words = <<>> /\ op'.relocated = FALSE
    BY <2>1, IdleIs DEF Ops
  <2> HIDE DEF com, new
  <2>3. Given'
    BY <1>2, <1>3, <1>4, <1>7, <1>8, <2>2 DEF Given
  <2> QED BY <2>2, <2>3, NotWriting DEF Tracks
<1> QED BY <1>10, <1>11

LEMMA GivenTagIs ==
  ASSUME NEW type \in {"create", "delete", "name", "struct", "move"}, NEW id \in Int, NEW val \in Int
  PROVE  Tag(type, id, val) \in GivenTags
BY DEF Tag, GivenTags, AttrTypes, Tags, TagTypes

LEMMA BeginFoundTracks ==
  ASSUME IInv, NEW attrs \in Seq(GivenTags), Begin(found, attrs)
  PROVE  Tracks'
BY FoundIs, TellsItself, BeginTracks DEF IInv

LEMMA CreateTracks == IInv /\ Create => Tracks'
<1> SUFFICES ASSUME IInv, NEW n \in Name,
                    Begin(found, <<Tag("create", Find(found.log, n).id, 0),
                                   Tag("name", Find(found.log, n).id, n),
                                   Tag("struct", Find(found.log, n).id, EMPTY)>>)
             PROVE  Tracks'
  BY DEF Create
<1> DEFINE id == Find(found.log, n).id
           attrs == <<Tag("create", id, 0), Tag("name", id, n), Tag("struct", id, EMPTY)>>
<1>1. id \in Int /\ n \in Int
  BY FoundLookup, NumbersAre
<1> HIDE DEF id
<1>2. attrs \in Seq(GivenTags)
  BY <1>1, NumbersAre, GivenTagIs
<1> HIDE DEF attrs
<1> QED BY <1>2, BeginFoundTracks DEF attrs, id

LEMMA RemoveTracks == IInv /\ Remove => Tracks'
<1> SUFFICES ASSUME IInv, NEW n \in Name,
                    Begin(found, <<Tag("delete", Find(found.log, n).id, 0)>>)
             PROVE  Tracks'
  BY DEF Remove
<1> DEFINE attrs == <<Tag("delete", Find(found.log, n).id, 0)>>
<1>1. attrs \in Seq(GivenTags)
  BY FoundLookup, NumbersAre, GivenTagIs
<1> HIDE DEF attrs
<1> QED BY <1>1, BeginFoundTracks DEF attrs

LEMMA RenameTracks == IInv /\ Rename => Tracks'
<1> SUFFICES ASSUME IInv, Rename PROVE Tracks'
  OBVIOUS
<1>1. PICK n \in Name, m \in Name :
        LET old == Find(found.log, n)
            new == Find(found.log, m)
            newold == IF ~new.found /\ new.id <= old.id THEN old.id + 1 ELSE old.id
            replaced == IF new.found THEN <<Tag("delete", new.id, 0)>> ELSE <<>>
        IN  Begin(found, replaced \o <<Tag("create", new.id, 0), Tag("name", new.id, m),
                                        Tag("move", new.id, old.id), Tag("delete", newold, 0)>>)
  BY Zenon DEF Rename
<1> DEFINE old == Find(found.log, n)
           new == Find(found.log, m)
           newold == IF ~new.found /\ new.id <= old.id THEN old.id + 1 ELSE old.id
           replaced == IF new.found THEN <<Tag("delete", new.id, 0)>> ELSE <<>>
           moved == <<Tag("create", new.id, 0), Tag("name", new.id, m),
                      Tag("move", new.id, old.id), Tag("delete", newold, 0)>>
<1>2. old.id \in Int /\ new.id \in Int /\ m \in Int
  BY FoundLookup, NumbersAre
<1> HIDE DEF old, new
<1>3. newold \in Int
  BY <1>2
<1> HIDE DEF newold
<1>4. replaced \in Seq(GivenTags)
  BY <1>2, NumbersAre, GivenTagIs
<1>5. moved \in Seq(GivenTags)
  BY <1>2, <1>3, NumbersAre, GivenTagIs
<1> HIDE DEF replaced, moved
<1>6. replaced \o moved \in Seq(GivenTags)
  BY <1>4, <1>5, ConcatType, Zenon
<1>7. Begin(found, replaced \o moved)
  BY <1>1 DEF replaced, moved, newold, old, new
<1> QED BY <1>6, <1>7, BeginFoundTracks

LEMMA SyncTracks == ~StaleSyncs /\ IInv /\ Sync => Tracks'
<1> SUFFICES ASSUME ~StaleSyncs, IInv, Sync PROVE Tracks'
  OBVIOUS
<1>1. Tells(dir, found)
  BY Zenon DEF Sync, Current, Tells
<1>2. PICK id \in 0..Count(dir.log) - 1, c \in Content : Begin(dir, <<Tag("struct", id, c)>>)
  BY Zenon DEF Sync
<1>3. id \in Int /\ c \in Int /\ dir \in Dirs
  <2>1. dir \in Dirs /\ dir.log \in Seq(Tags)
    BY LogTagsAreTags DEF IInv, TypeInv, Dirs
  <2> QED BY <2>1, CountType, NumbersAre
<1> DEFINE attrs == <<Tag("struct", id, c)>>
<1>4. attrs \in Seq(GivenTags) /\ Begin(dir, attrs)
  BY <1>2, <1>3, GivenTagIs
<1> HIDE DEF attrs
<1> QED BY <1>1, <1>3, <1>4, BeginTracks DEF IInv

LEMMA StartCompactTracks == IInv /\ Tracks /\ StartCompact => Tracks'
<1> SUFFICES ASSUME IInv, Tracks, StartCompact PROVE Tracks'
  OBVIOUS
<1> DEFINE T == op.target
           rev == (op.dir.rev + 1) % REVS
           tired == CYCLES > 0 /\ rev % CYCLES = 0
           words == Compacted(op.dir.log, op.attrs, 0, Count(op.dir.log \o op.attrs))
           next == IF tired THEN "relocate" ELSE "erase"
           d == [op.dir EXCEPT !.rev = rev]
           moded == [op EXCEPT !.mode = "compact", !.tired = tired, !.relocated = tired]
<1> HIDE DEF T
<1>0. op \in Ops(T) /\ op.dir \in Dirs /\ op.pc = "compact" /\ dev' = dev /\ parent' = parent
  BY DEF IInv, TypeInv, T, StartCompact, device
<1>1. op' = [moded EXCEPT !.dir = d, !.words = words, !.pc = next]
  <2>1. op' = [op EXCEPT !.mode = "compact", !.tired = tired, !.relocated = tired,
                         !.dir.rev = rev, !.words = words, !.pc = next]
    BY Zenon DEF StartCompact
  <2> HIDE DEF tired, words, next, rev
  <2> QED BY <2>1, <1>0, Zenon DEF d
<1>2. /\ op.dir.log \in Seq(AttrTags) /\ op.attrs \in Seq(GivenTags)
      /\ ~op.relocated => Pair(op.dir.pair) = Pair(parent)
      /\ op.dir.rev = dev[op.dir.pair[1]].rev
  BY <1>0 DEF Tracks, Given
<1>3. words \in Seq(AttrTags)
  <2>1. op.dir.log \in Seq(LogTags) /\ op.attrs \in Seq(LogTags)
    BY <1>0 DEF Ops, Dirs
  <2>2. op.dir.log \o op.attrs \in Seq(Tags)
    BY <2>1, ConcatType, LogTagsAreTags
  <2>3. Count(op.dir.log \o op.attrs) \in Int
    BY <2>2, CountType, Zenon
  <2>4. 0 \in Int
    OBVIOUS
  <2> QED BY <1>2, <2>3, <2>4, CompactedAttrs, Zenon
<1>4. tired \in BOOLEAN /\ next = IF tired THEN "relocate" ELSE "erase"
  BY Zenon
<1>5. ~op.relocated
  BY <1>0 DEF Tracks, Given
<1>6. rev = (dev[op.dir.pair[1]].rev + 1) % REVS
  BY <1>2
<1> HIDE DEF words, tired, next, rev
<1>7. d.pair = op.dir.pair /\ d.rev = rev /\ d.log = op.dir.log
  BY <1>0 DEF Dirs
<1> HIDE DEF d
<1>8. moded.attrs = op.attrs /\ moded.mode = "compact" /\ moded.relocated = tired
  BY <1>0 DEF Ops
<1>9. /\ op'.pc = next /\ op'.dir = d /\ op'.words = words /\ op'.attrs = op.attrs
      /\ op'.mode = "compact" /\ op'.relocated = tired
  BY <1>0, <1>1, <1>8 DEF Ops
<1>10. Given'
  BY <1>0, <1>2, <1>3, <1>4, <1>5, <1>6, <1>7, <1>9 DEF Given
<1> QED BY <1>4, <1>9, <1>10, NotWriting DEF Tracks

LEMMA RelocateTracks == IInv /\ Tracks /\ Relocate => Tracks'
<1> SUFFICES ASSUME IInv, Tracks, Relocate PROVE Tracks'
  OBVIOUS
<1> DEFINE T == op.target
<1> HIDE DEF T
<1>1. op.pc = "relocate" /\ UNCHANGED <<device, bad, erasing, parent, dir, commits, losses>>
  BY Zenon DEF Relocate
<1>0. /\ op \in Ops(T) /\ op.dir \in Dirs /\ op.relocated /\ dev' = dev /\ parent' = parent
      /\ Given /\ op.relocated \in BOOLEAN
  BY <1>1 DEF IInv, TypeInv, T, Tracks, Given, Ops, device
<1>2. ASSUME op'.pc = "erase", op'.attrs = op.attrs, op'.words = op.words,
             op'.mode = op.mode, op'.relocated = op.relocated, op'.dir.log = op.dir.log,
             op'.dir.rev = op.dir.rev, op'.dir.pair[1] = op.dir.pair[1]
      PROVE  Tracks'
  <2>1. Given'
    BY <1>0, <1>1, <1>2 DEF Given
  <2> QED BY <1>2, <2>1, NotWriting DEF Tracks
<1>3. ASSUME NEW b \in Free,
             op' = [op EXCEPT !.pc = "erase", !.tired = FALSE, !.dir.pair[2] = b,
                              !.tried = @ \cup {b}]
      PROVE  Tracks'
  <2> DEFINE p == [op.dir.pair EXCEPT ![2] = b]
             d == [op.dir EXCEPT !.pair = p]
             t == op.tried \cup {b}
  <2>1. p[1] = op.dir.pair[1]
    BY <1>0 DEF Dirs
  <2> HIDE DEF p
  <2>2. d.pair = p /\ d.log = op.dir.log /\ d.rev = op.dir.rev
    BY <1>0 DEF Dirs
  <2>3. op' = [op EXCEPT !.pc = "erase", !.tired = FALSE, !.dir = d, !.tried = t]
    BY <1>3, Zenon DEF p
  <2> HIDE DEF d, t
  <2>4. /\ op'.pc = "erase" /\ op'.attrs = op.attrs /\ op'.words = op.words /\ op'.dir = d
        /\ op'.mode = op.mode /\ op'.relocated = op.relocated
    BY <1>0, <2>3 DEF Ops
  <2> QED BY <1>2, <2>1, <2>2, <2>4
<1>4. ASSUME op' = [op EXCEPT !.pc = "erase", !.tired = FALSE] PROVE Tracks'
  <2>1. /\ op'.pc = "erase" /\ op'.attrs = op.attrs /\ op'.words = op.words /\ op'.dir = op.dir
        /\ op'.mode = op.mode /\ op'.relocated = op.relocated
    BY <1>0, <1>4 DEF Ops
  <2> QED BY <1>2, <2>1
<1>5. ASSUME Return("nospc") PROVE Tracks'
  BY <1>5, ReturnTracks
<1> QED BY <1>3, <1>4, <1>5, Zenon DEF Relocate

LEMMA EraseTracks == IInv /\ Tracks /\ Erase => Tracks'
<1> SUFFICES ASSUME IInv, Tracks, Erase PROVE Tracks'
  OBVIOUS
<1> DEFINE T == op.target
           b == op.dir.pair[2]
<1> HIDE DEF T
<1>1. op.pc = "erase" /\ UNCHANGED <<bad, erasing, parent, dir, commits, losses>>
  BY Zenon DEF Erase
<1>0. op \in Ops(T) /\ op.dir \in Dirs /\ op.relocated \in BOOLEAN /\ Given
  BY <1>1 DEF IInv, TypeInv, T, Tracks, Ops
<1>2. CASE Refuses(b)
  <2>1. op' = Corrupt /\ UNCHANGED device
    BY <1>2, Zenon DEF Erase
  <2> QED BY <1>1, <2>1, CorruptTracks
<1>3. CASE ~Refuses(b)
  <2>1. EraseBlock(b) /\ op' = [op EXCEPT !.pc = "rev", !.block = b, !.off = 0, !.top = 1]
    BY <1>3, Zenon DEF Erase
  <2>2. b \in Block /\ op.dir.pair[1] \in Block \ {b}
    BY <1>0 DEF Dirs
  <2>3. dev'[op.dir.pair[1]] = dev[op.dir.pair[1]]
    <3> HIDE DEF b
    <3>1. \A c \in Block \ {b} : dev'[c] = dev[c]
      BY <1>1, <2>1, <2>2, EraseBlockIs DEF IInv
    <3> QED BY <2>2, <3>1
  <2>4. /\ op'.pc = "rev" /\ op'.attrs = op.attrs /\ op'.words = op.words /\ op'.dir = op.dir
        /\ op'.mode = op.mode /\ op'.relocated = op.relocated
    <3> HIDE DEF b
    <3> QED BY <1>0, <2>1 DEF Ops
  <2>5. Given'
    BY <1>0, <1>1, <2>3, <2>4, GivenKept
  <2> QED BY <2>4, <2>5, NotWriting DEF Tracks
<1> QED BY <1>2, <1>3

LEMMA ProgRevTracks == IInv /\ Tracks /\ ProgRev => Tracks'
<1> SUFFICES ASSUME IInv, Tracks, ProgRev PROVE Tracks'
  OBVIOUS
<1> DEFINE T == op.target
           h == Header(op.dir.rev, 0)
<1> HIDE DEF T
<1>1. op.pc = "rev" /\ UNCHANGED <<bad, erasing, parent, dir, commits, losses>>
  BY Zenon DEF ProgRev
<1>0. /\ op \in Ops(T) /\ op.dir \in Dirs /\ op.relocated \in BOOLEAN /\ Given
      /\ op.mode = "compact" /\ op.block = op.dir.pair[2] /\ op.off = 0 /\ dev \in Devices
      /\ op.words \in Seq(AttrTags)
  BY <1>1 DEF IInv, TypeInv, T, Tracks, Ops, KeepsOld, Half, Fits, Given
<1>2. CASE Refuses(op.block)
  <2>1. op' = Corrupt /\ UNCHANGED device
    BY <1>2, Zenon DEF ProgRev
  <2> QED BY <1>1, <2>1, CorruptTracks
<1>3. CASE ~Refuses(op.block)
  <2>1. /\ op' = [op EXCEPT !.pc = "write", !.covers = h]
        /\ IF bad[op.block] = "noop" THEN UNCHANGED device
           ELSE ProgRevision(op.block, op.dir.rev)
    BY <1>3, Zenon DEF ProgRev
  <2>2. Len(h) = 1 /\ h[1] = <<1, Tag("rev", op.dir.rev, 0)>>
    BY DEF Header
  <2> HIDE DEF h
  <2>3. /\ op'.pc = "write" /\ op'.attrs = op.attrs /\ op'.words = op.words /\ op'.dir = op.dir
        /\ op'.mode = op.mode /\ op'.relocated = op.relocated /\ op'.off = 0 /\ op'.covers = h
    BY <1>0, <2>1 DEF Ops
  <2>4. dev'[op.dir.pair[1]].rev = dev[op.dir.pair[1]].rev
    <3>1. CASE bad[op.block] = "noop"
      BY <2>1, <3>1 DEF device
    <3>2. CASE bad[op.block] # "noop"
      <4>1. dev' = [dev EXCEPT ![op.block].rev = op.dir.rev]
        BY <2>1, <3>2, Zenon DEF ProgRevision
      <4>2. op.dir.pair[1] \in Block /\ op.dir.pair[1] # op.block
        BY <1>0 DEF Dirs
      <4> QED BY <1>0, <4>1, <4>2 DEF Devices
    <3> QED BY <3>1, <3>2
  <2>5. Given'
    BY <1>0, <1>1, <2>3, <2>4, GivenKept
  <2>6. Continues' /\ Closes' /\ Settled'
    BY <1>0, <2>3 DEF Continues, Closes, Settled
  <2>7. Intent'
    <3>1. Written' = 0 /\ Start' = 0 /\ Len(op'.words) \in Nat
      BY <1>0, <2>2, <2>3 DEF Written, Start
    <3> QED BY <2>2, <2>3, <3>1 DEF Intent
  <2> QED BY <2>5, <2>6, <2>7 DEF Tracks
<1> QED BY <1>2, <1>3

\* How far a commit is.
LEMMA WritingIs ==
  ASSUME IInv, Tracks, op.pc = "write"
  PROVE  /\ op.off = Start + Written /\ Written \in 0..Len(op.words) /\ Written \in Nat
         /\ Start \in 0..UNITS
         /\ op.mode = "compact" => op.covers[1] = <<1, Tag("rev", op.dir.rev, 0)>>
         /\ \A k \in 1..Written : op.covers[Ahead + k][2] = op.words[k]
<1>1. op.pc = "write" /\ op.pc # "verify"
  OBVIOUS
<1>2. Start \in 0..UNITS
  BY <1>1, PairAssumption DEF IInv, TypeInv, Dirs, Start
<1> DEFINE s == Start
           m == Written
<1>3. /\ op.off = s + m + (IF op.pc = "verify" THEN 1 ELSE 0) /\ m \in 0..Len(op.words)
      /\ op.mode = "compact" => op.covers[1] = <<1, Tag("rev", op.dir.rev, 0)>>
      /\ \A k \in 1..m : op.covers[Ahead + k][2] = op.words[k]
  BY <1>1, Zenon DEF Tracks, Intent
<1>4. s \in 0..UNITS
  BY <1>2
<1> HIDE DEF s, m
<1>5. op.off = s + m /\ m \in Nat
  BY <1>1, <1>3, <1>4
<1> QED BY <1>3, <1>4, <1>5 DEF s, m

\* A unit programmed behind what was there before the commit.
LEMMA ProgTracks ==
  ASSUME IInv, Tracks, op.pc = "write", op.off < UNITS, NEW w \in UnitWords,
         Prog(op.block, op.off + 1, w), parent' = parent
  PROVE  /\ dev'[op.dir.pair[1]].rev = dev[op.dir.pair[1]].rev
         /\ op.mode = "append" => Follows(dev')
         /\ bad[op.block] # "noop" =>
              /\ dev'[op.block].units[op.off + 1] = w
              /\ \A k \in Units \ {op.off + 1} : dev'[op.block].units[k] = dev[op.block].units[k]
<1> DEFINE b == op.block
           i == op.off + 1
           p == op.dir.pair
           y == dev'
<1>0. /\ dev \in Devices /\ op.dir \in Dirs /\ b = Half /\ op.off \in 0..UNITS /\ parent \in Pairs
      /\ op.dir.off \in 0..UNITS /\ UNITS \in Nat
  BY PairAssumption DEF IInv, TypeInv, KeepsOld, Ops, Dirs
<1>1. /\ p \in Pairs /\ b \in Block /\ i \in Units /\ p[1] \in Block /\ p[2] \in Block
      /\ p[1] # p[2] /\ (op.mode = "append" => p[1] = b)
  BY <1>0 DEF Dirs, Pairs, Half, Units
<1>2. op.mode = "append" => Follows(dev) /\ op.dir.off \in 0..op.off
  <2>1. op.mode = "append" => Follows(dev) /\ op.off = op.dir.off + Written /\ Written \in Nat
    BY WritingIs DEF Tracks, Continues, Start
  <2> QED BY <1>0, <2>1
<1>3. CASE bad[b] = "noop"
  <2>1. dev' = dev
    BY <1>3, Zenon DEF Prog, device
  <2> QED BY <1>2, <1>3, <2>1
<1>4. CASE bad[b] # "noop"
  <2>1. y = Programmed(dev, b, i, w)
    BY <1>4, Zenon DEF Prog, Programmed
  <2> HIDE DEF y, i, b, p
  <2>2. /\ y \in Devices /\ y[b].units[i] = w /\ y[b].rev = dev[b].rev
        /\ \A k \in Units \ {i} : y[b].units[k] = dev[b].units[k]
        /\ \A c \in Block \ {b} : y[c] = dev[c]
    BY <1>0, <1>1, <2>1, ProgIs
  <2>3. y[p[1]].rev = dev[p[1]].rev
    BY <1>1, <2>2
  <2>4. ASSUME op.mode = "append" PROVE Follows(y)
    <3>1. y[p[2]] = dev[p[2]] /\ p[1] = b
      BY <1>1, <2>2, <2>4
    <3>2. Leads(y, parent, p)
      <4>1. Leads(dev, parent, p)
        BY <1>2, <2>4 DEF Follows, p
      <4> QED BY <1>0, <2>3, <3>1, <4>1, LeadsKept
    <3> DEFINE n == op.dir.off
    <3>3. Agree(dev, y, b, n)
      <4>1. \A k \in 1..n : k \in Units \ {i}
        BY <1>0, <1>2, <2>4 DEF Units, i
      <4> QED BY <2>2, <4>1 DEF Agree
    <3>4. n \in 0..UNITS /\ op.dir.log = LogOf(dev, b, n) /\ Reaches(dev, b, 0, n)
      BY <1>0, <1>2, <2>4, <3>1 DEF Follows, p
    <3> HIDE DEF n
    <3>5. LogOf(y, b, n) = LogOf(dev, b, n)
      BY <1>0, <1>1, <2>2, <3>3, <3>4, LogKept
    <3>6. Reaches(y, b, 0, n)
      BY <3>3, <3>4, ReachesKept
    <3> QED BY <3>1, <3>2, <3>4, <3>5, <3>6 DEF Follows, n, p
  <2> QED BY <2>2, <2>3, <2>4 DEF y, i, b, p
<1> QED BY <1>3, <1>4

LEMMA CommitAttrTracks == IInv /\ Tracks /\ CommitAttr => Tracks'
<1> SUFFICES ASSUME IInv, Tracks, CommitAttr PROVE Tracks'
  OBVIOUS
<1> DEFINE T == op.target
           w == NextWord
<1> HIDE DEF T
<1>1. op.pc = "write" /\ Written < Len(op.words)
      /\ UNCHANGED <<bad, erasing, parent, dir, commits, losses>>
  BY Zenon DEF CommitAttr, Pending
<1>0. /\ op \in Ops(T) /\ op.dir \in Dirs /\ op.relocated \in BOOLEAN /\ Given
      /\ UNITS \in Nat /\ op.off \in 0..UNITS /\ op.words \in Seq(AttrTags)
      /\ op.covers \in Seq(Digests)
  BY <1>1, PairAssumption DEF IInv, TypeInv, T, Tracks, Given, Ops
<1>2. /\ op.off = Start + Written /\ Written \in 0..Len(op.words)
      /\ op.mode = "compact" => op.covers[1] = <<1, Tag("rev", op.dir.rev, 0)>>
      /\ \A k \in 1..Written : op.covers[Ahead + k][2] = op.words[k]
  BY <1>1, WritingIs
<1>3. w \in UnitWords /\ Digest(w) = <<op.top, op.words[Written + 1]>> /\ Digest(w) \in Digests
  <2>1. op.top \in Bits /\ op.words \in Seq(LogTags)
    BY <1>0 DEF Ops
  <2>2. op.words[Written + 1] \in LogTags
    <3>1. Written + 1 \in 1..Len(op.words)
      BY <1>1, <1>2
    <3> QED BY <2>1, <3>1
  <2>3. w \in UnitWords /\ w.top = op.top /\ w.tag = op.words[Written + 1]
    BY <2>1, <2>2, WordType DEF NextWord
  <2> HIDE DEF w
  <2> QED BY <2>3, DigestType DEF Digest
<1> HIDE DEF w
<1>4. CASE ~Room(op.off)
  <2>1. /\ UNCHANGED device
        /\ IF op.mode = "append" THEN op' = [op EXCEPT !.pc = "compact"] ELSE Return("nospc")
    BY <1>4, Zenon DEF CommitAttr
  <2>2. CASE op.mode = "append"
    <3>1. op' = Corrupt
      BY <2>1, <2>2, Zenon DEF Corrupt
    <3> QED BY <1>1, <2>1, <3>1, CorruptTracks
  <2>3. CASE op.mode # "append"
    BY <2>1, <2>3, ReturnTracks
  <2> QED BY <2>2, <2>3
<1>5. CASE Room(op.off) /\ Refuses(op.block)
  <2>1. op' = Corrupt /\ UNCHANGED device
    BY <1>5, Zenon DEF CommitAttr
  <2> QED BY <1>1, <2>1, CorruptTracks
<1>6. CASE Room(op.off) /\ ~Refuses(op.block)
  <2> DEFINE n == op.off + 1
             cs == Append(op.covers, Digest(w))
  <2>1. /\ Prog(op.block, n, w)
        /\ op' = [op EXCEPT !.off = n, !.top = 0, !.covers = cs]
    BY <1>6, Zenon DEF CommitAttr, w
  <2>2. op.off < UNITS
    BY <1>0, <1>6 DEF Room
  <2>3. /\ dev'[op.dir.pair[1]].rev = dev[op.dir.pair[1]].rev
        /\ op.mode = "append" => Follows(dev')
    BY <1>1, <1>3, <2>1, <2>2, ProgTracks
  <2>4. /\ Len(cs) = Len(op.covers) + 1 /\ cs[Len(op.covers) + 1] = Digest(w)
        /\ \A k \in 1..Len(op.covers) : cs[k] = op.covers[k]
    BY <1>0, <1>3
  <2> HIDE DEF cs
  <2>5. /\ op'.pc = "write" /\ op'.attrs = op.attrs /\ op'.words = op.words /\ op'.dir = op.dir
        /\ op'.mode = op.mode /\ op'.relocated = op.relocated /\ op'.off = n /\ op'.covers = cs
    <3> HIDE DEF n
    <3> QED BY <1>0, <1>1, <2>1 DEF Ops
  <2>6. Given'
    BY <1>0, <1>1, <2>3, <2>5, GivenKept
  <2>7. Continues'
    BY <1>1, <2>3, <2>5 DEF Tracks, Continues, Follows
  <2>8. Closes' /\ Settled'
    BY <2>5 DEF Closes, Settled
  <2>9. Intent'
    <3>1. /\ Written' = Written + 1 /\ Start' = Start /\ Ahead' = Ahead
          /\ Ahead \in {0, 1} /\ Len(op.covers) = Ahead + Written /\ Written \in Nat
          /\ op.mode = "compact" => Ahead = 1
      BY <1>0, <1>2, <2>4, <2>5 DEF Written, Start, Ahead
    <3>2. op'.off = Start' + Written' + 0
      <4>1. Start \in Int
        BY <1>0, PairAssumption DEF Start, Dirs
      <4> QED BY <1>2, <2>5, <3>1, <4>1
    <3>3. Written' \in 0..Len(op'.words)
      BY <1>0, <1>1, <2>5, <3>1
    <3>4. op.mode = "compact" => op'.covers[1] = <<1, Tag("rev", op.dir.rev, 0)>>
      <4>1. op.mode = "compact" => 1 \in 1..Len(op.covers)
        BY <3>1
      <4> QED BY <1>2, <2>4, <2>5, <4>1
    <3>5. ASSUME NEW k \in 1..Written' PROVE op'.covers[Ahead' + k][2] = op'.words[k]
      <4>1. CASE k \in 1..Written
        <5>1. Ahead + k \in 1..Len(op.covers)
          BY <3>1, <4>1
        <5>2. cs[Ahead + k] = op.covers[Ahead + k]
          BY <2>4, <5>1
        <5> QED BY <1>2, <2>5, <3>1, <4>1, <5>2
      <4>2. CASE k = Written + 1
        <5>1. Ahead + k = Len(op.covers) + 1
          BY <3>1, <4>2
        <5>2. cs[Ahead + k] = <<op.top, op.words[k]>>
          BY <1>3, <2>4, <4>2, <5>1
        <5> QED BY <2>5, <3>1, <5>2
      <4> QED BY <3>1, <4>1, <4>2
    <3> QED BY <2>5, <3>2, <3>3, <3>4, <3>5 DEF Intent
  <2> QED BY <2>6, <2>7, <2>8, <2>9 DEF Tracks
<1> QED BY <1>4, <1>5, <1>6

LEMMA CrcFcrc ==
  ASSUME TypeInv, op.block \in Block, op.off + 1 < UNITS
  PROVE  /\ dev[op.block].units[op.off + 2].top # CrcWord.tag.id
         /\ CrcWord.fcrc = Digest(dev[op.block].units[op.off + 2])
<1> DEFINE i == op.off + 2
           u == dev[op.block].units[i]
<1>1. i <= UNITS /\ i \in Units
  <2>1. op.off \in 0..UNITS
    BY DEF TypeInv, Ops
  <2> QED BY <2>1, PairAssumption DEF Units
<1> HIDE DEF i
<1>2. u.top \in Bits
  BY <1>1 DEF TypeInv, Devices, UnitWords
<1>3. CrcWord.tag.id = 1 - Eperturb(op.block, i) /\ CrcWord.fcrc = Fcrc(op.block, i)
  BY Zenon DEF CrcWord, Tag, i
<1>4. Eperturb(op.block, i) = u.top /\ Fcrc(op.block, i) = Digest(u)
  BY <1>1 DEF Eperturb, Fcrc
<1>5. u.top # 1 - u.top
  BY <1>2 DEF Bits
<1> QED BY <1>3, <1>4, <1>5 DEF i

LEMMA CommitCrcTracks == IInv /\ Tracks /\ CommitCrc => Tracks'
<1> SUFFICES ASSUME IInv, Tracks, CommitCrc PROVE Tracks'
  OBVIOUS
<1> DEFINE T == op.target
           w == CrcWord
           n == op.off + 1
<1> HIDE DEF T
<1>1. op.pc = "write" /\ ~Pending /\ UNCHANGED <<bad, erasing, parent, dir, commits, losses>>
  BY Zenon DEF CommitCrc
<1>0. /\ op \in Ops(T) /\ op.dir \in Dirs /\ op.relocated \in BOOLEAN /\ Given
      /\ op.block = Half /\ op.off < UNITS /\ UNITS \in Nat /\ op.off \in 0..UNITS
  BY <1>1, PairAssumption DEF IInv, TypeInv, T, KeepsOld, Fits, Ops, Tracks
<1>2. /\ op.off = Start + Written /\ Written = Len(op.words) /\ Written \in 0..Len(op.words)
      /\ op.mode = "compact" => op.covers[1] = <<1, Tag("rev", op.dir.rev, 0)>>
      /\ \A k \in 1..Written : op.covers[Ahead + k][2] = op.words[k]
  <2>1. ~(Written < Len(op.words)) /\ Len(op.words) \in Nat
    BY <1>0, <1>1 DEF Pending, Ops
  <2> QED BY <1>1, <2>1, WritingIs
<1>3. CASE Refuses(op.block)
  <2>1. op' = Corrupt /\ UNCHANGED device
    BY <1>3, Zenon DEF CommitCrc
  <2> QED BY <1>1, <2>1, CorruptTracks
<1>4. CASE ~Refuses(op.block)
  <2>1. /\ Prog(op.block, n, w)
        /\ op' = [op EXCEPT !.pc = "verify", !.off = n, !.top = w.tag.id]
    BY <1>4, Zenon DEF CommitCrc
  <2>2. op.block \in Block /\ n \in Units
    BY <1>0 DEF Half, Dirs, Units
  <2>3. w \in UnitWords /\ w.top = op.top /\ w.tag.type = "crc"
    <3> HIDE DEF w
    <3> QED BY <2>2, CrcWordType DEF IInv, w
  <2>4. n < UNITS => /\ dev[op.block].units[n + 1].top # w.tag.id
                     /\ w.fcrc = Digest(dev[op.block].units[n + 1])
    <3>1. n + 1 = op.off + 2
      BY <1>0
    <3> HIDE DEF w
    <3> QED BY <2>2, <3>1, CrcFcrc DEF IInv, w
  <2> HIDE DEF w
  <2>5. /\ dev'[op.dir.pair[1]].rev = dev[op.dir.pair[1]].rev
        /\ op.mode = "append" => Follows(dev')
        /\ bad[op.block] # "noop" =>
             /\ dev'[op.block].units[n] = w
             /\ \A k \in Units \ {n} : dev'[op.block].units[k] = dev[op.block].units[k]
    BY <1>0, <1>1, <2>1, <2>3, ProgTracks
  <2>6. /\ op'.pc = "verify" /\ op'.attrs = op.attrs /\ op'.words = op.words /\ op'.dir = op.dir
        /\ op'.mode = op.mode /\ op'.relocated = op.relocated /\ op'.off = n
        /\ op'.covers = op.covers /\ op'.block = op.block /\ op'.top = w.tag.id
    <3> HIDE DEF n
    <3> QED BY <1>0, <1>1, <2>1 DEF Ops
  <2>7. Given'
    BY <1>0, <1>1, <2>5, <2>6, GivenKept
  <2>8. Continues'
    BY <1>1, <2>5, <2>6 DEF Tracks, Continues, Follows
  <2>9. Intent'
    <3>1. Written' = Written /\ Start' = Start /\ Ahead' = Ahead
      BY <2>6 DEF Written, Start, Ahead
    <3>2. Start + Written \in Int /\ n = Start + Written + 1
      BY <1>0, <1>2
    <3> HIDE DEF n
    <3> QED BY <1>2, <2>6, <3>1, <3>2 DEF Intent
  <2>10. Closes'
    <3> SUFFICES ASSUME bad[op.block] # "noop" PROVE Ends(dev'[op.block].units, n, w.tag.id)
      BY <1>1, <2>6 DEF Closes
    <3> DEFINE old == dev[op.block].units
               new == dev'[op.block].units
    <3>1. Chained(old, op.off) /\ op.top = LeftTop(old, op.off)
      BY <1>1, Zenon DEF IInv, WritesErased
    <3>2. new[n] = w /\ \A k \in Units \ {n} : new[k] = old[k]
      BY <2>5
    <3>3. \A k \in 1..op.off : k \in Units \ {n}
      BY <1>0 DEF Units
    <3>4. n < UNITS => n + 1 \in Units \ {n}
      BY <1>0 DEF Units
    <3>5. n < UNITS => old[n + 1].top # w.tag.id /\ w.fcrc = Digest(old[n + 1])
      BY <2>4
    <3> HIDE DEF old, new
    <3>6. Chained(new, n)
      BY <1>0, <2>3, <3>1, <3>2, <3>3, ChainedOn
    <3> HIDE DEF n
    <3>7. Ends(new, n, w.tag.id)
      BY <2>3, <3>2, <3>4, <3>5, <3>6 DEF Ends
    <3> QED BY <3>7 DEF new
  <2>11. Settled'
    BY <2>6 DEF Settled
  <2> QED BY <2>7, <2>8, <2>9, <2>10, <2>11 DEF Tracks
<1> QED BY <1>3, <1>4

\* Units n + 1 to m of block b hold the tags and the crc of a commit.
Holds(b, n, m, words, top) ==
  /\ b \in Block /\ n \in 0..UNITS /\ m \in n + 1..UNITS /\ m = n + Len(words) + 1
  /\ IsCommit(dev, b, n, m)
  /\ \A k \in 1..Len(words) : dev[b].units[n + k].tag = words[k]
  /\ dev[b].units[m].tag.type = "crc" /\ LeftTop(dev[b].units, m) = top
  /\ m < UNITS => /\ dev[b].units[m + 1].top # LeftTop(dev[b].units, m)
                  /\ SeemsErased(dev, b, m)

\* A commit that was read back is one that a scan from its start passes.
LEMMA VerifiedCommit ==
  ASSUME IInv, Tracks, op.pc = "verify", bad[op.block] # "noop", ReadsBack
  PROVE  /\ Holds(op.block, Start, op.off, op.words, op.top)
         /\ op.mode = "compact" => dev[op.block].rev = op.dir.rev
<1> DEFINE b == op.block
           n == Start
           m == op.off
           L == Len(op.words)
<1>a. b = op.block /\ n = Start /\ m = op.off /\ L = Len(op.words) /\ bad[b] # "noop"
  OBVIOUS
<1> HIDE DEF b, n, m, L
<1> DEFINE units == dev[b].units
           read == [i \in 1..L |-> Digest(units[n + i])]
           h == IF op.mode = "compact" THEN Header(dev[b].rev, 0) ELSE <<>>
<1>0. /\ op \in Ops(op.target) /\ op.dir \in Dirs /\ b = Half /\ op.mode \in {"append", "compact"}
      /\ op.words \in Seq(AttrTags) /\ dev \in Devices /\ UNITS \in Nat /\ m \in 0..UNITS
      /\ op.mode = "append" => op.dir.off > 0
  BY <1>a, PairAssumption DEF IInv, TypeInv, KeepsOld, Ops, Tracks, Given, Continues
<1>1. b \in Block /\ n \in 0..UNITS /\ n \in Nat /\ L \in Nat
  <2>1. b \in Block
    BY <1>0 DEF Half, Dirs
  <2>2. n \in 0..UNITS /\ n \in Nat
    BY <1>0, <1>a DEF Start, Dirs
  <2>3. L \in Nat
    BY <1>0, <1>a
  <2> QED BY <2>1, <2>2, <2>3
<1>2. /\ m = n + Written + 1 /\ Written = L
      /\ op.mode = "compact" => op.covers[1] = <<1, Tag("rev", op.dir.rev, 0)>>
      /\ \A k \in 1..Written : op.covers[Ahead + k][2] = op.words[k]
  BY <1>a, Zenon DEF Tracks, Intent
<1>3. m = n + L + 1 /\ m \in n + 1..UNITS /\ m > 0 /\ m - 1 - L = n /\ m - n - 1 = L
  BY <1>0, <1>1, <1>2
<1>4. Ends(units, m, op.top)
  BY <1>a, Zenon DEF Tracks, Closes
<1>5. /\ Chained(units, m) /\ units[m].tag.type = "crc" /\ LeftTop(units, m) = op.top
      /\ m < UNITS => units[m + 1].top # op.top /\ units[m].fcrc = Digest(units[m + 1])
  BY <1>3, <1>4 DEF Ends, LeftTop
<1>6. op.covers = h \o read /\ units[m].covers = op.covers
  <2> DEFINE begin == op.off - 1 - Len(op.words)
  <2>1. begin = n
    BY <1>3, <1>a
  <2>2. /\ op.covers = h \o [i \in 1..Len(op.words) |-> Digest(units[begin + i])]
        /\ units[op.off].covers = op.covers
    BY Zenon DEF ReadsBack, begin, b
  <2> HIDE DEF begin
  <2>3. op.covers = h \o [i \in 1..L |-> Digest(units[n + i])]
    BY <2>1, <2>2, <1>a, Zenon
  <2>4. units[m].covers = op.covers
    BY <2>2, <1>a, Zenon
  <2> QED BY <2>3, <2>4
<1>7. /\ h \in Seq(Digests) /\ Len(h) = Ahead /\ Ahead \in {0, 1}
      /\ op.mode = "compact" => Ahead = 1 /\ h[1] = <<1, Tag("rev", dev[b].rev, 0)>>
  <2>1. dev[b].rev \in 0..REVS - 1
    BY <1>0, <1>1 DEF Devices
  <2>2. Header(dev[b].rev, 0) \in Seq(Digests) /\ Len(Header(dev[b].rev, 0)) = 1
    BY <2>1, HeaderType
  <2>3. Header(dev[b].rev, 0)[1] = <<1, Tag("rev", dev[b].rev, 0)>>
    BY DEF Header
  <2>4. <<>> \in Seq(Digests) /\ Len(<<>>) = 0
    OBVIOUS
  <2>5. CASE op.mode = "compact"
    <3>1. h = Header(dev[b].rev, 0) /\ Ahead = 1
      BY <2>5 DEF Ahead
    <3> HIDE DEF h
    <3> QED BY <2>2, <2>3, <3>1
  <2>6. CASE op.mode # "compact"
    <3>1. h = <<>> /\ Ahead = 0
      BY <2>6 DEF Ahead
    <3> HIDE DEF h
    <3> QED BY <2>4, <2>6, <3>1
  <2> QED BY <2>5, <2>6
<1> HIDE DEF h
<1>8. /\ \A k \in 1..L : (h \o read)[Ahead + k] = Digest(units[n + k])
      /\ Ahead = 1 => (h \o read)[1] = h[1]
  <2>1. \A i \in 1..L : n + i \in Units
    BY <1>0, <1>1, <1>3 DEF Units
  <2>2. \A i \in 1..L : Digest(units[n + i]) \in Digests
    <3>1. \A j \in Units : units[j] \in UnitWords
      BY <1>0, <1>1 DEF Devices
    <3> HIDE DEF units
    <3> QED BY <2>1, <3>1, DigestType
  <2>3. read \in Seq(Digests) /\ Len(read) = L
    BY <1>1, <2>2, IsASeq
  <2>4. \A k \in 1..L : read[k] = Digest(units[n + k])
    OBVIOUS
  <2> HIDE DEF read
  <2> DEFINE r == read
  <2> HIDE DEF r
  <2>5. /\ r \in Seq(Digests) /\ Len(r) = L /\ h \in Seq(Digests) /\ Len(h) = Ahead
        /\ Ahead \in Nat /\ L \in Nat /\ r = read
    BY <1>1, <1>7, <2>3 DEF r
  <2>6. \A i \in 1..Len(h) + Len(r) : (h \o r)[i] = IF i <= Len(h) THEN h[i] ELSE r[i - Len(h)]
    BY <2>5, ConcatProperties
  <2>7. \A k \in 1..L : (h \o r)[Ahead + k] = r[k]
    <3> SUFFICES ASSUME NEW k \in 1..L PROVE (h \o r)[Ahead + k] = r[k]
      OBVIOUS
    <3> DEFINE i == Ahead + k
    <3>1. i \in 1..Len(h) + Len(r) /\ ~(i <= Len(h)) /\ i - Len(h) = k
      BY <2>5
    <3> HIDE DEF i
    <3>2. (h \o r)[i] = r[i - Len(h)]
      BY <2>6, <3>1, Zenon
    <3> QED BY <3>1, <3>2, Zenon DEF i
  <2>8. Ahead = 1 => (h \o r)[1] = h[1]
    <3>1. Ahead = 1 => 1 \in 1..Len(h) + Len(r) /\ 1 <= Len(h)
      BY <2>5
    <3> QED BY <2>6, <3>1
  <2> QED BY <2>4, <2>5, <2>7, <2>8
<1>9. \A k \in 1..L : units[n + k].tag = op.words[k]
  <2> SUFFICES ASSUME NEW k \in 1..L PROVE units[n + k].tag = op.words[k]
    OBVIOUS
  <2>1. op.covers[Ahead + k] = Digest(units[n + k])
    BY <1>6, <1>8
  <2>2. op.covers[Ahead + k][2] = op.words[k]
    BY <1>2
  <2> QED BY <2>1, <2>2 DEF Digest
<1>10. op.mode = "compact" => dev[b].rev = op.dir.rev
  <2> SUFFICES ASSUME op.mode = "compact" PROVE dev[b].rev = op.dir.rev
    OBVIOUS
  <2>1. Tag("rev", dev[b].rev, 0) = Tag("rev", op.dir.rev, 0)
    <3>1. op.covers[1] = <<1, Tag("rev", dev[b].rev, 0)>>
      BY <1>6, <1>7, <1>8
    <3>2. <<1, Tag("rev", dev[b].rev, 0)>> = <<1, Tag("rev", op.dir.rev, 0)>>
      BY <1>2, <3>1
    <3> QED BY <3>2
  <2> QED BY <2>1 DEF Tag
<1>11. IsCommit(dev, b, n, m)
  <2>1. \A k \in n + 1..m : units[k].top = LeftTop(units, k - 1)
    <3>1. \A k \in n + 1..m : k \in 1..m
      BY <1>1, <1>3
    <3> QED BY <1>5, <3>1 DEF Chained
  <2>2. \A k \in n + 1..m - 1 : IsAttr(units[k])
    <3> SUFFICES ASSUME NEW k \in n + 1..m - 1 PROVE IsAttr(units[k])
      OBVIOUS
    <3> DEFINE j == k - n
    <3>1. j \in 1..L /\ k = n + j
      BY <1>1, <1>3
    <3> HIDE DEF j
    <3>2. op.words[j] \in AttrTags
      BY <1>0, <1>a, <3>1
    <3> QED BY <1>9, <3>1, <3>2 DEF AttrTags, AttrTypes, IsAttr
  <2>3. units[m].covers = Header(dev[b].rev, n) \o [k \in 1..m - n - 1 |-> Digest(units[n + k])]
    <3>1. h = Header(dev[b].rev, n)
      <4>1. CASE op.mode = "compact"
        <5>1. n = 0
          BY <4>1, <1>a DEF Start
        <5> QED BY <4>1, <5>1 DEF h
      <4>2. CASE op.mode = "append"
        <5>1. n # 0
          BY <1>0, <1>a, <4>2 DEF Start, Dirs
        <5> QED BY <4>2, <5>1 DEF h, Header
      <4> QED BY <1>0, <4>1, <4>2
    <3>2. 1..m - n - 1 = 1..L
      BY <1>3
    <3> QED BY <1>6, <3>1, <3>2
  <2> QED BY <1>5, <2>1, <2>2, <2>3, Zenon DEF IsCommit
<1>12. m < UNITS => SeemsErased(dev, b, m)
  <2> SUFFICES ASSUME m < UNITS PROVE SeemsErased(dev, b, m)
    OBVIOUS
  <2> QED BY <1>5, Zenon DEF SeemsErased
<1>13. Holds(b, n, m, op.words, op.top)
  <2>1. \A k \in 1..Len(op.words) : units[n + k].tag = op.words[k]
    BY <1>a, <1>9
  <2>2. m = n + Len(op.words) + 1
    BY <1>a, <1>3
  <2>3. m < UNITS => units[m + 1].top # LeftTop(units, m)
    BY <1>5
  <2> QED BY <1>1, <1>3, <1>5, <1>11, <1>12, <2>1, <2>2, <2>3, Zenon DEF Holds
<1> QED BY <1>10, <1>13, <1>a

LEMMA ReachesStart ==
  ASSUME NEW blocks, NEW b
  PROVE  Reaches(blocks, b, 0, 0)
<1>1. Path({0}, blocks, b, 0, 0)
  BY DEF Path
<1> QED BY <1>1 DEF Reaches

\* An appended commit is found by the next fetch.
LEMMA AppendFound ==
  ASSUME IInv, Tracks, op.pc = "verify", bad[op.block] # "noop", ReadsBack, op.mode = "append",
         NEW d \in Dirs, d.pair = op.dir.pair, d.rev = op.dir.rev, d.off = op.off, d.top = op.top,
         d.log = op.dir.log \o op.words
  PROVE  Tells(d, found)
<1> DEFINE b == op.block
           n == op.dir.off
           m == op.off
           w == op.words
           L == Len(w)
<1>0. /\ dev \in Devices /\ parent \in Pairs /\ UNITS \in Nat /\ found = Fetch(dev, parent)
      /\ b = op.dir.pair[1] /\ op.words \in Seq(AttrTags) /\ Follows(dev)
      /\ op.dir.rev = dev[op.dir.pair[1]].rev /\ n = Start
  BY PairAssumption DEF IInv, TypeInv, Mountable, KeepsOld, Half, Tracks, Given, Continues, Start
<1>2. /\ b = d.pair[1] /\ m = d.off /\ op.top = d.top /\ Leads(dev, parent, d.pair)
      /\ op.dir.log = LogOf(dev, b, n) /\ Reaches(dev, b, 0, n) /\ d.rev = dev[b].rev
      /\ d.log = op.dir.log \o w /\ w \in Seq(AttrTags) /\ L \in Nat
  BY <1>0 DEF Follows
<1>1. Holds(b, n, m, w, op.top)
  BY <1>0, VerifiedCommit
<1> HIDE DEF b, n, m, w, L
<1>3. /\ b \in Block /\ n \in 0..UNITS /\ m \in n + 1..UNITS /\ m = n + L + 1
      /\ IsCommit(dev, b, n, m)
      /\ \A k \in 1..L : dev[b].units[n + k].tag = w[k]
      /\ dev[b].units[m].tag.type = "crc" /\ LeftTop(dev[b].units, m) = op.top
      /\ m < UNITS => /\ dev[b].units[m + 1].top # LeftTop(dev[b].units, m)
                      /\ SeemsErased(dev, b, m)
  BY <1>1, ZenonT(40) DEF Holds, L
<1>4. m \in 0..UNITS /\ m > 0 /\ n + L + 1 <= UNITS
  BY <1>0, <1>2, <1>3
<1>5. ScanEnd(dev, b) = m
  <2>1. Reaches(dev, b, 0, m)
    BY <1>2, <1>3, ReachesOn
  <2> QED BY <1>3, <1>4, <2>1, EndsAt, SMTT(30)
<1>6. LogOf(dev, b, m) = LogOf(dev, b, n) \o w
  <2>1. LogOf(dev, b, n + L + 1) = LogOf(dev, b, n) \o w
    BY <1>0, <1>2, <1>3, <1>4, LogExtends, ZenonT(40) DEF L
  <2> QED BY <1>3, <2>1
<1>7. d.log = LogOf(dev, b, m)
  BY <1>2, <1>6
<1>8. SeemsErased(dev, b, m) \/ m = UNITS
  BY <1>0, <1>3, <1>4
<1> QED BY <1>0, <1>2, <1>3, <1>4, <1>5, <1>7, <1>8, FetchTells

\* A compacted pair is found by a fetch of it.
LEMMA CompactFound ==
  ASSUME IInv, Tracks, op.pc = "verify", bad[op.block] # "noop", ReadsBack, op.mode = "compact",
         NEW d \in Dirs, d.pair = <<op.dir.pair[2], op.dir.pair[1]>>, d.rev = op.dir.rev,
         d.off = op.off, d.top = op.top, d.log = op.words, NEW pair \in Pairs,
         Pair(pair) = Pair(op.dir.pair)
  PROVE  Tells(d, Fetch(dev, pair))
<1> DEFINE b == op.block
           n == Start
           m == op.off
           w == op.words
           L == Len(w)
<1>0. /\ dev \in Devices /\ UNITS \in Nat /\ op.dir \in Dirs /\ b = op.dir.pair[2]
      /\ op.words \in Seq(AttrTags) /\ op.dir.rev = (dev[op.dir.pair[1]].rev + 1) % REVS
  BY PairAssumption DEF IInv, TypeInv, KeepsOld, Half, Tracks, Given
<1>2. /\ b = d.pair[1] /\ d.pair[2] = op.dir.pair[1] /\ m = d.off /\ op.top = d.top
      /\ d.pair \in Pairs /\ Pair(d.pair) = Pair(pair) /\ d.log = w /\ w \in Seq(AttrTags)
      /\ L \in Nat
  <2> DEFINE q == op.dir.pair
  <2>1. q \in Pairs
    BY <1>0 DEF Dirs, Pairs
  <2> HIDE DEF q
  <2>2. d.pair = <<q[2], q[1]>> /\ Pair(pair) = Pair(q)
    BY DEF q
  <2>3. d.pair \in Pairs /\ Pair(d.pair) = Pair(q) /\ d.pair[1] = q[2] /\ d.pair[2] = q[1]
    BY <2>1, <2>2 DEF Pairs, Pair
  <2>4. L \in Nat /\ d.log = w /\ w \in Seq(AttrTags)
    BY <1>0
  <2> QED BY <1>0, <2>2, <2>3, <2>4 DEF q
<1>1. Holds(b, n, m, w, op.top) /\ dev[b].rev = op.dir.rev
  BY VerifiedCommit
<1>10. n = 0
  BY DEF Start
<1> HIDE DEF b, n, m, w, L
<1>3. /\ b \in Block /\ n \in 0..UNITS /\ m \in n + 1..UNITS /\ m = n + L + 1
      /\ IsCommit(dev, b, n, m)
      /\ \A k \in 1..L : dev[b].units[n + k].tag = w[k]
      /\ dev[b].units[m].tag.type = "crc" /\ LeftTop(dev[b].units, m) = op.top
      /\ m < UNITS => /\ dev[b].units[m + 1].top # LeftTop(dev[b].units, m)
                      /\ SeemsErased(dev, b, m)
  BY <1>1, ZenonT(40) DEF Holds, L
<1>4. m \in 0..UNITS /\ m > 0 /\ n + L + 1 <= UNITS
  BY <1>0, <1>2, <1>3
<1>5. ScanEnd(dev, b) = m
  <2>1. Reaches(dev, b, 0, n)
    BY <1>10, ReachesStart
  <2>2. Reaches(dev, b, 0, m)
    BY <1>3, <2>1, ReachesOn
  <2> QED BY <1>3, <1>4, <2>2, EndsAt
<1>6. LogOf(dev, b, m) = w
  <2>1. LogOf(dev, b, n) = <<>>
    BY <1>0, <1>3, <1>10, LogStart
  <2>2. LogOf(dev, b, n + L + 1) = LogOf(dev, b, n) \o w
    BY <1>0, <1>2, <1>3, <1>4, LogExtends, ZenonT(40) DEF L
  <2>3. <<>> \o w = w
    BY <1>2, ConcatEmptySeq
  <2> QED BY <1>3, <2>1, <2>2, <2>3, SMTT(30)
<1>7. Leads(dev, pair, d.pair)
  <2> DEFINE p == d.pair
  <2>1. p \in Pairs /\ Pair(p) = Pair(pair) /\ dev[p[1]].rev = (dev[p[2]].rev + 1) % REVS
    BY <1>0, <1>1, <1>2
  <2> HIDE DEF p
  <2>2. Leads(dev, pair, p)
    BY <1>0, <2>1, NewerLeads
  <2> QED BY <2>2 DEF p
<1>8. SeemsErased(dev, b, m) \/ m = UNITS
  BY <1>0, <1>3, <1>4
<1>9. d.log = LogOf(dev, b, m) /\ d.rev = dev[b].rev
  BY <1>1, <1>2, <1>6
<1>11. d.top = LeftTop(dev[b].units, m)
  BY <1>2, <1>3
<1> QED BY <1>0, <1>2, <1>4, <1>5, <1>7, <1>8, <1>9, <1>11, FetchTells

\* The copy that a commit leaves to an open file.
LEMMA UpdatedIs ==
  ASSUME TypeInv, op.dir \in Dirs, op.mode \in {"append", "compact"}
  PROVE  /\ Updated.rev = op.dir.rev /\ Updated.off = op.off /\ Updated.top = op.top
         /\ op.mode = "append" => /\ Updated.pair = op.dir.pair
                                  /\ Updated.log = op.dir.log \o op.words
         /\ op.mode = "compact" => /\ Updated.pair = <<op.dir.pair[2], op.dir.pair[1]>>
                                   /\ Updated.log = op.words
<1> DEFINE d == [op.dir EXCEPT !.off = op.off, !.top = op.top]
<1>1. /\ d.rev = op.dir.rev /\ d.off = op.off /\ d.top = op.top /\ d.pair = op.dir.pair
      /\ d.log = op.dir.log /\ d \in Dirs
  BY DEF TypeInv, Ops, Dirs
<1> HIDE DEF d
<1>2. CASE op.mode = "append"
  <2> DEFINE log == d.log \o op.words
  <2>1. Updated = [d EXCEPT !.log = log]
    BY <1>2, Zenon DEF Updated, d
  <2>2. log = op.dir.log \o op.words
    BY <1>1
  <2> HIDE DEF log
  <2> QED BY <1>1, <1>2, <2>1, <2>2 DEF Dirs
<1>3. CASE op.mode = "compact"
  <2> DEFINE q == <<op.dir.pair[2], op.dir.pair[1]>>
             ws == op.words
             u == Updated
  <2>1. u = [d EXCEPT !.log = ws, !.pair = q]
    <3>1. op.mode # "append"
      BY <1>3
    <3> QED BY <3>1, Zenon DEF Updated, d
  <2> HIDE DEF q, ws, u
  <2>2. u.rev = d.rev /\ u.off = d.off /\ u.top = d.top /\ u.pair = q /\ u.log = ws
    BY <1>1, <2>1 DEF Dirs
  <2> QED BY <1>1, <1>3, <2>2 DEF q, ws, u
<1> QED BY <1>2, <1>3

LEMMA VerifyTracks == IInv /\ IInv' /\ Tracks /\ Verify => Tracks'
<1> SUFFICES ASSUME IInv, IInv', Tracks, Verify PROVE Tracks'
  OBVIOUS
<1> DEFINE T == op.target
           d == dir'
<1> HIDE DEF T
<1>1. op.pc = "verify" /\ UNCHANGED <<device, bad, erasing, parent, commits, losses>>
  BY Zenon DEF Verify
<1>0. /\ op \in Ops(T) /\ op.dir \in Dirs /\ op.mode \in {"append", "compact"} /\ d \in Dirs
      /\ op.mode = "append" => ~op.relocated
      /\ ~op.relocated => Pair(op.dir.pair) = Pair(parent)
      /\ op.block = Half /\ parent \in Pairs /\ found = Fetch(dev, parent)
      /\ dev' = dev /\ parent' = parent /\ found' = found /\ bad' = bad
  BY <1>1 DEF IInv, TypeInv, Mountable, T, KeepsOld, Ops, Tracks, Given, device
<1>2. CASE ~ReadsBack
  <2>1. op' = Corrupt /\ UNCHANGED dir
    BY <1>2, Zenon DEF Verify
  <2> QED BY <1>1, <2>1, CorruptTracks
<1>3. CASE ReadsBack
  <2>1. /\ d = Updated
        /\ IF op.relocated THEN op' = [op EXCEPT !.pc = "parent", !.dir = Updated] ELSE Return("ok")
    BY <1>3, Zenon DEF Verify
  <2>2. /\ d.rev = op.dir.rev /\ d.off = op.off /\ d.top = op.top
        /\ op.mode = "append" => d.pair = op.dir.pair /\ d.log = op.dir.log \o op.words
        /\ op.mode = "compact" => /\ d.pair = <<op.dir.pair[2], op.dir.pair[1]>>
                                  /\ d.log = op.words
    <3>1. TypeInv
      BY DEF IInv
    <3> HIDE DEF d
    <3> QED BY <1>0, <2>1, <3>1, UpdatedIs
  <2>3. d.pair[1] = op.block /\ (op.mode = "compact" => Pair(d.pair) = Pair(op.dir.pair))
    <3> HIDE DEF d
    <3>1. CASE op.mode = "append"
      <4>1. op.block = op.dir.pair[1] /\ d.pair = op.dir.pair /\ op.mode # "compact"
        BY <1>0, <2>2, <3>1 DEF Half
      <4> QED BY <4>1
    <3>2. CASE op.mode = "compact"
      <4>1. op.block = op.dir.pair[2] /\ d.pair = <<op.dir.pair[2], op.dir.pair[1]>>
        BY <1>0, <2>2, <3>2 DEF Half
      <4>2. d.pair[1] = op.dir.pair[2] /\ d.pair[2] = op.dir.pair[1]
        BY <4>1
      <4> QED BY <4>1, <4>2 DEF Pair
    <3> QED BY <1>0, <3>1, <3>2
  <2>4. CASE op.relocated
    <3>1. op.mode = "compact"
      BY <1>0, <2>4
    <3>2. op'.pc = "parent" /\ op'.dir = d
      <4> HIDE DEF d
      <4>1. op' = [op EXCEPT !.pc = "parent", !.dir = d]
        BY <2>1, <2>4
      <4> QED BY <1>0, <4>1 DEF Ops
    <3>3. bad[op.block] # "noop" => Tells(d, Fetch(dev, d.pair))
      <4> HIDE DEF d
      <4>1. d.pair \in Pairs
        BY <1>0 DEF Dirs, Pairs
      <4> QED BY <1>0, <1>1, <1>3, <2>2, <2>3, <3>1, <4>1, CompactFound
    <3>4. Settled'
      BY <1>0, <2>3, <3>2, <3>3 DEF Settled
    <3>5. Given' /\ Continues' /\ Intent' /\ Closes'
      BY <3>2 DEF Given, Continues, Intent, Closes
    <3> QED BY <3>4, <3>5 DEF Tracks
  <2>5. CASE ~op.relocated
    <3>1. bad[op.block] # "noop" => Tells(d, found)
      <4> HIDE DEF d
      <4>1. CASE op.mode = "append"
        BY <1>0, <1>1, <1>3, <2>2, <4>1, AppendFound
      <4>2. CASE op.mode = "compact"
        <5>1. Pair(parent) = Pair(op.dir.pair)
          BY <1>0, <2>5
        <5> QED BY <1>0, <1>1, <1>3, <2>2, <4>2, <5>1, CompactFound
      <4> QED BY <1>0, <4>1, <4>2
    <3>2. bad'[dir'.pair[1]] # "noop" => Tells(dir', found')
      BY <1>0, <2>3, <3>1
    <3> QED BY <2>1, <2>5, <3>2, ReturnTracks
  <2> QED BY <2>4, <2>5
<1> QED BY <1>2, <1>3

LEMMA UpdateParentTracks == IInv /\ Tracks /\ UpdateParent => Tracks'
<1> SUFFICES ASSUME IInv, Tracks, UpdateParent PROVE Tracks'
  OBVIOUS
<1>1. /\ op.pc = "parent" /\ found' = Fetch(dev, op.dir.pair) /\ op' = [op EXCEPT !.pc = "done"]
      /\ dir' = dir /\ bad' = bad
  BY Zenon DEF UpdateParent
<1>2. op'.pc = "done"
  BY <1>1 DEF IInv, TypeInv, Ops
<1>3. dir = op.dir /\ (bad[dir.pair[1]] # "noop" => Tells(dir, Fetch(dev, dir.pair)))
  BY <1>1 DEF Tracks, Settled
<1>4. Given' /\ Continues' /\ Intent' /\ Closes'
  BY <1>2 DEF Given, Continues, Intent, Closes
<1>5. bad'[dir'.pair[1]] # "noop" => Tells(dir', found')
  BY <1>1, <1>3
<1>6. Settled'
  BY <1>2, <1>5 DEF Settled
<1> QED BY <1>4, <1>6 DEF Tracks

LEMMA FinishTracks == IInv /\ Tracks /\ Finish => Tracks'
<1> SUFFICES ASSUME IInv, Tracks, Finish PROVE Tracks'
  OBVIOUS
<1>1. op.pc = "done" /\ Return("ok") /\ UNCHANGED <<device, bad, dir>>
  BY Zenon DEF Finish
<1>2. bad'[dir'.pair[1]] # "noop" => Tells(dir', found')
  BY <1>1 DEF Tracks, Settled, device
<1> QED BY <1>1, <1>2, ReturnTracks

LEMMA PowerLossTracks == IInv' /\ PowerLoss => Tracks'
<1> SUFFICES ASSUME IInv', PowerLoss PROVE Tracks'
  OBVIOUS
<1>1. Return("lost") /\ dir' = found' /\ dir' \in Dirs
  BY Zenon DEF PowerLoss, IInv, TypeInv
<1>2. Tells(dir', found')
  BY <1>1, TellsItself
<1> QED BY <1>1, <1>2, ReturnTracks

LEMMA ReopenTracks == IInv' /\ Reopen => Tracks'
<1> SUFFICES ASSUME IInv', Reopen PROVE Tracks'
  OBVIOUS
<1>1. op'.pc = "idle" /\ dir' = found' /\ dir' \in Dirs
  BY DEF Reopen, IInv, TypeInv, device
<1>2. Tells(dir', found')
  BY <1>1, TellsItself
<1>3. Given' /\ Continues' /\ Intent' /\ Closes' /\ Settled'
  BY <1>1, <1>2 DEF Given, Continues, Intent, Closes, Settled
<1> QED BY <1>3 DEF Tracks

LEMMA GoesBadTracks == IInv /\ Tracks /\ GoesBad => Tracks'
<1> SUFFICES ASSUME IInv, Tracks, GoesBad PROVE Tracks'
  OBVIOUS
<1>1. op' = op /\ dev' = dev /\ parent' = parent /\ op.pc \in {"erase", "rev", "write"}
  BY Zenon DEF GoesBad, device
<1>2. Given'
  BY <1>1 DEF Tracks, Given
<1>3. Continues'
  BY <1>1 DEF Tracks, Continues, Follows
<1>4. Intent'
  BY <1>1, Zenon DEF Tracks, Intent, Start, Written, Ahead
<1>5. Closes' /\ Settled'
  BY <1>1 DEF Closes, Settled
<1> QED BY <1>2, <1>3, <1>4, <1>5 DEF Tracks

LEMMA SameTracks == Tracks /\ UNCHANGED vars => Tracks'
<1> SUFFICES ASSUME Tracks, UNCHANGED vars PROVE Tracks'
  OBVIOUS
<1>1. op' = op /\ dev' = dev /\ parent' = parent /\ bad' = bad /\ dir' = dir /\ found' = found
  BY DEF vars, device
<1>2. Given'
  BY <1>1 DEF Tracks, Given
<1>3. Continues'
  BY <1>1 DEF Tracks, Continues, Follows
<1>4. Intent'
  BY <1>1, Zenon DEF Tracks, Intent, Start, Written, Ahead
<1>5. Closes' /\ Settled'
  BY <1>1 DEF Tracks, Closes, Settled
<1> QED BY <1>2, <1>3, <1>4, <1>5 DEF Tracks

LEMMA NextTracks == ~StaleSyncs /\ IInv /\ Tracks /\ [Next]_vars => IInv' /\ Tracks'
<1> SUFFICES ASSUME ~StaleSyncs, IInv, Tracks, [Next]_vars PROVE IInv' /\ Tracks'
  OBVIOUS
<1>1. IInv'
  BY NextStep
<1>2. Tracks'
  BY <1>1, CreateTracks, SyncTracks, RemoveTracks, RenameTracks, StartCompactTracks,
     RelocateTracks, EraseTracks, ProgRevTracks, CommitAttrTracks, CommitCrcTracks, VerifyTracks,
     UpdateParentTracks, FinishTracks, PowerLossTracks, ReopenTracks, GoesBadTracks, SameTracks,
     Zenon DEF Next
<1> QED BY <1>1, <1>2

LEMMA InitTracks == Init => Tracks
<1> SUFFICES ASSUME Init PROVE Tracks
  OBVIOUS
<1>1. op = Idle /\ found = dir
  BY Zenon DEF Init
<1>2. op.pc = "idle" /\ dir \in Dirs
  BY <1>1, IdleIs, InitIInv DEF IInv, TypeInv
<1>3. Tells(dir, found)
  BY <1>1, <1>2, TellsItself
<1>4. Given /\ Continues /\ Intent /\ Closes /\ Settled
  BY <1>2, <1>3 DEF Given, Continues, Intent, Closes, Settled
<1> QED BY <1>4 DEF Tracks

\* What the runs check of an open file's copy.
LEMMA TracksCurrent == Tracks => OpenDirCurrent
BY Zenon DEF Tracks, Settled, OpenDirCurrent, Current, Tells

------------------------------------------------------------------------------
(* The theorems.                                                           *)

\* If no file is synced after a commit to its pair failed, a mount finds an
\* entry point whatever happens: one block of the pair holds a commit, and a
\* commit in progress leaves it alone (lfs_dir_commit, lfs_dir_fetchmatch).
THEOREM SpecIInv == ASSUME ~StaleSyncs PROVE Spec => []IInv
<1>1. ~StaleSyncs /\ IInv /\ [Next]_vars => IInv'
  BY NextStep
<1>2. IInv /\ [Next]_vars => IInv'
  BY <1>1
<1> QED BY InitIInv, <1>2, PTL DEF Spec

\* A commit continues the log that a fetch of the pair would find, writes what
\* it was given, and leaves an open file what the next fetch finds
\* (lfs_dir_relocatingcommit).
THEOREM SpecTracks == ASSUME ~StaleSyncs PROVE Spec => [](IInv /\ Tracks)
<1>1. ~StaleSyncs /\ IInv /\ Tracks /\ [Next]_vars => IInv' /\ Tracks'
  BY NextTracks
<1>2. IInv /\ Tracks /\ [Next]_vars => (IInv /\ Tracks)'
  BY <1>1
<1>3. Init => IInv /\ Tracks
  BY InitIInv, InitTracks
<1> QED BY <1>2, <1>3, PTL DEF Spec

\* Commits end within their block, what a fetch takes for erased is so, a
\* commit programs erased units only, and open files follow what a fetch would
\* find, whatever power losses and bad blocks.
THEOREM SpecInv == ASSUME ~StaleSyncs PROVE Spec => []Inv
<1>1. Spec => [](IInv /\ Tracks)
  BY SpecTracks
<1>2. IInv /\ Tracks => Inv
  BY IInvDevice, TracksCurrent DEF Inv
<1> QED BY <1>1, <1>2, PTL
===============================================================================
