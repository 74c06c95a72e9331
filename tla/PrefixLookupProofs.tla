--------------------------- MODULE PrefixLookupProofs ---------------------------
(***************************************************************************)
(* Proofs about PrefixLookup, for any groups, windows and chunk sizes, any *)
(* text, any chunks evicted and any answers of the tiers: the loop over    *)
(* groups ends at the longest prefix all of them serve, and what the       *)
(* stores leave out is never part of it.                                   *)
(***************************************************************************)
EXTENDS PrefixLookup, FiniteSetTheorems, WellFoundedInduction, TLAPS

-------------------------------------------------------------------------------
(* Numbers: least and greatest elements, quotients, and how many chunks cover some tokens. *)

\* A set of naturals has a least element.
LEMMA Least ==
  ASSUME NEW S \in SUBSET Nat, S # {}
  PROVE  Min(S) \in S /\ \A x \in S : Min(S) <= x
<1> DEFINE R == OpToRel(<, Nat)
<1>1. \A x, y \in Nat : <<x, y>> \in R <=> x < y
  BY DEF OpToRel
<1>2. IsWellFoundedOn(R, Nat)
  BY NatLessThanWellFounded
<1> HIDE DEF R
<1>3. PICK m \in S : \A y \in S : ~ (<<y, m>> \in R)
  BY <1>2, WFMin
<1>4. \A y \in S : m <= y
  <2> SUFFICES ASSUME NEW y \in S, ~(m <= y) PROVE FALSE
    OBVIOUS
  <2>1. m \in Nat /\ y \in Nat
    OBVIOUS
  <2>2. y < m
    BY <2>1
  <2>3. <<y, m>> \in R
    BY <1>1, <2>1, <2>2
  <2> QED
    BY <1>3, <2>3
<1> QED
  BY <1>4 DEF Min

\* A bounded one has a greatest.
LEMMA Greatest ==
  ASSUME NEW n \in Int, NEW S \in SUBSET Int, S # {}, \A x \in S : x <= n
  PROVE  Max(S) \in S /\ \A x \in S : x <= Max(S)
<1> DEFINE T == {n - x : x \in S}
<1>1. T \in SUBSET Nat /\ T # {}
  <2>1. \A x \in S : n - x \in Nat
    OBVIOUS
  <2> QED
    BY <2>1
<1>2. PICK t \in T : \A u \in T : t <= u
  <2> HIDE DEF T
  <2> QED
    BY <1>1, Least
<1>3. PICK m \in S : t = n - m
  OBVIOUS
<1>4. \A x \in S : x <= m
  BY <1>2, <1>3, SMTT(30)
<1> QED
  BY <1>4 DEF Max

\* Of two numbers.
LEMMA OfTwo ==
  ASSUME NEW a \in Int, NEW b \in Int
  PROVE  /\ Min({a, b}) = IF a <= b THEN a ELSE b
         /\ Max({a, b}) = IF a <= b THEN b ELSE a
BY DEF Min, Max

\* Quotients and remainders.
LEMMA Quotient ==
  ASSUME NEW a \in Nat, NEW b \in Nat \ {0}
  PROVE  /\ a \div b \in Nat /\ a % b \in 0 .. b - 1
         /\ a = b * (a \div b) + (a % b)
OBVIOUS

\* As many chunks of b cover a.
LEMMA Covering ==
  ASSUME NEW a \in Nat, NEW b \in Nat \ {0}
  PROVE  Cdiv(a, b) \in Nat /\ a <= b * Cdiv(a, b) /\ b * Cdiv(a, b) < a + b
<1> DEFINE c == a + b - 1
           q == c \div b
           r == c % b
<1>1. c \in Nat /\ c = (a + b) - 1
  OBVIOUS
<1> HIDE DEF c
<1>2. q \in Nat /\ r \in 0 .. b - 1 /\ c = b * q + r
  BY <1>1, Quotient
<1>3. Cdiv(a, b) = q
  BY DEF Cdiv, c
<1> HIDE DEF q, r
<1>4. b * q \in Nat
  BY <1>2
<1> DEFINE p == b * q
<1> HIDE DEF p
<1>5. p \in Nat /\ c = p + r
  BY <1>2, <1>4 DEF p
<1>6. a <= p /\ p < a + b
  BY <1>1, <1>2, <1>5
<1> QED
  BY <1>2, <1>3, <1>6 DEF p

\* No fewer chunks do.
LEMMA CoverLeast ==
  ASSUME NEW a \in Nat, NEW b \in Nat \ {0}, NEW n \in Nat, a <= b * n
  PROVE  Cdiv(a, b) <= n
<1>1. Cdiv(a, b) \in Nat /\ b * Cdiv(a, b) < b * n + b
  <2>1. Cdiv(a, b) \in Nat /\ b * Cdiv(a, b) < a + b
    BY Covering
  <2> DEFINE d == Cdiv(a, b)
  <2> HIDE DEF d
  <2>2. b * d \in Nat /\ b * n \in Nat
    BY <2>1 DEF d
  <2>3. b * d < b * n + b
    BY <2>1, <2>2 DEF d
  <2> QED
    BY <2>1, <2>3 DEF d
<1> DEFINE d == Cdiv(a, b)
<1> HIDE DEF d
<1>2. d \in Nat /\ b * d < b * n + b
  BY <1>1 DEF d
<1>3. b * (n + 1) = b * n + b
  OBVIOUS
<1>4. d >= n + 1 => b * d >= b * (n + 1)
  BY <1>2
<1>5. b * d \in Nat /\ b * n \in Nat
  BY <1>2
<1>6. d <= n
  BY <1>2, <1>3, <1>4, <1>5
<1> QED
  BY <1>6 DEF d

\* More tokens take no fewer chunks.
LEMMA CoverGrows ==
  ASSUME NEW a \in Nat, NEW c \in Nat, NEW b \in Nat \ {0}, a <= c
  PROVE  Cdiv(a, b) <= Cdiv(c, b)
<1>1. Cdiv(c, b) \in Nat /\ c <= b * Cdiv(c, b)
  BY Covering
<1> DEFINE d == Cdiv(c, b)
<1> HIDE DEF d
<1>2. d \in Nat /\ b * d \in Nat /\ c <= b * d
  BY <1>1 DEF d
<1>3. a <= b * d
  BY <1>2
<1>4. Cdiv(a, b) <= d
  BY <1>2, <1>3, CoverLeast
<1> QED
  BY <1>4 DEF d

\* Whole chunks cover what they hold.
LEMMA CoverExact ==
  ASSUME NEW n \in Nat, NEW b \in Nat \ {0}
  PROVE  Cdiv(b * n, b) = n
<1>1. b * n \in Nat
  OBVIOUS
<1> DEFINE p == b * n
           d == Cdiv(p, b)
<1>2. d <= n
  BY <1>1, CoverLeast
<1>3. d \in Nat /\ b * n <= b * d
  BY <1>1, Covering
<1> HIDE DEF d
<1>4. d < n => b * d < b * n
  BY <1>3
<1>5. b * d \in Nat
  BY <1>3
<1>6. d = n
  BY <1>1, <1>2, <1>3, <1>4, <1>5
<1> QED
  BY <1>6 DEF d

-------------------------------------------------------------------------------
(* The order groups are looked up in. *)

\* Ranks in a finite strict linear order number its elements.
Ordered(S, R) ==
  /\ \A x \in S : <<x, x>> \notin R
  /\ \A x, y, z \in S : <<x, y>> \in R /\ <<y, z>> \in R => <<x, z>> \in R
  /\ \A x, y \in S : x = y \/ <<x, y>> \in R \/ <<y, x>> \in R
RankIn(S, R, x) == Cardinality({y \in S : <<y, x>> \in R})

\* In a finite set so ordered the ranks are 0, 1, 2 and so on, once each.
LEMMA RankIs ==
  ASSUME NEW S, IsFiniteSet(S), NEW R, Ordered(S, R)
  PROVE  /\ Cardinality(S) \in Nat
         /\ \A x, y \in S : RankIn(S, R, x) = RankIn(S, R, y) => x = y
         /\ \A x \in S : RankIn(S, R, x) \in 0 .. Cardinality(S) - 1
         /\ \A i \in 0 .. Cardinality(S) - 1 : \E x \in S : RankIn(S, R, x) = i
<1> DEFINE below(x) == {y \in S : <<y, x>> \in R}
           n == Cardinality(S)
           rank == [x \in S |-> RankIn(S, R, x)]
<1>1. n \in Nat
  BY FS_CardinalityType
<1>2. ASSUME NEW x \in S
      PROVE  IsFiniteSet(below(x)) /\ RankIn(S, R, x) \in 0 .. n - 1
  <2> DEFINE T == below(x)
  <2>1. T \in SUBSET S /\ T # S
    BY DEF Ordered
  <2>2. RankIn(S, R, x) = Cardinality(T)
    BY DEF RankIn
  <2> HIDE DEF T
  <2>3. IsFiniteSet(T) /\ Cardinality(T) <= n /\ (n = Cardinality(T) => S = T)
    BY <2>1, FS_Subset
  <2>4. Cardinality(T) \in Nat
    BY <2>3, FS_CardinalityType
  <2>5. Cardinality(T) \in 0 .. n - 1
    BY <1>1, <2>1, <2>3, <2>4
  <2> QED
    BY <2>2, <2>3, <2>5 DEF T
<1>3. ASSUME NEW x \in S, NEW y \in S, <<x, y>> \in R
      PROVE  RankIn(S, R, x) # RankIn(S, R, y)
  <2> DEFINE T == below(x)
             U == below(y)
  <2>1. T \in SUBSET U /\ x \in U /\ x \notin T
    BY <1>3 DEF Ordered
  <2>2. IsFiniteSet(U)
    BY <1>2
  <2>3. RankIn(S, R, x) = Cardinality(T) /\ RankIn(S, R, y) = Cardinality(U)
    BY DEF RankIn
  <2> HIDE DEF T, U
  <2>4. Cardinality(U) = Cardinality(T) => U = T
    BY <2>1, <2>2, FS_Subset
  <2> QED
    BY <2>1, <2>3, <2>4
<1>4. ASSUME NEW x \in S, NEW y \in S, RankIn(S, R, x) = RankIn(S, R, y) PROVE x = y
  <2>1. x = y \/ <<x, y>> \in R \/ <<y, x>> \in R
    BY DEF Ordered
  <2> QED
    BY <1>3, <1>4, <2>1
<1>5. rank \in Injection(S, 0 .. n - 1)
  <2>1. rank \in [S -> 0 .. n - 1]
    BY <1>2
  <2>2. \A x, y \in S : rank[x] = rank[y] => x = y
    BY <1>4
  <2> HIDE DEF rank
  <2> QED
    BY <2>1, <2>2 DEF Injection, IsInjective
<1>6. IsFiniteSet(0 .. n - 1) /\ Cardinality(0 .. n - 1) = n
  <2>1. 0 \in Int /\ n - 1 \in Int
    BY <1>1
  <2> HIDE DEF n
  <2>2. IsFiniteSet(0 .. n - 1) /\ Cardinality(0 .. n - 1) = IF 0 > n - 1 THEN 0 ELSE (n - 1) - 0 + 1
    BY <2>1, FS_Interval
  <2> QED
    BY <1>1, <2>2
<1>7. rank \in Surjection(S, 0 .. n - 1)
  <2> DEFINE I == 0 .. n - 1
  <2>1. IsFiniteSet(I) /\ rank \in Injection(S, I) /\ Cardinality(S) = Cardinality(I)
    BY <1>5, <1>6
  <2> HIDE DEF I, rank
  <2>2. rank \in Surjection(S, I)
    BY <2>1, FS_Injection
  <2> QED
    BY <2>2 DEF I
<1>8. ASSUME NEW i \in 0 .. n - 1 PROVE \E x \in S : RankIn(S, R, x) = i
  <2>1. \E x \in S : rank[x] = i
    <3> HIDE DEF rank
    <3> QED
      BY <1>7 DEF Surjection
  <2> QED
    BY <2>1
<1> QED
  BY <1>1, <1>2, <1>4, <1>8

\* The groups a layout lists.
GroupConfigs == [chunk : Nat \ {0}, window : Nat, eagle : BOOLEAN, skip : BOOLEAN]

\* The groups of a layout are finitely many, and each has its sizes and flags.
LEMMA GroupIs ==
  ASSUME layout \in Seq(GroupConfigs)
  PROVE  /\ IsFiniteSet(DOMAIN layout) /\ DOMAIN layout \subseteq Nat
         /\ \A g \in DOMAIN layout : /\ layout[g].chunk \in Nat \ {0} /\ layout[g].window \in Nat
                                     /\ layout[g].eagle \in BOOLEAN /\ layout[g].skip \in BOOLEAN
<1>1. Len(layout) \in Nat /\ DOMAIN layout = 1 .. Len(layout) /\ \A g \in DOMAIN layout : layout[g] \in GroupConfigs
  OBVIOUS
<1>2. IsFiniteSet(1 .. Len(layout))
  <2> DEFINE n == Len(layout)
  <2>1. 1 \in Int /\ n \in Int
    BY <1>1
  <2> HIDE DEF n
  <2>2. IsFiniteSet(1 .. n)
    BY <2>1, FS_Interval
  <2> QED
    BY <2>2 DEF n
<1> QED
  BY <1>1, <1>2 DEF GroupConfigs

\* Each group to look up has its turn, once.
LEMMA LookingIs ==
  ASSUME layout \in Seq(GroupConfigs), NEW all
  PROVE  Looking(all) \in Seq(Groups) /\ Range(Looking(all)) = LookedUp(all)
<1> DEFINE S == LookedUp(all)
           R == {p \in S \X S : Before(p[1], p[2])}
           n == Cardinality(S)
           f == Looking(all)
<1>1. S \subseteq Groups /\ S \subseteq DOMAIN layout
  BY DEF LookedUp, Groups
<1>2. IsFiniteSet(S)
  <2> HIDE DEF S
  <2> QED
    BY <1>1, GroupIs, FS_Subset
<1>3. \A x, y \in S : <<x, y>> \in R <=> Before(x, y)
  OBVIOUS
<1>4. \A x \in S : x \in Nat /\ layout[x].window \in Nat
  BY <1>1, GroupIs
<1>5. f = [i \in 1 .. n |-> CHOOSE g \in S : Cardinality({h \in S : Before(h, g)}) = i - 1]
  BY DEF Looking
<1>6. \A x \in S : RankIn(S, R, x) = Cardinality({h \in S : Before(h, x)})
  <2> TAKE x \in S
  <2>1. {y \in S : <<y, x>> \in R} = {h \in S : Before(h, x)}
    BY <1>3
  <2> QED
    BY <2>1 DEF RankIn
<1> HIDE DEF S, R, f
<1>7. Ordered(S, R)
  <2>1. \A x \in S : <<x, x>> \notin R
    BY <1>3, <1>4 DEF Before
  <2>2. \A x, y, z \in S : <<x, y>> \in R /\ <<y, z>> \in R => <<x, z>> \in R
    <3> SUFFICES ASSUME NEW x \in S, NEW y \in S, NEW z \in S, Before(x, y), Before(y, z)
                 PROVE  Before(x, z)
      BY <1>3
    <3> QED
      BY <1>4 DEF Before
  <2>3. \A x, y \in S : x = y \/ <<x, y>> \in R \/ <<y, x>> \in R
    <3> SUFFICES ASSUME NEW x \in S, NEW y \in S PROVE x = y \/ Before(x, y) \/ Before(y, x)
      BY <1>3
    <3> QED
      BY <1>4 DEF Before
  <2> QED
    BY <2>1, <2>2, <2>3 DEF Ordered
<1>8. /\ n \in Nat
      /\ \A x, y \in S : RankIn(S, R, x) = RankIn(S, R, y) => x = y
      /\ \A x \in S : RankIn(S, R, x) \in 0 .. n - 1
      /\ \A i \in 0 .. n - 1 : \E x \in S : RankIn(S, R, x) = i
  BY <1>2, <1>7, RankIs
<1> HIDE DEF n
<1>9. ASSUME NEW i \in 1 .. n PROVE f[i] \in S /\ RankIn(S, R, f[i]) = i - 1
  <2>1. i - 1 \in 0 .. n - 1
    BY <1>8
  <2>2. \E x \in S : Cardinality({h \in S : Before(h, x)}) = i - 1
    BY <1>6, <1>8, <2>1
  <2>3. f[i] = CHOOSE g \in S : Cardinality({h \in S : Before(h, g)}) = i - 1
    BY <1>5
  <2>4. f[i] \in S /\ Cardinality({h \in S : Before(h, f[i])}) = i - 1
    BY <2>2, <2>3, Zenon
  <2> QED
    BY <1>6, <2>4
<1>10. DOMAIN f = 1 .. n
  BY <1>5
<1>11. f \in Seq(Groups)
  <2>1. f \in [1 .. n -> Groups]
    BY <1>1, <1>5, <1>9, <1>10
  <2> QED
    BY <1>8, <2>1
<1>12. Range(f) \subseteq S
  BY <1>9, <1>10 DEF Range
<1>13. ASSUME NEW x \in S PROVE x \in Range(f)
  <2> DEFINE i == RankIn(S, R, x) + 1
  <2>1. RankIn(S, R, x) \in 0 .. n - 1
    BY <1>8
  <2>2. i \in 1 .. n /\ i - 1 = RankIn(S, R, x)
    BY <1>8, <2>1
  <2> HIDE DEF i
  <2>3. f[i] = x
    BY <1>8, <1>9, <2>2
  <2> QED
    BY <1>10, <2>2, <2>3 DEF Range
<1> QED
  BY <1>11, <1>12, <1>13 DEF f, S

\* The groups still to come.
LEMMA TailIs ==
  ASSUME NEW X, NEW s \in Seq(X), s # <<>>
  PROVE  /\ Head(s) \in X /\ Tail(s) \in Seq(X) /\ Head(s) \in Range(s)
         /\ \A x \in Range(s) : x = Head(s) \/ x \in Range(Tail(s))
<1>1. /\ Len(s) \in Nat /\ Len(s) >= 1 /\ DOMAIN s = 1 .. Len(s) /\ Head(s) = s[1]
      /\ Head(s) \in X /\ Tail(s) \in Seq(X)
  OBVIOUS
<1>2. /\ DOMAIN Tail(s) = 1 .. Len(s) - 1
      /\ \A i \in 1 .. Len(s) - 1 : Tail(s)[i] = s[i + 1]
  OBVIOUS
<1>3. ASSUME NEW i \in 1 .. Len(s) PROVE s[i] = Head(s) \/ s[i] \in Range(Tail(s))
  <2>1. CASE i = 1
    BY <1>1, <2>1
  <2>2. CASE i # 1
    <3>1. i - 1 \in 1 .. Len(s) - 1 /\ (i - 1) + 1 = i
      BY <1>1, <2>2
    <3>2. Tail(s)[i - 1] = s[i]
      BY <1>2, <3>1
    <3> QED
      BY <1>2, <3>1, <3>2 DEF Range
  <2> QED
    BY <2>1, <2>2
<1> QED
  BY <1>1, <1>3 DEF Range

-------------------------------------------------------------------------------
(* What the two lookups of the tiers find. *)

\* What the tiers may answer.
Answers == Unsure \cap {"hit", "miss"} = {} /\ \A key \in DOMAIN unsure : unsure[key] \in Unsure

\* An answer that is not final comes from the tiers.
LEMMA AnswerIs ==
  ASSUME Answers, NEW key
  PROVE  /\ Answer(key) \in Unsure => DOMAIN unsure # {}
         /\ Answer(key) \notin Unsure => Answer(key) \in {"hit", "miss"}
BY DEF Answers, Answer

\* _maximal_prefix_lookup finds the chunks before the first miss, all of them.
LEMMA PrefixIs ==
  ASSUME Answers, NEW g, NEW from \in Nat, NEW to \in Nat, from <= to, NEW n, n = MaximalPrefix(g, from, to)
  PROVE  \/ n = -1 /\ DOMAIN unsure # {}
         \/ /\ n \in 0 .. to - from
            /\ \A i \in from .. from + n - 1 : Answer(<<g, i>>) = "hit"
            /\ n < to - from => Answer(<<g, from + n>>) = "miss"
<1> DEFINE misses == {i \in from .. to - 1 : Answer(<<g, i>>) = "miss"}
           stop == Min(misses \cup {to})
           seen == from .. stop - 1
<1>1. stop \in misses \cup {to} /\ \A i \in misses \cup {to} : stop <= i
  <2>1. misses \cup {to} \in SUBSET Nat /\ misses \cup {to} # {}
    OBVIOUS
  <2> HIDE DEF misses
  <2> QED
    BY <2>1, Least
<1>2. stop \in from .. to /\ (stop # to => Answer(<<g, stop>>) = "miss")
  BY <1>1
<1>3. \A i \in seen : Answer(<<g, i>>) # "miss"
  <2> HIDE DEF stop
  <2>1. \A i \in seen : i \in misses => FALSE
    BY <1>1, <1>2
  <2> QED
    BY <1>2, <2>1
<1> HIDE DEF stop
<1>4. n = IF \E i \in seen : Answer(<<g, i>>) \in Unsure THEN -1
          ELSE Cardinality({i \in seen : Counts(Answer(<<g, i>>))})
  BY DEF MaximalPrefix, stop
<1>5. CASE \E i \in seen : Answer(<<g, i>>) \in Unsure
  BY <1>4, <1>5, AnswerIs
<1>6. CASE ~ \E i \in seen : Answer(<<g, i>>) \in Unsure
  <2>1. \A i \in seen : Answer(<<g, i>>) = "hit"
    BY <1>3, <1>6, AnswerIs
  <2>2. {i \in seen : Counts(Answer(<<g, i>>))} = seen
    BY <2>1 DEF Counts
  <2>3. Cardinality(seen) = stop - from
    <3>1. from \in Int /\ stop - 1 \in Int
      BY <1>2
    <3>2. Cardinality(from .. stop - 1) = IF from > stop - 1 THEN 0 ELSE (stop - 1) - from + 1
      BY <3>1, FS_Interval
    <3> QED
      BY <1>2, <3>2
  <2>4. n = stop - from
    BY <1>4, <1>6, <2>2, <2>3
  <2>5. from + n = stop /\ from + n - 1 = stop - 1
    BY <1>2, <2>4
  <2> QED
    BY <1>2, <2>1, <2>4, <2>5
<1> QED
  BY <1>5, <1>6

\* _sliding_window_lookup finds the end of the last run of w chunks, or that of the
\* run the range begins with.
LEMMA WindowIs ==
  ASSUME Answers, NEW g, NEW from \in Nat, NEW to \in Nat, from <= to, NEW w \in Nat \ {0},
         NEW n, n = SlidingWindow(g, from, to, w)
  PROVE  \/ n = -1 /\ DOMAIN unsure # {}
         \/ /\ n \in 0 .. to - from
            /\ \A i \in from .. from + n - 1 : i >= from + n - w => Answer(<<g, i>>) = "hit"
            /\ \A e \in from .. to :
                  (\A i \in from .. e - 1 : i >= e - w => Answer(<<g, i>>) = "hit") => e <= from + n
<1> DEFINE hits(a, b) == \A i \in a .. b - 1 : Counts(Answer(<<g, i>>))
           ends == {e \in from + w .. to : hits(e - w, e)}
           runs == {e \in from .. to : hits(from, e)}
           scanned == (IF ends = {} THEN from ELSE Max(ends) - w) .. to - 1
<1>1. n = IF \E i \in scanned : Answer(<<g, i>>) \in Unsure THEN -1
          ELSE IF ends # {} THEN Max(ends) - from ELSE Max(runs) - from
  BY DEF SlidingWindow
<1>2. \A i : Answer(<<g, i>>) \notin Unsure => (Counts(Answer(<<g, i>>)) <=> Answer(<<g, i>>) = "hit")
  BY AnswerIs DEF Counts
<1>3. \A i : Answer(<<g, i>>) = "hit" => Counts(Answer(<<g, i>>))
  BY DEF Counts
<1>4. /\ ends \in SUBSET Int /\ \A e \in ends : e <= to
      /\ runs \in SUBSET Int /\ \A e \in runs : e <= to
      /\ from \in runs
  OBVIOUS
<1>5. CASE \E i \in scanned : Answer(<<g, i>>) \in Unsure
  BY <1>1, <1>5, AnswerIs
<1>6. CASE (~ \E i \in scanned : Answer(<<g, i>>) \in Unsure) /\ ends # {}
  <2> DEFINE E == Max(ends)
  <2>1. E \in ends /\ \A e \in ends : e <= E
    <3> HIDE DEF ends
    <3>1. ends # {} /\ to \in Int
      BY <1>6
    <3> QED
      BY <1>4, <3>1, Greatest
  <2>2. n = E - from /\ scanned = E - w .. to - 1
    BY <1>1, <1>6
  <2>3. E \in from + w .. to /\ hits(E - w, E)
    BY <2>1
  <2>4. \A e \in from + w .. to : hits(e - w, e) => e <= E
    BY <2>1
  <2> HIDE DEF E
  <2>5. \A i \in E - w .. E - 1 : Answer(<<g, i>>) = "hit"
    <3> TAKE i \in E - w .. E - 1
    <3>1. i \in scanned
      <4>1. i \in E - w .. to - 1
        BY <2>3
      <4> HIDE DEF scanned
      <4> QED
        BY <2>2, <4>1
    <3>2. Counts(Answer(<<g, i>>))
      BY <2>3
    <3> QED
      BY <1>2, <1>6, <3>1, <3>2
  <2>6. n \in 0 .. to - from /\ from + n = E
    BY <2>2, <2>3
  <2>7. ASSUME NEW e \in from .. to, \A i \in from .. e - 1 : i >= e - w => Answer(<<g, i>>) = "hit"
        PROVE  e <= E
    <3>1. CASE e >= from + w
      <4>1. e \in from + w .. to
        BY <3>1
      <4>2. \A i \in e - w .. e - 1 : i \in from .. e - 1 /\ i >= e - w
        BY <3>1
      <4>3. hits(e - w, e)
        BY <1>3, <2>7, <4>2
      <4> QED
        BY <2>4, <4>1, <4>3
    <3>2. CASE e < from + w
      BY <2>3, <3>2
    <3> QED
      BY <3>1, <3>2
  <2>8. \A i \in from .. E - 1 : i >= E - w => Answer(<<g, i>>) = "hit"
    BY <2>3, <2>5
  <2>9. \A i \in from .. from + n - 1 : i >= from + n - w => Answer(<<g, i>>) = "hit"
    <3>1. from + n - 1 = E - 1 /\ from + n - w = E - w
      BY <2>3, <2>6
    <3> QED
      BY <2>8, <3>1
  <2> QED
    BY <2>6, <2>7, <2>9
<1>7. CASE (~ \E i \in scanned : Answer(<<g, i>>) \in Unsure) /\ ends = {}
  <2> DEFINE F == Max(runs)
  <2>1. F \in runs /\ \A e \in runs : e <= F
    <3> HIDE DEF runs
    <3>1. runs # {} /\ to \in Int
      BY <1>4
    <3> QED
      BY <1>4, <3>1, Greatest
  <2>2. n = F - from /\ scanned = from .. to - 1
    BY <1>1, <1>7
  <2>3. F \in from .. to /\ hits(from, F)
    BY <2>1
  <2>4. \A e \in from .. to : hits(from, e) => e <= F
    BY <2>1
  <2> HIDE DEF F
  <2>5. \A i \in from .. F - 1 : Answer(<<g, i>>) = "hit"
    <3> TAKE i \in from .. F - 1
    <3>1. i \in scanned
      <4>1. i \in from .. to - 1
        BY <2>3
      <4> HIDE DEF scanned
      <4> QED
        BY <2>2, <4>1
    <3>2. Counts(Answer(<<g, i>>))
      BY <2>3
    <3> QED
      BY <1>2, <1>7, <3>1, <3>2
  <2>6. n \in 0 .. to - from /\ from + n = F
    BY <2>2, <2>3
  <2>7. ASSUME NEW e \in from .. to, \A i \in from .. e - 1 : i >= e - w => Answer(<<g, i>>) = "hit"
        PROVE  e <= F
    <3>1. CASE e >= from + w
      <4>1. e \in from + w .. to
        BY <3>1
      <4>2. \A i \in e - w .. e - 1 : i \in from .. e - 1 /\ i >= e - w
        BY <3>1
      <4>3. hits(e - w, e)
        BY <1>3, <2>7, <4>2
      <4> QED
        BY <1>7, <4>1, <4>3
    <3>2. CASE e < from + w
      <4>1. \A i \in from .. e - 1 : i >= e - w
        BY <3>2
      <4>2. hits(from, e)
        BY <1>3, <2>7, <4>1
      <4> QED
        BY <2>4, <4>2
    <3> QED
      BY <3>1, <3>2
  <2>8. \A i \in from .. from + n - 1 : Answer(<<g, i>>) = "hit"
    <3>1. from + n - 1 = F - 1
      BY <2>3, <2>6
    <3> QED
      BY <2>5, <3>1
  <2> QED
    BY <2>6, <2>7, <2>8
<1> QED
  BY <1>5, <1>6, <1>7

-------------------------------------------------------------------------------
(* What a prefix needs of a group, and the bound a group's keys put on it. *)

\* Products keep the order.
LEMMA Times ==
  ASSUME NEW b \in Nat \ {0}, NEW m \in Int, NEW n \in Int
  PROVE  /\ b * m \in Int /\ b * n \in Int /\ n * b = b * n /\ b * (m + 1) = b * m + b
         /\ (m < n <=> b * m < b * n) /\ (m <= n <=> b * m <= b * n)
<1>1. /\ b * m \in Int /\ b * n \in Int /\ n * b = b * n /\ b * (m + 1) = b * m + b
  OBVIOUS
<1>2. m < n => b * m < b * n
  OBVIOUS
<1>3. n < m => b * n < b * m
  OBVIOUS
<1> QED
  BY <1>1, <1>2, <1>3

\* A lookup that runs or has ended.
LookTypes ==
  look \in [ phase : {"looking", "done"}, tokens : Nat, computed : Nat, max : Nat, hit : Nat,
             todo : Seq(Groups), again : Seq(Groups), slid : BOOLEAN, popped : SUBSET Groups,
             defer : BOOLEAN, result : Nat \cup {-1} ]

\* What a prefix needs of a group, without a case for the window.
First(g) == look.computed \div layout[g].chunk
End(g, t) == Cdiv(t, layout[g].chunk)
\* Served, with the window as a condition on each chunk.
LEMMA ServedIs ==
  ASSUME layout \in Seq(GroupConfigs), LookTypes, NEW g \in Groups, NEW t \in Nat
  PROVE  /\ First(g) \in Nat /\ End(g, t) \in Nat /\ Keys(g) \in Nat
         /\ Served(g, t) <=> /\ End(g, t) <= Keys(g)
                             /\ \A i \in First(g) .. End(g, t) - 1 :
                                   layout[g].window = 0 \/ i >= End(g, t) - layout[g].window
                                   => Answer(<<g, i>>) = "hit"
<1> DEFINE c == layout[g].chunk
           w == layout[g].window
           f == look.computed \div c
           e == Cdiv(t, c)
           start == IF w = 0 THEN f ELSE Max({f, e - w})
<1>1. c \in Nat \ {0} /\ w \in Nat /\ look.computed \in Nat /\ look.tokens \in Nat
  BY GroupIs DEF Groups, LookTypes
<1> HIDE DEF c, w
<1>2. f \in Nat /\ look.tokens \div c \in Nat
  BY <1>1, Quotient
<1>3. e \in Nat
  BY <1>1, Covering
<1> HIDE DEF f, e
<1>4. Served(g, t) <=> e <= Keys(g) /\ \A i \in start .. e - 1 : Answer(<<g, i>>) = "hit"
  BY DEF Served, c, w, f, e
<1>5. start = IF w = 0 THEN f ELSE IF f <= e - w THEN e - w ELSE f
  <2> DEFINE d == e - w
  <2>1. d \in Int /\ f \in Int
    BY <1>1, <1>2, <1>3
  <2> HIDE DEF d
  <2>2. Max({f, d}) = IF f <= d THEN d ELSE f
    BY <2>1, OfTwo
  <2> QED
    BY <2>2 DEF d
<1> HIDE DEF start
<1>6. \A i : i \in start .. e - 1 <=> i \in f .. e - 1 /\ (w = 0 \/ i >= e - w)
  BY <1>1, <1>2, <1>3, <1>5
<1> QED
  BY <1>2, <1>3, <1>4, <1>6 DEF First, End, Keys, c, w, f, e

\* The bound a group's keys put on the prefix, in chunks of c.
LEMMA Bounded ==
  ASSUME NEW c \in Nat \ {0}, NEW x \in Nat, NEW m \in Nat, NEW k \in Nat, NEW b \in Int,
         b = IF m <= k * c THEN m ELSE k * c, b - x >= c
  PROVE  /\ b \in Nat /\ b <= m /\ b <= c * k
         /\ x \div c < Cdiv(b, c) /\ Cdiv(b, c) <= k
         /\ \A t \in Nat : t <= m /\ Cdiv(t, c) <= k => t <= b
<1> DEFINE f == x \div c
           e == Cdiv(b, c)
<1>1. f \in Nat /\ x % c \in 0 .. c - 1 /\ x = c * f + (x % c)
  BY Quotient
<1> HIDE DEF f
<1>2. c * f \in Nat /\ c * k \in Nat /\ k * c = c * k
  BY <1>1
<1>3. c * f + c <= b /\ b \in Nat /\ b <= m /\ b <= c * k
  BY <1>1, <1>2
<1>4. e \in Nat /\ b <= c * e
  BY <1>3, Covering
<1>5. e <= k
  BY <1>3, CoverLeast
<1> HIDE DEF e
<1>6. f < e
  <2>1. e <= f => c * e <= c * f
    BY <1>1, <1>4
  <2>2. c * e \in Nat
    BY <1>4
  <2> QED
    BY <1>1, <1>2, <1>3, <1>4, <2>1, <2>2
<1>7. ASSUME NEW t \in Nat, t <= m, Cdiv(t, c) <= k PROVE t <= b
  <2> DEFINE d == Cdiv(t, c)
  <2>1. d \in Nat /\ t <= c * d /\ d <= k
    BY <1>7, Covering
  <2> HIDE DEF d
  <2>2. c * d <= c * k /\ c * d \in Nat
    BY <2>1
  <2> QED
    BY <1>2, <1>7, <2>1, <2>2
<1> QED
  BY <1>3, <1>5, <1>6, <1>7 DEF e, f

\* The bound of _lookup's loop for a group.
LEMMA RangeIs ==
  ASSUME layout \in Seq(GroupConfigs), LookTypes, NEW g \in Groups, NEW c, c = layout[g].chunk,
         NEW bound, bound = Min({look.max, Keys(g) * c}), bound - look.computed >= c
  PROVE  /\ bound \in Nat /\ c \in Nat \ {0} /\ bound <= look.max /\ bound <= c * Keys(g)
         /\ First(g) < End(g, bound) /\ End(g, bound) <= Keys(g)
         /\ \A t \in Nat : t <= look.max /\ End(g, t) <= Keys(g) => t <= bound
<1>1. c \in Nat \ {0} /\ look.computed \in Nat /\ look.tokens \in Nat /\ look.max \in Nat
  BY GroupIs DEF Groups, LookTypes
<1> DEFINE k == Keys(g)
<1>2. k \in Nat
  BY <1>1, Quotient DEF Keys
<1> HIDE DEF k
<1>3. k * c \in Int
  BY <1>1, <1>2
<1>4. bound = (IF look.max <= k * c THEN look.max ELSE k * c) /\ bound \in Int
  <2> DEFINE p == k * c
  <2>1. bound = Min({look.max, p}) /\ p \in Int /\ look.max \in Int
    BY <1>1, <1>3 DEF k
  <2> HIDE DEF p
  <2>2. bound = (IF look.max <= p THEN look.max ELSE p) /\ bound \in Int
    BY <2>1, OfTwo
  <2> QED
    BY <2>2 DEF p
<1>5. /\ bound \in Nat /\ bound <= look.max /\ bound <= c * k
      /\ look.computed \div c < Cdiv(bound, c) /\ Cdiv(bound, c) <= k
      /\ \A t \in Nat : t <= look.max /\ Cdiv(t, c) <= k => t <= bound
  <2> DEFINE x == look.computed
             m == look.max
  <2>1. x \in Nat /\ m \in Nat /\ bound = (IF m <= k * c THEN m ELSE k * c) /\ bound - x >= c
    BY <1>1, <1>4
  <2> HIDE DEF x, m
  <2>2. /\ bound \in Nat /\ bound <= m /\ bound <= c * k
        /\ x \div c < Cdiv(bound, c) /\ Cdiv(bound, c) <= k
        /\ \A t \in Nat : t <= m /\ Cdiv(t, c) <= k => t <= bound
    BY <1>1, <1>2, <1>4, <2>1, Bounded, Zenon
  <2> QED
    BY <2>2 DEF x, m
<1> QED
  BY <1>1, <1>5 DEF End, First, k

\* The part of a bound that is kept when e chunks are confirmed.
LEMMA KeptIs ==
  ASSUME NEW c \in Nat \ {0}, NEW b \in Nat, NEW e \in Nat, e <= Cdiv(b, c)
  PROVE  /\ Min({b, c * e}) \in Nat /\ Min({b, c * e}) <= b /\ Cdiv(Min({b, c * e}), c) = e
         /\ \A t \in Nat : t <= b /\ Cdiv(t, c) <= e => t <= Min({b, c * e})
<1> DEFINE m == Min({b, c * e})
<1>1. c * e \in Nat
  OBVIOUS
<1>2. m = IF b <= c * e THEN b ELSE c * e
  <2> DEFINE p == c * e
  <2>1. p \in Int /\ b \in Int
    BY <1>1
  <2> HIDE DEF p
  <2>2. Min({b, p}) = IF b <= p THEN b ELSE p
    BY <2>1, OfTwo
  <2> QED
    BY <2>2 DEF p
<1> HIDE DEF m
<1>3. Cdiv(m, c) = e
  <2>1. CASE b <= c * e
    <3>1. Cdiv(b, c) \in Nat /\ Cdiv(b, c) <= e /\ m = b
      BY <1>2, <2>1, Covering, CoverLeast
    <3> HIDE DEF Cdiv
    <3> QED
      BY <3>1
  <2>2. CASE ~(b <= c * e)
    BY <1>2, <2>2, CoverExact
  <2> QED
    BY <2>1, <2>2
<1>4. m \in Nat /\ m <= b
  BY <1>1, <1>2
<1>5. ASSUME NEW t \in Nat, t <= b, Cdiv(t, c) <= e PROVE t <= m
  <2> DEFINE d == Cdiv(t, c)
  <2>1. d \in Nat /\ t <= c * d /\ d <= e
    BY <1>5, Covering
  <2> HIDE DEF d
  <2>2. c * d <= c * e /\ c * d \in Nat
    BY <2>1
  <2> QED
    BY <1>1, <1>2, <1>5, <2>1, <2>2
<1> QED
  BY <1>3, <1>4, <1>5 DEF m

\* One chunk more for an eagle group, if there is one.
LEMMA QueryIs ==
  ASSUME NEW c \in Nat \ {0}, NEW b \in Nat, NEW k \in Nat, b <= c * k, NEW more \in BOOLEAN,
         NEW query, query = IF more THEN Min({b + c, k * c}) ELSE b
  PROVE  /\ Cdiv(query, c) \in Nat /\ Cdiv(b, c) <= Cdiv(query, c)
         /\ Cdiv(query, c) <= Cdiv(b, c) + (IF more THEN 1 ELSE 0)
<1> DEFINE p == k * c
           e == Cdiv(b, c)
<1>1. p \in Int /\ b + c \in Int /\ p = c * k
  OBVIOUS
<1>2. e \in Nat /\ b <= c * e
  BY Covering
<1>3. CASE more
  <2>1. query = IF b + c <= p THEN b + c ELSE p
    <3> HIDE DEF p
    <3>1. Min({b + c, p}) = IF b + c <= p THEN b + c ELSE p
      BY <1>1, OfTwo
    <3> QED
      BY <1>3, <3>1 DEF p
  <2>2. query \in Nat /\ b <= query /\ query <= b + c
    BY <1>1, <2>1
  <2> HIDE DEF e
  <2>3. c * (e + 1) = c * e + c /\ c * e \in Nat
    BY <1>2
  <2>4. query <= c * (e + 1)
    BY <1>2, <2>2, <2>3
  <2>5. Cdiv(query, c) <= e + 1
    BY <1>2, <2>2, <2>4, CoverLeast
  <2>6. Cdiv(query, c) \in Nat /\ Cdiv(b, c) <= Cdiv(query, c)
    BY <2>2, Covering, CoverGrows
  <2> QED
    BY <1>3, <2>5, <2>6 DEF e
<1>4. CASE ~more
  <2> HIDE DEF e
  <2> QED
    BY <1>2, <1>4 DEF e
<1> QED
  BY <1>3, <1>4

\* The last chunk asked for.
LEMMA UpTo ==
  ASSUME NEW q \in Nat, NEW k \in Nat, NEW e \in Nat, NEW d \in Nat, e <= q, e <= k, q <= e + d
  PROVE  Min({q, k}) \in Nat /\ e <= Min({q, k}) /\ Min({q, k}) <= e + d
<1> DEFINE m == Min({q, k})
<1>1. m = IF q <= k THEN q ELSE k
  BY OfTwo
<1> HIDE DEF m
<1>2. m \in Nat /\ e <= m /\ m <= e + d
  BY <1>1
<1> QED
  BY <1>2 DEF m

\* What is kept of a prefix of hits, and that nothing longer is one.
LEMMA PrefixKept ==
  ASSUME NEW hits \in SUBSET Nat, NEW f \in Nat, NEW e \in Nat, f <= e, NEW n \in 0 .. e - f,
         NEW drop \in {0, 1}, \A i \in f .. f + n - 1 : i \in hits, n < e - f => f + n \notin hits
  PROVE  /\ n # 0 => /\ n - drop \in Nat /\ f + (n - drop) <= e
                     /\ \A i \in f .. f + (n - drop) - 1 : i \in hits
         /\ \A h \in Nat : h <= e /\ (\A i \in f .. h - 1 : i \in hits) => h <= f + n
<1>1. ASSUME NEW h \in Nat, h <= e, \A i \in f .. h - 1 : i \in hits PROVE h <= f + n
  <2>1. CASE h > f + n
    <3>1. f + n \in f .. h - 1 /\ n < e - f
      BY <1>1, <2>1
    <3> QED
      BY <1>1, <3>1
  <2> QED
    BY <2>1
<1> QED
  BY <1>1

\* The same of a window that ends a run of hits.
LEMMA WindowKept ==
  ASSUME NEW hits \in SUBSET Nat, NEW f \in Nat, NEW e \in Nat, NEW to \in Nat, f <= e, e <= to,
         NEW drop \in {0, 1}, to <= e + drop, NEW w \in Nat, NEW n \in 0 .. to - f,
         \A i \in f .. f + n - 1 : i >= f + n - (w + drop) => i \in hits,
         \A h \in f .. to : (\A i \in f .. h - 1 : i >= h - (w + drop) => i \in hits) => h <= f + n
  PROVE  /\ n # 0 => /\ n - drop \in Nat /\ f + (n - drop) <= e
                     /\ \A i \in f .. f + (n - drop) - 1 : i >= f + (n - drop) - w => i \in hits
         /\ drop = 0 => \A h \in Nat : h <= e /\ (\A i \in f .. h - 1 : i >= h - w => i \in hits)
                                       => h <= f + n
<1>1. ASSUME drop = 0, NEW h \in Nat, h <= e, \A i \in f .. h - 1 : i >= h - w => i \in hits
      PROVE  h <= f + n
  <2>1. CASE h >= f
    <3>1. h \in f .. to /\ w + drop = w
      BY <1>1, <2>1
    <3> QED
      BY <1>1, <3>1
  <2> QED
    BY <2>1
<1>2. ASSUME n # 0, NEW i \in f .. f + (n - drop) - 1, i >= f + (n - drop) - w PROVE i \in hits
  <2>1. i \in f .. f + n - 1 /\ i >= f + n - (w + drop)
    BY <1>2
  <2> QED
    BY <2>1
<1>3. n # 0 => n - drop \in Nat /\ f + (n - drop) <= e
  OBVIOUS
<1> QED
  BY <1>1, <1>2, <1>3

\* The chunks of a group the tiers hold.
Held(g) == {i \in Nat : Answer(<<g, i>>) = "hit"}

\* A prefix of whole chunks, cut to the bound, is served when its chunks are held.
LEMMA KeptServes ==
  ASSUME layout \in Seq(GroupConfigs), LookTypes, NEW g \in Groups, NEW b \in Nat,
         End(g, b) <= Keys(g), NEW h \in Nat, h <= End(g, b),
         \A i \in First(g) .. h - 1 : layout[g].window = 0 \/ i >= h - layout[g].window => i \in Held(g)
  PROVE  /\ Min({b, layout[g].chunk * h}) \in Nat /\ Min({b, layout[g].chunk * h}) <= b
         /\ Served(g, Min({b, layout[g].chunk * h}))
         /\ \A t \in Nat : t <= b /\ End(g, t) <= h => t <= Min({b, layout[g].chunk * h})
<1> DEFINE c == layout[g].chunk
           m == Min({b, c * h})
<1>1. c \in Nat \ {0}
  BY GroupIs DEF Groups
<1>2. h <= Cdiv(b, c)
  BY DEF End
<1> HIDE DEF c
<1>3. /\ m \in Nat /\ m <= b /\ Cdiv(m, c) = h
      /\ \A t \in Nat : t <= b /\ Cdiv(t, c) <= h => t <= m
  BY <1>1, <1>2, KeptIs, Zenon
<1> HIDE DEF m
<1>4. End(g, m) = h /\ \A t : End(g, t) = Cdiv(t, c)
  BY <1>3 DEF End, c
<1>5. Keys(g) \in Nat /\ End(g, b) \in Nat /\ First(g) \in Nat
  BY ServedIs
<1>6. End(g, m) <= Keys(g)
  BY <1>4, <1>5
<1>7. \A i \in First(g) .. h - 1 : layout[g].window = 0 \/ i >= h - layout[g].window
                                   => Answer(<<g, i>>) = "hit"
  BY DEF Held
<1>8. Served(g, m)
  <2>1. Served(g, m) <=> /\ End(g, m) <= Keys(g)
                         /\ \A i \in First(g) .. End(g, m) - 1 :
                               layout[g].window = 0 \/ i >= End(g, m) - layout[g].window
                               => Answer(<<g, i>>) = "hit"
    BY <1>3, ServedIs, Zenon
  <2> QED
    BY <1>4, <1>6, <1>7, <2>1, Zenon
<1> QED
  BY <1>3, <1>4, <1>8 DEF m, c

\* The range of chunks _lookup's loop asks a group for.
LEMMA AskedIs ==
  ASSUME layout \in Seq(GroupConfigs), LookTypes, NEW g \in Groups, NEW bound \in Nat,
         bound <= layout[g].chunk * Keys(g), NEW more \in BOOLEAN, NEW query,
         query = IF more THEN Min({bound + layout[g].chunk, Keys(g) * layout[g].chunk}) ELSE bound
  PROVE  LET to == Min({Cdiv(query, layout[g].chunk), Keys(g)})
         IN  /\ to \in Nat /\ End(g, bound) <= to
             /\ to <= End(g, bound) + (IF more THEN 1 ELSE 0)
<1> DEFINE c == layout[g].chunk
           k == Keys(g)
           e == End(g, bound)
           q == Cdiv(query, c)
           d == IF more THEN 1 ELSE 0
<1>1. c \in Nat \ {0}
  BY GroupIs DEF Groups
<1>2. k \in Nat /\ e \in Nat
  BY ServedIs
<1>3. e = Cdiv(bound, c)
  BY DEF End
<1>4. bound <= c * k /\ query = IF more THEN Min({bound + c, k * c}) ELSE bound
  OBVIOUS
<1> HIDE DEF c, k
<1>5. q \in Nat /\ Cdiv(bound, c) <= q /\ q <= Cdiv(bound, c) + d
  BY <1>1, <1>2, <1>4, QueryIs, Zenon
<1>6. e <= k
  BY <1>1, <1>2, <1>3, <1>4, CoverLeast
<1> HIDE DEF e, q
<1>7. d \in Nat
  OBVIOUS
<1> HIDE DEF d
<1>8. e <= q /\ q <= e + d
  BY <1>3, <1>5, Zenon
<1>9. Min({q, k}) \in Nat /\ e <= Min({q, k}) /\ Min({q, k}) <= e + d
  BY <1>2, <1>5, <1>6, <1>7, <1>8, UpTo, Zenon
<1> QED
  BY <1>9 DEF q, k, e, d, c

\* What a group serves of a prefix, in terms of what is held.
LEMMA ServedHeld ==
  ASSUME layout \in Seq(GroupConfigs), LookTypes, NEW g \in Groups, NEW b \in Nat,
         NEW t \in Nat, t <= b, Served(g, t)
  PROVE  /\ End(g, t) \in Nat /\ End(g, t) <= End(g, b) /\ End(g, t) <= Keys(g)
         /\ \A i \in First(g) .. End(g, t) - 1 :
               layout[g].window = 0 \/ i >= End(g, t) - layout[g].window => i \in Held(g)
<1>1. /\ End(g, t) \in Nat /\ First(g) \in Nat /\ End(g, t) <= Keys(g)
      /\ \A i \in First(g) .. End(g, t) - 1 :
            layout[g].window = 0 \/ i >= End(g, t) - layout[g].window => Answer(<<g, i>>) = "hit"
  BY ServedIs, Zenon
<1>2. layout[g].chunk \in Nat \ {0}
  BY GroupIs DEF Groups
<1>3. End(g, t) <= End(g, b)
  BY <1>2, CoverGrows DEF End
<1>4. \A i \in First(g) .. End(g, t) - 1 : i \in Nat
  BY <1>1
<1> QED
  BY <1>1, <1>3, <1>4 DEF Held

-------------------------------------------------------------------------------
(* What one group confirms. *)

\* The chunks a prefix lookup confirms are held, and no more follow.
LEMMA PrefixHeld ==
  ASSUME Answers, NEW g, NEW f \in Nat, NEW e \in Nat, f <= e, NEW drop \in {0, 1},
         NEW n, n = MaximalPrefix(g, f, e)
  PROVE  \/ n = -1 /\ DOMAIN unsure # {}
         \/ /\ n \in Nat
            /\ n # 0 => /\ n - drop \in Nat /\ f + (n - drop) <= e
                        /\ \A i \in f .. f + (n - drop) - 1 : i \in Held(g)
            /\ \A h \in Nat : h <= e /\ (\A i \in f .. h - 1 : i \in Held(g)) => h <= f + n
<1> DEFINE hits == Held(g)
<1>1. hits \in SUBSET Nat /\ \A i \in Nat : i \in hits <=> Answer(<<g, i>>) = "hit"
  BY DEF Held
<1> HIDE DEF hits
<1>2. \/ n = -1 /\ DOMAIN unsure # {}
      \/ /\ n \in 0 .. e - f
         /\ \A i \in f .. f + n - 1 : Answer(<<g, i>>) = "hit"
         /\ n < e - f => Answer(<<g, f + n>>) = "miss"
  BY PrefixIs, ZenonT(40)
<1>3. CASE /\ n \in 0 .. e - f
           /\ \A i \in f .. f + n - 1 : Answer(<<g, i>>) = "hit"
           /\ n < e - f => Answer(<<g, f + n>>) = "miss"
  <2>1. (\A i \in f .. f + n - 1 : i \in Nat) /\ f + n \in Nat /\ n \in Nat
    BY <1>3
  <2>2. (\A i \in f .. f + n - 1 : i \in hits) /\ (n < e - f => f + n \notin hits)
    BY <1>1, <1>3, <2>1
  <2>3. /\ n # 0 => /\ n - drop \in Nat /\ f + (n - drop) <= e
                    /\ \A i \in f .. f + (n - drop) - 1 : i \in hits
        /\ \A h \in Nat : h <= e /\ (\A i \in f .. h - 1 : i \in hits) => h <= f + n
    BY <1>1, <1>3, <2>2, PrefixKept, Zenon
  <2> QED
    BY <2>1, <2>3 DEF hits
<1> QED
  BY <1>2, <1>3

\* What a sliding-window group confirms, by the chunks that are held.
WindowAnswer(g, f, e, drop, w, n) ==
  \/ n = -1 /\ DOMAIN unsure # {}
  \/ /\ n \in Nat
     /\ n # 0 => /\ n - drop \in Nat /\ f + (n - drop) <= e
                 /\ \A i \in f .. f + (n - drop) - 1 : i >= f + (n - drop) - w => i \in Held(g)
     /\ drop = 0 => \A h \in Nat : h <= e /\ (\A i \in f .. h - 1 : i >= h - w => i \in Held(g))
                                   => h <= f + n

\* _sliding_window_lookup finds such an answer when asked for as many chunks more as
\* are dropped.
LEMMA WindowAnswers ==
  ASSUME Answers, NEW g, NEW f \in Nat, NEW e \in Nat, f <= e, NEW drop \in {0, 1},
         NEW to \in Nat, e <= to, to <= e + drop, NEW w \in Nat \ {0},
         NEW v, v = w + drop, NEW n, n = SlidingWindow(g, f, to, v)
  PROVE  WindowAnswer(g, f, e, drop, w, n)
<1> DEFINE hits == Held(g)
<1>1. hits \in SUBSET Nat /\ \A i \in Nat : i \in hits <=> Answer(<<g, i>>) = "hit"
  BY DEF Held
<1>2. v \in Nat \ {0} /\ f <= to /\ n = SlidingWindow(g, f, to, v)
  OBVIOUS
<1> HIDE DEF hits
<1>3. \/ n = -1 /\ DOMAIN unsure # {}
      \/ /\ n \in 0 .. to - f
         /\ \A i \in f .. f + n - 1 : i >= f + n - v => Answer(<<g, i>>) = "hit"
         /\ \A h \in f .. to :
               (\A i \in f .. h - 1 : i >= h - v => Answer(<<g, i>>) = "hit") => h <= f + n
  BY <1>2, WindowIs
<1>4. CASE /\ n \in 0 .. to - f
           /\ \A i \in f .. f + n - 1 : i >= f + n - v => Answer(<<g, i>>) = "hit"
           /\ \A h \in f .. to :
                 (\A i \in f .. h - 1 : i >= h - v => Answer(<<g, i>>) = "hit") => h <= f + n
  <2>1. (\A i \in f .. f + n - 1 : i \in Nat) /\ n \in Nat /\ \A h \in f .. to : \A i \in f .. h - 1 : i \in Nat
    BY <1>4
  <2>2. /\ \A i \in f .. f + n - 1 : i >= f + n - v => i \in hits
        /\ \A h \in f .. to : (\A i \in f .. h - 1 : i >= h - v => i \in hits) => h <= f + n
    BY <1>1, <1>4, <2>1, Zenon
  <2>3. /\ \A i \in f .. f + n - 1 : i >= f + n - (w + drop) => i \in hits
        /\ \A h \in f .. to : (\A i \in f .. h - 1 : i >= h - (w + drop) => i \in hits) => h <= f + n
    BY <2>2, Zenon
  <2>4. /\ n # 0 => /\ n - drop \in Nat /\ f + (n - drop) <= e
                    /\ \A i \in f .. f + (n - drop) - 1 : i >= f + (n - drop) - w => i \in hits
        /\ drop = 0 => \A h \in Nat : h <= e /\ (\A i \in f .. h - 1 : i >= h - w => i \in hits)
                                      => h <= f + n
    <3>1. w \in Nat /\ n \in 0 .. to - f
      BY <1>4
    <3> QED
      BY <1>1, <2>3, <3>1, WindowKept
  <2> QED
    BY <2>1, <2>4 DEF hits, WindowAnswer
<1> QED
  <2>1. CASE n = -1 /\ DOMAIN unsure # {}
    BY <2>1 DEF WindowAnswer
  <2> QED
    BY <1>3, <1>4, <2>1

\* The body of _lookup's loop: the bound a group starts with, the chunks asked for,
\* those confirmed, those kept, and the bound that leaves.
Fresh(g) == layout[g].eagle /\ g \notin look.popped
Bound(g) == Min({look.max, Keys(g) * layout[g].chunk})
More(g) == Fresh(g) /\ layout[g].window > 0
Drop(g) == IF Fresh(g) THEN 1 ELSE 0
Query(g) == IF More(g) THEN Min({Bound(g) + layout[g].chunk, Keys(g) * layout[g].chunk}) ELSE Bound(g)
To(g) == Min({Cdiv(Query(g), layout[g].chunk), Keys(g)})
Found(g) == IF layout[g].window = 0 THEN MaximalPrefix(g, First(g), To(g))
            ELSE SlidingWindow(g, First(g), To(g), layout[g].window + Drop(g))
Kept(g) == IF Fresh(g) THEN Found(g) - 1 ELSE Found(g)
Cut(g) == Min({Bound(g), layout[g].chunk * (First(g) + Kept(g))})

\* A group that gains a chunk has a bound within its keys, no prefix it serves goes past
\* it, and the range asked for ends with the bound or one chunk later.
LEMMA BoundIs ==
  ASSUME layout \in Seq(GroupConfigs), LookTypes, NEW g \in Groups,
         Bound(g) - look.computed >= layout[g].chunk
  PROVE  /\ Bound(g) \in Nat /\ Bound(g) <= look.max
         /\ First(g) \in Nat /\ End(g, Bound(g)) \in Nat /\ First(g) <= End(g, Bound(g))
         /\ End(g, Bound(g)) <= Keys(g)
         /\ \A t \in Nat : t <= look.max /\ Served(g, t) => t <= Bound(g)
         /\ To(g) \in Nat /\ End(g, Bound(g)) <= To(g) /\ To(g) <= End(g, Bound(g)) + Drop(g)
         /\ layout[g].window = 0 => To(g) = End(g, Bound(g))
<1> DEFINE c == layout[g].chunk
           e == End(g, Bound(g))
           w == layout[g].window
<1>1. c = layout[g].chunk /\ Bound(g) = Min({look.max, Keys(g) * c}) /\ Bound(g) - look.computed >= c
  BY DEF Bound
<1>2. w \in Nat
  BY GroupIs DEF Groups
<1> HIDE DEF c, w
<1>3. /\ Bound(g) \in Nat /\ Bound(g) <= look.max /\ Bound(g) <= c * Keys(g)
      /\ First(g) < e /\ e <= Keys(g)
      /\ \A t \in Nat : t <= look.max /\ End(g, t) <= Keys(g) => t <= Bound(g)
  BY <1>1, RangeIs
<1>4. First(g) \in Nat /\ e \in Nat
  BY <1>3, ServedIs
<1> HIDE DEF e
<1>5. To(g) \in Nat /\ e <= To(g) /\ To(g) <= e + (IF More(g) THEN 1 ELSE 0)
  <2>1. More(g) \in BOOLEAN /\ Query(g) = IF More(g) THEN Min({Bound(g) + c, Keys(g) * c}) ELSE Bound(g)
    BY DEF More, Query, c
  <2>2. LET up == Min({Cdiv(Query(g), c), Keys(g)})
        IN  up \in Nat /\ e <= up /\ up <= e + (IF More(g) THEN 1 ELSE 0)
    BY <1>3, <2>1, AskedIs DEF c, e
  <2> QED
    BY <2>2 DEF To, c
<1>6. (w = 0 => ~More(g)) /\ (More(g) => Drop(g) = 1) /\ Drop(g) \in {0, 1}
  BY <1>2 DEF More, Drop, w
<1>7. To(g) <= e + Drop(g) /\ (w = 0 => To(g) = e)
  BY <1>4, <1>5, <1>6
<1>8. ASSUME NEW t \in Nat, t <= look.max, Served(g, t) PROVE t <= Bound(g)
  <2>1. End(g, t) <= Keys(g)
    BY <1>8, ServedIs, Zenon
  <2> QED
    BY <1>3, <1>8, <2>1, Zenon
<1>9. First(g) <= e
  BY <1>3, <1>4
<1> QED
  BY <1>3, <1>4, <1>5, <1>7, <1>8, <1>9 DEF e, w

\* What a full-attention group confirms.
LEMMA FullFinds ==
  ASSUME layout \in Seq(GroupConfigs), LookTypes, Answers, NEW g \in Groups, layout[g].window = 0,
         NEW b \in Nat, First(g) <= End(g, b), NEW drop \in {0, 1},
         NEW n, n = MaximalPrefix(g, First(g), End(g, b))
  PROVE  \/ n = -1 /\ DOMAIN unsure # {}
         \/ /\ n \in Nat
            /\ n # 0 => /\ n - drop \in Nat /\ First(g) + (n - drop) <= End(g, b)
                        /\ \A i \in First(g) .. First(g) + (n - drop) - 1 : i \in Held(g)
            /\ \A t \in Nat : t <= b /\ Served(g, t) => End(g, t) <= First(g) + n
<1> DEFINE f == First(g)
           e == End(g, b)
           hits == Held(g)
<1>1. f \in Nat /\ e \in Nat
  BY ServedIs
<1>3. f <= e /\ n = MaximalPrefix(g, f, e)
  OBVIOUS
<1> HIDE DEF f, e, hits
<1>4. \/ n = -1 /\ DOMAIN unsure # {}
      \/ /\ n \in Nat
         /\ n # 0 => /\ n - drop \in Nat /\ f + (n - drop) <= e
                     /\ \A i \in f .. f + (n - drop) - 1 : i \in hits
         /\ \A h \in Nat : h <= e /\ (\A i \in f .. h - 1 : i \in hits) => h <= f + n
  BY <1>1, <1>3, PrefixHeld DEF hits
<1>5. ASSUME n # -1, NEW t \in Nat, t <= b, Served(g, t) PROVE End(g, t) <= f + n
  <2>1. End(g, t) \in Nat /\ End(g, t) <= e /\ \A i \in f .. End(g, t) - 1 : i \in hits
    BY <1>5, ServedHeld DEF f, e, hits
  <2> QED
    BY <1>4, <1>5, <2>1, Zenon
<1> QED
  BY <1>4, <1>5 DEF f, e, hits

\* The same, by the prefixes that are served.
LEMMA WindowFinds ==
  ASSUME layout \in Seq(GroupConfigs), LookTypes, Answers, NEW g \in Groups, layout[g].window # 0,
         NEW b \in Nat, First(g) <= End(g, b), NEW drop \in {0, 1},
         NEW to \in Nat, End(g, b) <= to, to <= End(g, b) + drop,
         NEW n, n = SlidingWindow(g, First(g), to, layout[g].window + drop)
  PROVE  \/ n = -1 /\ DOMAIN unsure # {}
         \/ /\ n \in Nat
            /\ n # 0 => /\ n - drop \in Nat /\ First(g) + (n - drop) <= End(g, b)
                        /\ \A i \in First(g) .. First(g) + (n - drop) - 1 :
                              i >= First(g) + (n - drop) - layout[g].window => i \in Held(g)
            /\ drop = 0 => \A t \in Nat : t <= b /\ Served(g, t) => End(g, t) <= First(g) + n
<1> DEFINE f == First(g)
           e == End(g, b)
           hits == Held(g)
           w == layout[g].window
           v == w + drop
<1>1. f \in Nat /\ e \in Nat
  BY ServedIs
<1>2. w \in Nat \ {0}
  BY GroupIs DEF Groups
<1>3. f <= e /\ e <= to /\ to <= e + drop /\ n = SlidingWindow(g, f, to, v) /\ v = w + drop
  OBVIOUS
<1> HIDE DEF f, e, hits, w, v
<1>4. WindowAnswer(g, f, e, drop, w, n)
  BY <1>1, <1>2, <1>3, WindowAnswers, Zenon
<1>5. \/ n = -1 /\ DOMAIN unsure # {}
      \/ /\ n \in Nat
         /\ n # 0 => /\ n - drop \in Nat /\ f + (n - drop) <= e
                     /\ \A i \in f .. f + (n - drop) - 1 : i >= f + (n - drop) - w => i \in hits
         /\ drop = 0 => \A h \in Nat : h <= e /\ (\A i \in f .. h - 1 : i >= h - w => i \in hits)
                                       => h <= f + n
  BY <1>4, Zenon DEF WindowAnswer, hits
<1>6. ASSUME n # -1, drop = 0, NEW t \in Nat, t <= b, Served(g, t) PROVE End(g, t) <= f + n
  <2>1. End(g, t) \in Nat /\ End(g, t) <= e /\ \A i \in f .. End(g, t) - 1 : i >= End(g, t) - w => i \in hits
    BY <1>6, ServedHeld DEF f, e, hits, w
  <2> QED
    BY <1>5, <1>6, <2>1, Zenon
<1> QED
  BY <1>5, <1>6 DEF f, e, hits, w

\* What the group confirms of that range is held, as far as it is kept.
LEMMA FoundIs ==
  ASSUME layout \in Seq(GroupConfigs), LookTypes, Answers, NEW g \in Groups,
         Bound(g) - look.computed >= layout[g].chunk
  PROVE  \/ Found(g) = -1 /\ DOMAIN unsure # {}
         \/ /\ Found(g) \in Nat
            /\ Found(g) # 0 =>
                  /\ Kept(g) \in Nat /\ First(g) + Kept(g) <= End(g, Bound(g))
                  /\ \A i \in First(g) .. First(g) + Kept(g) - 1 :
                        layout[g].window = 0 \/ i >= First(g) + Kept(g) - layout[g].window => i \in Held(g)
            /\ Drop(g) = 0 => /\ Kept(g) = Found(g)
                              /\ \A t \in Nat : t <= Bound(g) /\ Served(g, t) => End(g, t) <= First(g) + Found(g)
<1> DEFINE b == Bound(g)
           n == Found(g)
           w == layout[g].window
<1>1. /\ b \in Nat /\ First(g) \in Nat /\ End(g, b) \in Nat /\ First(g) <= End(g, b)
      /\ To(g) \in Nat /\ End(g, b) <= To(g) /\ To(g) <= End(g, b) + Drop(g)
      /\ w = 0 => To(g) = End(g, b)
  BY BoundIs
<1>2. Drop(g) \in {0, 1} /\ (n \in Nat => Kept(g) = n - Drop(g)) /\ (Drop(g) = 0 => Kept(g) = n)
  BY DEF Drop, Kept
<1> HIDE DEF b, n
<1>3. CASE w = 0
  <2>1. n = MaximalPrefix(g, First(g), End(g, b))
    BY <1>1, <1>3 DEF Found, n
  <2>2. \/ n = -1 /\ DOMAIN unsure # {}
        \/ /\ n \in Nat
           /\ n # 0 => /\ n - Drop(g) \in Nat /\ First(g) + (n - Drop(g)) <= End(g, b)
                       /\ \A i \in First(g) .. First(g) + (n - Drop(g)) - 1 : i \in Held(g)
           /\ \A t \in Nat : t <= b /\ Served(g, t) => End(g, t) <= First(g) + n
    BY <1>1, <1>2, <1>3, <2>1, FullFinds
  <2> QED
    BY <1>2, <2>2, Zenon DEF b, n
<1>4. CASE w # 0
  <2>1. n = SlidingWindow(g, First(g), To(g), w + Drop(g))
    BY <1>4 DEF Found, n
  <2>2. \/ n = -1 /\ DOMAIN unsure # {}
        \/ /\ n \in Nat
           /\ n # 0 => /\ n - Drop(g) \in Nat /\ First(g) + (n - Drop(g)) <= End(g, b)
                       /\ \A i \in First(g) .. First(g) + (n - Drop(g)) - 1 :
                             i >= First(g) + (n - Drop(g)) - w => i \in Held(g)
           /\ Drop(g) = 0 => \A t \in Nat : t <= b /\ Served(g, t) => End(g, t) <= First(g) + n
    BY <1>1, <1>2, <1>4, <2>1, WindowFinds
  <2>3. CASE n = -1 /\ DOMAIN unsure # {}
    BY <2>3 DEF n
  <2>4. CASE ~(n = -1 /\ DOMAIN unsure # {})
    <3>1. n \in Nat /\ Kept(g) = n - Drop(g)
      BY <1>2, <2>2, <2>4, Zenon
    <3>2. n # 0 => /\ Kept(g) \in Nat /\ First(g) + Kept(g) <= End(g, b)
                   /\ \A i \in First(g) .. First(g) + Kept(g) - 1 :
                         i >= First(g) + Kept(g) - w => i \in Held(g)
      BY <2>2, <2>4, <3>1
    <3>3. Drop(g) = 0 => \A t \in Nat : t <= b /\ Served(g, t) => End(g, t) <= First(g) + n
      BY <2>2, <2>4, Zenon
    <3> QED
      BY <1>2, <1>4, <3>1, <3>2, <3>3, Zenon DEF b, n
  <2> QED
    BY <2>3, <2>4
<1> QED
  BY <1>3, <1>4

\* A prefix of confirmed chunks, cut to the bound, is served.
LEMMA FoundServes ==
  ASSUME layout \in Seq(GroupConfigs), LookTypes, NEW g \in Groups, NEW bound \in Nat, NEW kept \in Nat,
         NEW f \in Nat, f = First(g), NEW w \in Nat, w = layout[g].window, NEW c, c = layout[g].chunk,
         NEW e, e = End(g, bound), e <= Keys(g), f + kept <= e,
         \A i \in f .. f + kept - 1 : w = 0 \/ i >= f + kept - w => i \in Held(g)
  PROVE  /\ Min({bound, c * (f + kept)}) \in Nat /\ Min({bound, c * (f + kept)}) <= bound
         /\ Served(g, Min({bound, c * (f + kept)}))
         /\ \A t \in Nat : t <= bound /\ End(g, t) <= f + kept => t <= Min({bound, c * (f + kept)})
<1> DEFINE h == f + kept
<1>1. /\ h \in Nat /\ h <= End(g, bound) /\ End(g, bound) <= Keys(g)
      /\ \A i \in First(g) .. h - 1 : layout[g].window = 0 \/ i >= h - layout[g].window => i \in Held(g)
  <2>1. h \in Nat
    OBVIOUS
  <2>2. \A i \in f .. h - 1 : w = 0 \/ i >= h - w => i \in Held(g)
    OBVIOUS
  <2> HIDE DEF h
  <2>3. \A i \in First(g) .. h - 1 : layout[g].window = 0 \/ i >= h - layout[g].window => i \in Held(g)
    BY <2>2, Zenon
  <2> QED
    BY <2>1, <2>3 DEF h
<1> HIDE DEF h
<1>2. /\ Min({bound, layout[g].chunk * h}) \in Nat /\ Min({bound, layout[g].chunk * h}) <= bound
      /\ Served(g, Min({bound, layout[g].chunk * h}))
      /\ \A t \in Nat : t <= bound /\ End(g, t) <= h => t <= Min({bound, layout[g].chunk * h})
  BY <1>1, KeptServes, Zenon
<1> QED
  BY <1>2 DEF h

\* The bound that is kept, whatever number of chunks was confirmed.
LEMMA FoundKeeps ==
  ASSUME layout \in Seq(GroupConfigs), LookTypes, NEW g \in Groups, NEW bound \in Nat,
         End(g, bound) <= Keys(g), NEW n \in Nat, NEW kept, NEW drop,
         n # 0 => /\ kept \in Nat /\ First(g) + kept <= End(g, bound)
                  /\ \A i \in First(g) .. First(g) + kept - 1 :
                        layout[g].window = 0 \/ i >= First(g) + kept - layout[g].window => i \in Held(g),
         drop = 0 => /\ kept = n
                     /\ \A t \in Nat : t <= bound /\ Served(g, t) => End(g, t) <= First(g) + n
  PROVE  LET m == Min({bound, layout[g].chunk * (First(g) + kept)})
         IN  /\ n # 0 => m \in Nat /\ m <= bound /\ Served(g, m)
             /\ drop = 0 /\ n # 0 => \A t \in Nat : t <= bound /\ Served(g, t) => t <= m
<1> DEFINE m == Min({bound, layout[g].chunk * (First(g) + kept)})
           f == First(g)
           w == layout[g].window
           c == layout[g].chunk
           e == End(g, bound)
<1>0. f \in Nat /\ w \in Nat
  BY ServedIs, GroupIs DEF Groups
<1> SUFFICES ASSUME n # 0
             PROVE  /\ m \in Nat /\ m <= bound /\ Served(g, m)
                    /\ drop = 0 => \A t \in Nat : t <= bound /\ Served(g, t) => t <= m
  OBVIOUS
<1>1. /\ kept \in Nat /\ f + kept <= e /\ e <= Keys(g)
      /\ \A i \in f .. f + kept - 1 : w = 0 \/ i >= f + kept - w => i \in Held(g)
  OBVIOUS
<1>2. f = First(g) /\ w = layout[g].window /\ c = layout[g].chunk /\ e = End(g, bound)
      /\ m = Min({bound, c * (f + kept)})
  OBVIOUS
<1> HIDE DEF f, w, c, e, m
<1>3. /\ Min({bound, c * (f + kept)}) \in Nat /\ Min({bound, c * (f + kept)}) <= bound
      /\ Served(g, Min({bound, c * (f + kept)}))
      /\ \A t \in Nat : t <= bound /\ End(g, t) <= f + kept => t <= Min({bound, c * (f + kept)})
  BY <1>0, <1>1, <1>2, FoundServes
<1> QED
  BY <1>2, <1>3 DEF f, m

\* What a group confirms is held as far as it is kept, and of a group that keeps
\* all nothing longer is.
LEMMA GroupFound ==
  ASSUME layout \in Seq(GroupConfigs), LookTypes, Answers, NEW g \in Groups,
         Bound(g) - look.computed >= layout[g].chunk
  PROVE  \/ Found(g) = -1 /\ DOMAIN unsure # {}
         \/ /\ Found(g) \in Nat
            /\ Found(g) # 0 => Cut(g) \in Nat /\ Cut(g) <= Bound(g) /\ Served(g, Cut(g))
            /\ ~Fresh(g) => \A t \in Nat : t <= look.max /\ Served(g, t) =>
                               /\ End(g, t) <= First(g) + Found(g)
                               /\ Found(g) # 0 => t <= Cut(g)
<1>1. /\ Bound(g) \in Nat /\ End(g, Bound(g)) <= Keys(g)
      /\ \A t \in Nat : t <= look.max /\ Served(g, t) => t <= Bound(g)
  BY BoundIs
<1>2. ~Fresh(g) => Drop(g) = 0
  BY DEF Drop
<1>3. CASE Found(g) = -1 /\ DOMAIN unsure # {}
  BY <1>3
<1>4. CASE ~(Found(g) = -1 /\ DOMAIN unsure # {})
  <2>1. /\ Found(g) \in Nat
        /\ Found(g) # 0 =>
              /\ Kept(g) \in Nat /\ First(g) + Kept(g) <= End(g, Bound(g))
              /\ \A i \in First(g) .. First(g) + Kept(g) - 1 :
                    layout[g].window = 0 \/ i >= First(g) + Kept(g) - layout[g].window => i \in Held(g)
        /\ Drop(g) = 0 => /\ Kept(g) = Found(g)
                          /\ \A t \in Nat : t <= Bound(g) /\ Served(g, t) => End(g, t) <= First(g) + Found(g)
    BY <1>4, FoundIs, Zenon
  <2>2. /\ Found(g) # 0 => Cut(g) \in Nat /\ Cut(g) <= Bound(g) /\ Served(g, Cut(g))
        /\ Drop(g) = 0 /\ Found(g) # 0 => \A t \in Nat : t <= Bound(g) /\ Served(g, t) => t <= Cut(g)
    BY <1>1, <2>1, FoundKeeps DEF Cut
  <2> QED
    BY <1>1, <1>2, <2>1, <2>2, Zenon
<1> QED
  BY <1>3, <1>4

-------------------------------------------------------------------------------
(* The body of the loop over groups. *)

\* What the loop's body leaves of the bound, and what it sets aside.
Tight(g) == IF Found(g) = -1 THEN Bound(g) ELSE Cut(g)
Gain(g) == Tight(g) - look.computed
Lower(g) == Gain(g) < look.hit
Defers(g) == look.defer \/ Found(g) = -1

\* LookUpGroup in these terms.
LEMMA StepIs ==
  ASSUME LookUpGroup, NEW g, g = Head(look.todo)
  PROVE  \/ Bound(g) - look.computed < layout[g].chunk /\ Return(0)
         \/ ~(Bound(g) - look.computed < layout[g].chunk) /\ TightenBy(g, Bound(g), Found(g))
<1> DEFINE chunk == layout[g].chunk
           bound == Min({look.max, Keys(g) * chunk})
           fresh == layout[g].eagle /\ g \notin look.popped
           query == IF fresh /\ layout[g].window > 0
                    THEN Min({bound + chunk, Keys(g) * chunk}) ELSE bound
           from == look.computed \div chunk
           to == Min({Cdiv(query, chunk), Keys(g)})
           found == IF layout[g].window = 0 THEN MaximalPrefix(g, from, to)
                    ELSE SlidingWindow(g, from, to, layout[g].window + (IF fresh THEN 1 ELSE 0))
<1>1. IF bound - look.computed < chunk THEN Return(0) ELSE TightenBy(g, bound, found)
  BY Zenon DEF LookUpGroup
<1>2. bound = Bound(g) /\ (fresh <=> Fresh(g)) /\ from = First(g) /\ chunk = layout[g].chunk
  BY Zenon DEF Bound, Fresh, First
<1> HIDE DEF bound, fresh, from
<1>3. query = Query(g)
  BY <1>2, Zenon DEF Query, More
<1> HIDE DEF query
<1>4. to = To(g)
  BY <1>3, Zenon DEF To
<1> HIDE DEF to
<1>5. (IF fresh THEN 1 ELSE 0) = Drop(g)
  BY <1>2, Zenon DEF Drop
<1>6. found = Found(g)
  BY <1>2, <1>4, <1>5, Zenon DEF Found
<1> HIDE DEF found, chunk
<1> QED
  BY <1>1, <1>2, <1>6, Zenon

\* TightenBy in these terms.
LEMMA TightenIs ==
  ASSUME NEW g, TightenBy(g, Bound(g), Found(g))
  PROVE  \/ (Found(g) = 0 \/ Gain(g) < layout[g].chunk) /\ Return(0)
         \/ /\ ~(Found(g) = 0 \/ Gain(g) < layout[g].chunk)
            /\ \E popped \in {look.popped, look.popped \cup {g}}, kept \in BOOLEAN :
                  look' = [look EXCEPT
                     !.max = Tight(g), !.hit = Gain(g), !.todo = Tail(look.todo),
                     !.slid = look.slid \/ layout[g].window > 0,
                     !.popped = IF kept THEN {} ELSE popped,
                     !.defer = Defers(g) /\ ~Lower(g),
                     !.again = IF Lower(g) /\ Defers(g) THEN Looking(TRUE)
                               ELSE IF Lower(g) /\ look.slid /\ look.again = <<>> THEN Looking(FALSE)
                               ELSE look.again]
<1> DEFINE bound == Bound(g)
           found == Found(g)
           fresh == layout[g].eagle /\ g \notin look.popped
           chunk == layout[g].chunk
           first == look.computed \div chunk
           kept == IF fresh THEN found - 1 ELSE found
           max == IF found = -1 THEN bound ELSE Min({bound, chunk * (first + kept)})
           gain == max - look.computed
           lower == gain < look.hit
           defer == look.defer \/ found = -1
           popped == (IF fresh /\ found # -1 THEN look.popped \cup {g} ELSE look.popped)
           clear == lower /\ ~layout[g].eagle
<1>1. IF found = 0 \/ gain < chunk THEN Return(0)
        ELSE look' = [look EXCEPT
                !.max = max, !.hit = gain, !.todo = Tail(@),
                !.slid = @ \/ layout[g].window > 0,
                !.popped = IF clear THEN {} ELSE popped,
                !.defer = defer /\ ~lower,
                !.again = IF lower /\ defer THEN Looking(TRUE)
                          ELSE IF lower /\ look.slid /\ @ = <<>> THEN Looking(FALSE)
                          ELSE @]
  BY Zenon DEF TightenBy
<1>2. kept = Kept(g)
  BY Zenon DEF Kept, Fresh
<1> HIDE DEF kept
<1>3. max = Tight(g)
  BY <1>2, Zenon DEF Tight, Cut, First
<1> HIDE DEF max
<1>4. gain = Gain(g)
  BY <1>3, Zenon DEF Gain
<1> HIDE DEF gain
<1>5. (lower <=> Lower(g)) /\ (defer <=> Defers(g))
  BY <1>4, Zenon DEF Lower, Defers
<1>6. popped \in {look.popped, look.popped \cup {g}} /\ clear \in BOOLEAN
  OBVIOUS
<1> HIDE DEF lower, defer, popped, clear
<1>7. CASE found = 0 \/ gain < chunk
  BY <1>1, <1>4, <1>7, Zenon
<1>8. CASE ~(found = 0 \/ gain < chunk)
  <2>1. look' = [look EXCEPT
                !.max = max, !.hit = gain, !.todo = Tail(look.todo),
                !.slid = look.slid \/ layout[g].window > 0,
                !.popped = IF clear THEN {} ELSE popped,
                !.defer = defer /\ ~lower,
                !.again = IF lower /\ defer THEN Looking(TRUE)
                          ELSE IF lower /\ look.slid /\ look.again = <<>> THEN Looking(FALSE)
                          ELSE look.again]
    BY <1>1, <1>8, Zenon
  <2>2. (defer /\ ~lower) = (Defers(g) /\ ~Lower(g))
    BY <1>5, Zenon
  <2>3. (IF lower /\ defer THEN Looking(TRUE)
         ELSE IF lower /\ look.slid /\ look.again = <<>> THEN Looking(FALSE) ELSE look.again)
        = (IF Lower(g) /\ Defers(g) THEN Looking(TRUE)
           ELSE IF Lower(g) /\ look.slid /\ look.again = <<>> THEN Looking(FALSE) ELSE look.again)
    BY <1>5, Zenon
  <2>4. look' = [look EXCEPT
                     !.max = Tight(g), !.hit = Gain(g), !.todo = Tail(look.todo),
                     !.slid = look.slid \/ layout[g].window > 0,
                     !.popped = IF clear THEN {} ELSE popped,
                     !.defer = Defers(g) /\ ~Lower(g),
                     !.again = IF Lower(g) /\ Defers(g) THEN Looking(TRUE)
                               ELSE IF Lower(g) /\ look.slid /\ look.again = <<>> THEN Looking(FALSE)
                               ELSE look.again]
    BY <1>3, <1>4, <2>1, <2>2, <2>3, Zenon
  <2> QED
    BY <1>4, <1>6, <1>8, <2>4, Zenon
<1> QED
  BY <1>7, <1>8

-------------------------------------------------------------------------------
(* What the loop keeps true. *)

\* The sliding windows to look up, and when every answer is final and no chunk is
\* dropped for the speculator.
Slides == {g \in Groups : layout[g].window > 0}
Certain == DOMAIN unsure = {} /\ \A g \in Groups : ~layout[g].eagle

\* While groups are looked up: what still comes covers every group the bound does
\* not suit, and no bound falls below a prefix that every group serves.
Right ==
  look.phase = "looking" =>
    /\ look.max <= Cap
    /\ \/ look.hit = look.max - look.computed /\ look.hit > 0
       \/ look.hit = 0 /\ Groups \subseteq Range(look.todo)
    /\ ~look.slid => Slides \subseteq Range(look.todo)
    /\ look.again = <<>> \/ Slides \subseteq Range(look.again)
    /\ \A g \in Groups : \/ g \in Range(look.todo) \/ g \in Range(look.again) \/ look.defer
                         \/ Served(g, look.max)
    /\ look.defer => DOMAIN unsure # {}
    /\ Certain => \A t \in Candidates : t <= look.max

\* What the loop leaves as it is.
Same == /\ UNCHANGED <<layout, unsure, present>>
        /\ look'.tokens = look.tokens /\ look'.computed = look.computed

\* What depends on that alone is the same.
LEMMA SameIs ==
  ASSUME Same
  PROVE  /\ Groups' = Groups /\ Slides' = Slides /\ Cap' = Cap /\ Certain' = Certain
         /\ \A g, t : Served(g, t)' <=> Served(g, t)
         /\ \A g : Served(g, look.max)' <=> Served(g, look'.max)
         /\ \A g : Served(g, look.computed + look.result)' <=> Served(g, look'.computed + look'.result)
         /\ Candidates' = Candidates /\ Largest' = Largest
<1>1. Groups' = Groups /\ Slides' = Slides /\ Certain' = Certain /\ Largest' = Largest
  BY DEF Same, Groups, Slides, Certain, Largest
<1>2. Cap' = Cap
  BY DEF Same, Cap
<1>3. \A key : Answer(key)' = Answer(key)
  BY DEF Same, Answer
<1>4. \A g : Keys(g)' = Keys(g)
  BY DEF Same, Keys
<1>5. \A g, t : Served(g, t)' <=> Served(g, t)
  BY <1>3, <1>4 DEF Same, Served
<1>6. \A g : Served(g, look.max)' <=> Served(g, look'.max)
  BY <1>3, <1>4 DEF Same, Served
<1>7. \A t : Loadable(t)' <=> Loadable(t)
  BY <1>1, <1>5 DEF Loadable
<1>8. Candidates' = Candidates
  BY <1>2, <1>7 DEF Candidates, Same
<1>9. \A g : Served(g, look.computed + look.result)' <=> Served(g, look'.computed + look'.result)
  BY <1>3, <1>4 DEF Same, Served
<1> QED
  BY <1>1, <1>2, <1>5, <1>6, <1>8, <1>9

\* Full attention serves the prefixes of what it serves.
LEMMA ServedLess ==
  ASSUME layout \in Seq(GroupConfigs), LookTypes, NEW g \in Groups, layout[g].window = 0,
         NEW m \in Nat, Served(g, m), NEW t \in Nat, t <= m
  PROVE  Served(g, t)
<1>1. /\ End(g, m) \in Nat /\ Keys(g) \in Nat /\ First(g) \in Nat /\ End(g, m) <= Keys(g)
      /\ \A i \in First(g) .. End(g, m) - 1 : Answer(<<g, i>>) = "hit"
  BY ServedIs
<1>2. layout[g].chunk \in Nat \ {0}
  BY GroupIs DEF Groups
<1>3. End(g, t) \in Nat /\ End(g, t) <= End(g, m)
  BY <1>2, Covering, CoverGrows DEF End
<1>4. End(g, t) <= Keys(g) /\ \A i \in First(g) .. End(g, t) - 1 : Answer(<<g, i>>) = "hit"
  BY <1>1, <1>3
<1> QED
  BY <1>4, ServedIs

\* What LookUpGroup leaves when it goes on.
Tightened(g) ==
  /\ look.phase = "looking" /\ look'.phase = "looking"
  /\ look'.max = Tight(g) /\ look'.hit = Gain(g) /\ look'.todo = Tail(look.todo)
  /\ look'.slid = (look.slid \/ layout[g].window > 0)
  /\ look'.defer = (Defers(g) /\ ~Lower(g))
  /\ look'.again = IF Lower(g) /\ Defers(g) THEN Looking(TRUE)
                   ELSE IF Lower(g) /\ look.slid /\ look.again = <<>> THEN Looking(FALSE)
                   ELSE look.again

\* What the group looked up says of the new bound.
Confirmed(g) ==
  \/ Found(g) = -1 /\ DOMAIN unsure # {}
  \/ /\ Found(g) # -1 /\ Served(g, Tight(g))
     /\ ~Fresh(g) => \A t \in Nat : t <= look.max /\ Served(g, t) => t <= Tight(g)

\* One turn of the loop: each condition of Right holds again.
LEMMA TightenKeeps ==
  ASSUME layout \in Seq(GroupConfigs), LookTypes, Right, Same, NEW g \in Groups,
         look.todo # <<>>, g = Head(look.todo), Tightened(g), Confirmed(g),
         Tight(g) \in Nat, Tight(g) <= look.max, Gain(g) > 0
  PROVE  Right'
<1> DEFINE m == Tight(g)
<1>1. /\ look.tokens \in Nat /\ look.computed \in Nat /\ look.max \in Nat /\ look.hit \in Nat
      /\ look.todo \in Seq(Groups) /\ look.again \in Seq(Groups)
      /\ look.slid \in BOOLEAN /\ look.defer \in BOOLEAN
  BY DEF LookTypes
<1>2. /\ look.max <= Cap
      /\ \/ look.hit = look.max - look.computed /\ look.hit > 0
         \/ look.hit = 0 /\ Groups \subseteq Range(look.todo)
      /\ ~look.slid => Slides \subseteq Range(look.todo)
      /\ look.again = <<>> \/ Slides \subseteq Range(look.again)
      /\ \A h \in Groups : \/ h \in Range(look.todo) \/ h \in Range(look.again) \/ look.defer
                           \/ Served(h, look.max)
      /\ look.defer => DOMAIN unsure # {}
      /\ Certain => \A t \in Candidates : t <= look.max
  BY DEF Right, Tightened
<1>3. /\ g \in Range(look.todo)
      /\ \A x \in Range(look.todo) : x = g \/ x \in Range(Tail(look.todo))
  BY <1>1, TailIs, Zenon
<1>4. /\ Groups' = Groups /\ Slides' = Slides /\ Cap' = Cap /\ Certain' = Certain
      /\ \A h : Served(h, look.max)' <=> Served(h, m)
      /\ Candidates' = Candidates
  BY SameIs DEF Tightened
<1>5. Range(Looking(TRUE)) = Groups /\ Range(Looking(FALSE)) = Slides
  <2>1. LookedUp(TRUE) = Groups /\ LookedUp(FALSE) = Slides
    BY DEF LookedUp, Slides
  <2> QED
    BY <2>1, LookingIs, Zenon
<1>6. Cap \in Int
  BY <1>1 DEF Cap
<1>7. m \in Nat /\ m <= look.max /\ Gain(g) = m - look.computed /\ look'.max = m
  BY DEF Gain, Tightened
<1>8. Lower(g) \/ look.hit = 0 \/ m = look.max
  <2> HIDE DEF m
  <2> SUFFICES ASSUME ~Lower(g), look.hit # 0 PROVE m = look.max
    OBVIOUS
  <2>1. ~(Gain(g) < look.hit)
    BY DEF Lower
  <2> QED
    BY <1>1, <1>2, <1>7, <2>1
<1>9. look.hit = 0 => ~Lower(g)
  BY <1>1, <1>7 DEF Lower
<1> HIDE DEF m
<1>11. look'.max <= Cap'
  BY <1>1, <1>2, <1>4, <1>6, <1>7
<1>12. look'.hit = look'.max - look'.computed /\ look'.hit > 0
  BY <1>7 DEF Same, Tightened
<1>13. ~look'.slid => Slides \subseteq Range(look'.todo)
  <2> SUFFICES ASSUME ~look'.slid, NEW h \in Slides PROVE h \in Range(look'.todo)
    OBVIOUS
  <2>1. ~look.slid /\ ~(layout[g].window > 0)
    BY DEF Tightened
  <2>2. h # g
    BY <2>1 DEF Slides
  <2> QED
    BY <1>2, <1>3, <2>1, <2>2 DEF Tightened
<1>14. look'.again = <<>> \/ Slides \subseteq Range(look'.again)
  <2>1. Slides \subseteq Groups
    BY DEF Slides
  <2> QED
    BY <1>2, <1>5, <2>1 DEF Tightened
<1>15. ASSUME NEW h \in Groups
       PROVE  \/ h \in Range(look'.todo) \/ h \in Range(look'.again) \/ look'.defer
              \/ Served(h, m)
  <2>1. CASE h \in Range(Tail(look.todo))
    BY <2>1 DEF Tightened
  <2>2. CASE Lower(g) /\ Defers(g)
    BY <1>5, <2>2 DEF Tightened
  <2>3. CASE ~Lower(g) /\ Defers(g)
    BY <2>3 DEF Tightened
  <2>4. CASE ~Defers(g) /\ h = g
    BY <2>4 DEF Defers, Confirmed, m
  <2>5. CASE ~Defers(g) /\ h # g /\ h \notin Range(Tail(look.todo))
    <3>1. h \notin Range(look.todo) /\ ~look.defer
      BY <1>3, <2>5 DEF Defers
    <3>2. h \in Range(look.again) \/ Served(h, look.max)
      BY <1>2, <3>1
    <3>3. CASE h \in Range(look.again)
      <4>1. look.again # <<>>
        BY <3>3 DEF Range
      <4> QED
        BY <2>5, <3>3, <4>1 DEF Tightened
    <3>4. CASE Served(h, look.max)
      <4>1. CASE layout[h].window = 0
        BY <1>1, <1>7, <3>4, <4>1, ServedLess
      <4>2. CASE layout[h].window # 0
        <5>1. h \in Slides
          <6>1. layout[h].window \in Nat
            BY GroupIs DEF Groups
          <6> QED
            BY <4>2, <6>1 DEF Slides
        <5>2. look.slid
          BY <1>2, <3>1, <5>1
        <5>3. look.hit # 0
          BY <1>2, <3>1
        <5>4. CASE Lower(g)
          BY <1>2, <1>5, <2>5, <5>1, <5>2, <5>4 DEF Tightened
        <5>5. CASE ~Lower(g)
          BY <1>8, <3>4, <5>3, <5>5
        <5> QED
          BY <5>4, <5>5
      <4> QED
        BY <4>1, <4>2
    <3> QED
      BY <3>2, <3>3, <3>4
  <2> QED
    BY <2>1, <2>2, <2>3, <2>4, <2>5
<1>16. look'.defer => DOMAIN unsure' # {}
  BY <1>2 DEF Tightened, Defers, Confirmed, Same
<1>17. Certain => \A t \in Candidates : t <= m
  <2> SUFFICES ASSUME Certain, NEW t \in Candidates PROVE t <= m
    OBVIOUS
  <2>1. t \in look.computed + 1 .. Cap /\ Served(g, t) /\ t <= look.max
    BY <1>2 DEF Candidates, Loadable
  <2>2. t \in Nat
    BY <1>1, <1>6, <2>1
  <2>3. ~Fresh(g) /\ Found(g) # -1
    BY DEF Certain, Fresh, Confirmed
  <2> QED
    BY <2>1, <2>2, <2>3 DEF Confirmed, m
<1>18. Certain' => \A t \in Candidates' : t <= look'.max
  BY <1>4, <1>7, <1>17
<1>19. \A h \in Groups' : h \in Range(look'.todo) \/ h \in Range(look'.again) \/ look'.defer \/ Served(h, look.max)'
  BY <1>4, <1>15
<1>20. ~look'.slid => Slides' \subseteq Range(look'.todo)
  BY <1>4, <1>13
<1>21. look'.again = <<>> \/ Slides' \subseteq Range(look'.again)
  BY <1>4, <1>14
<1> QED
  BY <1>11, <1>12, <1>16, <1>18, <1>19, <1>20, <1>21, Zenon DEF Right

-------------------------------------------------------------------------------
(* Lookups that find nothing. *)

\* No prefix a group serves goes past the bound its keys put.
LEMMA BoundCovers ==
  ASSUME layout \in Seq(GroupConfigs), LookTypes, NEW g \in Groups,
         NEW t \in Nat, t <= look.max, Served(g, t)
  PROVE  t <= Bound(g)
<1> DEFINE c == layout[g].chunk
           k == Keys(g)
           e == End(g, t)
           p == k * c
           m == look.max
<1>1. c \in Nat \ {0} /\ m \in Nat
  BY GroupIs DEF Groups, LookTypes
<1>2. e \in Nat /\ k \in Nat /\ e <= k
  BY ServedIs
<1>3. t <= c * e
  BY <1>1, Covering DEF End
<1> HIDE DEF c, k, e
<1>4. c * e <= c * k /\ c * e \in Nat /\ p \in Int /\ p = c * k
  BY <1>1, <1>2
<1> HIDE DEF p, m
<1>5. Min({m, p}) = IF m <= p THEN m ELSE p
  BY <1>1, <1>4, OfTwo
<1>6. Bound(g) = Min({m, p})
  BY DEF Bound, m, p, c, k
<1>7. c * k \in Int
  BY <1>4
<1>8. t <= p
  <2> DEFINE x == c * e
             y == c * k
  <2>1. t <= x /\ x <= y /\ x \in Int /\ y \in Int /\ p = y
    BY <1>3, <1>4
  <2> HIDE DEF x, y
  <2> QED
    BY <2>1
<1>9. t <= m
  BY DEF m
<1> QED
  BY <1>5, <1>6, <1>8, <1>9

\* Chunks have a largest size.
LEMMA ChunksBounded ==
  ASSUME layout \in Seq(GroupConfigs)
  PROVE  \E n \in Nat : \A g \in DOMAIN layout : layout[g].chunk <= n
<1> DEFINE Fits(k) == \E n \in Nat : \A g \in 1 .. k : layout[g].chunk <= n
           bad == {k \in Nat : k <= Len(layout) /\ ~Fits(k)}
<1>1. Len(layout) \in Nat /\ DOMAIN layout = 1 .. Len(layout)
  OBVIOUS
<1>2. \A g \in 1 .. Len(layout) : layout[g].chunk \in Nat
  BY <1>1, GroupIs
<1>3. ASSUME bad # {} PROVE FALSE
  <2> DEFINE k == Min(bad)
  <2>1. k \in bad /\ \A x \in bad : k <= x
    <3>1. bad \in SUBSET Nat
      OBVIOUS
    <3> HIDE DEF bad
    <3> QED
      BY <1>3, <3>1, Least
  <2> HIDE DEF k
  <2>2. k # 0
    <3>1. Fits(0)
      <4>1. \A g \in 1 .. 0 : layout[g].chunk <= 0
        OBVIOUS
      <4> QED
        BY <4>1
    <3> QED
      BY <2>1, <3>1
  <2>3. k - 1 \in Nat /\ k - 1 <= Len(layout) /\ ~(k <= k - 1)
    BY <1>1, <2>1, <2>2
  <2>4. Fits(k - 1)
    BY <2>1, <2>3
  <2>5. PICK n \in Nat : \A g \in 1 .. k - 1 : layout[g].chunk <= n
    BY <2>4
  <2>6. k \in 1 .. Len(layout) /\ k \in Nat
    BY <1>1, <2>1, <2>2
  <2>7. layout[k].chunk \in Nat
    BY <1>2, <2>6
  <2> DEFINE top == n + layout[k].chunk
  <2>8. top \in Nat /\ n <= top /\ layout[k].chunk <= top
    BY <2>7
  <2>9. ASSUME NEW g \in 1 .. k PROVE layout[g].chunk <= top
    <3>1. CASE g = k
      BY <2>8, <3>1
    <3>2. CASE g # k
      <4>1. g \in 1 .. k - 1 /\ g \in 1 .. Len(layout)
        BY <1>1, <2>6, <3>2
      <4>2. layout[g].chunk <= n /\ layout[g].chunk \in Nat
        BY <1>2, <2>5, <4>1
      <4> QED
        BY <2>8, <4>2
    <3> QED
      BY <3>1, <3>2
  <2>10. Fits(k)
    BY <2>8, <2>9
  <2> QED
    BY <2>1, <2>10
<1>4. Fits(Len(layout))
  <2> HIDE DEF Fits
  <2>1. Len(layout) \in bad \/ Fits(Len(layout))
    BY <1>1
  <2> QED
    BY <1>3, <2>1
<1> QED
  BY <1>1, <1>4

\* The largest chunk is one of the chunks.
LEMMA LargestIs ==
  ASSUME layout \in Seq(GroupConfigs), Groups # {}
  PROVE  /\ Largest \in Nat /\ \A g \in Groups : layout[g].chunk <= Largest
         /\ \E g \in Groups : Largest = layout[g].chunk
<1> DEFINE S == {layout[g].chunk : g \in Groups}
<1>1. PICK n \in Nat : \A g \in DOMAIN layout : layout[g].chunk <= n
  BY ChunksBounded
<1>2. S \in SUBSET Nat /\ S # {} /\ \A x \in S : x <= n
  BY <1>1, GroupIs DEF Groups
<1>3. /\ Largest = Max(S) /\ \A g \in Groups : layout[g].chunk \in S
      /\ \A x \in S : \E g \in Groups : x = layout[g].chunk
  BY DEF Largest
<1> HIDE DEF S
<1>4. n \in Int /\ S \in SUBSET Int
  BY <1>2
<1>5. Max(S) \in S /\ \A x \in S : x <= Max(S)
  BY <1>2, <1>4, Greatest
<1> QED
  BY <1>2, <1>3, <1>5

\* "No hit" is right when no prefix gains a chunk of some group.
LEMMA ReturnZero ==
  ASSUME layout \in Seq(GroupConfigs), LookTypes, Same, Return(0), NEW g \in Groups,
         Certain => \A t \in Candidates : t < look.computed + layout[g].chunk
  PROVE  LookTypes' /\ Right' /\ LookupIsLongest'
<1>1. /\ look'.phase = "done" /\ look'.result = 0 /\ look'.computed = look.computed
      /\ look' = [look EXCEPT !.phase = "done", !.result = 0, !.todo = <<>>]
  BY DEF Return, LookTypes
<1>2. Groups' = Groups /\ Certain' = Certain /\ Candidates' = Candidates /\ Largest' = Largest
  BY SameIs
<1>3. LookTypes'
  <2>1. <<>> \in Seq(Groups)
    OBVIOUS
  <2> DEFINE Q == Seq(Groups)
             P == SUBSET Groups
  <2>0. /\ look \in [ phase : {"looking", "done"}, tokens : Nat, computed : Nat, max : Nat, hit : Nat,
                     todo : Q, again : Q, slid : BOOLEAN, popped : P, defer : BOOLEAN,
                     result : Nat \cup {-1} ]
        /\ <<>> \in Q
    BY <2>1 DEF LookTypes
  <2> HIDE DEF Q, P
  <2>2. look' \in [ phase : {"looking", "done"}, tokens : Nat, computed : Nat, max : Nat, hit : Nat,
             todo : Q, again : Q, slid : BOOLEAN, popped : P,
             defer : BOOLEAN, result : Nat \cup {-1} ]
    <3>1. /\ look.tokens \in Nat /\ look.computed \in Nat /\ look.max \in Nat /\ look.hit \in Nat
          /\ look.again \in Q /\ look.slid \in BOOLEAN /\ look.popped \in P /\ look.defer \in BOOLEAN
      BY <2>0
    <3>2. look' = [ phase |-> "done", tokens |-> look.tokens, computed |-> look.computed,
                    max |-> look.max, hit |-> look.hit, todo |-> <<>>, again |-> look.again,
                    slid |-> look.slid, popped |-> look.popped, defer |-> look.defer, result |-> 0 ]
      BY <1>1, <2>0
    <3> QED
      BY <2>0, <3>1, <3>2
  <2> QED
    BY <1>2, <2>2 DEF LookTypes, Q, P
<1>4. Right'
  BY <1>1 DEF Right
<1>5. ASSUME Certain, NEW t \in Candidates PROVE t <= look.computed + (Largest - 1)
  <2>1. t < look.computed + layout[g].chunk
    BY <1>5
  <2>2. Largest \in Nat /\ layout[g].chunk <= Largest
    BY LargestIs
  <2>3. layout[g].chunk \in Nat /\ look.computed \in Nat
    BY GroupIs DEF Groups, LookTypes
  <2>4. t \in Int
    <3>1. Cap \in Int
      BY DEF Cap, LookTypes
    <3> QED
      BY <2>3, <3>1 DEF Candidates
  <2> HIDE DEF Largest
  <2> QED
    BY <2>1, <2>2, <2>3, <2>4
<1>6. LookupIsLongest'
  <2>1. ~(look'.result > 0) /\ look'.result # -1
    BY <1>1
  <2>2. Certain' => \A t \in Candidates' :
           t <= look'.computed + (IF look'.result > 0 THEN look'.result ELSE Largest' - 1)
    BY <1>1, <1>2, <1>5, <2>1
  <2> HIDE DEF Candidates, Largest
  <2> QED
    BY <2>1, <2>2 DEF LookupIsLongest, Certain
<1> QED
  BY <1>3, <1>4, <1>6

-------------------------------------------------------------------------------
(* The steps of a lookup. *)

\* A lookup that runs, field by field.
Running(tokens, computed, max, hit, todo, again, slid, popped, defer, result) ==
  [ phase |-> "looking", tokens |-> tokens, computed |-> computed, max |-> max, hit |-> hit,
    todo |-> todo, again |-> again, slid |-> slid, popped |-> popped, defer |-> defer, result |-> result ]
Lookups(Q, P) ==
  [ phase : {"looking", "done"}, tokens : Nat, computed : Nat, max : Nat, hit : Nat,
    todo : Q, again : Q, slid : BOOLEAN, popped : P, defer : BOOLEAN, result : Nat \cup {-1} ]

\* Such a record is a lookup.
LEMMA RunningTypes ==
  ASSUME NEW Q, NEW P, NEW tokens \in Nat, NEW computed \in Nat, NEW max \in Nat, NEW hit \in Nat,
         NEW todo \in Q, NEW again \in Q, NEW slid \in BOOLEAN, NEW popped \in P,
         NEW defer \in BOOLEAN, NEW result \in Nat \cup {-1}
  PROVE  Running(tokens, computed, max, hit, todo, again, slid, popped, defer, result) \in Lookups(Q, P)
BY DEF Running, Lookups

Leaves(r, max, hit, todo, again, slid, defer) ==
  /\ r.phase = "looking" /\ r.max = max /\ r.hit = hit /\ r.todo = todo
  /\ r.again = again /\ r.slid = slid /\ r.defer = defer

\* Its fields.
LEMMA RunningIs ==
  ASSUME NEW tokens, NEW computed, NEW max, NEW hit, NEW todo, NEW again, NEW slid, NEW popped,
         NEW defer, NEW result
  PROVE  Leaves(Running(tokens, computed, max, hit, todo, again, slid, popped, defer, result),
                max, hit, todo, again, slid, defer)
BY DEF Running, Leaves

\* The record LookUpGroup leaves when it goes on.
LEMMA TightenTypes ==
  ASSUME layout \in Seq(GroupConfigs), LookTypes, Same, look.phase = "looking", NEW g \in Groups,
         look.todo # <<>>, Tight(g) \in Nat, Gain(g) \in Nat,
         NEW popped \in SUBSET Groups, NEW slid, slid = (look.slid \/ layout[g].window > 0),
         NEW defer, defer = (Defers(g) /\ ~Lower(g)),
         NEW again, again = IF Lower(g) /\ Defers(g) THEN Looking(TRUE)
                            ELSE IF Lower(g) /\ look.slid /\ look.again = <<>> THEN Looking(FALSE)
                            ELSE look.again,
         look' = [look EXCEPT !.max = Tight(g), !.hit = Gain(g), !.todo = Tail(look.todo), !.slid = slid,
                              !.popped = popped, !.defer = defer, !.again = again]
  PROVE  LookTypes' /\ Tightened(g)
<1> DEFINE Q == Seq(Groups)
           P == SUBSET Groups
           rest == Tail(look.todo)
<1>1. /\ look \in [ phase : {"looking", "done"}, tokens : Nat, computed : Nat, max : Nat, hit : Nat,
                    todo : Q, again : Q, slid : BOOLEAN, popped : P, defer : BOOLEAN,
                    result : Nat \cup {-1} ]
      /\ popped \in P
  BY DEF LookTypes
<1>2. rest \in Q
  BY <1>1, TailIs, Zenon
<1>3. Looking(TRUE) \in Q /\ Looking(FALSE) \in Q
  BY LookingIs, Zenon
<1>4. Groups' = Groups
  BY SameIs
<1> HIDE DEF Q, P, rest
<1>5. again \in Q
  BY <1>1, <1>3
<1>6. slid \in BOOLEAN /\ defer \in BOOLEAN
  OBVIOUS
<1>7. /\ look.tokens \in Nat /\ look.computed \in Nat /\ look.result \in Nat \cup {-1}
  BY <1>1
<1>8. look' = Running(look.tokens, look.computed, Tight(g), Gain(g), rest, again, slid, popped, defer,
                      look.result)
  BY <1>1 DEF rest, Running
<1>9. look' \in Lookups(Q, P)
  <2>1. Running(look.tokens, look.computed, Tight(g), Gain(g), rest, again, slid, popped, defer,
                look.result) \in Lookups(Q, P)
    BY <1>1, <1>2, <1>5, <1>6, <1>7, RunningTypes, ZenonT(60)
  <2> QED
    BY <1>8, <2>1, Zenon
<1>10. LookTypes'
  BY <1>4, <1>9 DEF LookTypes, Lookups, Q, P
<1>11. Tightened(g)
  <2>1. Leaves(look', Tight(g), Gain(g), rest, again, slid, defer)
    <3>1. Leaves(Running(look.tokens, look.computed, Tight(g), Gain(g), rest, again, slid, popped, defer,
                         look.result), Tight(g), Gain(g), rest, again, slid, defer)
      BY RunningIs, Zenon
    <3> QED
      BY <1>8, <3>1, Zenon
  <2> QED
    BY <2>1, Zenon DEF Leaves, Tightened, rest
<1> QED
  BY <1>10, <1>11

\* A prefix that ends where the lookup begins adds nothing.
LEMMA EndsBefore ==
  ASSUME layout \in Seq(GroupConfigs), LookTypes, NEW g \in Groups, NEW t \in Nat, End(g, t) <= First(g)
  PROVE  t <= look.computed
<1> DEFINE c == layout[g].chunk
           x == look.computed
           e == Cdiv(t, c)
           f == x \div c
<1>1. c \in Nat \ {0} /\ x \in Nat
  BY GroupIs DEF Groups, LookTypes
<1>2. e <= f
  BY DEF End, First
<1> HIDE DEF c, x
<1>3. e \in Nat /\ t <= c * e
  BY <1>1, Covering
<1>4. f \in Nat /\ x % c \in 0 .. c - 1 /\ x = c * f + (x % c)
  BY <1>1, Quotient
<1> HIDE DEF e, f
<1>5. c * e <= c * f /\ c * e \in Nat /\ c * f \in Nat
  BY <1>1, <1>2, <1>3, <1>4
<1>6. t <= x
  <2> DEFINE p == c * e
             q == c * f
             r == x % c
  <2>1. p <= q /\ p \in Nat /\ q \in Nat /\ t <= p /\ r \in Nat /\ x = q + r
    BY <1>3, <1>4, <1>5
  <2> HIDE DEF p, q, r
  <2> QED
    BY <2>1
<1> QED
  BY <1>6 DEF x

\* What LookUpGroup leaves as it is.
LEMMA LookUpSame ==
  ASSUME LookTypes, LookUpGroup
  PROVE  Same
<1> DEFINE g == Head(look.todo)
<1>1. UNCHANGED <<layout, unsure, present>>
  BY DEF LookUpGroup
<1>2. look'.tokens = look.tokens /\ look'.computed = look.computed
  <2>1. CASE Return(0)
    BY <2>1 DEF Return, LookTypes
  <2>2. CASE TightenBy(g, Bound(g), Found(g)) /\ ~Return(0)
    BY <2>2, TightenIs DEF LookTypes
  <2>3. Return(0) \/ TightenBy(g, Bound(g), Found(g))
    BY StepIs, Zenon
  <2> QED
    BY <2>1, <2>2, <2>3
<1> QED
  BY <1>1, <1>2 DEF Same

\* A prefix every group serves, by the groups it is a candidate for.
LEMMA CandidateIs ==
  ASSUME LookTypes, look.phase = "looking", Right, Certain, NEW t \in Candidates
  PROVE  t \in Nat /\ t > look.computed /\ t <= look.max /\ \A g \in Groups : Served(g, t)
<1>1. look.computed \in Nat /\ Cap \in Int
  BY DEF LookTypes, Cap
<1>2. t \in look.computed + 1 .. Cap /\ \A g \in Groups : Served(g, t)
  BY DEF Candidates, Loadable
<1>3. t <= look.max
  BY DEF Right
<1> QED
  BY <1>1, <1>2, <1>3

\* A group's bound is a number.
LEMMA BoundType ==
  ASSUME layout \in Seq(GroupConfigs), LookTypes, NEW g \in Groups
  PROVE  Bound(g) \in Int
<1> DEFINE p == Keys(g) * layout[g].chunk
           m == look.max
<1>1. Keys(g) \in Nat /\ layout[g].chunk \in Nat /\ look.max \in Int
  <2>1. layout[g].chunk \in Nat \ {0} /\ look.max \in Nat /\ look.tokens \in Nat
    BY GroupIs DEF Groups, LookTypes
  <2>2. look.tokens \div layout[g].chunk \in Nat
    BY <2>1, Quotient, Zenon
  <2>3. Keys(g) \in Nat
    BY <2>2, Zenon DEF Keys
  <2> QED
    BY <2>1, <2>3
<1>2. p \in Int /\ m \in Int
  BY <1>1
<1> HIDE DEF p, m
<1>3. Min({m, p}) = IF m <= p THEN m ELSE p
  BY <1>2, OfTwo
<1>4. Bound(g) = Min({m, p})
  BY DEF Bound, m, p
<1> QED
  BY <1>2, <1>3, <1>4

\* "No hit" is right for the group LookUpGroup gives up at.
LEMMA GivesUp ==
  ASSUME layout \in Seq(GroupConfigs), LookTypes, Answers, Right, look.phase = "looking", NEW g \in Groups,
         \/ Bound(g) - look.computed < layout[g].chunk
         \/ /\ Bound(g) - look.computed >= layout[g].chunk
            /\ Found(g) = 0 \/ Gain(g) < layout[g].chunk,
         Certain, NEW t \in Candidates
  PROVE  t < look.computed + layout[g].chunk
<1>1. t \in Nat /\ t > look.computed /\ t <= look.max /\ Served(g, t)
  BY CandidateIs
<1>2. layout[g].chunk \in Nat \ {0} /\ look.computed \in Nat
  BY GroupIs DEF Groups, LookTypes
<1>3. t <= Bound(g)
  BY <1>1, BoundCovers
<1>4. CASE Bound(g) - look.computed < layout[g].chunk
  <2>1. Bound(g) \in Int
    BY BoundType
  <2> QED
    BY <1>1, <1>2, <1>3, <1>4, <2>1
<1>5. CASE Bound(g) - look.computed >= layout[g].chunk
  <2>1. Found(g) # -1 /\ ~Fresh(g)
    <3>1. Found(g) # -1
      BY <1>5, GroupFound DEF Certain
    <3> QED
      BY <3>1 DEF Fresh, Certain
  <2>2. /\ Found(g) \in Nat
        /\ Found(g) # 0 => Cut(g) \in Nat
        /\ End(g, t) <= First(g) + Found(g)
        /\ Found(g) # 0 => t <= Cut(g)
    BY <1>1, <1>5, <2>1, GroupFound
  <2>3. CASE Found(g) = 0
    <3>1. First(g) \in Nat
      BY <1>1, ServedIs
    <3>2. End(g, t) <= First(g)
      BY <2>2, <2>3, <3>1
    <3>3. t <= look.computed
      BY <1>1, <3>2, EndsBefore
    <3> QED
      BY <1>1, <1>2, <3>3
  <2>4. CASE Found(g) # 0 /\ Gain(g) < layout[g].chunk
    <3>1. Gain(g) = Cut(g) - look.computed
      BY <2>1 DEF Gain, Tight
    <3> QED
      BY <1>1, <1>2, <2>2, <2>4, <3>1
  <2>5. CASE Found(g) # 0 /\ ~(Gain(g) < layout[g].chunk)
    <3>1. Bound(g) \in Nat
      BY <1>5, BoundIs
    <3> QED
      BY <1>2, <1>5, <2>5, <3>1
  <2> QED
    BY <2>3, <2>4, <2>5
<1> QED
  BY <1>4, <1>5

\* LookUpGroup.
LEMMA LookUpKeeps ==
  ASSUME layout \in Seq(GroupConfigs), LookTypes, Answers, Right, LookUpGroup
  PROVE  LookTypes' /\ Right' /\ LookupIsLongest'
<1> DEFINE g == Head(look.todo)
<1>1. look.phase = "looking" /\ look.todo # <<>> /\ look.todo \in Seq(Groups)
  BY DEF LookUpGroup, LookTypes
<1>2. g \in Groups
  BY <1>1, TailIs, Zenon
<1>3. Same
  BY LookUpSame
<1>4. \/ Bound(g) - look.computed < layout[g].chunk /\ Return(0)
      \/ ~(Bound(g) - look.computed < layout[g].chunk) /\ TightenBy(g, Bound(g), Found(g))
  BY StepIs, Zenon
<1>5. g = Head(look.todo)
  OBVIOUS
<1> HIDE DEF g
<1>6. CASE Bound(g) - look.computed < layout[g].chunk /\ Return(0)
  <2>1. Certain => \A t \in Candidates : t < look.computed + layout[g].chunk
    BY <1>1, <1>2, <1>6, GivesUp
  <2> QED
    BY <1>2, <1>3, <1>6, <2>1, ReturnZero
<1>7. CASE ~(Bound(g) - look.computed < layout[g].chunk) /\ TightenBy(g, Bound(g), Found(g))
  <2>1. /\ Bound(g) \in Int /\ look.computed \in Nat /\ look.max \in Nat
        /\ layout[g].chunk \in Nat \ {0}
    BY <1>2, BoundType, GroupIs DEF Groups, LookTypes
  <2>2. Bound(g) - look.computed >= layout[g].chunk
    BY <1>7, <2>1
  <2>3. Bound(g) \in Nat /\ Bound(g) <= look.max
    BY <1>2, <2>2, BoundIs
  <2>4. CASE (Found(g) = 0 \/ Gain(g) < layout[g].chunk) /\ Return(0)
    <3>1. Certain => \A t \in Candidates : t < look.computed + layout[g].chunk
      BY <1>1, <1>2, <2>2, <2>4, GivesUp
    <3> QED
      BY <1>2, <1>3, <2>4, <3>1, ReturnZero
  <2>5. ASSUME ~(Found(g) = 0 \/ Gain(g) < layout[g].chunk),
               NEW popped \in {look.popped, look.popped \cup {g}}, NEW kept \in BOOLEAN,
               look' = [look EXCEPT
                     !.max = Tight(g), !.hit = Gain(g), !.todo = Tail(look.todo),
                     !.slid = look.slid \/ layout[g].window > 0,
                     !.popped = IF kept THEN {} ELSE popped,
                     !.defer = Defers(g) /\ ~Lower(g),
                     !.again = IF Lower(g) /\ Defers(g) THEN Looking(TRUE)
                               ELSE IF Lower(g) /\ look.slid /\ look.again = <<>> THEN Looking(FALSE)
                               ELSE look.again]
        PROVE  LookTypes' /\ Right' /\ LookupIsLongest'
    <3>1. /\ Confirmed(g) /\ Tight(g) \in Nat /\ Tight(g) <= look.max
      <4>1. CASE Found(g) = -1
        <5>1. DOMAIN unsure # {}
          BY <1>2, <2>2, <4>1, GroupFound
        <5> QED
          BY <2>3, <4>1, <5>1 DEF Confirmed, Tight
      <4>2. CASE Found(g) # -1
        <5>1. /\ Cut(g) \in Nat /\ Cut(g) <= Bound(g) /\ Served(g, Cut(g))
              /\ ~Fresh(g) => \A t \in Nat : t <= look.max /\ Served(g, t) => t <= Cut(g)
          BY <1>2, <2>2, <2>5, <4>2, GroupFound
        <5>2. Tight(g) = Cut(g)
          BY <4>2 DEF Tight
        <5>3. Cut(g) <= look.max
          BY <2>1, <2>3, <5>1
        <5> QED
          BY <4>2, <5>1, <5>2, <5>3, Zenon DEF Confirmed
      <4> QED
        BY <4>1, <4>2
    <3>2. Gain(g) \in Nat /\ Gain(g) > 0
      <4>1. Gain(g) = Tight(g) - look.computed
        BY DEF Gain
      <4> QED
        BY <2>1, <2>5, <3>1, <4>1
    <3>3. (IF kept THEN {} ELSE popped) \in SUBSET Groups
      BY <1>2 DEF LookTypes
    <3>4. LookTypes' /\ Tightened(g)
      <4> DEFINE slid == look.slid \/ layout[g].window > 0
                 defer == Defers(g) /\ ~Lower(g)
                 again == IF Lower(g) /\ Defers(g) THEN Looking(TRUE)
                          ELSE IF Lower(g) /\ look.slid /\ look.again = <<>> THEN Looking(FALSE)
                          ELSE look.again
                 left == IF kept THEN {} ELSE popped
      <4>1. look' = [look EXCEPT !.max = Tight(g), !.hit = Gain(g), !.todo = Tail(look.todo), !.slid = slid,
                                 !.popped = left, !.defer = defer, !.again = again]
        BY <2>5, Zenon
      <4>2. /\ left \in SUBSET Groups /\ slid = (look.slid \/ layout[g].window > 0)
            /\ defer = (Defers(g) /\ ~Lower(g))
            /\ again = IF Lower(g) /\ Defers(g) THEN Looking(TRUE)
                       ELSE IF Lower(g) /\ look.slid /\ look.again = <<>> THEN Looking(FALSE)
                       ELSE look.again
        BY <3>3, Zenon
      <4> HIDE DEF slid, defer, again, left
      <4> QED
        BY <1>1, <1>2, <1>3, <3>1, <3>2, <4>1, <4>2, TightenTypes, Zenon
    <3>5. Right'
      BY <1>1, <1>2, <1>3, <1>5, <3>1, <3>2, <3>4, TightenKeeps, Zenon
    <3>6. LookupIsLongest'
      BY <3>4 DEF Tightened, LookupIsLongest
    <3> QED
      BY <3>4, <3>5, <3>6
  <2>6. \/ (Found(g) = 0 \/ Gain(g) < layout[g].chunk) /\ Return(0)
        \/ /\ ~(Found(g) = 0 \/ Gain(g) < layout[g].chunk)
           /\ \E popped \in {look.popped, look.popped \cup {g}}, kept \in BOOLEAN :
                  look' = [look EXCEPT
                     !.max = Tight(g), !.hit = Gain(g), !.todo = Tail(look.todo),
                     !.slid = look.slid \/ layout[g].window > 0,
                     !.popped = IF kept THEN {} ELSE popped,
                     !.defer = Defers(g) /\ ~Lower(g),
                     !.again = IF Lower(g) /\ Defers(g) THEN Looking(TRUE)
                               ELSE IF Lower(g) /\ look.slid /\ look.again = <<>> THEN Looking(FALSE)
                               ELSE look.again]
    BY <1>7, TightenIs, Zenon
  <2> QED
    BY <2>4, <2>5, <2>6, Zenon
<1> QED
  BY <1>4, <1>6, <1>7

\* A pass ends: the groups set aside come next, or the answer is given.
LEMMA NextPassKeeps ==
  ASSUME layout \in Seq(GroupConfigs), LookTypes, Right, NextPass
  PROVE  LookTypes' /\ Right' /\ LookupIsLongest'
<1>1. look.phase = "looking" /\ look.todo = <<>> /\ UNCHANGED <<layout, unsure, present>>
  BY DEF NextPass
<1>2. /\ look.tokens \in Nat /\ look.computed \in Nat /\ look.max \in Nat /\ look.hit \in Nat
      /\ look.again \in Seq(Groups) /\ look.slid \in BOOLEAN /\ look.popped \in SUBSET Groups
      /\ look.defer \in BOOLEAN /\ look.result \in Nat \cup {-1}
  BY DEF LookTypes
<1>3. Range(look.todo) = {}
  BY <1>1 DEF Range
<1>4. /\ look.max <= Cap
      /\ \/ look.hit = look.max - look.computed /\ look.hit > 0
         \/ look.hit = 0 /\ Groups = {}
      /\ look.again = <<>> \/ Slides \subseteq Range(look.again)
      /\ \A h \in Groups : h \in Range(look.again) \/ look.defer \/ Served(h, look.max)
      /\ look.defer => DOMAIN unsure # {}
      /\ Certain => \A t \in Candidates : t <= look.max
  BY <1>1, <1>3 DEF Right
<1> DEFINE Q == Seq(Groups)
           P == SUBSET Groups
<1>5. <<>> \in Q /\ look.again \in Q /\ look.popped \in P
  BY <1>2
<1>6. look \in Lookups(Q, P)
  BY DEF LookTypes, Lookups
<1>7. (Groups' = Groups) => (LookTypes' <=> look' \in Lookups(Q, P))
  BY DEF LookTypes, Lookups
<1> HIDE DEF Q, P
<1>8. CASE look.again # <<>>
  <2>1. look' = [look EXCEPT !.todo = look.again, !.again = <<>>, !.slid = FALSE]
    BY <1>8 DEF NextPass
  <2>2. look' = Running(look.tokens, look.computed, look.max, look.hit, look.again, <<>>, FALSE, look.popped,
                        look.defer, look.result)
    BY <1>1, <1>6, <2>1 DEF Running, Lookups
  <2>3. /\ look'.phase = "looking" /\ look'.tokens = look.tokens /\ look'.computed = look.computed
        /\ look'.max = look.max /\ look'.hit = look.hit /\ look'.todo = look.again /\ look'.again = <<>>
        /\ look'.slid = FALSE /\ look'.defer = look.defer
    BY <2>2 DEF Running
  <2>4. Same
    BY <1>1, <2>3 DEF Same
  <2>5. /\ Groups' = Groups /\ Slides' = Slides /\ Cap' = Cap /\ Certain' = Certain
        /\ \A h : Served(h, look.max)' <=> Served(h, look.max)
        /\ Candidates' = Candidates
    BY <2>3, <2>4, SameIs
  <2>6. Running(look.tokens, look.computed, look.max, look.hit, look.again, <<>>, FALSE, look.popped,
                look.defer, look.result) \in Lookups(Q, P)
    <3>1. FALSE \in BOOLEAN
      OBVIOUS
    <3> QED
      BY <1>2, <1>5, <3>1, RunningTypes, Zenon
  <2>7. LookTypes'
    BY <1>7, <2>2, <2>5, <2>6, Zenon
  <2>8. Right'
    <3>1. look'.max <= Cap' /\ (Certain' => \A t \in Candidates' : t <= look'.max)
      BY <1>4, <2>3, <2>5
    <3>2. \/ look'.hit = look'.max - look'.computed /\ look'.hit > 0
          \/ look'.hit = 0 /\ Groups' \subseteq Range(look'.todo)
      BY <1>4, <2>3, <2>5
    <3>3. Slides' \subseteq Range(look'.todo)
      BY <1>4, <1>8, <2>3, <2>5
    <3>4. \A h \in Groups' : h \in Range(look'.todo) \/ look'.defer \/ Served(h, look.max)'
      BY <1>4, <2>3, <2>5
    <3>5. look'.defer => DOMAIN unsure' # {}
      BY <1>1, <1>4, <2>3
    <3> QED
      BY <2>3, <3>1, <3>2, <3>3, <3>4, <3>5, Zenon DEF Right
  <2> QED
    BY <2>3, <2>7, <2>8 DEF LookupIsLongest
<1>9. CASE look.again = <<>>
  <2> DEFINE result == IF look.defer THEN -1 ELSE look.hit
  <2>1. Return(result) /\ result \in Nat \cup {-1}
    BY <1>2, <1>9 DEF NextPass
  <2>2. (look.defer => result = -1) /\ (~look.defer => result = look.hit)
    OBVIOUS
  <2> HIDE DEF result
  <2>3. look' = [ phase |-> "done", tokens |-> look.tokens, computed |-> look.computed,
                  max |-> look.max, hit |-> look.hit, todo |-> <<>>, again |-> look.again,
                  slid |-> look.slid, popped |-> look.popped, defer |-> look.defer, result |-> result ]
    BY <1>6, <2>1 DEF Return, Lookups
  <2>4. look' \in Lookups(Q, P)
    BY <1>2, <1>5, <2>1, <2>3 DEF Lookups
  <2>5. /\ look'.phase = "done" /\ look'.tokens = look.tokens /\ look'.computed = look.computed
        /\ look'.result = result
    BY <2>3
  <2>6. Same
    BY <1>1, <2>5 DEF Same
  <2>7. /\ Groups' = Groups /\ Certain' = Certain /\ Candidates' = Candidates /\ Largest' = Largest
        /\ \A h : Served(h, look.computed + look.result)' <=> Served(h, look'.computed + look'.result)
    BY <2>6, SameIs
  <2>8. LookTypes'
    BY <1>7, <2>4, <2>7
  <2>9. Right'
    BY <2>5 DEF Right
  <2>10. ASSUME result > 0 PROVE \A h \in Groups : Served(h, look.computed + result)
    <3>1. ~look.defer /\ result = look.hit /\ look.hit > 0
      BY <2>2, <2>10
    <3>2. look.computed + result = look.max
      BY <1>2, <1>4, <3>1
    <3>3. \A h \in Groups : Served(h, look.max)
      <4>1. Range(look.again) = {}
        BY <1>9 DEF Range
      <4> QED
        BY <1>4, <3>1, <4>1
    <3> QED
      BY <3>2, <3>3, Zenon
  <2>11. result = -1 => DOMAIN unsure # {}
    BY <1>2, <1>4, <2>2
  <2>12. ASSUME Certain, Groups # {}, NEW t \in Candidates
         PROVE  result > 0 /\ t <= look.computed + result
    <3>1. ~look.defer
      BY <1>4, <2>12 DEF Certain
    <3>2. look.hit = look.max - look.computed /\ look.hit > 0 /\ t <= look.max
      BY <1>4, <2>12
    <3> QED
      BY <1>2, <2>2, <3>1, <3>2
  <2>13. LookupIsLongest'
    <3>1. look'.result > 0 => Loadable(look.computed + look.result)'
      BY <2>5, <2>7, <2>10 DEF Loadable
    <3>2. look'.result = -1 => DOMAIN unsure' # {}
      BY <1>1, <2>5, <2>11
    <3>3. (Certain' /\ Groups' # {}) => \A t \in Candidates' :
             t <= look'.computed + (IF look'.result > 0 THEN look'.result ELSE Largest' - 1)
      BY <2>5, <2>7, <2>12
    <3> QED
      BY <3>1, <3>2, <3>3, Zenon DEF LookupIsLongest, Certain
  <2> QED
    BY <2>8, <2>9, <2>13
<1> QED
  BY <1>8, <1>9

\* A request asks.
LEMMA AskKeeps ==
  ASSUME layout \in Seq(GroupConfigs), Answers, MaxTokens \in Nat,
         NEW tokens \in 1 .. MaxTokens, NEW computed \in 0 .. tokens - 1, NEW tiers \in Tiers(tokens),
         Ask(tokens, computed, tiers)
  PROVE  Answers' /\ LookTypes' /\ Right' /\ LookupIsLongest'
<1> DEFINE max == tokens - (IF \E g \in DOMAIN layout : layout[g].window > 0 THEN 1 ELSE 0)
<1>1. UNCHANGED <<layout, present>> /\ unsure' = tiers
  BY DEF Ask
<1>2. tokens \in Nat /\ computed \in Nat /\ max \in Nat
  OBVIOUS
<1>3. Looking(TRUE) \in Seq(Groups) /\ Range(Looking(TRUE)) = Groups
  <2>1. LookedUp(TRUE) = Groups
    BY DEF LookedUp
  <2> QED
    BY <2>1, LookingIs, Zenon
<1>4. look' = Running(tokens, computed, max, 0, Looking(TRUE), <<>>, FALSE, {}, FALSE, 0)
  BY DEF Ask, Running
<1>5. Answers'
  <2>1. CASE tiers = <<>>
    BY <1>1, <2>1 DEF Answers
  <2>2. CASE tiers # <<>>
    <3>1. PICK g \in Groups :
            \E i \in 0 .. (tokens \div layout[g].chunk) - 1 : tiers \in [{<<g, i>>} -> Unsure]
      <4>1. tiers \in UNION {UNION {[{<<g, i>>} -> Unsure] : i \in 0 .. (tokens \div layout[g].chunk) - 1} :
                             g \in Groups}
        BY <2>2 DEF Tiers
      <4> DEFINE of(g) == {[{<<g, i>>} -> Unsure] : i \in 0 .. (tokens \div layout[g].chunk) - 1}
      <4>2. PICK g \in Groups : tiers \in UNION of(g)
        <5> HIDE DEF of
        <5>1. tiers \in UNION {UNION of(g) : g \in Groups}
          BY <4>1 DEF of
        <5> QED
          BY <5>1
      <4>3. PICK T \in of(g) : tiers \in T
        <5> HIDE DEF of
        <5> QED
          BY <4>2
      <4>4. PICK i \in 0 .. (tokens \div layout[g].chunk) - 1 : T = [{<<g, i>>} -> Unsure]
        OBVIOUS
      <4> QED
        BY <4>3, <4>4
    <3> QED
      BY <1>1, <3>1 DEF Answers
  <2> QED
    BY <2>1, <2>2
<1>6. Groups' = Groups /\ Slides' = Slides /\ Slides \subseteq Groups
  BY <1>1 DEF Groups, Slides
<1> DEFINE todo == Looking(TRUE)
<1>7. todo \in Seq(Groups) /\ Range(todo) = Groups
  BY <1>3
<1>8. look' = Running(tokens, computed, max, 0, todo, <<>>, FALSE, {}, FALSE, 0)
  BY <1>4
<1> HIDE DEF max, todo
<1>9. /\ look'.phase = "looking" /\ look'.tokens = tokens /\ look'.computed = computed /\ look'.max = max
      /\ look'.hit = 0 /\ look'.todo = todo /\ look'.again = <<>> /\ look'.slid = FALSE /\ look'.defer = FALSE
  BY <1>8 DEF Running
<1>10. LookTypes'
  <2> DEFINE Q == Seq(Groups)
             P == SUBSET Groups
  <2>1. <<>> \in Q /\ todo \in Q /\ {} \in P /\ FALSE \in BOOLEAN /\ 0 \in Nat /\ 0 \in Nat \cup {-1}
    BY <1>7
  <2>2. (look' \in Lookups(Q, P)) => LookTypes'
    BY <1>6 DEF LookTypes, Lookups
  <2> HIDE DEF Q, P
  <2>3. Running(tokens, computed, max, 0, todo, <<>>, FALSE, {}, FALSE, 0) \in Lookups(Q, P)
    BY <1>2, <2>1, RunningTypes, Zenon
  <2> QED
    BY <1>8, <2>2, <2>3, Zenon
<1>11. Cap' = max
  BY <1>1, <1>9 DEF Cap, max
<1>12. Right'
  <2>1. look'.max <= Cap'
    BY <1>2, <1>9, <1>11
  <2>2. look'.hit = 0 /\ Groups' \subseteq Range(look'.todo) /\ Slides' \subseteq Range(look'.todo)
    BY <1>6, <1>7, <1>9
  <2>3. \A t \in Candidates' : t <= look'.max
    BY <1>2, <1>9, <1>11 DEF Candidates
  <2> QED
    BY <1>9, <2>1, <2>2, <2>3, Zenon DEF Right
<1> QED
  BY <1>5, <1>9, <1>10, <1>12 DEF LookupIsLongest

\* What holds of a lookup in every state.
LookupInv ==
  /\ layout \in Seq(GroupConfigs) /\ Answers
  /\ look = NoLook \/ (LookTypes /\ Right /\ LookupIsLongest)

\* Every step keeps it.
LEMMA LookupStep ==
  ASSUME MaxTokens \in Nat, LookupInv, [Next]_vars
  PROVE  LookupInv'
<1>1. layout \in Seq(GroupConfigs) /\ Answers
  BY DEF LookupInv
<1>2. ASSUME look = NoLook PROVE ~(look.phase \in {"looking", "done"})
  BY <1>2 DEF NoLook
<1>3. CASE UNCHANGED <<layout, unsure, present, look>>
  <2>1. Same
    BY <1>3 DEF Same
  <2>2. /\ Groups' = Groups /\ Slides' = Slides /\ Cap' = Cap /\ Certain' = Certain
        /\ \A g : Served(g, look.max)' <=> Served(g, look.max)
        /\ \A g : Served(g, look.computed + look.result)' <=> Served(g, look.computed + look.result)
        /\ Candidates' = Candidates /\ Largest' = Largest
    BY <1>3, <2>1, SameIs
  <2>3. Answers' /\ layout' = layout /\ look' = look /\ unsure' = unsure
    BY <1>1, <1>3 DEF Answers
  <2>4. LookTypes => LookTypes'
    BY <2>2, <2>3 DEF LookTypes
  <2>5. Right => Right'
    BY <2>2, <2>3, Zenon DEF Right
  <2>6. Loadable(look.computed + look.result) => Loadable(look.computed + look.result)'
    BY <2>2 DEF Loadable
  <2>7. LookupIsLongest => LookupIsLongest'
    BY <2>2, <2>3, <2>6, Zenon DEF LookupIsLongest, Certain
  <2>8. NoLook' = NoLook
    BY DEF NoLook
  <2> QED
    BY <1>1, <2>3, <2>4, <2>5, <2>7, <2>8 DEF LookupInv
<1>4. CASE look = NoLook /\ UNCHANGED <<layout, unsure, look>>
  BY <1>1, <1>4 DEF LookupInv, Answers
<1>5. ASSUME NEW tokens \in 1 .. MaxTokens, NEW computed \in 0 .. tokens - 1, NEW tiers \in Tiers(tokens),
             Ask(tokens, computed, tiers)
      PROVE  LookupInv'
  <2>1. Answers' /\ LookTypes' /\ Right' /\ LookupIsLongest'
    BY <1>1, <1>5, AskKeeps
  <2>2. layout' = layout
    BY <1>5 DEF Ask
  <2> QED
    BY <1>1, <2>1, <2>2 DEF LookupInv
<1>6. CASE LookUpGroup \/ NextPass
  <2>1. look.phase = "looking" /\ UNCHANGED <<layout, unsure>>
    BY <1>6 DEF LookUpGroup, NextPass
  <2>2. LookTypes /\ Right
    BY <1>2, <2>1 DEF LookupInv
  <2>3. LookTypes' /\ Right' /\ LookupIsLongest'
    BY <1>1, <1>6, <2>2, LookUpKeeps, NextPassKeeps
  <2> QED
    BY <1>1, <2>1, <2>3 DEF LookupInv, Answers
<1>7. CASE \E tokens \in 1 .. MaxTokens : StoreUpTo(tokens)
  BY <1>4, <1>7 DEF StoreUpTo
<1>8. CASE \E key \in present : Evict(key)
  BY <1>4, <1>8 DEF Evict
<1>9. CASE UNCHANGED vars
  BY <1>3, <1>9 DEF vars
<1> QED
  BY <1>5, <1>6, <1>7, <1>8, <1>9 DEF Next

\* The loop of _lookup over groups of layers ends at the longest prefix every group
\* serves.
THEOREM LookupIsAlwaysLongest ==
  ASSUME Layouts \subseteq Seq(GroupConfigs), Unsure \cap {"hit", "miss"} = {}, MaxTokens \in Nat
  PROVE  Spec => []LookupIsLongest
<1>1. Init => LookupInv
  BY DEF Init, LookupInv, Answers
<1>2. LookupInv /\ [Next]_vars => LookupInv'
  BY LookupStep
<1>3. LookupInv => LookupIsLongest
  BY DEF LookupInv, LookupIsLongest, NoLook
<1> QED
  BY <1>1, <1>2, <1>3, PTL DEF Spec

-------------------------------------------------------------------------------
(* What the stores leave out. *)

\* Quotients keep the order; a number of whole chunks fits when its tokens do.
LEMMA WholeFits ==
  ASSUME NEW a \in Nat, NEW b \in Nat \ {0}, NEW n \in Nat
  PROVE  b * n <= a <=> n <= a \div b
<1> DEFINE d == a \div b
<1>1. d \in Nat /\ a % b \in 0 .. b - 1 /\ a = b * d + (a % b)
  BY Quotient
<1> HIDE DEF d
<1>2. b * d <= a /\ a < b * (d + 1)
  BY <1>1
<1>3. n <= d => b * n <= b * d
  BY <1>1
<1>4. d + 1 <= n => b * (d + 1) <= b * n
  BY <1>1
<1>5. b * d \in Nat /\ b * n \in Nat /\ b * (d + 1) \in Nat
  BY <1>1
<1>6. CASE n <= d
  <2> DEFINE x == b * n
             y == b * d
  <2>1. x \in Nat /\ y \in Nat /\ x <= y /\ y <= a
    BY <1>2, <1>3, <1>5, <1>6
  <2> HIDE DEF x, y
  <2>2. x <= a
    BY <2>1
  <2> QED
    BY <1>6, <2>2 DEF x, d
<1>7. CASE ~(n <= d)
  <2> DEFINE x == b * n
             y == b * (d + 1)
  <2>1. d + 1 <= n
    BY <1>1, <1>7
  <2>2. x \in Nat /\ y \in Nat /\ y <= x /\ a < y
    BY <1>2, <1>4, <1>5, <2>1
  <2> HIDE DEF x, y
  <2>3. ~(x <= a)
    BY <2>2
  <2> QED
    BY <1>7, <2>3 DEF x, d
<1> QED
  BY <1>6, <1>7

\* The last chunks before the end of a segment are at the end of it.
LEMMA InTail ==
  ASSUME NEW n \in Nat \ {0}, NEW q \in Nat, NEW w \in Nat, w < n, NEW i \in Nat,
         i < n * q, i >= n * q - w
  PROVE  i % n >= n - w
<1> DEFINE p == i \div n
           r == i % n
<1>1. p \in Nat /\ r \in 0 .. n - 1 /\ i = n * p + r
  BY Quotient
<1> HIDE DEF p, r
<1>2. /\ n * p \in Nat /\ n * q \in Nat /\ n * (p + 1) = n * p + n /\ n * (p + 2) = n * p + 2 * n
  BY <1>1
<1>3. p >= q => n * p >= n * q
  BY <1>1
<1>4. p + 2 <= q => n * (p + 2) <= n * q
  BY <1>1
<1> DEFINE x == n * p
           y == n * q
<1>5. /\ x \in Nat /\ y \in Nat /\ i = x + r /\ i < y /\ i >= y - w
      /\ p >= q => x >= y
      /\ p + 2 <= q => x + 2 * n <= y
      /\ p + 1 = q => x + n = y
  BY <1>1, <1>2, <1>3, <1>4
<1> HIDE DEF x, y
<1>6. p + 1 = q
  BY <1>1, <1>5
<1>7. r >= n - w
  BY <1>1, <1>5, <1>6
<1> QED
  BY <1>7 DEF r

\* The full-attention size all segments have.
Segment == CHOOSE s \in FullSizes : TRUE

\* A group skips chunks only if its window is smaller than a segment.
LEMMA AlignmentIs ==
  ASSUME layout \in Seq(GroupConfigs), NEW g \in Groups
  PROVE  /\ Cardinality(FullSizes) = 1 => /\ Segment \in FullSizes /\ Segment \in Nat \ {0}
                                          /\ FullSizes = {Segment}
         /\ AlignmentChunks(g) \in Nat
         /\ AlignmentChunks(g) # 0 => /\ layout[g].window \in 1 .. AlignmentChunks(g) - 1
                                      /\ AlignmentChunks(g) = Segment \div layout[g].chunk
<1> DEFINE w == layout[g].window
           c == layout[g].chunk
           n == Segment \div c
<1>1. FullSizes \subseteq Nat \ {0}
  BY GroupIs DEF FullSizes
<1>2. w \in Nat /\ c \in Nat \ {0}
  BY GroupIs DEF Groups
<1>3. ASSUME Cardinality(FullSizes) = 1
      PROVE  Segment \in FullSizes /\ Segment \in Nat \ {0} /\ FullSizes = {Segment}
  <2>1. IsFiniteSet(FullSizes)
    <3>1. PICK m \in Nat : \A x \in DOMAIN layout : layout[x].chunk <= m
      BY ChunksBounded
    <3>2. FullSizes \in SUBSET (0 .. m)
      <4>1. \A x \in DOMAIN layout : layout[x].chunk \in 0 .. m
        BY <3>1, GroupIs
      <4> QED
        BY <4>1 DEF FullSizes
    <3>3. IsFiniteSet(0 .. m)
      <4>1. 0 \in Int /\ m \in Int
        OBVIOUS
      <4> QED
        BY <4>1, FS_Interval
    <3> QED
      BY <3>2, <3>3, FS_Subset
  <2>2. PICK x : FullSizes = {x}
    BY <1>3, <2>1, FS_Singleton
  <2>3. Segment \in FullSizes
    BY <2>2 DEF Segment
  <2> QED
    BY <1>1, <2>2, <2>3
<1>4. AlignmentChunks(g) = IF Cardinality(FullSizes) = 1 /\ w \in 1 .. n - 1 THEN n ELSE 0
  BY DEF AlignmentChunks, Segment
<1> HIDE DEF w, c
<1>5. Cardinality(FullSizes) = 1 => n \in Nat
  BY <1>2, <1>3, Quotient
<1>6. CASE Cardinality(FullSizes) = 1 /\ w \in 1 .. n - 1
  <2> HIDE DEF n
  <2>1. AlignmentChunks(g) = n /\ n \in Nat /\ w \in 1 .. n - 1
    BY <1>2, <1>4, <1>5, <1>6
  <2> QED
    BY <1>3, <2>1 DEF n, w, c
<1>7. CASE ~(Cardinality(FullSizes) = 1 /\ w \in 1 .. n - 1)
  <2>1. AlignmentChunks(g) = 0
    BY <1>4, <1>7
  <2> QED
    BY <1>3, <2>1
<1> QED
  BY <1>6, <1>7

\* While nothing is evicted every chunk computed is held, but for those that do not
\* end a segment.
Required(g, i) == \/ AlignmentChunks(g) = 0
              \/ i % AlignmentChunks(g) >= AlignmentChunks(g) - layout[g].window
StoredInv ==
  /\ stored \in Nat
  /\ ~evicted => \A g \in Groups : ~layout[g].eagle =>
        /\ nextChunk[g] = stored \div layout[g].chunk
        /\ \A i \in Nat : i < stored \div layout[g].chunk /\ Required(g, i) => <<g, i>> \in present

\* A step's stores cover what they must.
LEMMA StoreCovers ==
  ASSUME layout \in Seq(GroupConfigs), stored \in Nat, MaxTokens \in Nat, NEW tokens \in 1 .. MaxTokens,
         StoreUpTo(tokens), NEW g \in Groups, ~layout[g].eagle,
         nextChunk[g] = stored \div layout[g].chunk,
         \A i \in Nat : i < stored \div layout[g].chunk /\ Required(g, i) => <<g, i>> \in present
  PROVE  /\ nextChunk'[g] = tokens \div layout[g].chunk
         /\ \A i \in Nat : i < tokens \div layout[g].chunk /\ Required(g, i) => <<g, i>> \in present'
<1> DEFINE c == layout[g].chunk
           old == stored \div c
           new == tokens \div c
           count == AlignmentChunks(g)
           w == layout[g].window
<1>1. c \in Nat \ {0} /\ w \in Nat /\ g \in DOMAIN layout /\ tokens \in Nat /\ stored < tokens
  BY GroupIs DEF Groups, StoreUpTo
<1>2. count \in Nat
  BY AlignmentIs
<1>3. Storable(g, tokens) = new /\ nextChunk[g] = old
  BY DEF Storable
<1>4. /\ present \subseteq present' /\ nextChunk'[g] = Max({nextChunk[g], Storable(g, tokens)})
      /\ \A i \in nextChunk[g] .. Storable(g, tokens) - 1 :
            IsStoreReachable(g, i, Storable(g, tokens)) => <<g, i>> \in present'
  <2>1. /\ present' = present \cup
                {k \in UNION {{h} \X (nextChunk[h] .. Storable(h, tokens) - 1) : h \in Groups} :
                    IsStoreReachable(k[1], k[2], Storable(k[1], tokens))}
        /\ nextChunk' = [h \in DOMAIN layout |-> Max({nextChunk[h], Storable(h, tokens)})]
    BY DEF StoreUpTo
  <2>2. ASSUME NEW i \in nextChunk[g] .. Storable(g, tokens) - 1, IsStoreReachable(g, i, Storable(g, tokens))
        PROVE  <<g, i>> \in present'
    <3>1. <<g, i>> \in {g} \X (nextChunk[g] .. Storable(g, tokens) - 1)
      OBVIOUS
    <3>2. <<g, i>> \in UNION {{h} \X (nextChunk[h] .. Storable(h, tokens) - 1) : h \in Groups}
      BY <3>1
    <3> QED
      BY <2>1, <2>2, <3>2
  <2> QED
    BY <1>1, <2>1, <2>2
<1>5. ASSUME NEW i \in Nat, Required(g, i) PROVE IsStoreReachable(g, i, new)
  <2>1. CASE count = 0
    BY <2>1 DEF IsStoreReachable
  <2>2. CASE count # 0
    <3> DEFINE segment == i - (i % count)
               left == new - segment
    <3>1. i % count \in Int /\ i % count >= count - w
      <4>1. i % count >= count - w
        BY <1>5, <2>2 DEF Required
      <4> HIDE DEF count
      <4>2. i % count \in 0 .. count - 1
        BY <1>2, <2>2, Quotient
      <4> QED
        BY <1>2, <4>1, <4>2
    <3>2. new \in Nat
      BY <1>1, Quotient
    <3>3. left \in Int
      BY <3>1, <3>2
    <3> HIDE DEF count
    <3>4. IsStoreReachable(g, i, new) <=> count = 0 \/ i % count >= Min({count, left}) - (w + 0)
      BY DEF IsStoreReachable, count
    <3> HIDE DEF left, new, w
    <3>5. Min({count, left}) <= count /\ Min({count, left}) \in Int
      BY <1>2, <3>3, OfTwo
    <3> QED
      BY <1>1, <1>2, <3>1, <3>4, <3>5
  <2> QED
    BY <2>1, <2>2
<1>6. old \in Nat /\ new \in Nat /\ old <= new
  <2>1. old \in Nat /\ new \in Nat
    BY <1>1, Quotient
  <2>2. c * old <= stored
    BY <1>1, <2>1, WholeFits
  <2> HIDE DEF old
  <2>3. c * old \in Nat
    BY <1>1, <2>1
  <2>4. c * old <= tokens
    BY <1>1, <2>2, <2>3
  <2> QED
    BY <1>1, <2>1, <2>4, WholeFits
<1> HIDE DEF old, new, c, count, w
<1>7. nextChunk'[g] = new
  <2>1. Max({old, new}) = new
    <3>1. old \in Int /\ new \in Int
      BY <1>6
    <3>2. Max({old, new}) = IF old <= new THEN new ELSE old
      BY <3>1, OfTwo, Zenon
    <3> QED
      BY <1>6, <3>2
  <2> QED
    BY <1>3, <1>4, <2>1, Zenon
<1>8. ASSUME NEW i \in Nat, i < new, Required(g, i) PROVE <<g, i>> \in present'
  <2>1. CASE i < old
    BY <1>4, <1>8, <2>1 DEF old, c
  <2>2. CASE ~(i < old)
    <3>1. i \in nextChunk[g] .. Storable(g, tokens) - 1
      BY <1>3, <1>6, <1>8, <2>2
    <3> QED
      BY <1>3, <1>4, <1>5, <1>8, <3>1
  <2> QED
    BY <2>1, <2>2
<1> QED
  BY <1>7, <1>8 DEF new, c

\* A stored prefix of whole segments is loadable.
LEMMA WholeSegmentsLoad ==
  ASSUME layout \in Seq(GroupConfigs), LookTypes, StoredInv, ~evicted, DOMAIN unsure = {},
         Cardinality(FullSizes) = 1, \A g \in Groups : ~layout[g].eagle,
         \A g \in Groups : Segment % layout[g].chunk = 0,
         NEW q \in Nat, q * Segment <= stored, q * Segment <= look.tokens
  PROVE  Loadable(q * Segment)
<1> SUFFICES ASSUME NEW g \in Groups PROVE Served(g, q * Segment)
  BY DEF Loadable
<1> DEFINE c == layout[g].chunk
           w == layout[g].window
           k == Segment \div c
           h == k * q
           t == q * Segment
           n == AlignmentChunks(g)
           top == stored \div c
<1>1. c \in Nat \ {0} /\ w \in Nat /\ stored \in Nat /\ look.tokens \in Nat
  BY GroupIs DEF Groups, LookTypes, StoredInv
<1>2. /\ Segment \in Nat \ {0} /\ n \in Nat
      /\ n # 0 => w \in 1 .. n - 1 /\ n = k
  BY AlignmentIs
<1>3. k \in Nat /\ Segment = c * k
  <2>1. Segment % c = 0
    OBVIOUS
  <2> HIDE DEF c
  <2>2. k \in Nat /\ Segment = c * k + (Segment % c) /\ c * k \in Nat
    <3>1. k \in Nat /\ Segment = c * k + (Segment % c)
      BY <1>1, <1>2, Quotient
    <3> HIDE DEF k
    <3> QED
      BY <1>1, <3>1
  <2> DEFINE p == c * k
             r == Segment % c
  <2>3. p \in Nat /\ Segment = p + r /\ r = 0
    BY <2>1, <2>2
  <2> HIDE DEF p, r
  <2>4. Segment = p
    BY <2>3
  <2> QED
    BY <2>2, <2>4 DEF p
<1>4. \A i \in Nat : i < top /\ Required(g, i) => <<g, i>> \in present
  BY DEF StoredInv
<1> HIDE DEF c, w, k, n
<1>5. h \in Nat /\ t = c * h /\ t \in Nat /\ (n # 0 => h = n * q)
  <2>1. h \in Nat /\ t \in Nat
    BY <1>2, <1>3
  <2>2. t = q * (c * k)
    BY <1>3
  <2>3. q * (c * k) = c * (k * q)
    BY <1>1, <1>3
  <2>4. n # 0 => h = n * q
    BY <1>2
  <2>5. t = c * h
    BY <2>2, <2>3, Zenon
  <2> QED
    BY <2>1, <2>4, <2>5, Zenon
<1>6. t <= stored /\ t <= look.tokens
  OBVIOUS
<1> HIDE DEF h, t
<1>7. End(g, t) = h
  BY <1>1, <1>5, CoverExact DEF End, c
<1>8. h <= Keys(g) /\ h <= top
  <2>1. c * h <= stored /\ c * h <= look.tokens /\ h \in Nat
    BY <1>5, <1>6
  <2>2. h <= stored \div c /\ h <= look.tokens \div c
    BY <1>1, <2>1, WholeFits
  <2> QED
    BY <2>2 DEF Keys, c
<1>9. top \in Nat
  BY <1>1, Quotient
<1> HIDE DEF top
<1>10. ASSUME NEW i \in Nat, i < h, w = 0 \/ i >= h - w PROVE Answer(<<g, i>>) = "hit"
  <2>1. Required(g, i)
    <3>1. CASE n = 0
      BY <3>1 DEF Required, n
    <3>2. CASE n # 0
      <4>1. n \in Nat \ {0} /\ w \in Nat /\ w < n /\ w # 0 /\ h = n * q
        BY <1>1, <1>2, <1>5, <3>2
      <4>2. i < n * q /\ i >= n * q - w
        BY <1>10, <4>1
      <4>3. i % n >= n - w
        BY <4>1, <4>2, InTail
      <4> QED
        BY <4>3 DEF Required, n, w
    <3> QED
      BY <3>1, <3>2
  <2>2. i < top
    BY <1>5, <1>8, <1>9, <1>10
  <2>3. <<g, i>> \in present
    BY <1>4, <2>1, <2>2
  <2> QED
    BY <2>3 DEF Answer
<1>11. First(g) \in Nat
  BY ServedIs, 0 \in Nat
<1>12. \A i \in First(g) .. End(g, t) - 1 :
          layout[g].window = 0 \/ i >= End(g, t) - layout[g].window => Answer(<<g, i>>) = "hit"
  <2> TAKE i \in First(g) .. End(g, t) - 1
  <2>1. i \in Nat /\ i < h
    BY <1>5, <1>7, <1>11
  <2> QED
    BY <1>7, <1>10, <2>1 DEF w
<1>13. End(g, t) <= Keys(g) /\ t \in Nat
  BY <1>5, <1>7, <1>8
<1>14. Served(g, t)
  BY <1>12, <1>13, ServedIs, Zenon
<1> QED
  BY <1>14 DEF t

\* Quotients of any number.
LEMMA IntQuotient ==
  ASSUME NEW a \in Int, NEW b \in Nat \ {0}
  PROVE  /\ a \div b \in Int /\ a % b \in 0 .. b - 1
         /\ a = b * (a \div b) + (a % b)
OBVIOUS

\* The longest prefix is not shorter than the whole segments stored.
LEMMA NothingMissed ==
  ASSUME LookupInv, StoredInv
  PROVE  SkippedChunksAreNotMissed
<1> SUFFICES ASSUME look.phase = "done", ~evicted, DOMAIN unsure = {}, look.computed = 0,
                    Cardinality(FullSizes) = 1, Groups # {}, \A g \in Groups : ~layout[g].eagle,
                    \A g \in Groups : Segment % layout[g].chunk = 0
             PROVE  look.result >= (Min({stored, Cap}) \div Segment) * Segment
  BY Zenon DEF SkippedChunksAreNotMissed, Segment
<1>1. layout \in Seq(GroupConfigs) /\ LookTypes /\ LookupIsLongest
  BY DEF LookupInv, NoLook
<1>2. stored \in Nat /\ Cap \in Int /\ Cap <= look.tokens /\ look.tokens \in Nat
  BY <1>1 DEF StoredInv, LookTypes, Cap
<1>3. Segment \in Nat \ {0}
  <2>1. PICK g \in Groups : TRUE
    OBVIOUS
  <2> QED
    BY <1>1, <2>1, AlignmentIs
<1>4. look.result \in Nat
  <2>1. look.result \in Nat \cup {-1}
    BY <1>1 DEF LookTypes
  <2> QED
    BY <1>1, <2>1 DEF LookupIsLongest
<1> DEFINE m == Min({stored, Cap})
           q == m \div Segment
           t == q * Segment
<1>5. m \in Int /\ m <= stored /\ m <= Cap
  <2>1. stored \in Int /\ Cap \in Int
    BY <1>2
  <2>2. m = IF stored <= Cap THEN stored ELSE Cap
    BY <2>1, OfTwo, Zenon
  <2> HIDE DEF m
  <2> QED
    BY <2>1, <2>2
<1> HIDE DEF m
<1>6. q \in Int /\ t \in Int /\ t <= m /\ t = Segment * q
  <2>1. q \in Int /\ m % Segment \in 0 .. Segment - 1 /\ m = Segment * q + (m % Segment)
    BY <1>3, <1>5, IntQuotient
  <2> HIDE DEF q
  <2>2. q * Segment = Segment * q /\ Segment * q \in Int
    BY <1>3, <2>1
  <2> DEFINE p == Segment * q
             r == m % Segment
  <2>3. p \in Int /\ r \in Nat /\ m = p + r
    BY <1>3, <2>1, <2>2
  <2> HIDE DEF p, r
  <2>4. p <= m
    BY <1>5, <2>3
  <2> QED
    BY <2>1, <2>2, <2>4 DEF p
<1> HIDE DEF q
<1>7. CASE t <= 0
  <2> HIDE DEF t
  <2>1. look.result >= t
    BY <1>4, <1>6, <1>7
  <2> QED
    BY <2>1 DEF t, q, m
<1>8. CASE t > 0
  <2>1. q \in Nat /\ q >= 1 /\ t >= Segment
    <3>1. q <= 0 => Segment * q <= 0
      BY <1>3, <1>6
    <3>2. q >= 1 => Segment * q >= Segment
      BY <1>3, <1>6
    <3> HIDE DEF t
    <3> QED
      BY <1>6, <1>8, <3>1, <3>2
  <2>2. t <= stored /\ t <= look.tokens /\ t <= Cap
    <3> HIDE DEF t
    <3> QED
      BY <1>2, <1>5, <1>6
  <2>3. Loadable(t)
    BY <1>1, <2>1, <2>2, WholeSegmentsLoad
  <2> HIDE DEF t
  <2>4. t \in look.computed + 1 .. Cap
    BY <1>2, <1>6, <1>8, <2>2
  <2>5. t \in Candidates
    BY <2>3, <2>4 DEF Candidates
  <2>6. t <= look.computed + (IF look.result > 0 THEN look.result ELSE Largest - 1)
    BY <1>1, <2>5 DEF LookupIsLongest
  <2>7. CASE look.result > 0
    <3>1. look.result >= t
      BY <1>4, <1>6, <2>6, <2>7
    <3> QED
      BY <3>1 DEF t, q, m
  <2>8. CASE ~(look.result > 0)
    <3>1. PICK g \in Groups : Largest = layout[g].chunk
      BY <1>1, LargestIs
    <3> DEFINE c == layout[g].chunk
               k == Segment \div c
    <3>2. c \in Nat \ {0} /\ Segment % c = 0 /\ Largest = c
      BY <1>1, <3>1, GroupIs DEF Groups
    <3> HIDE DEF c
    <3>3. k \in Nat /\ Segment = c * k + (Segment % c)
      BY <1>3, <3>2, Quotient
    <3> HIDE DEF k
    <3>4. k = 0 => c * k = 0
      BY <3>2
    <3>5. k >= 1 => c <= c * k
      BY <3>2, <3>3
    <3>6. c * k \in Nat
      BY <3>2, <3>3
    <3>7. c <= Segment
      BY <1>3, <3>2, <3>3, <3>4, <3>5, <3>6
    <3>8. t <= c - 1
      BY <1>4, <1>6, <2>6, <2>8, <3>2
    <3> QED
      BY <1>3, <1>6, <2>1, <3>2, <3>7, <3>8
  <2> QED
    BY <2>7, <2>8
<1> QED
  BY <1>6, <1>7, <1>8

\* Lookups leave what is stored as it is; stores and evictions keep the rest.
LEMMA StoredStep ==
  ASSUME MaxTokens \in Nat, layout \in Seq(GroupConfigs), StoredInv, [Next]_vars
  PROVE  StoredInv'
<1>1. CASE UNCHANGED <<layout, stored, nextChunk, present, evicted>>
  <2>1. Groups' = Groups /\ \A g, i : Required(g, i)' <=> Required(g, i)
    BY <1>1 DEF Groups, Required, AlignmentChunks, FullSizes
  <2> QED
    BY <1>1, <2>1 DEF StoredInv
<1>2. ASSUME NEW tokens \in 1 .. MaxTokens, StoreUpTo(tokens)
      PROVE  StoredInv'
  <2>1. layout' = layout /\ stored' = tokens /\ ~evicted /\ tokens \in Nat
    BY <1>2 DEF StoreUpTo
  <2>2. Groups' = Groups /\ \A g, i : Required(g, i)' <=> Required(g, i)
    BY <2>1 DEF Groups, Required, AlignmentChunks, FullSizes
  <2>3. ASSUME NEW g \in Groups, ~layout[g].eagle
        PROVE  /\ nextChunk'[g] = tokens \div layout[g].chunk
               /\ \A i \in Nat : i < tokens \div layout[g].chunk /\ Required(g, i) => <<g, i>> \in present'
    <3>1. /\ stored \in Nat /\ nextChunk[g] = stored \div layout[g].chunk
          /\ \A i \in Nat : i < stored \div layout[g].chunk /\ Required(g, i) => <<g, i>> \in present
      BY <2>1, <2>3 DEF StoredInv
    <3> QED
      BY <1>2, <2>3, <3>1, StoreCovers
  <2> QED
    BY <2>1, <2>2, <2>3 DEF StoredInv
<1>3. CASE \E key \in present : Evict(key)
  BY <1>3 DEF Evict, StoredInv
<1>4. CASE \/ \E tokens \in 1 .. MaxTokens : \E computed \in 0 .. tokens - 1, tiers \in Tiers(tokens) :
                 Ask(tokens, computed, tiers)
           \/ LookUpGroup \/ NextPass \/ UNCHANGED vars
  BY <1>1, <1>4 DEF Ask, LookUpGroup, NextPass, vars
<1> QED
  BY <1>2, <1>3, <1>4 DEF Next

\* What the stores leave out no lookup misses, and what a lookup finds is the longest
\* prefix that every group serves.
THEOREM LookupFindsWhatWasStoredHolds ==
  ASSUME Layouts \subseteq Seq(GroupConfigs), Unsure \cap {"hit", "miss"} = {}, MaxTokens \in Nat
  PROVE  Spec => []LookupFindsWhatWasStored
<1>1. Init => LookupInv /\ StoredInv
  <2> SUFFICES ASSUME Init PROVE LookupInv /\ StoredInv
    OBVIOUS
  <2>1. LookupInv
    BY DEF Init, LookupInv, Answers
  <2>2. ASSUME NEW g \in Groups
        PROVE  nextChunk[g] = 0 /\ 0 \div layout[g].chunk = 0
    <3>1. layout \in Seq(GroupConfigs) /\ g \in DOMAIN layout /\ nextChunk = [h \in DOMAIN layout |-> 0]
      BY DEF Init, Groups
    <3>2. layout[g].chunk \in Nat \ {0}
      BY <3>1, GroupIs
    <3> QED
      BY <3>1, <3>2
  <2> QED
    BY <2>1, <2>2 DEF Init, StoredInv
<1>2. (LookupInv /\ StoredInv) /\ [Next]_vars => (LookupInv /\ StoredInv)'
  BY LookupStep, StoredStep DEF LookupInv
<1>3. LookupInv /\ StoredInv => LookupFindsWhatWasStored
  BY NothingMissed DEF LookupInv, LookupIsLongest, NoLook, LookupFindsWhatWasStored
<1> QED
  BY <1>1, <1>2, <1>3, PTL DEF Spec
================================================================================
