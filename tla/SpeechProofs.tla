---------------------------- MODULE SpeechProofs -----------------------------
(***************************************************************************)
(* Proofs about the recording and its transcript, as Audio runs them: the  *)
(* merge of the timelines of two origins, the capture, whose speech is     *)
(* kept and sent however the callbacks, the mixer, the detector and the    *)
(* stop take turns, and the track of an origin, which is cut into          *)
(* checkpoints that the recovery can put together wherever the process     *)
(* ends and whatever fails.  What the code computes in a loop is an        *)
(* invariant of its steps, for audio and transcripts of any length.        *)
(***************************************************************************)
EXTENDS Audio, SequenceTheorems, WellFoundedInduction, FiniteSetTheorems,
    TLAPS

-----------------------------------------------------------------------------
(* Numbers                                                                 *)

\* Some number of a set of them is the least.
LEMMA LeastNumber ==
  ASSUME NEW T, T \subseteq Nat, T # {}
  PROVE  \E x \in T : \A y \in T : x <= y
  <1>1. \A y, x \in Nat : <<y, x>> \in OpToRel(<, Nat) <=> y < x
    BY DEF OpToRel
  <1>2. \E R : /\ IsWellFoundedOn(R, Nat)
               /\ \A y, x \in Nat : <<y, x>> \in R <=> y < x
    BY <1>1, NatLessThanWellFounded, Zenon
  <1>3. PICK R : /\ IsWellFoundedOn(R, Nat)
                 /\ \A y, x \in Nat : <<y, x>> \in R <=> y < x
    BY <1>2, Zenon
  <1>4. PICK x \in T : \A y \in T : ~(<<y, x>> \in R)
    <2>1. T \subseteq Nat /\ T # {} /\ IsWellFoundedOn(R, Nat)
      BY <1>3
    <2> QED
      BY <2>1, WFMin
  <1>5. x \in Nat /\ \A y \in T : y \in Nat /\ ~(y < x)
    BY <1>3, <1>4, Zenon
  <1>6. \A y \in T : x <= y
    BY <1>5
  <1> QED
    BY <1>6

\* Some number of a set that has a bound is the greatest.
LEMMA GreatestNumber ==
  ASSUME NEW T, NEW b \in Nat, T \subseteq 0..b, T # {}
  PROVE  \E x \in T : \A y \in T : x >= y
  <1> DEFINE below == {b - x : x \in T}
  <1>1. below \subseteq Nat /\ below # {}
    <2>1. \A x \in T : b - x \in Nat
      OBVIOUS
    <2> QED
      BY <2>1
  <1>2. PICK z \in below : \A y \in below : z <= y
    BY <1>1, LeastNumber
  <1>3. PICK x \in T : z = b - x
    BY <1>2
  <1>4. ASSUME NEW y \in T PROVE x >= y
    <2>1. b - y \in below /\ x \in Int /\ y \in Int
      OBVIOUS
    <2> QED
      BY <2>1, <1>2, <1>3
  <1> QED
    BY <1>4

-----------------------------------------------------------------------------
(* The timelines of two origins.  The sort puts a passage at the place of  *)
(* the number of those before it; the order of the passages is total, so   *)
(* that the places are all taken, each once.                               *)

\* Numbers that a total order orders are counted by how many are below.
LEMMA PlacesAreTaken ==
  ASSUME NEW N \in Nat, NEW R,
         \A x, y, z \in 1..N :
           <<x, y>> \in R /\ <<y, z>> \in R => <<x, z>> \in R,
         \A x \in 1..N : <<x, x>> \notin R,
         \A x, y \in 1..N : x # y => <<x, y>> \in R \/ <<y, x>> \in R
  PROVE  LET below(x) == {y \in 1..N : <<y, x>> \in R} IN
         /\ \A x, y \in 1..N :
              Cardinality(below(x)) = Cardinality(below(y)) => x = y
         /\ \A k \in 1..N : \E x \in 1..N :
              Cardinality(below(x)) = k - 1
  <1> DEFINE below(x) == {y \in 1..N : <<y, x>> \in R}
             place(x) == Cardinality(below(x))
  <1>1. IsFiniteSet(1..N) /\ Cardinality(1..N) = N
    BY FS_Interval
  <1>2. ASSUME NEW x \in 1..N
        PROVE  IsFiniteSet(below(x)) /\ place(x) \in 0..N - 1
    <2> DEFINE S == (1..N) \ {x}
               B == below(x)
    <2>1. B \in SUBSET S
      OBVIOUS
    <2>2. IsFiniteSet(S) /\ Cardinality(S) = N - 1
      BY <1>1, FS_RemoveElement
    <2> HIDE DEF S, B
    <2>3. IsFiniteSet(B) /\ Cardinality(B) <= N - 1
      BY <2>1, <2>2, FS_Subset
    <2>4. Cardinality(B) \in Nat
      BY <2>3, FS_CardinalityType
    <2>5. Cardinality(B) \in 0..N - 1
      BY <2>3, <2>4
    <2> QED
      BY <2>3, <2>5 DEF B
  <1>3. ASSUME NEW x \in 1..N, NEW y \in 1..N, <<x, y>> \in R
        PROVE  place(x) # place(y)
    <2>1. below(x) \in SUBSET below(y)
      BY <1>3
    <2>2. x \in below(y) /\ x \notin below(x)
      BY <1>3
    <2>3. IsFiniteSet(below(y))
      BY <1>2
    <2> HIDE DEF below
    <2> QED
      BY <2>1, <2>2, <2>3, FS_Subset
  <1> DEFINE f == [x \in 1..N |-> place(x) + 1]
  <1> HIDE DEF place
  <1>4. \A x, y \in 1..N : place(x) = place(y) => x = y
    BY <1>3
  <1>5. f \in [1..N -> 1..N]
    <2>1. \A x \in 1..N : place(x) + 1 \in 1..N
      <3>1. ASSUME NEW x \in 1..N PROVE place(x) + 1 \in 1..N
        <4>1. place(x) \in 0..N - 1
          BY <1>2
        <4> QED
          BY <4>1
      <3> QED
        BY <3>1
    <2> QED
      BY <2>1
  <1>6. \A x, y \in 1..N : f[x] = f[y] => x = y
    <2> SUFFICES ASSUME NEW x \in 1..N, NEW y \in 1..N, f[x] = f[y]
                 PROVE  place(x) = place(y)
      BY <1>4
    <2>1. f[x] = place(x) + 1 /\ f[y] = place(y) + 1
      OBVIOUS
    <2>2. place(x) \in 0..N - 1 /\ place(y) \in 0..N - 1
      BY <1>2
    <2>3. place(x) + 1 = place(y) + 1
      BY <2>1
    <2> QED
      BY <2>2, <2>3
  <1>7. f \in Injection(1..N, 1..N)
    BY <1>5, <1>6 DEF Injection, IsInjective
  <1>8. f \in Surjection(1..N, 1..N)
    <2> HIDE DEF f
    <2> QED
      BY <1>1, <1>7, FS_Injection
  <1>9. ASSUME NEW k \in 1..N PROVE \E x \in 1..N : place(x) = k - 1
    <2>1. PICK x \in 1..N : f[x] = k
      BY <1>8 DEF Surjection
    <2>2. place(x) + 1 = k
      BY <2>1
    <2>3. place(x) \in 0..N - 1
      BY <1>2
    <2> QED
      BY <2>2, <2>3
  <1> QED
    BY <1>4, <1>9 DEF place

\* A passage is before another in the sorted timeline.
Before(s, j, k) ==
  \/ Timelines!Precedes(s[j], s[k])
  \/ ~Timelines!Precedes(s[k], s[j]) /\ j < k

Place(s, k) == Cardinality({j \in 1..Len(s) : Before(s, j, k)})

At(s, k) == CHOOSE j \in 1..Len(s) : Place(s, j) = k - 1

\* What has times, and an origin.
Timed(s) ==
  /\ Len(s) \in Nat
  /\ \A k \in 1..Len(s) : s[k].from \in Int /\ s[k].to \in Int

\* Numbers in place of the passages: the order is that of their pairs.
LEMMA OrderIsTotal ==
  ASSUME NEW s, Timed(s)
  PROVE  LET N == Len(s) IN
         /\ \A x, y, z \in 1..N :
              Before(s, x, y) /\ Before(s, y, z) => Before(s, x, z)
         /\ \A x \in 1..N : ~Before(s, x, x)
         /\ \A x, y \in 1..N : x # y => Before(s, x, y) \/ Before(s, y, x)
  <1> DEFINE N == Len(s)
             f(k) == s[k].from
             t(k) == s[k].to
             r(k) == Timelines!Rank(s[k].origin)
             less(x, y) == \/ f(x) < f(y)
                           \/ f(x) = f(y) /\ t(x) < t(y)
                           \/ f(x) = f(y) /\ t(x) = t(y) /\ r(x) < r(y)
  <1>1. N \in Nat /\ \A k \in 1..N : f(k) \in Int /\ t(k) \in Int
                                     /\ r(k) \in Int
    BY DEF Timed, Timelines!Rank
  <1>2. ASSUME NEW x, NEW y
        PROVE  Before(s, x, y) <=> less(x, y) \/ (~less(y, x) /\ x < y)
    <2>1. /\ less(x, y) <=> Timelines!Precedes(s[x], s[y])
          /\ less(y, x) <=> Timelines!Precedes(s[y], s[x])
      BY DEF Timelines!Precedes
    <2> HIDE DEF less
    <2> QED
      BY <2>1, Zenon DEF Before
  <1> HIDE DEF f, t, r
  <1>3. ASSUME NEW x \in 1..N, NEW y \in 1..N, NEW z \in 1..N,
               less(x, y) \/ (~less(y, x) /\ x < y),
               less(y, z) \/ (~less(z, y) /\ y < z)
        PROVE  less(x, z) \/ (~less(z, x) /\ x < z)
    <2>1. /\ f(x) \in Int /\ f(y) \in Int /\ f(z) \in Int
          /\ t(x) \in Int /\ t(y) \in Int /\ t(z) \in Int
          /\ r(x) \in Int /\ r(y) \in Int /\ r(z) \in Int
          /\ x \in Int /\ y \in Int /\ z \in Int
      BY <1>1
    <2> QED
      BY <1>3, <2>1
  <1>4. ASSUME NEW x \in 1..N, NEW y \in 1..N
        PROVE  /\ ~less(x, x) /\ ~(x < x)
               /\ x # y => x < y \/ y < x
               /\ ~(less(x, y) /\ less(y, x))
    <2>1. /\ f(x) \in Int /\ f(y) \in Int /\ t(x) \in Int /\ t(y) \in Int
          /\ r(x) \in Int /\ r(y) \in Int /\ x \in Int /\ y \in Int
      BY <1>1
    <2> QED
      BY <2>1
  <1> HIDE DEF less
  <1>5. \A x, y, z \in 1..N :
          Before(s, x, y) /\ Before(s, y, z) => Before(s, x, z)
    BY <1>2, <1>3
  <1>6. \A x \in 1..N : ~Before(s, x, x)
    BY <1>2, <1>4
  <1>7. ASSUME NEW x \in 1..N, NEW y \in 1..N, x # y
        PROVE  Before(s, x, y) \/ Before(s, y, x)
    <2>1. x < y \/ y < x
      BY <1>4, <1>7
    <2>2. ~(less(x, y) /\ less(y, x))
      BY <1>4
    <2>3. /\ Before(s, x, y) <=> less(x, y) \/ (~less(y, x) /\ x < y)
          /\ Before(s, y, x) <=> less(y, x) \/ (~less(x, y) /\ y < x)
      BY <1>2
    <2> QED
      BY <2>1, <2>2, <2>3, Zenon
  <1> QED
    BY <1>5, <1>6, <1>7

\* Each place of the sorted timeline has one passage, and each passage one
\* place.
LEMMA SortIsOneToOne ==
  ASSUME NEW s, Timed(s)
  PROVE  /\ \A x, y \in 1..Len(s) : Place(s, x) = Place(s, y) => x = y
         /\ \A k \in 1..Len(s) : /\ At(s, k) \in 1..Len(s)
                                 /\ Place(s, At(s, k)) = k - 1
         /\ \A x \in 1..Len(s) : \E k \in 1..Len(s) : At(s, k) = x
         /\ Timelines!Sorted(s) = [k \in 1..Len(s) |-> s[At(s, k)]]
  <1> DEFINE N == Len(s)
             R == {p \in (1..N) \X (1..N) : Before(s, p[1], p[2])}
             below(x) == {y \in 1..N : <<y, x>> \in R}
  <1>1. N \in Nat
    BY DEF Timed
  <1>2. \A x, y \in 1..N : <<x, y>> \in R <=> Before(s, x, y)
    OBVIOUS
  <1>3. /\ \A x, y, z \in 1..N :
             <<x, y>> \in R /\ <<y, z>> \in R => <<x, z>> \in R
        /\ \A x \in 1..N : <<x, x>> \notin R
        /\ \A x, y \in 1..N : x # y => <<x, y>> \in R \/ <<y, x>> \in R
    BY <1>2, OrderIsTotal
  <1>4. \A x \in 1..N : Place(s, x) = Cardinality(below(x))
    <2> SUFFICES ASSUME NEW x \in 1..N
                 PROVE  {j \in 1..N : Before(s, j, x)} = below(x)
      BY DEF Place
    <2> QED
      BY <1>2
  <1> HIDE DEF R
  <1>5. /\ \A x, y \in 1..N :
             Cardinality(below(x)) = Cardinality(below(y)) => x = y
        /\ \A k \in 1..N : \E x \in 1..N : Cardinality(below(x)) = k - 1
    BY <1>1, <1>3, PlacesAreTaken
  <1> HIDE DEF below
  <1>6. /\ \A x, y \in 1..N : Place(s, x) = Place(s, y) => x = y
        /\ \A k \in 1..N : \E x \in 1..N : Place(s, x) = k - 1
    BY <1>4, <1>5
  <1>7. \A k \in 1..N : At(s, k) \in 1..N /\ Place(s, At(s, k)) = k - 1
    BY <1>6 DEF At
  <1> DEFINE g == [k \in 1..N |-> At(s, k)]
  <1>8. \A x \in 1..N : \E k \in 1..N : At(s, k) = x
    <2>1. g \in [1..N -> 1..N]
      BY <1>7
    <2>2. \A x, y \in 1..N : g[x] = g[y] => x = y
      BY <1>7
    <2>3. g \in Injection(1..N, 1..N)
      BY <2>1, <2>2 DEF Injection, IsInjective
    <2>4. IsFiniteSet(1..N)
      BY <1>1, FS_Interval
    <2>5. g \in Surjection(1..N, 1..N)
      BY <2>3, <2>4, FS_Injection
    <2> QED
      BY <2>5 DEF Surjection
  <1>9. Timelines!Sorted(s) = [k \in 1..N |-> s[At(s, k)]]
    BY DEF Timelines!Sorted, At, Place, Before, Timelines!Cardinality,
      Cardinality
  <1> QED
    BY <1>6, <1>7, <1>8, <1>9

\* Putting the two timelines together the other way round moves each passage
\* by as much as the other timeline is long.
Moved(x, a, b) == IF x <= Len(a) THEN x + Len(b) ELSE x - Len(a)

\* The passage of a timeline at a number.
Nth(s, k) == s[k]

LEMMA MovedPassages ==
  ASSUME NEW S, NEW a \in Seq(S), NEW b \in Seq(S)
  PROVE  /\ Len(a \o b) \in Nat
         /\ Len(b \o a) = Len(a \o b)
         /\ \A x \in 1..Len(a \o b) : Moved(x, a, b) \in 1..Len(a \o b)
         /\ \A x \in 1..Len(a \o b) :
              Nth(b \o a, Moved(x, a, b)) = Nth(a \o b, x)
         /\ \A x, y \in 1..Len(a \o b) :
              Moved(x, a, b) = Moved(y, a, b) => x = y
         /\ \A y \in 1..Len(a \o b) :
              \E x \in 1..Len(a \o b) : Moved(x, a, b) = y
  <1> DEFINE N == Len(a \o b)
  <1>1. /\ Len(a) \in Nat /\ Len(b) \in Nat
        /\ N = Len(a) + Len(b) /\ Len(b \o a) = Len(a) + Len(b)
        /\ \A x \in 1..N : (a \o b)[x] = IF x <= Len(a) THEN a[x]
                                         ELSE b[x - Len(a)]
        /\ \A x \in 1..N : (b \o a)[x] = IF x <= Len(b) THEN b[x]
                                         ELSE a[x - Len(b)]
    BY ConcatProperties, LenProperties
  <1> HIDE DEF N
  <1>2. ASSUME NEW x \in 1..N
        PROVE  /\ Moved(x, a, b) \in 1..N
               /\ (b \o a)[Moved(x, a, b)] = (a \o b)[x]
    <2>1. CASE x <= Len(a)
      <3>1. Moved(x, a, b) = x + Len(b)
        BY <2>1 DEF Moved
      <3>2. /\ x + Len(b) \in 1..N /\ ~(x + Len(b) <= Len(b))
            /\ (x + Len(b)) - Len(b) = x
        BY <1>1, <2>1
      <3>3. (b \o a)[x + Len(b)] = a[x]
        BY <1>1, <3>2
      <3> QED
        BY <1>1, <2>1, <3>1, <3>2, <3>3
    <2>2. CASE ~(x <= Len(a))
      <3>1. Moved(x, a, b) = x - Len(a)
        BY <2>2 DEF Moved
      <3>2. x - Len(a) \in 1..N /\ x - Len(a) <= Len(b)
        BY <1>1, <2>2
      <3>3. (b \o a)[x - Len(a)] = b[x - Len(a)]
        BY <1>1, <3>2
      <3> QED
        BY <1>1, <2>2, <3>1, <3>2, <3>3
    <2> QED
      BY <2>1, <2>2
  <1>3. ASSUME NEW x \in 1..N, NEW y \in 1..N,
               Moved(x, a, b) = Moved(y, a, b)
        PROVE  x = y
    BY <1>1, <1>3 DEF Moved
  <1>4. ASSUME NEW y \in 1..N
        PROVE  \E x \in 1..N : Moved(x, a, b) = y
    <2>1. CASE y <= Len(b)
      <3>1. y + Len(a) \in 1..N /\ Moved(y + Len(a), a, b) = y
        BY <1>1, <2>1 DEF Moved
      <3> QED
        BY <3>1
    <2>2. CASE ~(y <= Len(b))
      <3>1. y - Len(b) \in 1..N /\ Moved(y - Len(b), a, b) = y
        BY <1>1, <2>2 DEF Moved
      <3> QED
        BY <3>1
    <2> QED
      BY <2>1, <2>2
  <1>5. N \in Nat /\ Len(b \o a) = N
    BY <1>1
  <1>6. \A x \in 1..N : Moved(x, a, b) \in 1..N
    BY <1>2, Zenon
  <1>9. \A x \in 1..N : Nth(b \o a, Moved(x, a, b)) = Nth(a \o b, x)
    BY <1>2, Zenon DEF Nth
  <1>7. \A x, y \in 1..N : Moved(x, a, b) = Moved(y, a, b) => x = y
    BY <1>3, Zenon
  <1>8. \A y \in 1..N : \E x \in 1..N : Moved(x, a, b) = y
    BY <1>4, Zenon
  <1> QED
    BY <1>5, <1>6, <1>7, <1>8, <1>9, Zenon DEF N

\* Two passages of different origins never tie, and those of one origin keep
\* their order: what is sorted does not depend on which timeline is first.
LEMMA SortIgnoresTheOrder ==
  ASSUME NEW S, NEW a \in Seq(S), NEW b \in Seq(S),
         \A p \in S : p.from \in Int /\ p.to \in Int,
         \A x \in 1..Len(a), y \in 1..Len(b) :
           Timelines!Precedes(a[x], b[y]) <=> ~Timelines!Precedes(b[y], a[x])
  PROVE  Timelines!Sorted(a \o b) = Timelines!Sorted(b \o a)
  <1> DEFINE s == a \o b
             u == b \o a
             N == Len(s)
             p(x) == Moved(x, a, b)
  <1>1. /\ N \in Nat /\ Len(u) = N
        /\ \A x \in 1..N : p(x) \in 1..N /\ u[p(x)] = s[x]
        /\ \A x, y \in 1..N : p(x) = p(y) => x = y
        /\ \A y \in 1..N : \E x \in 1..N : p(x) = y
    <2>1. Len(s) \in Nat /\ Len(u) = Len(s)
      BY MovedPassages
    <2>4. \A x \in 1..Len(s) : Moved(x, a, b) \in 1..Len(s)
      BY MovedPassages
    <2>5. \A x \in 1..Len(s) : Nth(u, Moved(x, a, b)) = Nth(s, x)
      BY MovedPassages
    <2>2. \A x, y \in 1..Len(s) : Moved(x, a, b) = Moved(y, a, b) => x = y
      BY MovedPassages
    <2>3. \A y \in 1..Len(s) : \E x \in 1..Len(s) : Moved(x, a, b) = y
      BY MovedPassages
    <2> HIDE DEF s, u
    <2> QED
      BY <2>1, <2>2, <2>3, <2>4, <2>5 DEF Nth
  <1>2. Timed(s) /\ Timed(u)
    <2>1. s \in Seq(S) /\ u \in Seq(S)
      BY ConcatProperties
    <2> HIDE DEF s, u
    <2> QED
      BY <2>1, ElementOfSeq, LenProperties DEF Timed
  <1>3. ASSUME NEW x \in 1..N, NEW y \in 1..N
        PROVE  Before(s, x, y) <=> Before(u, p(x), p(y))
    <2>1. /\ Len(a) \in Nat /\ Len(b) \in Nat /\ N = Len(a) + Len(b)
          /\ s[x] = IF x <= Len(a) THEN a[x] ELSE b[x - Len(a)]
          /\ s[y] = IF y <= Len(a) THEN a[y] ELSE b[y - Len(a)]
      BY ConcatProperties, LenProperties
    <2>2. u[p(x)] = s[x] /\ u[p(y)] = s[y]
      BY <1>1
    <2> HIDE DEF s, u, N
    <2>3. CASE (x <= Len(a)) <=> (y <= Len(a))
      <3>1. x < y <=> p(x) < p(y)
        BY <2>1, <2>3 DEF Moved
      <3> HIDE DEF p
      <3> QED
        BY <2>2, <3>1 DEF Before
    <2>4. CASE ~((x <= Len(a)) <=> (y <= Len(a)))
      <3>1. Timelines!Precedes(s[x], s[y]) <=> ~Timelines!Precedes(s[y], s[x])
        <4>1. CASE x <= Len(a)
          <5>1. /\ x \in 1..Len(a) /\ y - Len(a) \in 1..Len(b)
                /\ s[x] = a[x] /\ s[y] = b[y - Len(a)]
            BY <2>1, <2>4, <4>1
          <5> QED
            BY <5>1
        <4>2. CASE ~(x <= Len(a))
          <5>1. /\ y \in 1..Len(a) /\ x - Len(a) \in 1..Len(b)
                /\ s[y] = a[y] /\ s[x] = b[x - Len(a)]
            BY <2>1, <2>4, <4>2
          <5> QED
            BY <5>1
        <4> QED
          BY <4>1, <4>2
      <3> HIDE DEF p
      <3> QED
        BY <2>2, <3>1 DEF Before
    <2> QED
      BY <2>3, <2>4
  <1> HIDE DEF s, u, N, p
  <1>4. ASSUME NEW x \in 1..N
        PROVE  Place(u, p(x)) = Place(s, x)
    <2> DEFINE T == {j \in 1..N : Before(s, j, x)}
               U == {j \in 1..N : Before(u, j, p(x))}
               f == [j \in T |-> p(j)]
    <2>1. IsFiniteSet(T)
      <3>1. IsFiniteSet(1..N)
        BY <1>1, FS_Interval
      <3>2. T \in SUBSET (1..N)
        OBVIOUS
      <3> HIDE DEF T
      <3> QED
        BY <3>1, <3>2, FS_Subset
    <2>2. f \in [T -> U]
      BY <1>1, <1>3
    <2>3. \A j, k \in T : f[j] = f[k] => j = k
      BY <1>1
    <2>4. \A k \in U : \E j \in T : f[j] = k
      <3> SUFFICES ASSUME NEW k \in U PROVE \E j \in T : f[j] = k
        OBVIOUS
      <3>1. PICK j \in 1..N : p(j) = k
        BY <1>1
      <3>2. j \in T
        BY <1>3, <3>1
      <3> QED
        BY <3>1, <3>2
    <2> HIDE DEF T, U, f
    <2>5. f \in Bijection(T, U)
      BY <2>2, <2>3, <2>4
        DEF Bijection, Injection, Surjection, IsInjective
    <2>6. Cardinality(U) = Cardinality(T)
      BY <2>1, <2>5, FS_Bijection DEF ExistsBijection
    <2> QED
      BY <1>1, <2>6 DEF Place, T, U, N
  <1>5. ASSUME NEW k \in 1..N
        PROVE  At(u, k) = p(At(s, k))
    <2>1. At(s, k) \in 1..N /\ Place(s, At(s, k)) = k - 1
      BY <1>2, SortIsOneToOne DEF N
    <2>2. At(u, k) \in 1..N /\ Place(u, At(u, k)) = k - 1
      BY <1>1, <1>2, SortIsOneToOne
    <2>3. p(At(s, k)) \in 1..N /\ Place(u, p(At(s, k))) = k - 1
      BY <1>1, <1>4, <2>1
    <2>4. Place(u, At(u, k)) = Place(u, p(At(s, k)))
      BY <2>2, <2>3
    <2> QED
      BY <1>1, <1>2, <2>2, <2>3, <2>4, SortIsOneToOne
  <1>6. \A k \in 1..N : u[At(u, k)] = s[At(s, k)]
    <2> SUFFICES ASSUME NEW k \in 1..N PROVE u[At(u, k)] = s[At(s, k)]
      OBVIOUS
    <2>1. At(s, k) \in 1..N
      BY <1>2, SortIsOneToOne DEF N
    <2> QED
      BY <1>1, <1>5, <2>1
  <1>7. /\ Timelines!Sorted(s) = [k \in 1..N |-> s[At(s, k)]]
        /\ Timelines!Sorted(u) = [k \in 1..N |-> u[At(u, k)]]
    BY <1>1, <1>2, SortIsOneToOne, SMTT(30) DEF N
  <1> QED
    BY <1>6, <1>7 DEF s, u

\* A passage of an origin, and a transcript of its passages.
PassageOf(p, o) ==
  /\ p = [text |-> p.text, from |-> p.from, to |-> p.to, origin |-> o,
          speakers |-> p.speakers]
  /\ p.text \in Said /\ p.from \in Nat /\ p.to \in Nat

Line(s, o) ==
  /\ s \in Seq({s[k] : k \in 1..Len(s)})
  /\ \A k \in 1..Len(s) : PassageOf(s[k], o)

\* What an origin has is one or two passages of it, with no speaker.
LEMMA Transcribed ==
  ASSUME NEW o, NEW q \in Timelines!Transcripts(o)
  PROVE  Line(q, o) /\ \A k \in 1..Len(q) : q[k].speakers = {}
  <1> DEFINE Spoken == {p \in Timelines!Passages(o) : p.from < p.to}
  <1>1. ASSUME NEW p \in Spoken
        PROVE  PassageOf(p, o) /\ p.speakers = {}
    <2>1. PICK w \in Said, x \in Timelines!Times, y \in Timelines!Times :
            p = Timelines!Passage(o, w, x, y)
      BY DEF Timelines!Passages
    <2>2. x \in Nat /\ y \in Nat
      BY TimelinesAssumption DEF Timelines!Times
    <2> QED
      BY <2>1, <2>2 DEF Timelines!Passage, PassageOf
  <1> HIDE DEF Spoken
  <1>2. ASSUME NEW p \in Spoken, q = <<p>>
        PROVE  Line(q, o) /\ \A k \in 1..Len(q) : q[k].speakers = {}
    <2>1. Len(q) = 1 /\ q[1] = p
      BY <1>2
    <2>2. \A k \in 1..Len(q) : q[k] = p
      BY <2>1
    <2>3. q \in Seq({q[k] : k \in 1..Len(q)})
      BY <1>2, <2>1
    <2> QED
      BY <1>1, <2>2, <2>3 DEF Line
  <1>3. ASSUME NEW p \in Spoken, NEW r \in Spoken, q = <<p, r>>
        PROVE  Line(q, o) /\ \A k \in 1..Len(q) : q[k].speakers = {}
    <2>1. Len(q) = 2 /\ q[1] = p /\ q[2] = r
      BY <1>3
    <2>2. \A k \in 1..Len(q) : q[k] \in {p, r}
      BY <2>1
    <2>3. q \in Seq({q[k] : k \in 1..Len(q)})
      BY <1>3, <2>1
    <2>4. \A k \in 1..Len(q) : PassageOf(q[k], o) /\ q[k].speakers = {}
      BY <1>1, <2>2
    <2> QED
      BY <2>3, <2>4 DEF Line
  <1>4. \/ \E p \in Spoken : q = <<p>>
        \/ \E p \in Spoken, r \in Spoken : q = <<p, r>>
    BY DEF Timelines!Transcripts, Spoken
  <1> QED
    BY <1>2, <1>3, <1>4

\* The speakers are all that labelling changes of a transcript.
LEMMA Labelled ==
  ASSUME NEW o, NEW q, Line(q, o), NEW s,
         s = [k \in 1..Len(q) |-> s[k]],
         \A k \in 1..Len(q) : s[k] = [q[k] EXCEPT !.speakers = s[k].speakers]
  PROVE  Line(s, o) /\ Len(s) = Len(q)
  <1>1. Len(q) \in Nat
    BY LenProperties DEF Line
  <1>2. Len(s) = Len(q) /\ s \in Seq({s[k] : k \in 1..Len(q)})
    BY <1>1
  <1>3. ASSUME NEW k \in 1..Len(q) PROVE PassageOf(s[k], o)
    <2>1. PassageOf(q[k], o)
      BY DEF Line
    <2>2. PICK v : v = s[k].speakers
      OBVIOUS
    <2>3. s[k] = [q[k] EXCEPT !.speakers = v]
      BY <2>2
    <2>4. s[k] = [text |-> q[k].text, from |-> q[k].from, to |-> q[k].to,
                  origin |-> o, speakers |-> v]
      BY <2>1, <2>3 DEF PassageOf
    <2> QED
      BY <2>1, <2>4 DEF PassageOf
  <1> QED
    BY <1>2, <1>3 DEF Line

\* A transcript whose labels are complete has speakers for each passage, and
\* any other has none.
Spoken(s, label) ==
  \A k \in 1..Len(s) : s[k].speakers # {} <=> label \in {"named", "diarized"}

\* The transcripts of the origins, and what they were merged into.
TimelinesInv ==
  /\ DOMAIN timelines = {Mic, Sys} /\ DOMAIN labels = {Mic, Sys}
  /\ \A o \in {Mic, Sys} : /\ Line(timelines[o], o)
                           /\ Spoken(timelines[o], labels[o])
  /\ merged # None => /\ order \in {<<Mic, Sys>>, <<Sys, Mic>>}
                      /\ merged = Timelines!MergeIn(order)

\* Naming the participant at the microphone gives each passage a speaker.
LEMMA NamedIsLine ==
  ASSUME NEW o, NEW q \in Timelines!Transcripts(o)
  PROVE  Line(Timelines!Named(q), o) /\ Spoken(Timelines!Named(q), "named")
  <1> DEFINE s == Timelines!Named(q)
  <1>1. Line(q, o)
    BY Transcribed
  <1>2. \A k \in 1..Len(q) : s[k] = [q[k] EXCEPT !.speakers = {"You"}]
    BY DEF Timelines!Named
  <1>3. s = [k \in 1..Len(q) |-> s[k]]
    BY DEF Timelines!Named
  <1> HIDE DEF s
  <1>4. \A k \in 1..Len(q) : s[k].speakers = {"You"}
    BY <1>1, <1>2 DEF Line, PassageOf
  <1>5. \A k \in 1..Len(q) : s[k] = [q[k] EXCEPT !.speakers = s[k].speakers]
    BY <1>2, <1>4
  <1>6. Line(s, o) /\ Len(s) = Len(q)
    BY <1>1, <1>3, <1>5, Labelled
  <1> QED
    BY <1>4, <1>6 DEF s, Spoken

\* Diarization gives each passage its speakers, or none a speaker.
LEMMA DiarizedIsLine ==
  ASSUME NEW o, NEW q \in Timelines!Transcripts(o), NEW turns
  PROVE  LET bad == \/ turns = {} \/ Timelines!Malformed(turns)
                    \/ ~Timelines!Aligned(turns, q) IN
         /\ Line(Timelines!Diarized(turns, q), o)
         /\ Spoken(Timelines!Diarized(turns, q),
                   IF bad THEN "failed" ELSE "diarized")
  <1> DEFINE s == Timelines!Diarized(turns, q)
             bad == \/ turns = {} \/ Timelines!Malformed(turns)
                    \/ ~Timelines!Aligned(turns, q)
             v(k) == Timelines!SpeakersIn(turns, q[k])
  <1>1. Line(q, o) /\ \A k \in 1..Len(q) : q[k].speakers = {}
    BY Transcribed
  <1>2. CASE bad
    <2>1. s = q
      BY <1>2 DEF Timelines!Diarized
    <2> QED
      BY <1>1, <1>2, <2>1 DEF Spoken
  <1>3. CASE ~bad
    <2>1. \A k \in 1..Len(q) : s[k] = [q[k] EXCEPT !.speakers = v(k)]
      BY <1>3 DEF Timelines!Diarized
    <2>2. s = [k \in 1..Len(q) |-> s[k]]
      BY <1>3 DEF Timelines!Diarized
    <2>3. \A k \in 1..Len(q) : v(k) # {}
      BY <1>3 DEF Timelines!Aligned
    <2> HIDE DEF s, v
    <2>4. \A k \in 1..Len(q) : s[k].speakers = v(k)
      BY <1>1, <2>1 DEF Line, PassageOf
    <2>5. \A k \in 1..Len(q) : s[k] = [q[k] EXCEPT !.speakers = s[k].speakers]
      BY <2>1, <2>4
    <2>6. Line(s, o) /\ Len(s) = Len(q)
      BY <1>1, <2>2, <2>5, Labelled
    <2>7. Spoken(s, "diarized")
      BY <2>3, <2>4, <2>6 DEF Spoken
    <2> QED
      BY <1>3, <2>6, <2>7 DEF s
  <1> QED
    BY <1>2, <1>3

LEMMA TimelinesBegin == Timelines!Init => TimelinesInv
  <1> SUFFICES ASSUME Timelines!Init PROVE TimelinesInv
    OBVIOUS
  <1>1. /\ DOMAIN timelines = {Mic, Sys} /\ DOMAIN labels = {Mic, Sys}
        /\ \A o \in {Mic, Sys} : timelines[o] = <<>>
        /\ merged = None
    BY DEF Timelines!Init, Timelines!NoPassages, Timelines!Unlabelled,
      Timelines!Sources
  <1>2. \A o : Line(<<>>, o)
    BY DEF Line
  <1>3. \A l : Spoken(<<>>, l)
    BY DEF Spoken
  <1> QED
    BY <1>1, <1>2, <1>3 DEF TimelinesInv

\* A transcript for an origin, and its label.
LEMMA TranscriptIsAdded ==
  ASSUME TimelinesInv, NEW o \in {Mic, Sys}, NEW s, NEW l,
         Line(s, o), Spoken(s, l), merged' = None,
         timelines' = [timelines EXCEPT ![o] = s],
         labels' = [labels EXCEPT ![o] = l]
  PROVE  TimelinesInv'
  <1>1. /\ DOMAIN timelines' = {Mic, Sys} /\ DOMAIN labels' = {Mic, Sys}
        /\ timelines'[o] = s /\ labels'[o] = l
        /\ \A q \in {Mic, Sys} \ {o} : /\ timelines'[q] = timelines[q]
                                       /\ labels'[q] = labels[q]
    BY DEF TimelinesInv
  <1>2. ASSUME NEW q \in {Mic, Sys}
        PROVE  Line(timelines'[q], q) /\ Spoken(timelines'[q], labels'[q])
    BY <1>1 DEF TimelinesInv
  <1> QED
    BY <1>1, <1>2 DEF TimelinesInv

LEMMA TimelinesStep ==
  ASSUME TimelinesInv, [Timelines!Next]_timelinesVars
  PROVE  TimelinesInv'
  <1>1. ASSUME UNCHANGED <<timelines, labels, merged, order>>
        PROVE  TimelinesInv'
    BY <1>1 DEF TimelinesInv, Timelines!MergeIn
  <1>2. ASSUME Timelines!BeginRun PROVE TimelinesInv'
    <2>1. /\ DOMAIN timelines' = {Mic, Sys} /\ DOMAIN labels' = {Mic, Sys}
          /\ \A o \in {Mic, Sys} : timelines'[o] = <<>>
          /\ merged' = None
      BY <1>2 DEF Timelines!BeginRun, Timelines!NoPassages,
        Timelines!Unlabelled, Timelines!Sources
    <2>2. \A o : Line(<<>>, o)
      BY DEF Line
    <2>3. \A l : Spoken(<<>>, l)
      BY DEF Spoken
    <2> QED
      BY <2>1, <2>2, <2>3 DEF TimelinesInv
  <1>3. ASSUME Timelines!NameMicrophone PROVE TimelinesInv'
    <2>1. PICK q \in Timelines!Transcripts(Mic) :
            timelines' = [timelines EXCEPT ![Mic] = Timelines!Named(q)]
      BY <1>3 DEF Timelines!NameMicrophone
    <2>2. /\ labels' = [labels EXCEPT ![Mic] = "named"]
          /\ merged' = None
      BY <1>3 DEF Timelines!NameMicrophone, Timelines!Ready
    <2> QED
      BY <2>1, <2>2, NamedIsLine, TranscriptIsAdded
  <1>4. ASSUME NEW o \in {Mic, Sys}, Timelines!Diarize(o)
        PROVE  TimelinesInv'
    <2>1. PICK q \in Timelines!Transcripts(o), turns \in Results :
            /\ timelines' =
                 [timelines EXCEPT ![o] = Timelines!Diarized(turns, q)]
            /\ labels' = [labels EXCEPT
                 ![o] = IF turns = {} \/ Timelines!Malformed(turns)
                           \/ ~Timelines!Aligned(turns, q)
                        THEN "failed" ELSE "diarized"]
      BY <1>4 DEF Timelines!Diarize
    <2>2. merged' = None
      BY <1>4 DEF Timelines!Diarize, Timelines!Ready
    <2> QED
      BY <2>1, <2>2, DiarizedIsLine, TranscriptIsAdded
  <1>5. ASSUME Timelines!Merge PROVE TimelinesInv'
    <2>1. PICK o \in {<<Mic, Sys>>, <<Sys, Mic>>} :
            order' = o /\ merged' = Timelines!MergeIn(o)
      BY <1>5 DEF Timelines!Merge
    <2>2. timelines' = timelines /\ labels' = labels
      BY <1>5 DEF Timelines!Merge
    <2> QED
      BY <2>1, <2>2 DEF TimelinesInv, Timelines!MergeIn
  <1> QED
    BY <1>1, <1>2, <1>3, <1>4, <1>5
      DEF Timelines!Next, Timelines!ChangePreference, timelinesVars,
        Timelines!Sources

\* Passages of the two origins never tie.
LEMMA OriginsDoNotTie ==
  ASSUME NEW p, NEW q, PassageOf(p, Mic), PassageOf(q, Sys)
  PROVE  Timelines!Precedes(p, q) <=> ~Timelines!Precedes(q, p)
  <1>1. /\ Timelines!Rank(p.origin) = 0 /\ Timelines!Rank(q.origin) = 1
        /\ p.from \in Int /\ p.to \in Int /\ q.from \in Int /\ q.to \in Int
    BY TimelinesAssumption DEF PassageOf, Timelines!Rank
  <1> QED
    BY <1>1 DEF Timelines!Precedes

\* The passages of two transcripts, which a merge sorts.
LEMMA MergedLines ==
  ASSUME NEW a, NEW b, Line(a, Mic), Line(b, Sys)
  PROVE  LET S == {a[k] : k \in 1..Len(a)} \cup {b[k] : k \in 1..Len(b)} IN
         /\ a \in Seq(S) /\ b \in Seq(S)
         /\ \A p \in S : p.from \in Int /\ p.to \in Int
  <1> DEFINE A == {a[k] : k \in 1..Len(a)}
             B == {b[k] : k \in 1..Len(b)}
  <1>1. a \in Seq(A) /\ b \in Seq(B)
    BY DEF Line
  <1>2. ASSUME NEW p \in A \cup B PROVE p.from \in Int /\ p.to \in Int
    <2>1. PassageOf(p, Mic) \/ PassageOf(p, Sys)
      BY DEF Line
    <2> QED
      BY <2>1 DEF PassageOf
  <1> HIDE DEF A, B
  <1>3. a \in Seq(A \cup B) /\ b \in Seq(A \cup B)
    BY <1>1
  <1> QED
    BY <1>2, <1>3 DEF A, B

\* The merge does not depend on which origin comes first.
LEMMA MergeIsTheSame ==
  ASSUME TimelinesInv
  PROVE  Timelines!MergeIn(<<Mic, Sys>>) = Timelines!MergeIn(<<Sys, Mic>>)
  <1> DEFINE a == timelines[Mic]
             b == timelines[Sys]
             S == {a[k] : k \in 1..Len(a)} \cup {b[k] : k \in 1..Len(b)}
  <1>1. Line(a, Mic) /\ Line(b, Sys)
    BY DEF TimelinesInv
  <1> HIDE DEF a, b
  <1>2. a \in Seq(S) /\ b \in Seq(S) /\ \A p \in S : /\ p.from \in Int
                                                     /\ p.to \in Int
    BY <1>1, MergedLines
  <1>3. ASSUME NEW x \in 1..Len(a), NEW y \in 1..Len(b)
        PROVE  Timelines!Precedes(a[x], b[y])
                 <=> ~Timelines!Precedes(b[y], a[x])
    BY <1>1, OriginsDoNotTie DEF Line
  <1> HIDE DEF S
  <1>4. Timelines!Sorted(a \o b) = Timelines!Sorted(b \o a)
    BY <1>2, <1>3, SortIgnoresTheOrder
  <1>5. /\ <<Mic, Sys>>[1] = Mic /\ <<Mic, Sys>>[2] = Sys
        /\ <<Sys, Mic>>[1] = Sys /\ <<Sys, Mic>>[2] = Mic
    OBVIOUS
  <1> QED
    BY <1>4, <1>5 DEF Timelines!MergeIn, a, b

\* A timeline that has every passage of two others and nothing else.
HasBoth(m, a, b) ==
  /\ Len(m) = Len(a) + Len(b) /\ Len(m) \in Nat
  /\ \A x \in 1..Len(m) : \/ \E k \in 1..Len(a) : m[x] = a[k]
                          \/ \E k \in 1..Len(b) : m[x] = b[k]
  /\ \A k \in 1..Len(a) : \E x \in 1..Len(m) : m[x] = a[k]
  /\ \A k \in 1..Len(b) : \E x \in 1..Len(m) : m[x] = b[k]

\* What is sorted has the passages of both transcripts.
LEMMA SortedHasBoth ==
  ASSUME NEW a, NEW b, Line(a, Mic), Line(b, Sys), NEW m,
         m = Timelines!Sorted(a \o b)
  PROVE  HasBoth(m, a, b)
  <1> DEFINE S == {a[k] : k \in 1..Len(a)} \cup {b[k] : k \in 1..Len(b)}
             s == a \o b
             N == Len(s)
  <1>1. a \in Seq(S) /\ b \in Seq(S) /\ \A p \in S : /\ p.from \in Int
                                                     /\ p.to \in Int
    BY MergedLines
  <1> HIDE DEF S
  <1>2. /\ Len(a) \in Nat /\ Len(b) \in Nat /\ N = Len(a) + Len(b)
        /\ s \in Seq(S)
        /\ \A x \in 1..N : s[x] = IF x <= Len(a) THEN a[x]
                                  ELSE b[x - Len(a)]
    BY <1>1, ConcatProperties, LenProperties
  <1> HIDE DEF s
  <1>3. Timed(s)
    BY <1>1, <1>2, ElementOfSeq, LenProperties DEF Timed
  <1>4. m = [k \in 1..N |-> s[At(s, k)]]
    BY <1>3, SortIsOneToOne DEF s
  <1>5. Len(m) = N
    BY <1>2, <1>4
  <1>6. \A k \in 1..N : m[k] = s[At(s, k)] /\ At(s, k) \in 1..N
    BY <1>3, <1>4, SortIsOneToOne
  <1>7. \A x \in 1..N : \E k \in 1..N : At(s, k) = x
    BY <1>3, SortIsOneToOne
  <1>8. \A x \in 1..N : \E k \in 1..N : m[k] = s[x]
    BY <1>6, <1>7
  <1> HIDE DEF N
  <1>9. ASSUME NEW x \in 1..N
        PROVE  \/ \E k \in 1..Len(a) : m[x] = a[k]
               \/ \E k \in 1..Len(b) : m[x] = b[k]
    <2>1. PICK y \in 1..N : m[x] = s[y]
      BY <1>6
    <2>2. CASE y <= Len(a)
      <3>1. y \in 1..Len(a) /\ m[x] = a[y]
        BY <1>2, <2>1, <2>2
      <3> QED
        BY <3>1
    <2>3. CASE ~(y <= Len(a))
      <3>1. y - Len(a) \in 1..Len(b) /\ m[x] = b[y - Len(a)]
        BY <1>2, <2>1, <2>3
      <3> QED
        BY <3>1
    <2> QED
      BY <2>2, <2>3
  <1>10. ASSUME NEW k \in 1..Len(a) PROVE \E x \in 1..N : m[x] = a[k]
    <2>1. k \in 1..N /\ s[k] = a[k]
      BY <1>2
    <2> QED
      BY <1>8, <2>1
  <1>11. ASSUME NEW k \in 1..Len(b) PROVE \E x \in 1..N : m[x] = b[k]
    <2>1. /\ k + Len(a) \in 1..N /\ ~(k + Len(a) <= Len(a))
          /\ (k + Len(a)) - Len(a) = k
      BY <1>2
    <2>2. s[k + Len(a)] = b[k]
      BY <1>2, <2>1
    <2> QED
      BY <1>8, <2>1, <2>2
  <1>12. Len(m) = Len(a) + Len(b) /\ Len(m) \in Nat
    BY <1>2, <1>5
  <1>13. \A x \in 1..N : \/ \E k \in 1..Len(a) : m[x] = a[k]
                         \/ \E k \in 1..Len(b) : m[x] = b[k]
    BY <1>9, Zenon
  <1>14. \A k \in 1..Len(a) : \E x \in 1..N : m[x] = a[k]
    BY <1>10, Zenon
  <1>15. \A k \in 1..Len(b) : \E x \in 1..N : m[x] = b[k]
    BY <1>11, Zenon
  <1> QED
    BY <1>5, <1>12, <1>13, <1>14, <1>15, Zenon DEF HasBoth

\* A passage is marked exactly when it has a twin.
LEMMA MarkedHasTwins ==
  ASSUME NEW m, Len(m) \in Nat,
         \A k \in 1..Len(m) : /\ m[k].text \in Said
                              /\ m[k].from \in Nat /\ m[k].to \in Nat
  PROVE  /\ Len(Timelines!Marked(m)) = Len(m)
         /\ \A x \in 1..Len(m) :
              /\ Timelines!Marked(m)[x].passage = m[x]
              /\ Timelines!Marked(m)[x].group # None
                   <=> \E y \in 1..Len(m) : Timelines!Twins(m[x], m[y])
  <1> DEFINE twins(x) == {y \in 1..Len(m) : Timelines!Twins(m[x], m[y])}
             latest(x) == CHOOSE y \in twins(x) : \A k \in twins(x) : k <= y
             group(x) == IF twins(x) = {} THEN None
                         ELSE Timelines!Group(m[x], m[latest(x)])
  <1>1. Timelines!Marked(m) = [x \in 1..Len(m) |-> [passage |-> m[x],
                                                    group |-> group(x)]]
    BY DEF Timelines!Marked
  <1>2. ASSUME NEW x \in 1..Len(m), twins(x) # {}
        PROVE  latest(x) \in 1..Len(m)
    <2>1. twins(x) \subseteq 0..Len(m)
      OBVIOUS
    <2>2. \E y \in twins(x) : \A k \in twins(x) : y >= k
      <3> DEFINE T == twins(x)
      <3> HIDE DEF T
      <3> QED
        BY <1>2, <2>1, GreatestNumber DEF T
    <2>3. \E y \in twins(x) : \A k \in twins(x) : k <= y
      BY <2>1, <2>2
    <2>4. latest(x) \in twins(x)
      <3> HIDE DEF twins
      <3> QED
        BY <2>3
    <2> QED
      BY <2>4
  <1>3. ASSUME NEW p, NEW q, p.text \in Said, p.from \in Nat, p.to \in Nat,
               q.from \in Nat, q.to \in Nat
        PROVE  Timelines!Group(p, q) # None
    <2>1. Timelines!Group(p, q) \in Said \X Nat \X Nat
      BY <1>3 DEF Timelines!Group, Timelines!Lower, Timelines!Upper
    <2> QED
      BY <2>1, TimelinesAssumption
  <1>4. ASSUME NEW x \in 1..Len(m)
        PROVE  group(x) # None
                 <=> \E y \in 1..Len(m) : Timelines!Twins(m[x], m[y])
    <2>1. CASE twins(x) = {}
      BY <2>1
    <2>2. CASE twins(x) # {}
      <3>1. latest(x) \in 1..Len(m)
        BY <1>2, <2>2
      <3>2. group(x) = Timelines!Group(m[x], m[latest(x)])
        BY <2>2
      <3> HIDE DEF latest, group
      <3>3. group(x) # None
        BY <1>3, <3>1, <3>2
      <3> QED
        BY <2>2, <3>3
    <2> QED
      BY <2>1, <2>2
  <1> HIDE DEF group
  <1> QED
    BY <1>1, <1>4

\* The merge of the two origins keeps and marks every passage.
LEMMA MergeKeepsAndMarks ==
  ASSUME TimelinesInv, merged # None
  PROVE  Timelines!DuplicatesAreKeptAndMarked
  <1> DEFINE a == timelines[Mic]
             b == timelines[Sys]
  <1>1. Line(a, Mic) /\ Line(b, Sys)
    BY DEF TimelinesInv
  <1>2. merged = Timelines!Marked(Timelines!Sorted(a \o b))
    <2>1. merged = Timelines!MergeIn(<<Mic, Sys>>)
      BY MergeIsTheSame DEF TimelinesInv
    <2>2. <<Mic, Sys>>[1] = Mic /\ <<Mic, Sys>>[2] = Sys
      OBVIOUS
    <2> QED
      BY <2>1, <2>2 DEF Timelines!MergeIn
  <1> HIDE DEF a, b
  <1>3. PICK m : m = Timelines!Sorted(a \o b)
    OBVIOUS
  <1>4. /\ Len(m) = Len(a) + Len(b) /\ Len(m) \in Nat
        /\ \A x \in 1..Len(m) : \/ \E k \in 1..Len(a) : m[x] = a[k]
                                \/ \E k \in 1..Len(b) : m[x] = b[k]
        /\ \A k \in 1..Len(a) : \E x \in 1..Len(m) : m[x] = a[k]
        /\ \A k \in 1..Len(b) : \E x \in 1..Len(m) : m[x] = b[k]
    <2>1. HasBoth(m, a, b)
      BY <1>1, <1>3, SortedHasBoth
    <2> QED
      BY <2>1 DEF HasBoth
  <1>5. /\ \A k \in 1..Len(a) : PassageOf(a[k], Mic)
        /\ \A k \in 1..Len(b) : PassageOf(b[k], Sys)
    BY <1>1 DEF Line
  <1>6. \A x \in 1..Len(m) : PassageOf(m[x], Mic) \/ PassageOf(m[x], Sys)
    BY <1>4, <1>5
  <1>7. ASSUME NEW x \in 1..Len(m)
        PROVE  /\ m[x].text \in Said
               /\ m[x].from \in Nat /\ m[x].to \in Nat
               /\ m[x].origin \in {Mic, Sys}
    <2>1. PassageOf(m[x], Mic) \/ PassageOf(m[x], Sys)
      BY <1>6
    <2> QED
      BY <2>1 DEF PassageOf
  <1>8. /\ Len(merged) = Len(m)
        /\ \A x \in 1..Len(m) :
             /\ merged[x].passage = m[x]
             /\ merged[x].group # None
                  <=> \E y \in 1..Len(m) : Timelines!Twins(m[x], m[y])
    <2>1. merged = Timelines!Marked(m)
      BY <1>2, <1>3
    <2>2. Len(Timelines!Marked(m)) = Len(m)
      BY <1>4, <1>7, MarkedHasTwins
    <2>3. ASSUME NEW x \in 1..Len(m)
          PROVE  /\ Timelines!Marked(m)[x].passage = m[x]
                 /\ Timelines!Marked(m)[x].group # None
                      <=> \E y \in 1..Len(m) : Timelines!Twins(m[x], m[y])
      BY <1>4, <1>7, MarkedHasTwins
    <2> QED
      BY <2>1, <2>2, <2>3
  <1>9. ASSUME NEW k \in 1..Len(a) PROVE a[k].origin = Mic
    <2>1. PassageOf(a[k], Mic)
      BY <1>5
    <2> QED
      BY <2>1 DEF PassageOf
  <1>10. ASSUME NEW k \in 1..Len(b) PROVE b[k].origin = Sys
    <2>1. PassageOf(b[k], Sys)
      BY <1>5
    <2> QED
      BY <2>1 DEF PassageOf
  <1> DEFINE here(p, o) == \E k \in 1..Len(timelines[o]) :
                             /\ timelines[o][k].text = p.text
                             /\ timelines[o][k].to >= p.from
                             /\ timelines[o][k].from <= p.to
  <1>11. ASSUME NEW x \in 1..Len(m)
         PROVE  merged[x].group # None
                  <=> \E o \in {Mic, Sys} \ {m[x].origin} : here(m[x], o)
    <2> DEFINE near(q) == /\ q.text = m[x].text
                          /\ q.to >= m[x].from /\ q.from <= m[x].to
    <2>1. ASSUME NEW q, q.from \in Nat, q.to \in Nat
          PROVE  Timelines!Twins(m[x], q)
                   <=> m[x].origin # q.origin /\ near(q)
      <3>1. m[x].from \in Nat /\ m[x].to \in Nat
        BY <1>7
      <3> QED
        BY <2>1, <3>1 DEF Timelines!Twins, Timelines!Overlapping
    <2>2. merged[x].group # None
            <=> \E y \in 1..Len(m) : m[x].origin # m[y].origin /\ near(m[y])
      BY <1>7, <1>8, <2>1, SMTT(30)
    <2> HIDE DEF near
    <2>3. CASE m[x].origin = Mic
      <3>1. ASSUME NEW y \in 1..Len(m), m[y].origin # Mic, near(m[y])
            PROVE  \E k \in 1..Len(b) : near(b[k])
        <4>1. ~\E k \in 1..Len(a) : m[y] = a[k]
          BY <1>9, <3>1
        <4>2. PICK k \in 1..Len(b) : m[y] = b[k]
          BY <1>4, <3>1, <4>1
        <4> QED
          BY <3>1, <4>2
      <3>4. ASSUME NEW k \in 1..Len(b), near(b[k])
            PROVE  \E y \in 1..Len(m) : m[y].origin # Mic /\ near(m[y])
        <4>1. PICK y \in 1..Len(m) : m[y] = b[k]
          BY <1>4
        <4> QED
          BY <1>10, <3>4, <4>1, TimelinesAssumption
      <3>2. {Mic, Sys} \ {m[x].origin} = {Sys}
        BY <2>3, TimelinesAssumption
      <3>3. (\E k \in 1..Len(b) : near(b[k])) <=> here(m[x], Sys)
        BY DEF near, b
      <3> QED
        BY <2>2, <2>3, <3>1, <3>2, <3>3, <3>4
    <2>4. CASE m[x].origin = Sys
      <3>1. ASSUME NEW y \in 1..Len(m), m[y].origin # Sys, near(m[y])
            PROVE  \E k \in 1..Len(a) : near(a[k])
        <4>1. ~\E k \in 1..Len(b) : m[y] = b[k]
          BY <1>10, <3>1
        <4>2. PICK k \in 1..Len(a) : m[y] = a[k]
          BY <1>4, <3>1, <4>1
        <4> QED
          BY <3>1, <4>2
      <3>4. ASSUME NEW k \in 1..Len(a), near(a[k])
            PROVE  \E y \in 1..Len(m) : m[y].origin # Sys /\ near(m[y])
        <4>1. PICK y \in 1..Len(m) : m[y] = a[k]
          BY <1>4
        <4> QED
          BY <1>9, <3>4, <4>1, TimelinesAssumption
      <3>2. {Mic, Sys} \ {m[x].origin} = {Mic}
        BY <2>4, TimelinesAssumption
      <3>3. (\E k \in 1..Len(a) : near(a[k])) <=> here(m[x], Mic)
        BY DEF near, a
      <3> QED
        BY <2>2, <2>4, <3>1, <3>2, <3>3, <3>4
    <2> QED
      BY <1>7, <2>3, <2>4
  <1>12. Len(merged) = Len(timelines[Mic]) + Len(timelines[Sys])
    BY <1>4, <1>8 DEF a, b
  <1>13. \A x \in 1..Len(merged) :
           merged[x].group # None
             <=> \E o \in {Mic, Sys} \ {merged[x].passage.origin} :
                   here(merged[x].passage, o)
    <2> HIDE DEF here
    <2> SUFFICES ASSUME NEW x \in 1..Len(merged)
                 PROVE  merged[x].group # None
                          <=> \E o \in {Mic, Sys} \ {merged[x].passage.origin} :
                                here(merged[x].passage, o)
      OBVIOUS
    <2>1. x \in 1..Len(m) /\ merged[x].passage = m[x]
      BY <1>8
    <2> QED
      BY <1>11, <2>1
  <1> QED
    BY <1>12, <1>13 DEF Timelines!DuplicatesAreKeptAndMarked,
      Timelines!Sources

\* Whatever the origins say, the timeline of the Session does not depend on
\* their order, keeps every passage and marks exactly those which the other
\* origin has too, and the speakers of an origin are complete or absent
\* (merge_origin_timelines, mark_ambiguous_duplicates,
\* apply_diarization_result).
THEOREM TimelinesStayMerged == AudioSpec => []TimelinesMerge
  <1> DEFINE Inv == component = "timelines" => TimelinesInv
  <1>1. AudioInit => Inv
    BY TimelinesBegin DEF AudioInit, JobsInit, ChangingInit, CaptureInit,
      TrackInit, ImportInit, OriginInit, TimelinesInit, FilterInit,
      SummaryInit, ChunksInit, ModelsInit, ClockInit
  <1>2. Inv /\ [AudioNext]_everything => Inv'
    <2> SUFFICES ASSUME Inv, [AudioNext]_everything, component' = "timelines"
                 PROVE  TimelinesInv'
      OBVIOUS
    <2>1. [Timelines!Next]_timelinesVars /\ component = "timelines"
      BY DEF AudioNext, everything, JobsNext, ChangingNext, CaptureNext,
        TrackNext, ImportNext, OriginNext, TimelinesNext, FilterNext,
        SummaryNext, ChunksNext, ModelsNext, ClockNext
    <2> QED
      BY <2>1, TimelinesStep
  <1>3. Inv => TimelinesMerge
    <2> SUFFICES ASSUME TimelinesInv
                 PROVE  /\ Timelines!MergeIgnoresTheOrder
                        /\ Timelines!DuplicatesAreKeptAndMarked
                        /\ Timelines!SpeakersAreCompleteOrAbsent
      BY DEF TimelinesMerge
    <2>1. Timelines!MergeIgnoresTheOrder
      <3> SUFFICES ASSUME merged # None
                   PROVE  Timelines!MergeIn(order)
                            = Timelines!MergeIn(<<order[2], order[1]>>)
        BY DEF Timelines!MergeIgnoresTheOrder
      <3>1. \/ order = <<Mic, Sys>> /\ <<order[2], order[1]>> = <<Sys, Mic>>
            \/ order = <<Sys, Mic>> /\ <<order[2], order[1]>> = <<Mic, Sys>>
        BY DEF TimelinesInv
      <3> QED
        BY <3>1, MergeIsTheSame
    <2>2. Timelines!DuplicatesAreKeptAndMarked
      BY MergeKeepsAndMarks DEF Timelines!DuplicatesAreKeptAndMarked
    <2>3. Timelines!SpeakersAreCompleteOrAbsent
      BY DEF TimelinesInv, Spoken, Timelines!SpeakersAreCompleteOrAbsent,
        Timelines!Sources
    <2> QED
      BY <2>1, <2>2, <2>3
  <1> QED
    BY <1>1, <1>2, <1>3, PTL DEF AudioSpec

-----------------------------------------------------------------------------
(* The capture of a recording                                              *)

\* What a callback may send to the pipeline.
Pieces == [source : Inputs, size : 1..(MaxCall + Block - 1)]

\* What the variables of the capture are.
CaptureShape ==
  /\ streams \subseteq Inputs
  /\ held \in [Inputs -> 0..(Block - 1)]
  /\ queue \in Seq(Pieces \cup {Quiet})
  /\ stored \in [Inputs -> Nat] /\ ring \in [Inputs -> Nat]
  /\ taken \in [Inputs -> Nat] /\ dropped \in [Inputs -> Nat]
  /\ windows \in Nat /\ pending \in Nat /\ cHeard \in Nat
  /\ cSession \in Nat \cup {Quiet} /\ inSpeech \in BOOLEAN
  /\ current \in Nat /\ speech \in Seq(Nat \X Nat)

\* Everything that was captured has been mixed and heard.
Over ==
  /\ stopping \in {"closed", "ended"} /\ streams = {}
  /\ \A k \in 1..Len(queue) : queue[k] = Quiet
  /\ ~Capturing!CanMix /\ pending = 0

\* The requests to flush come after all that the callbacks sent.
QueueInv ==
  /\ \A k, n \in 1..Len(queue) : k <= n /\ queue[k] = Quiet => queue[n] = Quiet
  /\ \A k \in 1..Len(queue) :
       queue[k] = Quiet => stopping \in {"closed", "ended"}
  /\ stopping \in {"flushing", "closed", "ended"} => streams = {}
  /\ stopping = "ended" => Over /\ ~inSpeech

\* What is kept of the stretches s when the first n of them are over.
Keeps(s, kept, n) ==
  /\ kept[0] = <<>>
  /\ \A k \in 1..n :
       kept[k] = IF s[k][2] - s[k][1] >= MinSpeech
                 THEN Append(kept[k - 1], s[k]) ELSE kept[k - 1]

\* The stretches of speech that are over, for the detector.
Closed == IF inSpeech THEN Len(speech) - 1 ELSE Len(speech)

\* The speech that goes on is the last stretch; the library may hear on after
\* the last flush, but there is nothing left to hear.
SpeechInv ==
  /\ inSpeech =>
       /\ cSession \in Nat /\ cSession < cHeard /\ current = cHeard - cSession
       /\ Len(speech) > 0 /\ speech[Len(speech)] = <<cSession, cHeard>>
  /\ ~inSpeech => cSession = Quiet \/ Over
  /\ \E kept : Keeps(speech, kept, Closed) /\ sent = kept[Closed]

CaptureInv ==
  /\ CaptureShape /\ QueueInv /\ SpeechInv
  /\ Capturing!NothingIsDropped /\ Capturing!MixIsBounded

\* Nothing is captured at first.
LEMMA CaptureBegins == Capturing!Init => CaptureInv
  <1> SUFFICES ASSUME Capturing!Init PROVE CaptureInv
    OBVIOUS
  <1> USE DEF Capturing!Init, Capturing!ControlInit, Capturing!CaptureInit,
    Capturing!PipelineInit, Capturing!MixerInit, Capturing!DetectorInit
  <1>1. CaptureShape
    <2>1. 0 \in 0..(Block - 1)
      BY CaptureAssumption
    <2>2. streams \subseteq Inputs /\ held \in [Inputs -> 0..(Block - 1)]
      BY <2>1
    <2>3. /\ stored \in [Inputs -> Nat] /\ ring \in [Inputs -> Nat]
          /\ taken \in [Inputs -> Nat] /\ dropped \in [Inputs -> Nat]
      OBVIOUS
    <2>4. inSpeech \in BOOLEAN
      OBVIOUS
    <2>5. /\ queue \in Seq(Pieces \cup {Quiet})
          /\ windows \in Nat /\ pending \in Nat /\ cHeard \in Nat
          /\ cSession \in Nat \cup {Quiet}
          /\ current \in Nat /\ speech \in Seq(Nat \X Nat)
      OBVIOUS
    <2> QED
      BY <2>2, <2>3, <2>4, <2>5 DEF CaptureShape
  <1>2. QueueInv
    BY DEF QueueInv
  <1>3. SpeechInv
    <2> DEFINE kept == [k \in {0} |-> <<>>]
    <2>1. Len(speech) = 0 /\ ~inSpeech
      OBVIOUS
    <2>2. Closed = 0
      BY <2>1 DEF Closed
    <2>3. Keeps(speech, kept, 0) /\ sent = kept[0]
      BY DEF Keeps
    <2>4. \E g : Keeps(speech, g, Closed) /\ sent = g[Closed]
      BY <2>2, <2>3
    <2> QED
      BY <2>4 DEF SpeechInv
  <1>4. Capturing!NothingIsDropped
    BY DEF Capturing!NothingIsDropped
  <1>5. Capturing!MixIsBounded
    BY CaptureAssumption DEF Capturing!MixIsBounded
  <1> QED
    BY <1>1, <1>2, <1>3, <1>4, <1>5 DEF CaptureInv

\* What the resampler gives and keeps of what it holds.
LEMMA BlocksAndRest ==
  ASSUME NEW s \in Inputs, NEW n \in Nat
  PROVE  /\ Capturing!Blocks(s, n) \in Nat /\ Capturing!Blocks(s, n) <= n
         /\ Capturing!Rest(s, n) \in 0..(Block - 1)
  <1>1. Block \in Nat \ {0}
    BY CaptureAssumption
  <1>2. PICK d \in Nat, b \in Nat : d = n \div Block /\ b = Block
    BY <1>1
  <1>3. d * b <= n /\ d * b \in Nat
    BY <1>1, <1>2
  <1>4. n % Block \in 0..(Block - 1)
    BY <1>1
  <1> QED
    BY <1>1, <1>2, <1>3, <1>4 DEF Capturing!Blocks, Capturing!Rest

\* What a callback does to the queue.
LEMMA CallbackEffect ==
  ASSUME CaptureShape, NEW s \in Inputs, NEW n \in 1..MaxCall,
         Capturing!Callback(s, n)
  PROVE  /\ held' \in [Inputs -> 0..(Block - 1)]
         /\ \/ queue' = queue
            \/ \E c \in Pieces : queue' = Append(queue, c)
  <1>1. Block \in Nat \ {0} /\ MaxCall \in Nat
    BY CaptureAssumption
  <1>2. held[s] \in 0..(Block - 1)
    BY DEF CaptureShape
  <1>3. held[s] + n \in Nat /\ held[s] + n <= MaxCall + Block - 1
    BY <1>1, <1>2
  <1> DEFINE size == Capturing!Blocks(s, held[s] + n)
  <1>4. /\ size \in Nat /\ size <= held[s] + n
        /\ Capturing!Rest(s, held[s] + n) \in 0..(Block - 1)
    BY <1>3, BlocksAndRest
  <1>5. held' \in [Inputs -> 0..(Block - 1)]
    BY <1>4 DEF CaptureShape, Capturing!Callback
  <1>6. \/ queue' = queue
        \/ size > 0 /\ queue' = Append(queue, [source |-> s, size |-> size])
    BY DEF Capturing!Callback
  <1> HIDE DEF size
  <1>7. ASSUME size > 0 PROVE [source |-> s, size |-> size] \in Pieces
    <2>1. size \in 1..(MaxCall + Block - 1)
      BY <1>1, <1>2, <1>3, <1>4, <1>7
    <2> QED
      BY <2>1 DEF Pieces
  <1> QED
    BY <1>5, <1>6, <1>7

\* The variables stay what they are.
LEMMA CaptureShapeStep ==
  ASSUME CaptureInv, [Capturing!Next]_captureVars
  PROVE  CaptureShape'
  <1> USE DEF CaptureInv
  <1>1. CASE UNCHANGED captureVars
    BY <1>1 DEF CaptureShape, captureVars
  <1>2. ASSUME NEW s \in Inputs, NEW n \in 1..MaxCall,
               Capturing!Callback(s, n)
        PROVE  CaptureShape'
    <2>1. /\ held' \in [Inputs -> 0..(Block - 1)]
          /\ queue' \in Seq(Pieces \cup {Quiet})
      <3>1. /\ held' \in [Inputs -> 0..(Block - 1)]
            /\ \/ queue' = queue
               \/ \E c \in Pieces : queue' = Append(queue, c)
        BY <1>2, CallbackEffect
      <3>2. ASSUME NEW c \in Pieces, queue' = Append(queue, c)
            PROVE  queue' \in Seq(Pieces \cup {Quiet})
        BY <3>2, AppendProperties DEF CaptureShape
      <3>3. queue \in Seq(Pieces \cup {Quiet})
        BY DEF CaptureShape
      <3> QED
        BY <3>1, <3>2, <3>3
    <2> QED
      BY <1>2, <2>1 DEF CaptureShape, Capturing!Callback, Capturing!control,
        Capturing!mixer, Capturing!detector
  <1>3. ASSUME NEW s \in Inputs, Capturing!StreamFails(s)
        PROVE  CaptureShape'
    BY <1>3 DEF CaptureShape, Capturing!StreamFails, Capturing!capture,
      Capturing!mixer, Capturing!detector
  <1>4. CASE Capturing!PauseRecording \/ Capturing!ResumeRecording
    BY <1>4 DEF CaptureShape, Capturing!PauseRecording,
      Capturing!ResumeRecording, Capturing!capture, Capturing!mixer,
      Capturing!detector
  <1>5. CASE Capturing!Stop
    <2>1. queue' = queue \/ queue' = queue \o <<Quiet, Quiet>>
      BY <1>5 DEF Capturing!Stop, Capturing!StopRecording,
        Capturing!StopStreams, Capturing!ForceFlush
    <2>2. queue' \in Seq(Pieces \cup {Quiet})
      <3>1. PICK z : z = <<Quiet, Quiet>>
        OBVIOUS
      <3>2. z \in Seq(Pieces \cup {Quiet})
        BY <3>1
      <3>3. queue \in Seq(Pieces \cup {Quiet})
        BY DEF CaptureShape
      <3>4. queue \o z \in Seq(Pieces \cup {Quiet})
        BY <3>2, <3>3, ConcatProperties
      <3> QED
        BY <2>1, <3>1, <3>3, <3>4
    <2> QED
      BY <1>5, <2>2 DEF CaptureShape, Capturing!Stop,
        Capturing!StopRecording, Capturing!StopStreams, Capturing!ForceFlush,
        Capturing!capture, Capturing!mixer, Capturing!detector
  <1>6. CASE Capturing!Receive
    <2>1. Head(queue) \in Pieces
      BY <1>6 DEF CaptureShape, Capturing!Receive
    <2>2. PICK s \in Inputs, n \in Nat :
            s = Head(queue).source /\ n = Head(queue).size
      BY <2>1, CaptureAssumption DEF Pieces
    <2>3. ring[s] \in Nat /\ stored[s] \in Nat /\ dropped[s] \in Nat
      BY DEF CaptureShape
    <2>4. /\ Capturing!Kept(ring[s] + n) \in Nat
          /\ Capturing!Kept(ring[s] + n) <= ring[s] + n
      <3>1. Window["capture"] * Capacity \in Nat
        BY CaptureAssumption
      <3> QED
        BY <2>3, <3>1 DEF Capturing!Kept, Capturing!Least
    <2>5. /\ stored' = [stored EXCEPT ![s] = stored[s] + n]
          /\ ring' = [ring EXCEPT ![s] = Capturing!Kept(ring[s] + n)]
          /\ dropped' = [dropped EXCEPT ![s] = dropped[s]
               + (ring[s] + n - Capturing!Kept(ring[s] + n))]
      BY <1>6, <2>2 DEF Capturing!Receive
    <2>6. /\ stored' \in [Inputs -> Nat] /\ ring' \in [Inputs -> Nat]
          /\ dropped' \in [Inputs -> Nat]
      <3>1. /\ stored[s] + n \in Nat
            /\ dropped[s] + (ring[s] + n - Capturing!Kept(ring[s] + n)) \in Nat
        BY <2>3, <2>4
      <3> QED
        BY <2>4, <2>5, <3>1 DEF CaptureShape
    <2>7. queue' \in Seq(Pieces \cup {Quiet})
      BY <1>6 DEF CaptureShape, Capturing!Receive
    <2> QED
      BY <1>6, <2>6, <2>7 DEF CaptureShape, Capturing!Receive,
        Capturing!control, Capturing!capture, Capturing!detector
  <1>7. CASE Capturing!Mix
    <2>1. Window["capture"] \in Nat
      BY CaptureAssumption
    <2>2. ASSUME NEW s \in Inputs
          PROVE  /\ ring[s] - Capturing!Least(ring[s], Window["capture"])
                      \in Nat
                 /\ taken[s] + Capturing!Least(ring[s], Window["capture"])
                      \in Nat
      <3>1. ring[s] \in Nat /\ taken[s] \in Nat
        BY DEF CaptureShape
      <3> QED
        BY <2>1, <3>1 DEF Capturing!Least
    <2>3. ring' \in [Inputs -> Nat] /\ taken' \in [Inputs -> Nat]
      BY <1>7, <2>2 DEF Capturing!Mix
    <2> QED
      BY <1>7, <2>1, <2>3 DEF CaptureShape, Capturing!Mix,
        Capturing!MixWindow, Capturing!control, Capturing!capture,
        Capturing!detector
  <1>8. CASE Capturing!HearOn \/ Capturing!SpeechStarts
             \/ Capturing!SpeechEnds
    <2>1. pending > 0 /\ pending' = pending - 1 /\ cHeard' = cHeard + 1
      BY <1>8 DEF Capturing!HearOn, Capturing!SpeechStarts,
        Capturing!SpeechEnds, Capturing!Listen
    <2>2. pending' \in Nat /\ cHeard' \in Nat
      BY <2>1 DEF CaptureShape
    <2>3. Capturing!Longer \in Seq(Nat \X Nat)
      <3>1. CASE Len(speech) = 0
        <4>1. Capturing!Longer = speech
          BY <3>1 DEF CaptureShape, Capturing!Longer
        <4> QED
          BY <4>1 DEF CaptureShape
      <3>2. CASE Len(speech) # 0
        <4>1. /\ Len(speech) \in 1..Len(speech)
              /\ speech[Len(speech)] \in Nat \X Nat
          BY <3>2 DEF CaptureShape
        <4>2. <<speech[Len(speech)][1], cHeard + 1>> \in Nat \X Nat
          BY <4>1 DEF CaptureShape
        <4> QED
          BY <4>1, <4>2 DEF CaptureShape, Capturing!Longer
      <3> QED
        BY <3>1, <3>2
    <2>4. speech' \in Seq(Nat \X Nat)
      <3>1. Append(speech, <<cHeard, cHeard + 1>>) \in Seq(Nat \X Nat)
        BY DEF CaptureShape
      <3> QED
        BY <1>8, <2>3, <3>1 DEF CaptureShape, Capturing!HearOn,
          Capturing!SpeechStarts, Capturing!SpeechEnds
    <2>5. inSpeech' \in BOOLEAN
      BY <1>8, Zenon DEF CaptureShape, Capturing!HearOn,
        Capturing!SpeechStarts, Capturing!SpeechEnds
    <2>6. cSession' \in Nat \cup {Quiet}
      BY <1>8 DEF CaptureShape, Capturing!HearOn, Capturing!SpeechStarts,
        Capturing!SpeechEnds
    <2>7. current' \in Nat
      <3>1. current' \in {current, current + 1, 1, 0}
        BY <1>8 DEF Capturing!HearOn, Capturing!SpeechStarts,
          Capturing!SpeechEnds
      <3> QED
        BY <3>1 DEF CaptureShape
    <2> QED
      BY <1>8, <2>2, <2>4, <2>5, <2>6, <2>7 DEF CaptureShape, Capturing!HearOn,
        Capturing!SpeechStarts, Capturing!SpeechEnds, Capturing!control,
        Capturing!capture, Capturing!mixer
  <1>9. CASE Capturing!Flush \/ Capturing!EndPipeline
    <2>1. queue' \in Seq(Pieces \cup {Quiet})
      <3>1. \/ queue' = queue
            \/ queue # <<>> /\ queue' = Tail(queue)
        BY <1>9 DEF Capturing!Flush, Capturing!EndPipeline
      <3> QED
        BY <3>1, HeadTailProperties DEF CaptureShape
    <2>2. inSpeech' = FALSE
      BY <1>9, Zenon DEF Capturing!Flush, Capturing!EndPipeline,
        Capturing!FlushSpeech
    <2>3. /\ current' = 0
          /\ UNCHANGED <<streams, held, stored, ring, taken, dropped, windows,
                         pending, cHeard, cSession, speech>>
      BY <1>9 DEF Capturing!Flush, Capturing!EndPipeline,
        Capturing!FlushSpeech, Capturing!control, Capturing!capture,
        Capturing!mixer
    <2>4. inSpeech' \in BOOLEAN
      BY <2>2, Zenon
    <2> QED
      BY <2>1, <2>3, <2>4 DEF CaptureShape
  <1> QED
    BY <1>1, <1>2, <1>3, <1>4, <1>5, <1>6, <1>7, <1>8, <1>9
      DEF Capturing!Next

\* A ring has room for what a callback sends while no window can be mixed,
\* and a window takes one from some ring.
LEMMA MixerStep ==
  ASSUME CaptureInv, [Capturing!Next]_captureVars
  PROVE  Capturing!NothingIsDropped' /\ Capturing!MixIsBounded'
  <1> DEFINE W == Window["capture"]
  <1> USE DEF CaptureInv
  <1>1. ASSUME UNCHANGED <<stored, ring, taken, dropped, windows>>
        PROVE  Capturing!NothingIsDropped' /\ Capturing!MixIsBounded'
    BY <1>1 DEF Capturing!NothingIsDropped, Capturing!MixIsBounded
  <1>2. CASE Capturing!Receive
    <2>1. Head(queue) \in Pieces
      BY <1>2 DEF CaptureShape, Capturing!Receive
    <2>2. PICK s \in Inputs, n \in Nat : /\ s = Head(queue).source
                                         /\ n = Head(queue).size
                                         /\ n <= MaxCall + Block - 1
      BY <2>1, CaptureAssumption DEF Pieces
    <2>3. /\ ring[s] \in Nat /\ stored[s] \in Nat /\ dropped[s] \in Nat
          /\ taken[s] \in Nat
      BY DEF CaptureShape
    <2>4. /\ stored' = [stored EXCEPT ![s] = stored[s] + n]
          /\ ring' = [ring EXCEPT ![s] = Capturing!Kept(ring[s] + n)]
          /\ dropped' = [dropped EXCEPT ![s] = dropped[s]
               + (ring[s] + n - Capturing!Kept(ring[s] + n))]
          /\ taken' = taken /\ windows' = windows
      BY <1>2, <2>2 DEF Capturing!Receive
    <2>5. Capturing!Kept(ring[s] + n) = ring[s] + n
      <3>1. ~(ring[s] >= W)
        BY <1>2 DEF Capturing!Receive, Capturing!CanMix
      <3>2. PICK size : size = W * Capacity
        OBVIOUS
      <3>3. /\ W \in Nat /\ MaxCall \in Nat /\ Block \in Nat /\ size \in Nat
            /\ (MaxCall + Block - 1) + (W - 1) <= size
        BY <3>2, CaptureAssumption
      <3> HIDE DEF W
      <3>4. ring[s] + n <= size
        BY <2>2, <2>3, <3>1, <3>3
      <3> QED
        BY <2>3, <3>2, <3>3, <3>4 DEF Capturing!Kept, Capturing!Least, W
    <2>6. Capturing!NothingIsDropped'
      <3> SUFFICES ASSUME NEW t \in Inputs
                   PROVE  /\ dropped'[t] = 0
                          /\ stored'[t] = ring'[t] + taken'[t]
        BY DEF Capturing!NothingIsDropped
      <3>1. /\ dropped[t] = 0 /\ stored[t] = ring[t] + taken[t]
            /\ ring[t] \in Nat /\ taken[t] \in Nat
        BY DEF Capturing!NothingIsDropped, CaptureShape
      <3>2. CASE t = s
        <4>1. /\ stored'[t] = stored[t] + n /\ ring'[t] = ring[t] + n
              /\ dropped'[t] = dropped[t] + (ring[t] + n - (ring[t] + n))
              /\ taken'[t] = taken[t]
          BY <2>4, <2>5, <3>2 DEF CaptureShape
        <4> QED
          BY <3>1, <4>1
      <3>3. CASE t # s
        <4>1. /\ stored'[t] = stored[t] /\ ring'[t] = ring[t]
              /\ dropped'[t] = dropped[t] /\ taken'[t] = taken[t]
          BY <2>4, <3>3 DEF CaptureShape
        <4> QED
          BY <3>1, <4>1
      <3> QED
        BY <3>2, <3>3
    <2>7. Capturing!MixIsBounded'
      BY <2>4 DEF Capturing!MixIsBounded
    <2> QED
      BY <2>6, <2>7
  <1>3. CASE Capturing!Mix
    <2> DEFINE least(s) == Capturing!Least(ring[s], W)
    <2>1. /\ W \in Nat /\ windows \in Nat
          /\ \A s \in Inputs : ring'[s] = ring[s] - least(s)
          /\ \A s \in Inputs : taken'[s] = taken[s] + least(s)
          /\ stored' = stored /\ dropped' = dropped
          /\ windows' = windows + 1
      BY <1>3, CaptureAssumption DEF Capturing!Mix, Capturing!MixWindow,
        CaptureShape
    <2>2. ASSUME NEW s \in Inputs
          PROVE  /\ ring[s] \in Nat /\ taken[s] \in Nat
                 /\ least(s) \in Nat /\ least(s) <= W
                 /\ ring[s] >= W => least(s) = W
      <3>1. ring[s] \in Nat /\ taken[s] \in Nat
        BY DEF CaptureShape
      <3> QED
        BY <2>1, <3>1 DEF Capturing!Least
    <2>3. PICK a \in Inputs : ring[a] >= W
      BY <1>3 DEF Capturing!Mix, Capturing!CanMix
    <2> HIDE DEF least, W
    <2>4. W * (windows + 1) = W * windows + W /\ W * windows \in Nat
      BY <2>1
    <2>5. Capturing!NothingIsDropped'
      <3> SUFFICES ASSUME NEW s \in Inputs
                   PROVE  /\ dropped'[s] = 0
                          /\ stored'[s] = ring'[s] + taken'[s]
        BY DEF Capturing!NothingIsDropped
      <3>1. dropped[s] = 0 /\ stored[s] = ring[s] + taken[s]
        BY DEF Capturing!NothingIsDropped
      <3>2. /\ ring'[s] = ring[s] - least(s) /\ stored'[s] = stored[s]
            /\ taken'[s] = taken[s] + least(s) /\ dropped'[s] = dropped[s]
        BY <2>1
      <3> QED
        BY <2>2, <3>1, <3>2
    <2>6. ASSUME NEW s \in Inputs
          PROVE  taken'[s] <= W * windows'
      <3>1. taken[s] <= W * windows
        BY DEF Capturing!MixIsBounded, W
      <3>2. taken'[s] = taken[s] + least(s) /\ windows' = windows + 1
        BY <2>1
      <3> QED
        BY <2>1, <2>2, <2>4, <3>1, <3>2
    <2>7. ASSUME NEW s \in Inputs, NEW t \in Inputs \ {s}
          PROVE  W * windows' <= taken'[s] + taken'[t]
      <3>1. W * windows <= taken[s] + taken[t]
        BY DEF Capturing!MixIsBounded, W
      <3>2. /\ taken'[s] = taken[s] + least(s) /\ windows' = windows + 1
            /\ taken'[t] = taken[t] + least(t)
        BY <2>1
      <3>3. least(s) = W \/ least(t) = W
        BY <2>2, <2>3, CaptureAssumption
      <3> QED
        BY <2>1, <2>2, <2>4, <3>1, <3>2, <3>3
    <2>8. Capturing!MixIsBounded'
      BY <2>6, <2>7 DEF Capturing!MixIsBounded, W
    <2> QED
      BY <2>5, <2>8
  <1> QED
    BY <1>1, <1>2, <1>3 DEF Capturing!Next, Capturing!Callback,
      Capturing!StreamFails, Capturing!PauseRecording,
      Capturing!ResumeRecording, Capturing!Stop, Capturing!StopRecording,
      Capturing!StopStreams, Capturing!ForceFlush, Capturing!HearOn,
      Capturing!SpeechStarts, Capturing!SpeechEnds, Capturing!Flush,
      Capturing!EndPipeline, Capturing!mixer, captureVars

\* Once everything is heard, nothing more is.
LEMMA OverStays ==
  ASSUME CaptureInv, Over, [Capturing!Next]_captureVars
  PROVE  Over' /\ (inSpeech' => inSpeech)
  <1> USE DEF CaptureInv
  <1>1. /\ stopping \in {"closed", "ended"} /\ streams = {}
        /\ \A k \in 1..Len(queue) : queue[k] = Quiet
        /\ ~Capturing!CanMix /\ pending = 0
    BY DEF Over
  <1>2. queue \in Seq(Pieces \cup {Quiet})
    BY DEF CaptureShape
  <1>3. ASSUME ring' = ring PROVE ~Capturing!CanMix'
    BY <1>1, <1>3 DEF Capturing!CanMix
  <1>4. CASE UNCHANGED <<stopping, streams, queue, ring, pending, inSpeech>>
    <2>1. ~Capturing!CanMix'
      BY <1>3, <1>4
    <2>2. inSpeech' = inSpeech
      BY <1>4, Zenon
    <2> QED
      BY <1>1, <1>4, <2>1, <2>2 DEF Over
  <1>5. CASE Capturing!Flush \/ Capturing!EndPipeline
    <2>1. /\ stopping' \in {"closed", "ended"} /\ streams' = {}
          /\ ring' = ring /\ pending' = 0
          /\ \/ queue' = queue
             \/ queue # <<>> /\ queue' = Tail(queue)
      BY <1>1, <1>5 DEF Capturing!Flush, Capturing!EndPipeline,
        Capturing!control, Capturing!capture, Capturing!mixer
    <2>2. inSpeech' = FALSE
      BY <1>5, Zenon DEF Capturing!Flush, Capturing!EndPipeline,
        Capturing!FlushSpeech
    <2>3. \A k \in 1..Len(queue') : queue'[k] = Quiet
      <3>1. CASE queue' = queue
        BY <1>1, <3>1
      <3>2. CASE queue # <<>> /\ queue' = Tail(queue)
        <4>1. /\ Len(queue) \in Nat /\ Len(queue') = Len(queue) - 1
              /\ \A k \in 1..Len(queue') : queue'[k] = queue[k + 1]
          BY <1>2, <3>2, HeadTailProperties, LenProperties
        <4> QED
          BY <1>1, <4>1
      <3> QED
        BY <2>1, <3>1, <3>2
    <2>4. ~Capturing!CanMix'
      BY <1>3, <2>1
    <2>5. Over'
      BY <2>1, <2>3, <2>4 DEF Over
    <2> QED
      BY <2>2, <2>5, Zenon
  <1>6. CASE UNCHANGED captureVars
    BY <1>4, <1>6 DEF captureVars
  <1>7. ASSUME NEW s \in Inputs,
               \/ \E n \in 1..MaxCall : Capturing!Callback(s, n)
               \/ Capturing!StreamFails(s)
        PROVE  FALSE
    BY <1>1, <1>7 DEF Capturing!Callback, Capturing!StreamFails
  <1>8. CASE Capturing!PauseRecording \/ Capturing!ResumeRecording
    <2>1. UNCHANGED <<stopping, streams, queue, ring, pending, inSpeech>>
      BY <1>8 DEF Capturing!PauseRecording, Capturing!ResumeRecording,
        Capturing!mixer, Capturing!detector
    <2> QED
      BY <1>4, <2>1
  <1>9. ~Capturing!Stop
    BY <1>1 DEF Capturing!Stop, Capturing!StopRecording,
      Capturing!StopStreams, Capturing!ForceFlush
  <1>10. ~Capturing!Receive
    <2> SUFFICES ASSUME queue # <<>> PROVE Head(queue) = Quiet
      BY DEF Capturing!Receive
    <2>1. Head(queue) = queue[1] /\ 1 \in 1..Len(queue)
      BY <1>2, HeadTailProperties, EmptySeq, LenProperties
    <2> QED
      BY <1>1, <2>1
  <1>11. ~Capturing!Mix
    BY <1>1 DEF Capturing!Mix
  <1>12. ~(Capturing!HearOn \/ Capturing!SpeechStarts
             \/ Capturing!SpeechEnds)
    BY <1>1 DEF Capturing!HearOn, Capturing!SpeechStarts,
      Capturing!SpeechEnds, Capturing!Listen
  <1> QED
    BY <1>5, <1>6, <1>7, <1>8, <1>9, <1>10, <1>11, <1>12
      DEF Capturing!Next

\* The callbacks send nothing after the requests to flush, and the pipeline
\* ends when it has heard everything.
LEMMA QueueStep ==
  ASSUME CaptureInv, [Capturing!Next]_captureVars
  PROVE  QueueInv'
  <1> USE DEF CaptureInv
  <1>1. queue \in Seq(Pieces \cup {Quiet}) /\ Len(queue) \in Nat
    BY LenProperties DEF CaptureShape
  <1>2. /\ stopping \in {"closed", "ended"} =>
             stopping' \in {"closed", "ended"}
        /\ streams' \subseteq streams
        /\ stopping' \in {"flushing", "closed", "ended"} => streams' = {}
    <2>1. stopping \in {"flushing", "closed", "ended"} => streams = {}
      BY DEF QueueInv
    <2> QED
      BY <2>1 DEF Capturing!Next, Capturing!Callback, Capturing!StreamFails,
        Capturing!PauseRecording, Capturing!ResumeRecording, Capturing!Stop,
        Capturing!StopRecording, Capturing!StopStreams, Capturing!ForceFlush,
        Capturing!Receive, Capturing!Mix, Capturing!HearOn,
        Capturing!SpeechStarts, Capturing!SpeechEnds, Capturing!Flush,
        Capturing!EndPipeline, Capturing!control, captureVars
  <1>3. /\ \A k, n \in 1..Len(queue) :
             k <= n /\ queue[k] = Quiet => queue[n] = Quiet
        /\ \A k \in 1..Len(queue) :
             queue[k] = Quiet => stopping \in {"closed", "ended"}
    BY DEF QueueInv
  <1> DEFINE Ordered(q) ==
               /\ \A k, n \in 1..Len(q) :
                    k <= n /\ q[k] = Quiet => q[n] = Quiet
               /\ \A k \in 1..Len(q) :
                    q[k] = Quiet => stopping' \in {"closed", "ended"}
  <1>4. Ordered(queue')
    <2>1. CASE queue' = queue
      BY <1>2, <1>3, <2>1
    <2>2. CASE queue # <<>> /\ queue' = Tail(queue)
      <3>1. /\ Len(queue') \in Nat /\ Len(queue') = Len(queue) - 1
            /\ \A k \in 1..Len(queue') : queue'[k] = queue[k + 1]
        BY <1>1, <2>2, HeadTailProperties, LenProperties
      <3>2. ASSUME NEW k \in 1..Len(queue'), queue'[k] = Quiet
            PROVE  /\ stopping' \in {"closed", "ended"}
                   /\ \A n \in k..Len(queue') : queue'[n] = Quiet
        <4>1. k + 1 \in 1..Len(queue) /\ queue[k + 1] = Quiet
          BY <1>1, <3>1, <3>2
        <4>2. stopping' \in {"closed", "ended"}
          BY <1>2, <1>3, <4>1
        <4>3. ASSUME NEW n \in k..Len(queue') PROVE queue'[n] = Quiet
          <5>1. /\ n + 1 \in 1..Len(queue) /\ k + 1 <= n + 1
                /\ queue'[n] = queue[n + 1]
            BY <1>1, <3>1
          <5> QED
            BY <1>3, <4>1, <5>1
        <4> QED
          BY <4>2, <4>3
      <3>3. ASSUME NEW k \in 1..Len(queue'), NEW n \in 1..Len(queue'),
                   k <= n, queue'[k] = Quiet
            PROVE  queue'[n] = Quiet
        <4>1. n \in k..Len(queue')
          BY <3>1, <3>3
        <4> QED
          BY <3>2, <3>3, <4>1
      <3> QED
        BY <3>2, <3>3
    <2>3. ASSUME NEW s \in Inputs, NEW n \in 1..MaxCall,
                 Capturing!Callback(s, n)
          PROVE  Ordered(queue')
      <3>1. \A k \in 1..Len(queue) : queue[k] # Quiet
        <4>1. streams # {}
          BY <2>3 DEF Capturing!Callback
        <4>2. stopping \notin {"closed", "ended"}
          BY <4>1 DEF QueueInv
        <4> QED
          BY <1>3, <4>2
      <3>2. ASSUME NEW c \in Pieces, queue' = Append(queue, c)
            PROVE  \A k \in 1..Len(queue') : queue'[k] # Quiet
        <4>1. c # Quiet
          <5>1. MaxCall + Block - 1 \in Nat
            BY CaptureAssumption
          <5>2. \A m \in 1..(MaxCall + Block - 1) : m \in Nat
            BY <5>1
          <5>3. c \in [source : Inputs, size : Nat]
            BY <5>2 DEF Pieces
          <5> QED
            BY <5>3, CaptureAssumption
        <4>2. /\ Len(queue') = Len(queue) + 1
              /\ queue'[Len(queue) + 1] = c
              /\ \A k \in 1..Len(queue) : queue'[k] = queue[k]
          BY <1>1, <3>2, AppendProperties
        <4> QED
          BY <1>1, <3>1, <4>1, <4>2
      <3>3. \/ queue' = queue
            \/ \E c \in Pieces : queue' = Append(queue, c)
        BY <2>3, CallbackEffect
      <3>4. \A k \in 1..Len(queue') : queue'[k] # Quiet
        BY <3>1, <3>2, <3>3
      <3> QED
        BY <3>4
    <2>4. CASE Capturing!ForceFlush
      <3>1. /\ stopping = "flushing" /\ stopping' = "closed"
            /\ queue' = queue \o <<Quiet, Quiet>>
        BY <2>4 DEF Capturing!ForceFlush
      <3>2. \A k \in 1..Len(queue) : queue[k] # Quiet
        BY <1>3, <3>1
      <3>3. /\ Len(queue') = Len(queue) + 2
            /\ \A k \in 1..Len(queue) : queue'[k] = queue[k]
            /\ queue'[Len(queue) + 1] = Quiet
            /\ queue'[Len(queue) + 2] = Quiet
        <4>1. PICK z : z = <<Quiet, Quiet>>
          OBVIOUS
        <4>2. z \in Seq({Quiet}) /\ Len(z) = 2 /\ z[1] = Quiet /\ z[2] = Quiet
          BY <4>1
        <4>3. queue \in Seq(Pieces \cup {Quiet})
              /\ z \in Seq(Pieces \cup {Quiet})
          BY <1>1, <4>1
        <4>4. /\ Len(queue \o z) = Len(queue) + Len(z)
              /\ \A k \in 1..(Len(queue) + Len(z)) :
                   (queue \o z)[k] = IF k <= Len(queue) THEN queue[k]
                                     ELSE z[k - Len(queue)]
          BY <4>3, ConcatProperties
        <4>5. queue' = queue \o z
          BY <3>1, <4>1
        <4>6. /\ Len(queue') = Len(queue) + 2
              /\ \A k \in 1..(Len(queue) + 2) :
                   queue'[k] = IF k <= Len(queue) THEN queue[k]
                               ELSE z[k - Len(queue)]
          BY <4>2, <4>4, <4>5
        <4>7. \A k \in 1..Len(queue) : queue'[k] = queue[k]
          BY <1>1, <4>6
        <4>8. queue'[Len(queue) + 1] = z[1] /\ queue'[Len(queue) + 2] = z[2]
          <5>1. /\ Len(queue) + 1 \in 1..(Len(queue) + 2)
                /\ Len(queue) + 2 \in 1..(Len(queue) + 2)
                /\ ~(Len(queue) + 1 <= Len(queue))
                /\ ~(Len(queue) + 2 <= Len(queue))
                /\ (Len(queue) + 1) - Len(queue) = 1
                /\ (Len(queue) + 2) - Len(queue) = 2
            BY <1>1
          <5> QED
            BY <4>6, <5>1
        <4> QED
          BY <4>2, <4>6, <4>7, <4>8
      <3>4. ASSUME NEW k \in 1..Len(queue'), NEW n \in 1..Len(queue'),
                   k <= n, queue'[k] = Quiet
            PROVE  queue'[n] = Quiet
        <4>1. ~(k \in 1..Len(queue))
          BY <3>2, <3>3, <3>4
        <4>2. n = Len(queue) + 1 \/ n = Len(queue) + 2
          BY <1>1, <3>3, <3>4, <4>1
        <4> QED
          BY <3>3, <4>2
      <3> QED
        BY <3>1, <3>4
    <2>5. \/ queue' = queue
          \/ queue # <<>> /\ queue' = Tail(queue)
          \/ \E s \in Inputs, n \in 1..MaxCall : Capturing!Callback(s, n)
          \/ Capturing!ForceFlush
      BY DEF Capturing!Next, Capturing!StreamFails,
        Capturing!PauseRecording, Capturing!ResumeRecording, Capturing!Stop,
        Capturing!StopRecording, Capturing!StopStreams, Capturing!Receive,
        Capturing!Mix, Capturing!HearOn, Capturing!SpeechStarts,
        Capturing!SpeechEnds, Capturing!Flush, Capturing!EndPipeline,
        captureVars
    <2> HIDE DEF Ordered
    <2> QED
      BY <2>1, <2>2, <2>3, <2>4, <2>5
  <1>5. ASSUME stopping' = "ended" PROVE Over' /\ ~inSpeech'
    <2>1. CASE stopping = "ended"
      BY <2>1, OverStays DEF QueueInv
    <2>2. CASE stopping # "ended"
      <3>1. Capturing!EndPipeline
        BY <1>5, <2>2 DEF Capturing!Next, Capturing!Callback,
          Capturing!StreamFails, Capturing!PauseRecording,
          Capturing!ResumeRecording, Capturing!Stop,
          Capturing!StopRecording, Capturing!StopStreams,
          Capturing!ForceFlush, Capturing!Receive, Capturing!Mix,
          Capturing!HearOn, Capturing!SpeechStarts, Capturing!SpeechEnds,
          Capturing!Flush, Capturing!control, captureVars
      <3>2. /\ stopping = "closed" /\ queue = <<>> /\ pending = 0
            /\ ~Capturing!CanMix
        BY <3>1 DEF Capturing!EndPipeline
      <3>3. Over
        <4>1. streams = {}
          BY <3>2 DEF QueueInv
        <4>2. \A k \in 1..Len(queue) : queue[k] = Quiet
          BY <3>2
        <4> QED
          BY <3>2, <4>1, <4>2 DEF Over
      <3>4. inSpeech' = FALSE
        BY <3>1, Zenon DEF Capturing!EndPipeline, Capturing!FlushSpeech
      <3>5. Over'
        BY <3>3, OverStays
      <3> QED
        BY <3>4, <3>5, Zenon
    <2> QED
      BY <2>1, <2>2
  <1> QED
    BY <1>2, <1>4, <1>5 DEF QueueInv

\* What is kept does not depend on the stretches that come later.
LEMMA KeepsTheSame ==
  ASSUME NEW s, NEW t, NEW kept, NEW n \in Nat, Keeps(s, kept, n),
         \A k \in 1..n : t[k] = s[k]
  PROVE  Keeps(t, kept, n)
  BY DEF Keeps

\* One stretch more is over.
LEMMA OneMoreIsKept ==
  ASSUME NEW s, NEW kept, NEW n \in Nat, Keeps(s, kept, n)
  PROVE  \E g : /\ Keeps(s, g, n + 1)
                /\ g[n + 1] = IF s[n + 1][2] - s[n + 1][1] >= MinSpeech
                              THEN Append(kept[n], s[n + 1]) ELSE kept[n]
  <1> DEFINE long(k) == s[k][2] - s[k][1] >= MinSpeech
             more == IF long(n + 1) THEN Append(kept[n], s[n + 1])
                     ELSE kept[n]
             g == [k \in 0..(n + 1) |-> IF k <= n THEN kept[k] ELSE more]
  <1>1. /\ \A k \in 0..n : g[k] = kept[k]
        /\ g[n + 1] = more
    OBVIOUS
  <1>2. /\ kept[0] = <<>>
        /\ \A k \in 1..n : kept[k] = IF long(k) THEN Append(kept[k - 1], s[k])
                                     ELSE kept[k - 1]
    BY DEF Keeps
  <1>3. more = IF long(n + 1) THEN Append(kept[n], s[n + 1]) ELSE kept[n]
    OBVIOUS
  <1> HIDE DEF g, more, long
  <1>4. ASSUME NEW k \in 1..(n + 1)
        PROVE  g[k] = IF long(k) THEN Append(g[k - 1], s[k]) ELSE g[k - 1]
    <2>1. CASE k <= n
      <3>1. k \in 1..n /\ k \in 0..n /\ k - 1 \in 0..n
        BY <2>1
      <3> QED
        BY <1>1, <1>2, <3>1
    <2>2. CASE k = n + 1
      <3>1. k - 1 = n /\ n \in 0..n
        BY <2>2
      <3> QED
        BY <1>1, <1>3, <2>2, <3>1
    <2> QED
      BY <2>1, <2>2
  <1>5. g[0] = <<>>
    BY <1>1, <1>2
  <1>6. Keeps(s, g, n + 1)
    BY <1>4, <1>5 DEF Keeps, long
  <1>7. g[n + 1] = IF s[n + 1][2] - s[n + 1][1] >= MinSpeech
                   THEN Append(kept[n], s[n + 1]) ELSE kept[n]
    BY <1>1, <1>3 DEF long
  <1> QED
    BY <1>6, <1>7

\* The last stretch becomes longer.
LEMMA LongerSpeech ==
  ASSUME speech \in Seq(Nat \X Nat), Len(speech) > 0
  PROVE  /\ Len(Capturing!Longer) = Len(speech)
         /\ \A k \in 1..(Len(speech) - 1) : Capturing!Longer[k] = speech[k]
         /\ Capturing!Longer[Len(speech)] =
              <<speech[Len(speech)][1], cHeard + 1>>
  <1> DEFINE e == <<speech[Len(speech)][1], cHeard + 1>>
  <1>1. /\ Len(speech) \in Nat /\ DOMAIN speech = 1..Len(speech)
        /\ Len(speech) \in 1..Len(speech)
    BY LenProperties
  <1>2. Capturing!Longer = [speech EXCEPT ![Len(speech)] = e]
    BY DEF Capturing!Longer
  <1>3. speech = [k \in 1..Len(speech) |-> speech[k]]
    BY LenProperties
  <1> HIDE DEF e
  <1>4. /\ DOMAIN Capturing!Longer = 1..Len(speech)
        /\ \A k \in 1..Len(speech) :
             Capturing!Longer[k] = IF k = Len(speech) THEN e ELSE speech[k]
    BY <1>1, <1>2
  <1>5. Len(Capturing!Longer) = Len(speech)
    <2>1. PICK n \in Nat : n = Len(speech)
      BY <1>1
    <2>2. Capturing!Longer = [k \in 1..n |-> Capturing!Longer[k]]
      BY <1>2, <1>3, <2>1
    <2>3. Len([k \in 1..n |-> Capturing!Longer[k]]) = n
      OBVIOUS
    <2> QED
      BY <2>1, <2>2, <2>3
  <1>6. ASSUME NEW k \in 1..(Len(speech) - 1)
        PROVE  Capturing!Longer[k] = speech[k]
    <2>1. PICK n \in Nat : n = Len(speech)
      BY <1>1
    <2>2. k \in 1..(n - 1)
      BY <2>1
    <2>3. k \in 1..n /\ k # n
      BY <2>2
    <2> QED
      BY <1>4, <2>1, <2>3
  <1>7. Capturing!Longer[Len(speech)] = e
    BY <1>1, <1>4
  <1> QED
    BY <1>5, <1>6, <1>7 DEF e

\* The speech that was heard is kept as it should be, one stretch after the
\* other.
LEMMA SpeechStep ==
  ASSUME CaptureInv, [Capturing!Next]_captureVars
  PROVE  SpeechInv'
  <1> USE DEF CaptureInv
  <1> DEFINE L == Len(speech)
             more(s) == IF s[2] - s[1] >= MinSpeech THEN Append(sent, s)
                        ELSE sent
  <1>1. /\ speech \in Seq(Nat \X Nat) /\ L \in Nat /\ cHeard \in Nat
        /\ current \in Nat /\ pending \in Nat
        /\ Quiet \notin Nat /\ MinSpeech \in Nat
    BY CaptureAssumption, LenProperties DEF CaptureShape
  <1>2. /\ inSpeech =>
             /\ cSession \in Nat /\ cSession < cHeard
             /\ current = cHeard - cSession
             /\ L > 0 /\ speech[L] = <<cSession, cHeard>>
        /\ ~inSpeech => cSession = Quiet \/ Over
    BY DEF SpeechInv
  <1>3. PICK kept : Keeps(speech, kept, Closed) /\ sent = kept[Closed]
    BY DEF SpeechInv
  <1>4. pending > 0 => ~Over
    BY DEF Over
  <1>5. CASE UNCHANGED <<cHeard, cSession, inSpeech, current, speech, sent>>
    <2>1. inSpeech' = inSpeech
      BY <1>5, Zenon
    <2>2. /\ cHeard' = cHeard /\ cSession' = cSession /\ current' = current
          /\ speech' = speech /\ sent' = sent
      BY <1>5
    <2>3. Closed' = Closed
      BY <2>1, <2>2 DEF Closed
    <2>4. Over => Over'
      BY OverStays
    <2>5. \E g : Keeps(speech', g, Closed') /\ sent' = g[Closed']
      BY <1>3, <2>2, <2>3
    <2>6. inSpeech' =>
            /\ cSession' \in Nat /\ cSession' < cHeard'
            /\ current' = cHeard' - cSession'
            /\ Len(speech') > 0
            /\ speech'[Len(speech')] = <<cSession', cHeard'>>
      BY <1>2, <2>1, <2>2
    <2>7. ~inSpeech' => cSession' = Quiet \/ Over'
      BY <1>2, <2>1, <2>2, <2>4
    <2> QED
      BY <2>5, <2>6, <2>7 DEF SpeechInv, Keeps
  <1>6. CASE Capturing!HearOn
    <2>1. /\ pending > 0 /\ cHeard' = cHeard + 1 /\ sent' = sent
          /\ cSession' = cSession
          /\ current' = IF inSpeech THEN current + 1 ELSE current
          /\ speech' = IF cSession = Quiet THEN speech ELSE Capturing!Longer
      BY <1>6 DEF Capturing!HearOn, Capturing!Listen
    <2>2. inSpeech' = inSpeech
      BY <1>6, Zenon DEF Capturing!HearOn
    <2>3. CASE inSpeech
      <3>1. /\ cSession \in Nat /\ cSession < cHeard
            /\ current = cHeard - cSession
            /\ L > 0 /\ speech[L] = <<cSession, cHeard>>
            /\ speech' = Capturing!Longer
        BY <1>1, <1>2, <2>1, <2>3
      <3>2. /\ Len(speech') = L
            /\ \A k \in 1..(L - 1) : speech'[k] = speech[k]
            /\ speech'[L] = <<speech[L][1], cHeard + 1>>
        BY <1>1, <3>1, LongerSpeech
      <3>3. Closed = L - 1 /\ Closed' = L - 1 /\ L - 1 \in Nat
        BY <1>1, <2>2, <2>3, <3>1, <3>2 DEF Closed
      <3> HIDE DEF L
      <3>4. Keeps(speech', kept, L - 1)
        BY <1>3, <3>2, <3>3, KeepsTheSame
      <3>5. \E g : Keeps(speech', g, Closed') /\ sent' = g[Closed']
        BY <1>3, <2>1, <3>3, <3>4
      <3>6. /\ cSession' \in Nat /\ cSession' < cHeard'
            /\ current' = cHeard' - cSession'
            /\ Len(speech') > 0
            /\ speech'[Len(speech')] = <<cSession', cHeard'>>
        BY <1>1, <2>1, <2>3, <3>1, <3>2
      <3>7. inSpeech'
        BY <2>2, <2>3
      <3> QED
        BY <3>5, <3>6, <3>7 DEF SpeechInv, Keeps
    <2>4. CASE ~inSpeech
      <3>1. cSession = Quiet /\ speech' = speech
        BY <1>2, <1>4, <2>1, <2>4
      <3>2. Closed' = Closed
        BY <2>2, <3>1 DEF Closed
      <3>3. \E g : Keeps(speech', g, Closed') /\ sent' = g[Closed']
        BY <1>3, <2>1, <3>1, <3>2
      <3>4. ~inSpeech' /\ cSession' = Quiet
        BY <2>1, <2>2, <2>4, <3>1
      <3> QED
        BY <3>3, <3>4 DEF SpeechInv, Keeps
    <2> QED
      BY <2>3, <2>4
  <1>7. CASE Capturing!SpeechStarts
    <2>1. /\ cSession = Quiet /\ cSession' = cHeard /\ cHeard' = cHeard + 1
          /\ current' = 1 /\ sent' = sent
          /\ speech' = Append(speech, <<cHeard, cHeard + 1>>)
      BY <1>7 DEF Capturing!SpeechStarts, Capturing!Listen
    <2>2. ~inSpeech
      BY <1>1, <1>2, <2>1
    <2>3. inSpeech' = TRUE
      BY <1>7, Zenon DEF Capturing!SpeechStarts
    <2>4. /\ Len(speech') = L + 1
          /\ speech'[L + 1] = <<cHeard, cHeard + 1>>
          /\ \A k \in 1..L : speech'[k] = speech[k]
      <3>1. <<cHeard, cHeard + 1>> \in Nat \X Nat
        BY <1>1
      <3> QED
        BY <1>1, <2>1, <3>1, AppendProperties
    <2>5. Closed = L /\ Closed' = L
      BY <1>1, <2>2, <2>3, <2>4 DEF Closed
    <2> HIDE DEF L
    <2>6. Keeps(speech', kept, L)
      BY <1>1, <1>3, <2>4, <2>5, KeepsTheSame
    <2>7. \E g : Keeps(speech', g, Closed') /\ sent' = g[Closed']
      BY <1>3, <2>1, <2>5, <2>6
    <2>8. /\ cSession' \in Nat /\ cSession' < cHeard'
          /\ current' = cHeard' - cSession'
          /\ Len(speech') > 0
          /\ speech'[Len(speech')] = <<cSession', cHeard'>>
      BY <1>1, <2>1, <2>4
    <2> QED
      BY <2>3, <2>7, <2>8 DEF SpeechInv, Keeps
  <1>8. CASE Capturing!SpeechEnds
    <2>1. /\ pending > 0 /\ cSession # Quiet /\ cSession' = Quiet
          /\ speech' = Capturing!Longer
          /\ sent' = IF (cHeard + 1) - cSession >= MinSpeech
                     THEN Append(sent, <<cSession, cHeard + 1>>) ELSE sent
      BY <1>8 DEF Capturing!SpeechEnds, Capturing!Listen, Capturing!Send
    <2>2. inSpeech
      BY <1>2, <1>4, <2>1
    <2>3. inSpeech' = FALSE
      BY <1>8, Zenon DEF Capturing!SpeechEnds
    <2>4. cSession \in Nat /\ L > 0 /\ speech[L] = <<cSession, cHeard>>
      BY <1>2, <2>2
    <2>5. /\ Len(speech') = L
          /\ \A k \in 1..(L - 1) : speech'[k] = speech[k]
          /\ speech'[L] = <<cSession, cHeard + 1>>
      <3>1. speech[L][1] = cSession
        BY <2>4
      <3> QED
        BY <1>1, <2>1, <2>4, <3>1, LongerSpeech
    <2>6. Closed = L - 1 /\ Closed' = L /\ L - 1 \in Nat /\ (L - 1) + 1 = L
      BY <1>1, <2>2, <2>3, <2>4, <2>5 DEF Closed
    <2> HIDE DEF L
    <2>7. Keeps(speech', kept, L - 1)
      BY <1>3, <2>5, <2>6, KeepsTheSame
    <2>8. PICK g : /\ Keeps(speech', g, L)
                   /\ g[L] = IF speech'[L][2] - speech'[L][1] >= MinSpeech
                             THEN Append(kept[L - 1], speech'[L])
                             ELSE kept[L - 1]
      BY <2>6, <2>7, OneMoreIsKept
    <2>9. g[L] = sent'
      <3>1. speech'[L][1] = cSession /\ speech'[L][2] = cHeard + 1
        BY <2>5
      <3>2. kept[L - 1] = sent
        BY <1>3, <2>6
      <3> QED
        BY <2>1, <2>5, <2>8, <3>1, <3>2
    <2>10. \E h : Keeps(speech', h, Closed') /\ sent' = h[Closed']
      BY <2>6, <2>8, <2>9
    <2> QED
      BY <2>1, <2>3, <2>10 DEF SpeechInv, Keeps
  <1>9. CASE Capturing!Flush \/ Capturing!EndPipeline
    <2>1. /\ Capturing!FlushSpeech
          /\ cHeard' = cHeard /\ cSession' = cSession /\ speech' = speech
      BY <1>9 DEF Capturing!Flush, Capturing!EndPipeline,
        Capturing!FlushSpeech
    <2>2. inSpeech' = FALSE
      BY <2>1, Zenon DEF Capturing!FlushSpeech
    <2>3. Over
      <3>1. ~Capturing!CanMix /\ pending = 0
        BY <1>9 DEF Capturing!Flush, Capturing!EndPipeline
      <3>2. /\ stopping \in {"closed", "ended"}
            /\ \A k \in 1..Len(queue) : queue[k] = Quiet
        <4>1. queue \in Seq(Pieces \cup {Quiet})
          BY DEF CaptureShape
        <4>2. CASE Capturing!Flush
          <5>1. queue # <<>> /\ Head(queue) = Quiet
            BY <4>2 DEF Capturing!Flush
          <5>2. /\ Len(queue) \in Nat /\ queue[1] = Quiet
                /\ 1 \in 1..Len(queue)
            BY <4>1, <5>1, HeadTailProperties, EmptySeq, LenProperties
          <5> QED
            BY <5>2 DEF QueueInv
        <4>3. CASE Capturing!EndPipeline
          BY <4>3 DEF Capturing!EndPipeline
        <4> QED
          BY <1>9, <4>2, <4>3
      <3>3. streams = {}
        BY <3>2 DEF QueueInv
      <3> QED
        BY <3>1, <3>2, <3>3 DEF Over
    <2>4. Over'
      BY <2>3, OverStays
    <2>5. \E g : Keeps(speech', g, Closed') /\ sent' = g[Closed']
      <3>1. Closed' = L
        BY <2>1, <2>2 DEF Closed
      <3>2. CASE inSpeech
        <4>1. /\ cSession \in Nat /\ cSession < cHeard
              /\ current = cHeard - cSession
              /\ L > 0 /\ speech[L] = <<cSession, cHeard>>
          BY <1>2, <3>2
        <4>2. current > 0 /\ cHeard - current = cSession
          BY <1>1, <4>1
        <4>3. sent' = IF cHeard - cSession >= MinSpeech
                      THEN Append(sent, <<cSession, cHeard>>) ELSE sent
          BY <2>1, <3>2, <4>2 DEF Capturing!FlushSpeech, Capturing!Send
        <4>4. Closed = L - 1 /\ L - 1 \in Nat /\ (L - 1) + 1 = L
          BY <1>1, <3>2, <4>1 DEF Closed
        <4> HIDE DEF L
        <4>5. PICK g : /\ Keeps(speech, g, L)
                       /\ g[L] = IF speech[L][2] - speech[L][1] >= MinSpeech
                                 THEN Append(kept[L - 1], speech[L])
                                 ELSE kept[L - 1]
          BY <1>3, <4>4, OneMoreIsKept
        <4>6. g[L] = sent'
          <5>1. speech[L][1] = cSession /\ speech[L][2] = cHeard
            BY <4>1
          <5>2. kept[L - 1] = sent
            BY <1>3, <4>4
          <5> QED
            BY <4>1, <4>3, <4>5, <5>1, <5>2
        <4> QED
          BY <2>1, <3>1, <4>5, <4>6
      <3>3. CASE ~inSpeech
        <4>1. sent' = sent
          BY <2>1, <3>3 DEF Capturing!FlushSpeech
        <4>2. Closed = L
          BY <3>3 DEF Closed
        <4> QED
          BY <1>3, <2>1, <3>1, <4>1, <4>2
      <3> QED
        BY <3>2, <3>3
    <2> QED
      BY <2>2, <2>4, <2>5 DEF SpeechInv, Keeps
  <1> QED
    BY <1>5, <1>6, <1>7, <1>8, <1>9 DEF Capturing!Next, Capturing!Callback,
      Capturing!StreamFails, Capturing!PauseRecording,
      Capturing!ResumeRecording, Capturing!Stop, Capturing!StopRecording,
      Capturing!StopStreams, Capturing!ForceFlush, Capturing!Receive,
      Capturing!Mix, Capturing!detector, captureVars

\* What every number reaches from nought is true of all of them.
LEMMA AllNumbers ==
  ASSUME NEW S, 0 \in S, \A n \in Nat : n \in S => n + 1 \in S
  PROVE  Nat \subseteq S
  <1> DEFINE T == Nat \ S
  <1> SUFFICES ASSUME T # {} PROVE FALSE
    OBVIOUS
  <1>1. PICK x \in T : \A y \in T : x <= y
    <2>1. T \subseteq Nat
      OBVIOUS
    <2> HIDE DEF T
    <2> QED
      BY <2>1, LeastNumber
  <1>2. x \in Nat /\ x \notin S /\ x # 0
    OBVIOUS
  <1>3. x - 1 \in Nat /\ (x - 1) + 1 = x /\ ~(x <= x - 1)
    BY <1>2
  <1>4. x - 1 \in S
    BY <1>1, <1>3
  <1> QED
    BY <1>2, <1>3, <1>4

\* When all is over, what is kept is what is long enough.
LEMMA KeptIsLongEnough ==
  ASSUME NEW s \in Seq(Nat \X Nat), NEW kept, Keeps(s, kept, Len(s))
  PROVE  Capturing!LongEnough(s) = kept[Len(s)]
  <1> DEFINE L == Len(s)
             Goes(g, n) ==
               IF n = 0 THEN <<>>
               ELSE IF s[n][2] - s[n][1] >= MinSpeech
                    THEN Append(g[n - 1], s[n]) ELSE g[n - 1]
             grown == CHOOSE g : g = [n \in 0..L |-> Goes(g, n)]
  <1>1. L \in Nat
    BY LenProperties
  <1>2. /\ kept[0] = <<>>
        /\ \A k \in 1..L :
             kept[k] = IF s[k][2] - s[k][1] >= MinSpeech
                       THEN Append(kept[k - 1], s[k]) ELSE kept[k - 1]
    BY DEF Keeps
  <1>3. \E g : g = [n \in 0..L |-> Goes(g, n)]
    <2> DEFINE g == [n \in 0..L |-> kept[n]]
    <2>1. \A n \in 0..L : g[n] = Goes(g, n)
      <3> SUFFICES ASSUME NEW n \in 0..L PROVE g[n] = Goes(g, n)
        OBVIOUS
      <3>1. CASE n = 0
        BY <1>1, <1>2, <3>1
      <3>2. CASE n # 0
        <4>1. n \in 1..L /\ n - 1 \in 0..L
          BY <1>1, <3>2
        <4>2. g[n - 1] = kept[n - 1] /\ g[n] = kept[n]
          BY <4>1
        <4>3. Goes(g, n) = IF s[n][2] - s[n][1] >= MinSpeech
                           THEN Append(g[n - 1], s[n]) ELSE g[n - 1]
          BY <3>2
        <4> HIDE DEF g, Goes
        <4> QED
          BY <1>2, <4>1, <4>2, <4>3
      <3> QED
        BY <3>1, <3>2
    <2>2. g = [n \in 0..L |-> kept[n]] /\ \A n \in 0..L : g[n] = kept[n]
      OBVIOUS
    <2> HIDE DEF g, Goes
    <2>3. [n \in 0..L |-> kept[n]] = [n \in 0..L |-> Goes(g, n)]
      BY <2>1, <2>2
    <2>4. g = [n \in 0..L |-> Goes(g, n)]
      BY <2>2, <2>3
    <2> QED
      BY <2>4
  <1>4. grown = [n \in 0..L |-> Goes(grown, n)]
    <2> HIDE DEF Goes
    <2> QED
      BY <1>3
  <1>5. Capturing!LongEnough(s) = grown[L]
    BY DEF Capturing!LongEnough
  <1> HIDE DEF grown
  <1>6. \A n \in 0..L : grown[n] = Goes(grown, n)
    <2> HIDE DEF Goes
    <2> QED
      BY <1>4
  <1> DEFINE S == {n \in Nat : n <= L => grown[n] = kept[n]}
  <1>7. 0 \in S
    BY <1>1, <1>2, <1>6
  <1>8. ASSUME NEW n \in Nat, n \in S PROVE n + 1 \in S
    <2> SUFFICES ASSUME n + 1 <= L PROVE grown[n + 1] = kept[n + 1]
      OBVIOUS
    <2>1. /\ n + 1 \in 1..L /\ n + 1 \in 0..L /\ (n + 1) - 1 = n
          /\ n <= L /\ n + 1 # 0
      BY <1>1
    <2>2. grown[n] = kept[n]
      BY <1>8, <2>1
    <2>3. grown[n + 1] =
            IF s[n + 1][2] - s[n + 1][1] >= MinSpeech
            THEN Append(grown[n], s[n + 1]) ELSE grown[n]
      BY <1>6, <2>1
    <2> HIDE DEF S, Goes
    <2> QED
      BY <1>2, <2>1, <2>2, <2>3
  <1>9. L \in S
    <2> HIDE DEF S, L
    <2> QED
      BY <1>1, <1>7, <1>8, AllNumbers
  <1> QED
    BY <1>1, <1>5, <1>9

\* The mixer throws no audio away and pads no more than a second source would
\* have filled, and what was heard of speech is sent, each stretch once and in
\* order (add_samples, extract_window, ContinuousVadProcessor::flush,
\* force_flush_and_stop).
THEOREM SpeechStaysSent == AudioSpec => []CapturedSpeechIsSent
  <1> DEFINE Inv == component = "capture" => CaptureInv
  <1>1. AudioInit => Inv
    BY CaptureBegins DEF AudioInit, JobsInit, ChangingInit, CaptureInit,
      TrackInit, ImportInit, OriginInit, TimelinesInit, FilterInit,
      SummaryInit, ChunksInit, ModelsInit, ClockInit
  <1>2. Inv /\ [AudioNext]_everything => Inv'
    <2> SUFFICES ASSUME Inv, [AudioNext]_everything, component' = "capture"
                 PROVE  CaptureInv'
      OBVIOUS
    <2>1. [Capturing!Next]_captureVars /\ component = "capture"
      BY DEF AudioNext, everything, JobsNext, ChangingNext, CaptureNext,
        TrackNext, ImportNext, OriginNext, TimelinesNext, FilterNext,
        SummaryNext, ChunksNext, ModelsNext, ClockNext
    <2>2. CaptureInv
      BY <2>1
    <2>3. CaptureShape' /\ QueueInv' /\ SpeechInv'
      BY <2>1, <2>2, CaptureShapeStep, QueueStep, SpeechStep
    <2>4. Capturing!NothingIsDropped' /\ Capturing!MixIsBounded'
      BY <2>1, <2>2, MixerStep
    <2> QED
      BY <2>3, <2>4 DEF CaptureInv
  <1>3. Inv => CapturedSpeechIsSent
    <2> SUFFICES ASSUME CaptureInv
                 PROVE  /\ Capturing!NothingIsDropped
                        /\ Capturing!MixIsBounded
                        /\ Capturing!SpeechIsSent
      BY DEF CapturedSpeechIsSent
    <2>1. Capturing!NothingIsDropped /\ Capturing!MixIsBounded
      BY DEF CaptureInv
    <2>2. Capturing!SpeechIsSent
      <3> SUFFICES ASSUME stopping = "ended"
                   PROVE  sent = Capturing!LongEnough(speech)
        BY DEF Capturing!SpeechIsSent
      <3>1. ~inSpeech
        BY DEF CaptureInv, QueueInv
      <3>2. PICK kept : Keeps(speech, kept, Closed) /\ sent = kept[Closed]
        BY DEF CaptureInv, SpeechInv
      <3>3. Closed = Len(speech)
        BY <3>1 DEF Closed
      <3>4. speech \in Seq(Nat \X Nat)
        BY DEF CaptureInv, CaptureShape
      <3>5. Capturing!LongEnough(speech) = kept[Len(speech)]
        BY <3>2, <3>3, <3>4, KeptIsLongEnough
      <3> QED
        BY <3>2, <3>3, <3>5
    <2> QED
      BY <2>1, <2>2
  <1> QED
    BY <1>1, <1>2, <1>3, PTL DEF AudioSpec

-----------------------------------------------------------------------------
(* The track of an origin                                                  *)

\* The first n files are whole; after them there may be a torn one.
InOrder(files, n) ==
  /\ n \in Nat
  /\ 0..n - 1 \subseteq DOMAIN files /\ DOMAIN files \subseteq 0..n
  /\ \A k \in 0..n - 1 : files[k].whole /\ files[k].data \in Track!Samples
  /\ n \in DOMAIN files => ~ files[n].whole

\* What the first files hold, put one after the other.
Glued(files, n, g) ==
  /\ g[0] = <<>>
  /\ \A k \in 1..n : g[k] = g[k - 1] \o files[k - 1].data

\* The files can be put one after the other.
LEMMA GluedExists ==
  ASSUME NEW files, NEW n \in Nat
  PROVE  \E g : Glued(files, n, g)
  <1> DEFINE S == {m \in Nat : \E g : Glued(files, m, g)}
  <1>1. 0 \in S
    <2> DEFINE g == [k \in {0} |-> <<>>]
    <2>1. Glued(files, 0, g)
      BY DEF Glued
    <2> QED
      BY <2>1
  <1>2. ASSUME NEW m \in Nat, m \in S PROVE m + 1 \in S
    <2>1. PICK g : Glued(files, m, g)
      BY <1>2
    <2> DEFINE h == [k \in 0..m + 1 |->
                       IF k = m + 1 THEN g[m] \o files[m].data ELSE g[k]]
    <2>2. /\ \A k \in 0..m : h[k] = g[k]
          /\ h[m + 1] = g[m] \o files[m].data
      OBVIOUS
    <2> HIDE DEF h
    <2>3. h[0] = <<>>
      BY <2>1, <2>2 DEF Glued
    <2>4. ASSUME NEW k \in 1..m + 1
          PROVE  h[k] = h[k - 1] \o files[k - 1].data
      <3>1. CASE k = m + 1
        <4>1. h[m] = g[m] /\ k - 1 = m
          BY <2>2, <3>1
        <4> QED
          BY <2>2, <3>1, <4>1
      <3>2. CASE k # m + 1
        <4>1. k \in 1..m /\ k \in 0..m /\ k - 1 \in 0..m
          BY <3>2
        <4>2. h[k] = g[k] /\ h[k - 1] = g[k - 1]
          BY <2>2, <4>1
        <4> QED
          BY <2>1, <4>1, <4>2 DEF Glued
      <3> QED
        BY <3>1, <3>2
    <2>5. Glued(files, m + 1, h)
      BY <2>3, <2>4 DEF Glued
    <2> QED
      BY <2>5
  <1> HIDE DEF S
  <1>3. n \in S
    BY <1>1, <1>2, AllNumbers
  <1> QED
    BY <1>3 DEF S

\* They hold samples.
LEMMA GluedIsSamples ==
  ASSUME NEW files, NEW n \in Nat, NEW g, Glued(files, n, g),
         \A k \in 0..n - 1 : files[k].data \in Track!Samples
  PROVE  \A k \in 0..n : g[k] \in Track!Samples
  <1> DEFINE S == {m \in Nat : m <= n => g[m] \in Track!Samples}
  <1>1. 0 \in S
    BY EmptySeq DEF Glued, Track!Samples
  <1>2. ASSUME NEW m \in Nat, m \in S PROVE m + 1 \in S
    <2> SUFFICES ASSUME m + 1 <= n PROVE g[m + 1] \in Track!Samples
      OBVIOUS
    <2>1. m + 1 \in 1..n /\ m \in 0..n - 1 /\ (m + 1) - 1 = m /\ m <= n
      OBVIOUS
    <2>2. g[m + 1] = g[m] \o files[m].data
      BY <2>1 DEF Glued
    <2>3. g[m] \in Track!Samples /\ files[m].data \in Track!Samples
      BY <1>2, <2>1
    <2> QED
      BY <2>2, <2>3, ConcatProperties DEF Track!Samples
  <1>3. Nat \subseteq S
    <2> HIDE DEF S
    <2> QED
      BY <1>1, <1>2, AllNumbers
  <1> QED
    BY <1>3

\* What the first files hold depends on them only.
LEMMA GluedAgree ==
  ASSUME NEW files, NEW others, NEW n \in Nat, NEW g, NEW h,
         Glued(files, n, g), Glued(others, n, h),
         \A k \in 0..n - 1 : others[k] = files[k]
  PROVE  \A k \in 0..n : h[k] = g[k]
  <1> DEFINE S == {m \in Nat : m <= n => h[m] = g[m]}
  <1>1. 0 \in S
    BY DEF Glued
  <1>2. ASSUME NEW m \in Nat, m \in S PROVE m + 1 \in S
    <2> SUFFICES ASSUME m + 1 <= n PROVE h[m + 1] = g[m + 1]
      OBVIOUS
    <2>1. m + 1 \in 1..n /\ m \in 0..n - 1 /\ (m + 1) - 1 = m /\ m <= n
      OBVIOUS
    <2>2. g[m + 1] = g[m] \o files[m].data /\ h[m + 1] = h[m] \o others[m].data
      BY <2>1 DEF Glued
    <2>3. g[m] = h[m] /\ files[m] = others[m]
      BY <1>2, <2>1
    <2> QED
      BY <2>2, <2>3
  <1>3. Nat \subseteq S
    <2> HIDE DEF S
    <2> QED
      BY <1>1, <1>2, AllNumbers
  <1> QED
    BY <1>3

\* The number of the last file, and one.
LEMMA EndIs ==
  ASSUME NEW files, NEW n, InOrder(files, n)
  PROVE  Track!End(files) = IF n \in DOMAIN files THEN n + 1 ELSE n
  <1> DEFINE m == IF n \in DOMAIN files THEN n + 1 ELSE n
             E == {0} \cup {k + 1 : k \in DOMAIN files}
             IsEnd(x) == \A k \in DOMAIN files : k < x
  <1>1. n \in Nat /\ DOMAIN files \subseteq 0..n
    BY DEF InOrder
  <1>2. m \in E /\ IsEnd(m)
    <2>1. CASE n \in DOMAIN files
      BY <1>1, <2>1
    <2>2. CASE n \notin DOMAIN files
      <3>1. IsEnd(m)
        BY <1>1, <2>2
      <3>2. CASE n = 0
        BY <2>2, <3>1, <3>2
      <3>3. CASE n # 0
        <4>1. n - 1 \in 0..n - 1
          BY <1>1, <3>3
        <4>2. n - 1 \in DOMAIN files /\ (n - 1) + 1 = n
          BY <1>1, <4>1 DEF InOrder
        <4> QED
          BY <2>2, <3>1, <4>2
      <3> QED
        BY <3>1, <3>2, <3>3
    <2> QED
      BY <2>1, <2>2
  <1>3. ASSUME NEW x \in E, IsEnd(x) PROVE x = m
    <2>1. m \in Nat /\ x \in Nat
      BY <1>1
    <2>2. x <= m
      <3>1. CASE x = 0
        BY <2>1, <3>1
      <3>2. CASE x # 0
        <4>1. PICK k \in DOMAIN files : x = k + 1
          BY <3>2
        <4>2. k < m /\ k \in Nat
          BY <1>1, <1>2
        <4> QED
          BY <2>1, <4>1, <4>2
      <3> QED
        BY <3>1, <3>2
    <2>3. m <= x
      <3>1. CASE m = 0
        BY <2>1, <3>1
      <3>2. CASE m # 0
        <4>1. PICK k \in DOMAIN files : m = k + 1
          BY <1>2, <3>2
        <4>2. k < x /\ k \in Nat
          BY <1>1, <1>3
        <4> QED
          BY <2>1, <4>1, <4>2
      <3> QED
        BY <3>1, <3>2
    <2> QED
      BY <2>1, <2>2, <2>3
  <1>4. Track!End(files) = CHOOSE x \in E : IsEnd(x)
    BY DEF Track!End
  <1>5. m = IF n \in DOMAIN files THEN n + 1 ELSE n
    OBVIOUS
  <1> HIDE DEF m, E, IsEnd
  <1> QED
    BY <1>2, <1>3, <1>4, <1>5

\* The files of an origin are joined in order; a torn one adds nothing.
LEMMA JoinedIs ==
  ASSUME NEW files, NEW n, InOrder(files, n), NEW g, Glued(files, n, g)
  PROVE  Track!Joined(files) = g[n]
  <1> DEFINE E == Track!End(files)
             Goes(f, k) ==
               IF k = 0 THEN <<>>
               ELSE f[k - 1] \o
                    (IF k - 1 \in DOMAIN files /\ files[k - 1].whole
                       THEN files[k - 1].data ELSE <<>>)
             part == CHOOSE f : f = [k \in 0..E |-> Goes(f, k)]
             Sum(k) == IF k = n + 1 THEN g[n] ELSE g[k]
  <1>1. n \in Nat /\ E \in {n, n + 1} /\ (n \in DOMAIN files <=> E = n + 1)
    <2>1. n \in Nat
      BY DEF InOrder
    <2> QED
      BY <2>1, EndIs
  <1>2. g[n] \o <<>> = g[n]
    <2>1. g[n] \in Track!Samples
      <3>1. \A k \in 0..n - 1 : files[k].data \in Track!Samples
        BY DEF InOrder
      <3> QED
        BY <1>1, <3>1, GluedIsSamples
    <2> QED
      BY <2>1, ConcatEmptySeq DEF Track!Samples
  <1>3. ASSUME NEW f, NEW k \in 0..E, k # 0 => f[k - 1] = Sum(k - 1)
        PROVE  Goes(f, k) = Sum(k)
    <2>1. CASE k = 0
      BY <1>1, <2>1 DEF Glued
    <2>2. CASE k = n + 1
      <3>1. n \in DOMAIN files /\ ~ files[n].whole
        BY <1>1, <2>2 DEF InOrder
      <3>2. k # 0 /\ k - 1 = n /\ n # n + 1
        BY <1>1, <2>2
      <3>3. f[n] = g[n]
        BY <1>3, <3>2
      <3>4. Goes(f, k) = f[n] \o <<>>
        BY <3>1, <3>2
      <3> QED
        BY <1>2, <2>2, <3>3, <3>4
    <2>3. CASE k # 0 /\ k # n + 1
      <3>1. k \in 1..n /\ k - 1 \in 0..n - 1 /\ k - 1 # n + 1
        BY <1>1, <2>3
      <3>2. k - 1 \in DOMAIN files /\ files[k - 1].whole
        BY <3>1 DEF InOrder
      <3>3. f[k - 1] = g[k - 1]
        BY <1>3, <2>3, <3>1
      <3>4. Goes(f, k) = f[k - 1] \o files[k - 1].data
        BY <2>3, <3>2
      <3>5. g[k] = g[k - 1] \o files[k - 1].data
        BY <3>1 DEF Glued
      <3> QED
        BY <2>3, <3>3, <3>4, <3>5
    <2> QED
      BY <2>1, <2>2, <2>3
  <1>4. \E f : f = [k \in 0..E |-> Goes(f, k)]
    <2> DEFINE f == [k \in 0..E |-> Sum(k)]
    <2>1. \A k \in 0..E : f[k] = Goes(f, k)
      <3> SUFFICES ASSUME NEW k \in 0..E PROVE f[k] = Goes(f, k)
        OBVIOUS
      <3>1. k # 0 => k - 1 \in 0..E
        BY <1>1
      <3>2. f[k] = Sum(k) /\ (k # 0 => f[k - 1] = Sum(k - 1))
        BY <3>1
      <3> HIDE DEF f, Goes, Sum
      <3> QED
        BY <1>3, <3>2
    <2>2. f = [k \in 0..E |-> Sum(k)] /\ \A k \in 0..E : f[k] = Sum(k)
      OBVIOUS
    <2> HIDE DEF f, Goes, Sum
    <2>3. [k \in 0..E |-> Sum(k)] = [k \in 0..E |-> Goes(f, k)]
      BY <2>1, <2>2
    <2> QED
      BY <2>2, <2>3
  <1>5. part = [k \in 0..E |-> Goes(part, k)]
    <2> HIDE DEF Goes
    <2> QED
      BY <1>4
  <1>6. Track!Joined(files) = part[E]
    BY DEF Track!Joined
  <1> HIDE DEF part
  <1>7. \A k \in 0..E : part[k] = Goes(part, k)
    <2> HIDE DEF Goes
    <2> QED
      BY <1>5
  <1> DEFINE S == {k \in Nat : k <= E => part[k] = Sum(k)}
  <1>8. 0 \in S
    <2>1. 0 \in 0..E
      BY <1>1
    <2> HIDE DEF Goes, Sum
    <2> QED
      BY <1>3, <1>7, <2>1
  <1>9. ASSUME NEW k \in Nat, k \in S PROVE k + 1 \in S
    <2> SUFFICES ASSUME k + 1 <= E PROVE part[k + 1] = Sum(k + 1)
      OBVIOUS
    <2>1. k + 1 \in 0..E /\ (k + 1) - 1 = k /\ k <= E
      BY <1>1
    <2>2. part[(k + 1) - 1] = Sum((k + 1) - 1)
      BY <1>9, <2>1
    <2> HIDE DEF Goes, Sum, S
    <2> QED
      BY <1>3, <1>7, <2>1, <2>2
  <1>10. E \in S
    <2> HIDE DEF S, E, Goes, Sum
    <2> QED
      BY <1>1, <1>8, <1>9, AllNumbers
  <1>11. Sum(E) = g[n]
    BY <1>1
  <1>12. E <= E
    BY <1>1
  <1> HIDE DEF Goes, Sum, E
  <1> QED
    BY <1>6, <1>10, <1>11, <1>12

\* The track of no file is empty.
LEMMA JoinedNone ==
  ASSUME NEW files, InOrder(files, 0)
  PROVE  Track!Joined(files) = <<>>
  <1>1. PICK g : Glued(files, 0, g)
    BY GluedExists
  <1>2. g[0] = <<>>
    BY <1>1 DEF Glued
  <1> QED
    BY <1>1, <1>2, JoinedIs

\* It holds samples.
LEMMA JoinedIsSamples ==
  ASSUME NEW files, NEW n, InOrder(files, n)
  PROVE  Track!Joined(files) \in Track!Samples
  <1>1. n \in Nat /\ \A k \in 0..n - 1 : files[k].data \in Track!Samples
    BY DEF InOrder
  <1>2. PICK g : Glued(files, n, g)
    BY <1>1, GluedExists
  <1>3. g[n] \in Track!Samples
    BY <1>1, <1>2, GluedIsSamples
  <1> QED
    BY <1>2, <1>3, JoinedIs

\* The same whole files make the same track.
LEMMA JoinedSame ==
  ASSUME NEW files, NEW others, NEW n, InOrder(files, n), InOrder(others, n),
         \A k \in 0..n - 1 : others[k] = files[k]
  PROVE  Track!Joined(others) = Track!Joined(files)
  <1>1. n \in Nat
    BY DEF InOrder
  <1>2. PICK g : Glued(files, n, g)
    BY <1>1, GluedExists
  <1>3. PICK h : Glued(others, n, h)
    BY <1>1, GluedExists
  <1>4. h[n] = g[n]
    BY <1>1, <1>2, <1>3, GluedAgree
  <1> QED
    BY <1>2, <1>3, <1>4, JoinedIs

\* One whole file more makes the track longer by what it holds.
LEMMA JoinedMore ==
  ASSUME NEW files, NEW others, NEW n, InOrder(files, n),
         InOrder(others, n + 1), \A k \in 0..n - 1 : others[k] = files[k]
  PROVE  Track!Joined(others) = Track!Joined(files) \o others[n].data
  <1>1. n \in Nat /\ n + 1 \in Nat
    BY DEF InOrder
  <1>2. PICK g : Glued(files, n, g)
    BY <1>1, GluedExists
  <1>3. PICK h : Glued(others, n + 1, h)
    BY <1>1, GluedExists
  <1>4. Glued(others, n, h)
    <2>1. /\ h[0] = <<>>
          /\ \A k \in 1..n + 1 : h[k] = h[k - 1] \o others[k - 1].data
      BY <1>3 DEF Glued
    <2>2. \A k \in 1..n : k \in 1..n + 1
      BY <1>1
    <2> QED
      BY <2>1, <2>2 DEF Glued
  <1>5. h[n] = g[n]
    BY <1>1, <1>2, <1>4, GluedAgree
  <1>6. h[n + 1] = h[n] \o others[n].data
    <2>1. n + 1 \in 1..n + 1 /\ (n + 1) - 1 = n
      BY <1>1
    <2> QED
      BY <1>3, <2>1 DEF Glued
  <1>7. Track!Joined(others) = h[n + 1] /\ Track!Joined(files) = g[n]
    BY <1>2, <1>3, JoinedIs
  <1> QED
    BY <1>5, <1>6, <1>7

\* Samples may be put together in any order of the joins.
LEMMA SamplesAssociate ==
  ASSUME NEW s \in Track!Samples, NEW t \in Track!Samples,
         NEW u \in Track!Samples
  PROVE  (s \o t) \o u = s \o (t \o u)
  <1>1. PICK T : T = 0..MaxTime["track"]
    OBVIOUS
  <1>2. s \in Seq(T) /\ t \in Seq(T) /\ u \in Seq(T)
    BY <1>1 DEF Track!Samples
  <1> QED
    BY <1>2, ConcatAssociative

\* A multiple of a larger number is larger.
LEMMA MoreIntervals ==
  ASSUME NEW a \in Nat, NEW b \in Nat, a <= b
  PROVE  a * Interval \in Nat /\ b * Interval \in Nat
         /\ a * Interval <= b * Interval
         /\ (a + 1) * Interval = a * Interval + Interval
  <1>1. Interval \in Nat
    BY TrackAssumption
  <1>2. b - a \in Nat /\ b = a + (b - a)
    OBVIOUS
  <1>3. /\ a * Interval \in Nat /\ b * Interval \in Nat
        /\ (b - a) * Interval \in Nat
        /\ (a + 1) * Interval = a * Interval + Interval
    BY <1>1, <1>2
  <1>4. (a + (b - a)) * Interval = a * Interval + (b - a) * Interval
    BY <1>1, <1>2
  <1> QED
    BY <1>2, <1>3, <1>4

\* An interval of samples holds samples.
LEMMA CutIsSamples ==
  ASSUME NEW s \in Track!Samples, NEW k \in Nat \ {0}, k * Interval <= Len(s)
  PROVE  Track!Cut(s, k) \in Track!Samples
  <1>1. k - 1 \in Nat /\ k - 1 <= k
    OBVIOUS
  <1>2. /\ (k - 1) * Interval \in Nat /\ k * Interval \in Nat
    BY <1>1, MoreIntervals
  <1>3. \A x \in (k - 1) * Interval + 1..k * Interval :
          s[x] \in 0..MaxTime["track"]
    <2> SUFFICES ASSUME NEW x \in (k - 1) * Interval + 1..k * Interval
                 PROVE  s[x] \in 0..MaxTime["track"]
      OBVIOUS
    <2>1. Len(s) \in Nat
      BY LenProperties DEF Track!Samples
    <2>2. x \in 1..Len(s)
      BY <1>2, <2>1
    <2> QED
      BY <2>2, ElementOfSeq DEF Track!Samples
  <1> QED
    BY <1>2, <1>3, SubSeqProperties DEF Track!Cut, Track!Samples

\* The checkpoints that are added are in order.
LEMMA CutsInOrder ==
  ASSUME NEW o, InOrder(ckpt[o], count[o]), NEW s \in Track!Samples,
         NEW k \in Nat, k * Interval <= Len(s),
         k > 0 => ~ Track!InTheWay(o)
  PROVE  LET files == Track!WithCheckpoints(o, s, k) IN
         /\ InOrder(files, count[o] + k)
         /\ \A m \in 0..count[o] - 1 : files[m] = ckpt[o][m]
         /\ \A m \in 0..k - 1 :
              files[count[o] + m] =
                [data |-> Track!Cut(s, m + 1), whole |-> TRUE]
         /\ ~ Track!InTheWay(o) => count[o] + k \notin DOMAIN files
  <1> DEFINE files == Track!WithCheckpoints(o, s, k)
             D == DOMAIN ckpt[o] \cup {count[o] + m : m \in 0..k - 1}
             file(x) == IF x \in DOMAIN ckpt[o] THEN ckpt[o][x]
                        ELSE [data |-> Track!Cut(s, x - count[o] + 1),
                              whole |-> TRUE]
  <1>1. /\ count[o] \in Nat /\ count[o] + k \in Nat
        /\ 0..count[o] - 1 \subseteq DOMAIN ckpt[o]
        /\ DOMAIN ckpt[o] \subseteq 0..count[o]
        /\ \A m \in 0..count[o] - 1 :
             ckpt[o][m].whole /\ ckpt[o][m].data \in Track!Samples
        /\ count[o] \in DOMAIN ckpt[o] => ~ ckpt[o][count[o]].whole
    BY DEF InOrder
  <1>2. DOMAIN files = D /\ \A x \in D : files[x] = file(x)
    BY DEF Track!WithCheckpoints
  <1> HIDE DEF files
  <1>3. \A m \in 0..count[o] - 1 : m \in D /\ files[m] = ckpt[o][m]
    BY <1>1, <1>2
  <1>4. ASSUME NEW m \in 0..k - 1
        PROVE  /\ count[o] + m \in D
               /\ files[count[o] + m] =
                    [data |-> Track!Cut(s, m + 1), whole |-> TRUE]
               /\ Track!Cut(s, m + 1) \in Track!Samples
    <2>1. count[o] + m \in D /\ (count[o] + m) - count[o] + 1 = m + 1
      BY <1>1
    <2>2. count[o] \notin DOMAIN ckpt[o]
      BY DEF Track!InTheWay
    <2>3. count[o] + m \notin DOMAIN ckpt[o]
      BY <1>1, <2>2
    <2>4. m + 1 \in Nat \ {0} /\ (m + 1) * Interval <= Len(s)
      <3>1. m + 1 \in Nat /\ m + 1 <= k
        OBVIOUS
      <3>2. Len(s) \in Nat
        BY LenProperties DEF Track!Samples
      <3>3. /\ (m + 1) * Interval \in Nat /\ k * Interval \in Nat
            /\ (m + 1) * Interval <= k * Interval
        BY <3>1, MoreIntervals
      <3> QED
        BY <3>1, <3>2, <3>3
    <2> QED
      BY <1>2, <2>1, <2>3, <2>4, CutIsSamples
  <1>5. D \subseteq 0..count[o] + k
    BY <1>1
  <1>6. 0..(count[o] + k) - 1 \subseteq D
    <2> SUFFICES ASSUME NEW x \in 0..(count[o] + k) - 1 PROVE x \in D
      OBVIOUS
    <2>1. CASE x < count[o]
      <3>1. x \in 0..count[o] - 1
        BY <1>1, <2>1
      <3> QED
        BY <1>1, <3>1
    <2>2. CASE ~(x < count[o])
      <3>1. x - count[o] \in 0..k - 1 /\ count[o] + (x - count[o]) = x
        BY <1>1, <2>2
      <3> QED
        BY <3>1
    <2> QED
      BY <2>1, <2>2
  <1>7. ASSUME NEW x \in 0..(count[o] + k) - 1
        PROVE  files[x].whole /\ files[x].data \in Track!Samples
    <2>1. CASE x < count[o]
      <3>1. x \in 0..count[o] - 1
        BY <1>1, <2>1
      <3> QED
        BY <1>1, <1>3, <3>1
    <2>2. CASE ~(x < count[o])
      <3>1. x - count[o] \in 0..k - 1 /\ count[o] + (x - count[o]) = x
        BY <1>1, <2>2
      <3>2. PICK m \in 0..k - 1 : count[o] + m = x
        BY <3>1
      <3>3. files[x] = [data |-> Track!Cut(s, m + 1), whole |-> TRUE]
            /\ Track!Cut(s, m + 1) \in Track!Samples
        BY <1>4, <3>2
      <3> QED
        BY <3>3
    <2> QED
      BY <2>1, <2>2
  <1>8. count[o] + k \in D => /\ k = 0
                              /\ count[o] \in DOMAIN ckpt[o]
                              /\ files[count[o] + k] = ckpt[o][count[o]]
    <2> SUFFICES ASSUME count[o] + k \in D
                 PROVE  /\ k = 0 /\ count[o] \in DOMAIN ckpt[o]
                        /\ files[count[o] + k] = ckpt[o][count[o]]
      OBVIOUS
    <2>1. count[o] + k \in DOMAIN ckpt[o]
      BY <1>1
    <2>2. k = 0 /\ count[o] + k = count[o]
      BY <1>1, <2>1
    <2> QED
      BY <1>2, <2>1, <2>2
  <1>9. InOrder(files, count[o] + k)
    BY <1>1, <1>2, <1>5, <1>6, <1>7, <1>8 DEF InOrder
  <1>10. ~ Track!InTheWay(o) => count[o] + k \notin DOMAIN files
    BY <1>2, <1>8 DEF Track!InTheWay
  <1>11. files = Track!WithCheckpoints(o, s, k)
    BY DEF files
  <1> QED
    BY <1>3, <1>4, <1>9, <1>10, <1>11

\* They hold what was cut.
LEMMA JoinedCuts ==
  ASSUME NEW o, InOrder(ckpt[o], count[o]), NEW s \in Track!Samples,
         NEW k \in Nat, k * Interval <= Len(s),
         k > 0 => ~ Track!InTheWay(o)
  PROVE  Track!Joined(Track!WithCheckpoints(o, s, k)) =
           Track!Joined(ckpt[o]) \o SubSeq(s, 1, k * Interval)
  <1> DEFINE With(m) == Track!WithCheckpoints(o, s, m)
             J == Track!Joined(ckpt[o])
             Holds(m) ==
               Track!Joined(With(m)) = J \o SubSeq(s, 1, m * Interval)
             S == {m \in Nat : m <= k => Holds(m)}
  <1>1. J \in Track!Samples /\ Len(s) \in Nat /\ count[o] \in Nat
    BY JoinedIsSamples, LenProperties DEF Track!Samples, InOrder
  <1>2. ASSUME NEW m \in Nat, m <= k
        PROVE  /\ m * Interval \in 0..Len(s)
               /\ InOrder(With(m), count[o] + m)
               /\ \A x \in 0..count[o] - 1 : With(m)[x] = ckpt[o][x]
               /\ \A x \in 0..m - 1 :
                    With(m)[count[o] + x] =
                      [data |-> Track!Cut(s, x + 1), whole |-> TRUE]
    <2>1. /\ m * Interval \in Nat /\ k * Interval \in Nat
          /\ m * Interval <= k * Interval
      BY <1>2, MoreIntervals
    <2>2. m * Interval \in 0..Len(s) /\ m * Interval <= Len(s)
      BY <1>1, <2>1
    <2>3. m > 0 => ~ Track!InTheWay(o)
      BY <1>2
    <2> QED
      BY <2>2, <2>3, CutsInOrder
  <1> HIDE DEF With
  <1>3. 0 \in S
    <2>1. /\ InOrder(With(0), count[o] + 0)
          /\ \A x \in 0..count[o] - 1 : With(0)[x] = ckpt[o][x]
      BY <1>2
    <2>2. count[o] + 0 = count[o] /\ 0 * Interval = 0
      BY <1>1, TrackAssumption
    <2>3. Track!Joined(With(0)) = J
      BY <2>1, <2>2, JoinedSame
    <2>4. SubSeq(s, 1, 0) = <<>>
      BY SubSeqEmpty
    <2>5. J \o <<>> = J
      BY <1>1, ConcatEmptySeq DEF Track!Samples
    <2> QED
      BY <2>2, <2>3, <2>4, <2>5
  <1>4. ASSUME NEW m \in Nat, m \in S PROVE m + 1 \in S
    <2> HIDE DEF Holds
    <2> SUFFICES ASSUME m + 1 <= k PROVE Holds(m + 1)
      OBVIOUS
    <2>1. /\ m <= k /\ m \in 0..(m + 1) - 1 /\ m + 1 \in Nat
          /\ \A x \in 0..m - 1 : x \in 0..(m + 1) - 1
      <3> HIDE DEF S
      <3>1. m <= k /\ m + 1 \in Nat
        OBVIOUS
      <3>2. m \in 0..(m + 1) - 1
        OBVIOUS
      <3>3. \A x \in 0..m - 1 : x \in 0..(m + 1) - 1
        OBVIOUS
      <3> QED
        BY <3>1, <3>2, <3>3
    <2>2. Track!Joined(With(m)) = J \o SubSeq(s, 1, m * Interval)
      BY <1>4, <2>1 DEF Holds
    <2>3. /\ m * Interval \in 0..Len(s) /\ (m + 1) * Interval \in 0..Len(s)
          /\ m * Interval <= (m + 1) * Interval
      <3>1. m * Interval <= (m + 1) * Interval
        BY <2>1, MoreIntervals
      <3> QED
        BY <1>2, <2>1, <3>1
    <2>4. \A x \in 0..(count[o] + m) - 1 : With(m + 1)[x] = With(m)[x]
      <3> SUFFICES ASSUME NEW x \in 0..(count[o] + m) - 1
                   PROVE  With(m + 1)[x] = With(m)[x]
        OBVIOUS
      <3>1. CASE x < count[o]
        <4>1. x \in 0..count[o] - 1
          BY <1>1, <3>1
        <4> QED
          BY <1>2, <2>1, <4>1
      <3>2. CASE ~(x < count[o])
        <4>1. x - count[o] \in 0..m - 1 /\ count[o] + (x - count[o]) = x
          BY <1>1, <3>2
        <4>2. PICK y \in 0..m - 1 : count[o] + y = x
          BY <4>1
        <4>3. With(m)[count[o] + y] =
                [data |-> Track!Cut(s, y + 1), whole |-> TRUE]
          BY <1>2, <2>1, <4>2
        <4>4. With(m + 1)[count[o] + y] =
                [data |-> Track!Cut(s, y + 1), whole |-> TRUE]
          BY <1>2, <2>1, <4>2
        <4> QED
          BY <4>2, <4>3, <4>4
      <3> QED
        BY <3>1, <3>2
    <2>5. /\ InOrder(With(m), count[o] + m)
          /\ InOrder(With(m + 1), (count[o] + m) + 1)
      <3>1. count[o] + (m + 1) = (count[o] + m) + 1
        BY <1>1
      <3> QED
        BY <1>2, <2>1, <3>1
    <2>6. Track!Joined(With(m + 1)) =
            Track!Joined(With(m)) \o With(m + 1)[count[o] + m].data
      BY <2>4, <2>5, JoinedMore
    <2>7. With(m + 1)[count[o] + m].data = Track!Cut(s, m + 1)
      <3>1. With(m + 1)[count[o] + m] =
              [data |-> Track!Cut(s, m + 1), whole |-> TRUE]
        BY <1>2, <2>1
      <3> QED
        BY <3>1
    <2>8. Track!Cut(s, m + 1) = SubSeq(s, m * Interval + 1, (m + 1) * Interval)
      <3>1. (m + 1) - 1 = m
        OBVIOUS
      <3> QED
        BY <3>1 DEF Track!Cut
    <2> DEFINE a == m * Interval
               b == (m + 1) * Interval
               x == SubSeq(s, 1, a)
               y == SubSeq(s, a + 1, b)
    <2>9. x \in Track!Samples /\ y \in Track!Samples
      <3>1. \A z \in 1..Len(s) : s[z] \in 0..MaxTime["track"]
        BY ElementOfSeq DEF Track!Samples
      <3>2. /\ a \in Int /\ b \in Int /\ a + 1 \in Int /\ 1 \in Int
            /\ \A z \in 1..a : s[z] \in 0..MaxTime["track"]
            /\ \A z \in a + 1..b : s[z] \in 0..MaxTime["track"]
        <4> HIDE DEF a, b
        <4>1. a \in 0..Len(s) /\ b \in 0..Len(s)
          BY <2>3 DEF a, b
        <4> QED
          BY <1>1, <3>1, <4>1
      <3> HIDE DEF a, b
      <3> QED
        BY <3>2, SubSeqProperties DEF Track!Samples
    <2>10. x \o y = SubSeq(s, 1, b)
      <3>1. 1 \in 1..Len(s) + 1 /\ a \in 1 - 1..Len(s) /\ b \in a..Len(s)
        <4> HIDE DEF a, b
        <4>1. a \in 0..Len(s) /\ b \in 0..Len(s) /\ a <= b
          BY <2>3 DEF a, b
        <4> QED
          BY <1>1, <4>1
      <3> HIDE DEF a, b
      <3> QED
        BY <3>1, ConcatAdjacentSubSeq DEF Track!Samples
    <2> HIDE DEF x, y, a, b, J
    <2>11. (J \o x) \o y = J \o (x \o y)
      BY <1>1, <2>9, SamplesAssociate
    <2> QED
      BY <2>2, <2>6, <2>7, <2>8, <2>10, <2>11 DEF x, y, a, b, Holds
  <1>5. k \in S
    <2> HIDE DEF S
    <2> QED
      BY <1>3, <1>4, AllNumbers
  <1>6. Track!Joined(With(k)) = J \o SubSeq(s, 1, k * Interval)
    <2>1. k <= k
      OBVIOUS
    <2> HIDE DEF J
    <2> QED
      BY <1>5, <2>1
  <1> QED
    BY <1>6 DEF With

\* The origins whose turn has not passed.
Waiting(o) == turn = <<Mic, Sys>> \/ (turn = <<Sys>> /\ o = Sys)

\* The checkpoints of the origin are still written.
Collecting(o) ==
  \/ phase = "recording"
  \/ phase = "saving" /\ Waiting(o)
  \/ phase \in {"merging", "removing"} /\ Waiting(o) /\ o # Head(turn)

\* The recording is going on, or is stopped step by step.
Stopping ==
  phase \in {"recording", "saving", "merging", "removing", "mixing",
             "describing"}

\* What the variables of the saver are.
TrackShape ==
  /\ turn \in {<<Mic, Sys>>, <<Sys>>, <<>>}
  /\ phase \in {"saving", "merging", "removing", "recovering"} => turn # <<>>
  /\ buffer \in [Track!Tracks -> Track!Samples]
  /\ next \in [Track!Tracks -> Nat]
  /\ count \in [Track!Tracks -> Nat]
  /\ safe \in [Track!Tracks -> Nat]
  /\ tFailed \in [Track!Tracks -> BOOLEAN]
  /\ ready \in [Track!Tracks -> BOOLEAN]
  /\ dir \in [Track!Tracks -> BOOLEAN]
  /\ halved \in [Track!Tracks -> BOOLEAN]
  /\ tHeard \in [Track!Tracks -> Track!Samples]
  /\ ckpt = [o \in Track!Tracks |-> ckpt[o]]
  /\ track = [o \in Track!Tracks |-> track[o]]
  /\ origin = [o \in Track!Tracks |-> origin[o]]

\* What is on disk of an origin that did not fail is the beginning of what was
\* heard, and less than an interval is missing.
Faithful(o) ==
  ~ tFailed[o] =>
    /\ Track!OnDisk(o) = SubSeq(tHeard[o], 1, Len(Track!OnDisk(o)))
    /\ Len(Track!OnDisk(o)) + Interval > Len(tHeard[o])

\* What is on disk is in the checkpoints or in the track, or in both.
Placed(o) ==
  \/ track[o] = Track!Missing /\ InOrder(ckpt[o], count[o])
  \/ /\ track[o] \in Track!Samples /\ InOrder(ckpt[o], count[o])
     /\ track[o] = Track!Joined(ckpt[o])
  \/ track[o] \in Track!Samples /\ ~ dir[o]

Kept(o) ==
  /\ Placed(o)
  /\ Track!OnDisk(o) \in Track!Samples
  /\ Len(Track!OnDisk(o)) = safe[o]
  /\ Faithful(o)

\* Nothing of what was heard is missing while the checkpoints are written.
Collected(o) ==
  /\ ~ halved[o] /\ ~ ready[o] /\ track[o] = Track!Missing
  /\ InOrder(ckpt[o], count[o])
  /\ ~ tFailed[o] =>
       /\ tHeard[o] = Track!Joined(ckpt[o]) \o buffer[o]
       /\ Len(buffer[o]) < Interval
       /\ ~ Track!InTheWay(o)
       /\ phase = "recording" => next[o] = Len(tHeard[o])

\* Before the checkpoints are joined they hold all of it.
Complete(o) ==
  /\ ~ halved[o] /\ ~ ready[o] /\ track[o] = Track!Missing
  /\ InOrder(ckpt[o], count[o])
  /\ ~ tFailed[o] => tHeard[o] = Track!Joined(ckpt[o])

\* Before they are removed the track holds it.
Tracked(o) ==
  /\ ready[o] /\ track[o] \in Track!Samples /\ Len(track[o]) = safe[o]
  /\ ~ tFailed[o] => track[o] = tHeard[o]

\* What is true of an origin.
OriginOnDisk(o) ==
  /\ ~ halved[o] /\ phase # "cleaned" => Kept(o)
  /\ Collecting(o) => Collected(o)
  /\ phase = "merging" /\ o = Head(turn) => Complete(o)
  /\ phase = "removing" /\ o = Head(turn) => Tracked(o)
  /\ Stopping /\ ready[o] /\ ~ tFailed[o] => track[o] = tHeard[o]
  /\ origin[o] # "waiting" =>
       /\ phase = "closed"
       /\ origin[o] = "stored" => track[o] = tHeard[o] /\ o \in playback
  /\ phase = "cleaning" /\ report = "success" /\ dir[o] => o \in playback

TrackInv ==
  /\ TrackShape
  /\ phase = "describing" => playback = {o \in Track!Tracks : ready[o]}
  /\ \A o \in Track!Tracks : OriginOnDisk(o)

\* No track holds what stands for no track.
LEMMA MissingIsNoTrack == Track!Missing \notin Track!Samples
  <1> SUFFICES ASSUME Track!Missing \in Track!Samples PROVE FALSE
    OBVIOUS
  <1>1. MaxTime["track"] \in Nat
    BY TrackAssumption
  <1>2. PICK s : s = Track!Missing
    OBVIOUS
  <1>3. s[1] = MaxTime["track"] + 1 /\ Len(s) = 1
    BY <1>2 DEF Track!Missing
  <1>4. s \in Seq(0..MaxTime["track"]) /\ 1 \in 1..Len(s)
    BY <1>2, <1>3 DEF Track!Samples
  <1>5. s[1] \in 0..MaxTime["track"]
    BY <1>4, ElementOfSeq
  <1> QED
    BY <1>1, <1>3, <1>5

\* The microphone is first, then the system.
LEMMA Turns ==
  ASSUME turn \in {<<Mic, Sys>>, <<Sys>>, <<>>}, turn # <<>>
  PROVE  /\ Head(turn) \in Track!Tracks
         /\ \/ turn = <<Mic, Sys>> /\ Head(turn) = Mic /\ Tail(turn) = <<Sys>>
            \/ turn = <<Sys>> /\ Head(turn) = Sys /\ Tail(turn) = <<>>
         /\ Head(<<Sys>>) = Sys /\ <<Sys>> # <<>> /\ <<Mic, Sys>> # <<>>
         /\ <<Mic, Sys>> # <<Sys>>
  <1>1. Head(<<Sys>>) = Sys /\ Tail(<<Sys>>) = <<>> /\ <<Sys>> # <<>>
    OBVIOUS
  <1>2. Head(<<Mic, Sys>>) = Mic /\ Tail(<<Mic, Sys>>) = <<Sys>>
    OBVIOUS
  <1>3. <<Mic, Sys>> # <<>> /\ <<Mic, Sys>> # <<Sys>>
    OBVIOUS
  <1>4. Mic \in Track!Tracks /\ Sys \in Track!Tracks
    BY DEF Track!Tracks
  <1>5. CASE turn = <<Mic, Sys>>
    BY <1>1, <1>2, <1>3, <1>4, <1>5
  <1>6. CASE turn = <<Sys>>
    BY <1>1, <1>3, <1>4, <1>6
  <1> QED
    BY <1>5, <1>6

\* What is on disk of an origin stays there when nothing of it changes.
LEMMA KeptStays ==
  ASSUME NEW o, Kept(o),
         count'[o] = count[o], tFailed'[o] = tFailed[o], ckpt'[o] = ckpt[o],
         dir'[o] = dir[o], track'[o] = track[o], tHeard'[o] = tHeard[o],
         safe'[o] = safe[o]
  PROVE  Kept(o)'
  <1>1. Track!OnDisk(o)' = Track!OnDisk(o)
    BY DEF Track!OnDisk
  <1>2. Placed(o)' <=> Placed(o)
    BY DEF Placed
  <1>3. Faithful(o)' <=> Faithful(o)
    BY <1>1 DEF Faithful
  <1> QED
    BY <1>1, <1>2, <1>3 DEF Kept

\* An origin of which nothing changes stays as it is, unless its turn comes.
LEMMA OtherOrigin ==
  ASSUME NEW o, OriginOnDisk(o),
         buffer'[o] = buffer[o], next'[o] = next[o], count'[o] = count[o],
         tFailed'[o] = tFailed[o], ready'[o] = ready[o], ckpt'[o] = ckpt[o],
         dir'[o] = dir[o], track'[o] = track[o], origin'[o] = origin[o],
         tHeard'[o] = tHeard[o], safe'[o] = safe[o], halved'[o] = halved[o],
         phase \notin {"closed", "cleaned"},
         phase' = "recording" => phase = "recording",
         Collecting(o)' => Collecting(o),
         phase' = "merging" /\ o = Head(turn') =>
           phase = "merging" /\ o = Head(turn),
         phase' = "removing" /\ o = Head(turn') =>
           phase = "removing" /\ o = Head(turn),
         Stopping' => Stopping,
         phase' = "cleaning" /\ report' = "success" /\ dir[o] => o \in playback'
  PROVE  OriginOnDisk(o)'
  <1>1. Kept(o) => Kept(o)'
    BY KeptStays
  <1>2. Collected(o) => Collected(o)'
    BY DEF Collected, Track!InTheWay
  <1>3. Complete(o) => Complete(o)'
    BY DEF Complete
  <1>4. Tracked(o) => Tracked(o)'
    BY DEF Tracked
  <1> QED
    BY <1>1, <1>2, <1>3, <1>4 DEF OriginOnDisk

\* Nor when the recording is over, if what is on disk stays there.
LEMMA OverOrigin ==
  ASSUME NEW o, OriginOnDisk(o), origin'[o] = origin[o],
         phase \notin {"closed", "cleaned"},
         phase' \in {"dead", "recovering", "replaying", "cleaning", "cleaned"},
         ~ halved'[o] /\ phase' # "cleaned" => Kept(o)',
         phase' = "cleaning" /\ report' = "success" /\ dir'[o] =>
           o \in playback'
  PROVE  OriginOnDisk(o)'
  <1>1. ~ Stopping' /\ ~ Collecting(o)'
    BY DEF Stopping, Collecting
  <1>2. origin'[o] = "waiting"
    BY DEF OriginOnDisk
  <1> QED
    BY <1>1, <1>2 DEF OriginOnDisk

\* When the recording begins nothing was heard.
LEMMA TrackBegins == Track!Init => TrackInv
  <1> SUFFICES ASSUME Track!Init PROVE TrackInv
    OBVIOUS
  <1> USE DEF Track!Init, Track!SaverInit, Track!FolderInit
  <1>1. <<>> \in Track!Samples
    BY EmptySeq DEF Track!Samples
  <1>2. TrackShape
    BY <1>1 DEF TrackShape
  <1>3. ASSUME NEW o \in Track!Tracks PROVE OriginOnDisk(o)
    <2>1. DOMAIN Track!NoFiles = {}
      BY DEF Track!NoFiles
    <2>2. InOrder(Track!NoFiles, 0)
      BY <2>1 DEF InOrder
    <2>3. /\ ckpt[o] = Track!NoFiles /\ count[o] = 0
          /\ track[o] = Track!Missing /\ safe[o] = 0 /\ tHeard[o] = <<>>
          /\ ~ halved[o] /\ ~ ready[o] /\ buffer[o] = <<>> /\ next[o] = 0
          /\ origin[o] = "waiting"
      OBVIOUS
    <2>4. Track!Joined(ckpt[o]) = <<>>
      BY <2>2, <2>3, JoinedNone
    <2>5. Track!OnDisk(o) = <<>>
      BY <2>3, <2>4 DEF Track!OnDisk
    <2>6. /\ SubSeq(<<>>, 1, 0) = <<>> /\ <<>> \o <<>> = <<>>
          /\ Len(<<>>) = 0
      BY EmptySeq, SubSeqEmpty
    <2>7. Interval \in Nat /\ Interval > 0
      BY TrackAssumption
    <2>8. Faithful(o)
      BY <2>3, <2>5, <2>6, <2>7 DEF Faithful
    <2>9. Kept(o)
      BY <1>1, <2>2, <2>3, <2>5, <2>6, <2>8 DEF Kept, Placed
    <2>10. Collected(o)
      BY <2>1, <2>2, <2>3, <2>4, <2>6, <2>7 DEF Collected, Track!InTheWay
    <2> QED
      BY <2>3, <2>9, <2>10 DEF OriginOnDisk, Stopping
  <1> QED
    BY <1>2, <1>3 DEF TrackInv

\* As many whole intervals fit as the division says.
LEMMA WholeIntervals ==
  ASSUME NEW n \in Nat
  PROVE  /\ n \div Interval \in Nat /\ (n \div Interval) * Interval \in Nat
         /\ (n \div Interval) * Interval <= n
         /\ n - (n \div Interval) * Interval < Interval
  <1>1. Interval \in Nat /\ Interval > 0
    BY TrackAssumption
  <1>2. PICK q \in Nat, r \in Nat : q = n \div Interval /\ r = n % Interval
    BY <1>1
  <1>3. n = Interval * q + r /\ r < Interval
    BY <1>1, <1>2
  <1>4. q * Interval = Interval * q /\ q * Interval \in Nat
    BY <1>1
  <1> QED
    BY <1>1, <1>2, <1>3, <1>4

\* A stretch of samples holds samples.
LEMMA PieceIsSamples ==
  ASSUME NEW s \in Track!Samples, NEW m \in 1..Len(s) + 1, NEW n \in 0..Len(s)
  PROVE  /\ SubSeq(s, m, n) \in Track!Samples
         /\ Len(SubSeq(s, m, n)) = IF m <= n THEN n - m + 1 ELSE 0
  <1>1. Len(s) \in Nat
    BY LenProperties DEF Track!Samples
  <1>2. m \in Int /\ n \in Int
    BY <1>1
  <1>3. \A k \in m..n : s[k] \in 0..MaxTime["track"]
    <2> SUFFICES ASSUME NEW k \in m..n PROVE s[k] \in 0..MaxTime["track"]
      OBVIOUS
    <2>1. k \in 1..Len(s)
      BY <1>1
    <2> QED
      BY <2>1, ElementOfSeq DEF Track!Samples
  <1> QED
    BY <1>2, <1>3, SubSeqProperties DEF Track!Samples

\* Samples that are put together hold samples.
LEMMA TogetherIsSamples ==
  ASSUME NEW s \in Track!Samples, NEW t \in Track!Samples
  PROVE  /\ s \o t \in Track!Samples
         /\ Len(s) \in Nat /\ Len(t) \in Nat /\ Len(s \o t) = Len(s) + Len(t)
  <1>1. PICK T : T = 0..MaxTime["track"]
    OBVIOUS
  <1>2. s \in Seq(T) /\ t \in Seq(T)
    BY <1>1 DEF Track!Samples
  <1>3. s \o t \in Seq(T) /\ Len(s \o t) = Len(s) + Len(t)
    BY <1>2, ConcatProperties
  <1>4. Len(s) \in Nat /\ Len(t) \in Nat
    BY <1>2, LenProperties
  <1> QED
    BY <1>1, <1>3, <1>4 DEF Track!Samples

\* Two pieces that meet make the whole.
LEMMA PiecesMeet ==
  ASSUME NEW s \in Track!Samples, NEW n \in 0..Len(s)
  PROVE  SubSeq(s, 1, n) \o SubSeq(s, n + 1, Len(s)) = s
  <1>1. PICK T : T = 0..MaxTime["track"]
    OBVIOUS
  <1>2. s \in Seq(T) /\ Len(s) \in Nat
    BY <1>1, LenProperties DEF Track!Samples
  <1>3. 1 \in 1..Len(s) + 1 /\ n \in 1 - 1..Len(s) /\ Len(s) \in n..Len(s)
    BY <1>2
  <1>4. SubSeq(s, 1, n) \o SubSeq(s, n + 1, Len(s)) = SubSeq(s, 1, Len(s))
    BY <1>2, <1>3, ConcatAdjacentSubSeq
  <1> QED
    BY <1>2, <1>4, SubSeqFull

\* What is put first is the beginning.
LEMMA FirstIsBeginning ==
  ASSUME NEW s \in Track!Samples, NEW t \in Track!Samples
  PROVE  SubSeq(s \o t, 1, Len(s)) = s
  <1>1. PICK T : T = 0..MaxTime["track"]
    OBVIOUS
  <1>2. s \in Seq(T) /\ t \in Seq(T)
    BY <1>1 DEF Track!Samples
  <1>3. Len(s) \in Nat
    BY <1>2, LenProperties
  <1>4. CASE Len(s) = 0
    <2>1. s = <<>>
      BY <1>2, <1>4, EmptySeq
    <2> QED
      BY <1>4, <2>1, SubSeqEmpty
  <1>5. CASE Len(s) # 0
    <2>1. 1 \in 1..Len(s) /\ Len(s) \in 1..Len(s)
      BY <1>3, <1>5
    <2>2. SubSeq(s \o t, 1, Len(s)) = SubSeq(s, 1, Len(s))
      BY <1>2, <2>1, SubSeqOfConcat1
    <2> QED
      BY <1>2, <2>2, SubSeqFull
  <1> QED
    BY <1>4, <1>5

\* Silence is samples.
LEMMA StretchIsSamples ==
  ASSUME NEW n \in Nat
  PROVE  /\ Track!Stretch(n, Track!Silence) \in Track!Samples
         /\ Len(Track!Stretch(n, Track!Silence)) = n
  <1>1. MaxTime["track"] \in Nat /\ Track!Silence \in 0..MaxTime["track"]
    BY TrackAssumption DEF Track!Silence
  <1>2. Track!Stretch(n, Track!Silence) \in [1..n -> 0..MaxTime["track"]]
    BY <1>1 DEF Track!Stretch
  <1>3. Track!Stretch(n, Track!Silence) \in Track!Samples
    BY <1>2, SeqDef DEF Track!Samples
  <1>4. DOMAIN Track!Stretch(n, Track!Silence) = 1..n
    BY DEF Track!Stretch
  <1>5. PICK s \in Track!Samples : s = Track!Stretch(n, Track!Silence)
    BY <1>3
  <1>6. DOMAIN s = 1..Len(s) /\ Len(s) \in Nat
    BY LenProperties DEF Track!Samples
  <1>7. Len(s) = n
    BY <1>4, <1>5, <1>6
  <1> QED
    BY <1>5, <1>7

\* So is what is heard.
LEMMA HeardIsSamples ==
  ASSUME NEW from \in Nat, NEW to \in 0..MaxTime["track"]
  PROVE  /\ Track!Heard(from, to) \in Track!Samples
         /\ from <= to => Len(Track!Heard(from, to)) = to - from
  <1>1. MaxTime["track"] \in Nat
    BY TrackAssumption
  <1>2. to - from \in Int
    BY <1>1
  <1>3. \A k \in 1..to - from : from + k \in 0..MaxTime["track"]
    BY <1>1
  <1>4. ASSUME to - from \in Nat
        PROVE  Track!Heard(from, to) \in Track!Samples
    <2>1. Track!Heard(from, to) \in [1..to - from -> 0..MaxTime["track"]]
      BY <1>3 DEF Track!Heard
    <2> QED
      BY <1>4, <2>1, SeqDef DEF Track!Samples
  <1>5. ASSUME to - from \notin Nat
        PROVE  Track!Heard(from, to) \in Track!Samples
    <2>1. 1..to - from = 1..0
      BY <1>2, <1>5
    <2>2. Track!Heard(from, to) = [k \in 1..0 |-> from + k]
      BY <2>1 DEF Track!Heard
    <2>3. Track!Heard(from, to) \in [1..0 -> 0..MaxTime["track"]]
      BY <2>2
    <2> QED
      BY <2>3, SeqDef DEF Track!Samples
  <1>6. PICK s \in Track!Samples : s = Track!Heard(from, to)
    BY <1>4, <1>5
  <1>7. DOMAIN s = 1..Len(s) /\ Len(s) \in Nat
    BY LenProperties DEF Track!Samples
  <1>8. DOMAIN Track!Heard(from, to) = 1..to - from
    BY DEF Track!Heard
  <1>9. from <= to => Len(s) = to - from
    <2> SUFFICES ASSUME from <= to PROVE Len(s) = to - from
      OBVIOUS
    <2>1. PICK n \in Nat : n = to - from
      BY <1>1
    <2> QED
      BY <1>6, <1>7, <1>8, <2>1
  <1> QED
    BY <1>6, <1>9

\* What a chunk appends holds samples, and of an origin that did not fail it
\* is what was heard since.
LEMMA ChunkIsSamples ==
  ASSUME TrackShape, NEW o \in Track!Tracks, NEW from \in Nat,
         NEW to \in next[o] + 1..MaxTime["track"]
  PROVE  LET h == tHeard[o]
             new ==
               h \o Track!Stretch((IF from > Len(h) THEN from - Len(h) ELSE 0),
                                  Track!Silence)
                 \o Track!Heard(IF from > Len(h) THEN from ELSE Len(h), to)
         IN /\ Track!Appended(o, from, to) \in Track!Samples
            /\ from <= to => Len(Track!Appended(o, from, to)) = to - next[o]
            /\ new \in Track!Samples
            /\ next[o] = Len(h) => new = h \o Track!Appended(o, from, to)
  <1> DEFINE h == tHeard[o]
             a(n) == Track!Stretch((IF from > n THEN from - n ELSE 0),
                                   Track!Silence)
             b(n) == Track!Heard(IF from > n THEN from ELSE n, to)
  <1>1. /\ h \in Track!Samples /\ next[o] \in Nat
        /\ MaxTime["track"] \in Nat
    BY TrackAssumption DEF TrackShape
  <1>2. Len(h) \in Nat /\ to \in 0..MaxTime["track"]
    BY <1>1, LenProperties DEF Track!Samples
  <1>3. ASSUME NEW n \in Nat
        PROVE  a(n) \in Track!Samples /\ b(n) \in Track!Samples
    <2>1. (IF from > n THEN from - n ELSE 0) \in Nat
          /\ (IF from > n THEN from ELSE n) \in Nat
      OBVIOUS
    <2> QED
      BY <1>2, <2>1, StretchIsSamples, HeardIsSamples
  <1>4. from <= to => Len(a(next[o]) \o b(next[o])) = to - next[o]
    <2> SUFFICES ASSUME from <= to
                 PROVE  Len(a(next[o]) \o b(next[o])) = to - next[o]
      OBVIOUS
    <2>1. /\ (IF from > next[o] THEN from - next[o] ELSE 0) \in Nat
          /\ (IF from > next[o] THEN from ELSE next[o]) \in Nat
          /\ (IF from > next[o] THEN from ELSE next[o]) <= to
      BY <1>1
    <2>2. /\ Len(a(next[o])) = IF from > next[o] THEN from - next[o] ELSE 0
          /\ Len(b(next[o])) = to - (IF from > next[o] THEN from ELSE next[o])
      BY <1>2, <2>1, StretchIsSamples, HeardIsSamples
    <2> HIDE DEF a, b
    <2>3. a(next[o]) \in Track!Samples /\ b(next[o]) \in Track!Samples
      BY <1>1, <1>3
    <2>4. Len(a(next[o]) \o b(next[o])) = Len(a(next[o])) + Len(b(next[o]))
      BY <2>3, TogetherIsSamples
    <2> QED
      BY <1>1, <2>1, <2>2, <2>4
  <1>5. Track!Appended(o, from, to) = a(next[o]) \o b(next[o])
    BY DEF Track!Appended, Track!Missed
  <1> HIDE DEF a, b, h
  <1>6. Track!Appended(o, from, to) \in Track!Samples
    BY <1>1, <1>3, <1>5, TogetherIsSamples
  <1>7. /\ (h \o a(Len(h))) \o b(Len(h)) \in Track!Samples
        /\ (h \o a(Len(h))) \o b(Len(h)) = h \o (a(Len(h)) \o b(Len(h)))
    <2>1. a(Len(h)) \in Track!Samples /\ b(Len(h)) \in Track!Samples
      BY <1>2, <1>3
    <2>2. h \o a(Len(h)) \in Track!Samples
      BY <1>1, <2>1, TogetherIsSamples
    <2> QED
      BY <1>1, <2>1, <2>2, TogetherIsSamples, SamplesAssociate
  <1>8. next[o] = Len(h) =>
          (h \o a(Len(h))) \o b(Len(h)) = h \o Track!Appended(o, from, to)
    BY <1>5, <1>7
  <1> QED
    BY <1>4, <1>5, <1>6, <1>7, <1>8 DEF a, b, h

\* The others are the files and one more, which holds s.
PutAfter(files, n, s, others) ==
  /\ n \notin DOMAIN files
  /\ DOMAIN others = DOMAIN files \cup {n}
  /\ others[n] = [data |-> s, whole |-> TRUE]
  /\ \A k \in DOMAIN files : others[k] = files[k]

\* A file that is put after those in order is in order.
LEMMA OneMore ==
  ASSUME NEW files, NEW n, InOrder(files, n),
         NEW s \in Track!Samples, NEW others, NEW m, m = n + 1,
         PutAfter(files, n, s, others)
  PROVE  /\ InOrder(others, m) /\ m \notin DOMAIN others
         /\ Track!Joined(others) = Track!Joined(files) \o s
  <1>1. /\ n \in Nat /\ 0..n - 1 \subseteq DOMAIN files
        /\ DOMAIN files \subseteq 0..n
        /\ \A k \in 0..n - 1 : files[k].whole /\ files[k].data \in Track!Samples
    BY DEF InOrder
  <1>2. /\ DOMAIN others = DOMAIN files \cup {n}
        /\ others[n] = [data |-> s, whole |-> TRUE]
        /\ n \notin DOMAIN files
    BY DEF PutAfter
  <1>3. ASSUME NEW k \in 0..n - 1 PROVE others[k] = files[k]
    <2>1. k \in DOMAIN files /\ k # n
      BY <1>1
    <2> QED
      BY <2>1 DEF PutAfter
  <1>4. /\ n + 1 \in Nat /\ n + 1 \notin DOMAIN others
        /\ DOMAIN others \subseteq 0..n + 1
    BY <1>1, <1>2
  <1>5. ASSUME NEW k \in 0..(n + 1) - 1
        PROVE  /\ k \in DOMAIN others
               /\ others[k].whole /\ others[k].data \in Track!Samples
    <2>1. CASE k = n
      BY <1>2, <2>1
    <2>2. CASE k # n
      <3>1. k \in 0..n - 1
        BY <1>1, <2>2
      <3> QED
        BY <1>1, <1>2, <1>3, <3>1
    <2> QED
      BY <2>1, <2>2
  <1>6. InOrder(others, n + 1)
    BY <1>4, <1>5 DEF InOrder
  <1>7. others[n].data = s
    BY <1>2
  <1>8. \A k \in 0..n - 1 : others[k] = files[k]
    BY <1>3
  <1>9. Track!Joined(others) = Track!Joined(files) \o others[n].data
    BY <1>6, <1>8, JoinedMore
  <1> QED
    BY <1>4, <1>6, <1>7, <1>9

\* A torn file adds nothing.
LEMMA TornAddsNothing ==
  ASSUME NEW files, NEW n, InOrder(files, n), NEW others,
         \/ others = files
         \/ /\ n \notin DOMAIN files
            /\ others = [k \in DOMAIN files \cup {n} |->
                           IF k = n THEN [data |-> <<>>, whole |-> FALSE]
                           ELSE files[k]]
  PROVE  InOrder(others, n) /\ Track!Joined(others) = Track!Joined(files)
  <1>1. CASE others = files
    BY <1>1
  <1>2. CASE others # files
    <2>1. /\ n \notin DOMAIN files
          /\ others = [k \in DOMAIN files \cup {n} |->
                         IF k = n THEN [data |-> <<>>, whole |-> FALSE]
                         ELSE files[k]]
      BY <1>2
    <2>2. /\ n \in Nat /\ 0..n - 1 \subseteq DOMAIN files
          /\ DOMAIN files \subseteq 0..n
          /\ \A k \in 0..n - 1 :
               files[k].whole /\ files[k].data \in Track!Samples
      BY DEF InOrder
    <2>3. /\ DOMAIN others = DOMAIN files \cup {n}
          /\ others[n] = [data |-> <<>>, whole |-> FALSE]
      BY <2>1
    <2>4. ASSUME NEW k \in 0..n - 1 PROVE others[k] = files[k]
      <3>1. k \in DOMAIN files /\ k # n
        BY <2>2
      <3> QED
        BY <2>1, <3>1
    <2>5. InOrder(others, n)
      BY <2>2, <2>3, <2>4 DEF InOrder
    <2> QED
      BY <2>4, <2>5, JoinedSame
  <1> QED
    BY <1>1, <1>2

\* What the saver changes of an origin while it records.
WritesOf(o) ==
  /\ buffer' = [buffer EXCEPT ![o] = buffer'[o]]
  /\ next' = [next EXCEPT ![o] = next'[o]]
  /\ count' = [count EXCEPT ![o] = count'[o]]
  /\ ckpt' = [ckpt EXCEPT ![o] = ckpt'[o]]
  /\ safe' = [safe EXCEPT ![o] = safe'[o]]
  /\ tFailed' = [tFailed EXCEPT ![o] = tFailed'[o]]

\* A chunk that is stored goes to the checkpoints but for less than an
\* interval, which is kept.
LEMMA ChunkIsStored ==
  ASSUME TrackShape, NEW o \in Track!Tracks, InOrder(ckpt[o], count[o]),
         NEW from, NEW to \in Nat, Track!StoresChunk(o, from, to), NEW all,
         all = buffer[o] \o Track!Appended(o, from, to), all \in Track!Samples
  PROVE  /\ WritesOf(o) /\ tFailed' = tFailed /\ next'[o] = to
         /\ \E n \in 0..Len(all) :
              /\ InOrder(ckpt'[o], count'[o])
              /\ Track!Joined(ckpt'[o]) =
                   Track!Joined(ckpt[o]) \o SubSeq(all, 1, n)
              /\ buffer'[o] = SubSeq(all, n + 1, Len(all))
              /\ Len(buffer'[o]) < Interval
              /\ safe'[o] = safe[o] + n
              /\ ~ Track!InTheWay(o) => count'[o] \notin DOMAIN ckpt'[o]
  <1> DEFINE cuts == Len(all) \div Interval
             rest == SubSeq(all, cuts * Interval + 1, Len(all))
             files == Track!WithCheckpoints(o, all, cuts)
             first == count[o] + cuts = 0 /\ rest # <<>>
  <1>1. /\ cuts > 0 \/ first => ~ Track!InTheWay(o)
        /\ count' = [count EXCEPT ![o] = @ + cuts + (IF first THEN 1 ELSE 0)]
        /\ buffer' = [buffer EXCEPT ![o] = IF first THEN <<>> ELSE rest]
        /\ ckpt' = [ckpt EXCEPT ![o] =
             IF first THEN [k \in {0} |-> [data |-> rest, whole |-> TRUE]]
             ELSE files]
        /\ safe' = [safe EXCEPT ![o] = @ + cuts * Interval
                                         + (IF first THEN Len(rest) ELSE 0)]
        /\ next' = [next EXCEPT ![o] = to]
        /\ tFailed' = tFailed
    BY DEF Track!StoresChunk
  <1>2. /\ Len(all) \in Nat /\ cuts \in Nat /\ cuts * Interval \in 0..Len(all)
        /\ cuts * Interval <= Len(all)
        /\ Len(all) - cuts * Interval < Interval
    <2>1. Len(all) \in Nat
      BY LenProperties DEF Track!Samples
    <2> HIDE DEF cuts
    <2> QED
      BY <2>1, WholeIntervals DEF cuts
  <1>3. rest \in Track!Samples /\ Len(rest) = Len(all) - cuts * Interval
    <2> HIDE DEF cuts
    <2>1. PICK c \in Nat : c = cuts * Interval
      BY <1>2
    <2>2. c + 1 \in 1..Len(all) + 1 /\ Len(all) \in 0..Len(all)
      BY <1>2, <2>1
    <2>3. rest = SubSeq(all, c + 1, Len(all))
      BY <2>1
    <2> HIDE DEF rest
    <2>4. /\ rest \in Track!Samples
          /\ Len(rest) = IF c + 1 <= Len(all) THEN Len(all) - (c + 1) + 1 ELSE 0
      BY <2>2, <2>3, PieceIsSamples
    <2> QED
      BY <1>2, <2>1, <2>4
  <1> HIDE DEF cuts, rest, files
  <1>4. count[o] \in Nat /\ safe[o] \in Nat /\ o \in DOMAIN ckpt
        /\ o \in DOMAIN count /\ o \in DOMAIN buffer /\ o \in DOMAIN safe
        /\ o \in DOMAIN next
    BY DEF TrackShape
  <1>5. /\ count'[o] = count[o] + cuts + (IF first THEN 1 ELSE 0)
        /\ buffer'[o] = IF first THEN <<>> ELSE rest
        /\ ckpt'[o] =
             IF first THEN [k \in {0} |-> [data |-> rest, whole |-> TRUE]]
             ELSE files
        /\ safe'[o] = safe[o] + cuts * Interval
                         + (IF first THEN Len(rest) ELSE 0)
        /\ next'[o] = to
    BY <1>1, <1>4
  <1>6. WritesOf(o) /\ tFailed' = tFailed
    <2>1. tFailed' = [tFailed EXCEPT ![o] = tFailed'[o]]
      BY <1>1 DEF TrackShape
    <2> QED
      BY <1>1, <1>4, <2>1 DEF WritesOf
  <1>7. CASE first
    <2>1. cuts = 0 /\ count[o] = 0 /\ cuts * Interval = 0 /\ count'[o] = 0 + 1
      BY <1>2, <1>4, <1>5, <1>7, TrackAssumption
    <2>2. rest = all
      <3>1. rest = SubSeq(all, 1, Len(all))
        BY <2>1 DEF rest
      <3> QED
        BY <3>1, SubSeqFull DEF Track!Samples
    <2>3. 0 \notin DOMAIN ckpt[o] /\ InOrder(ckpt[o], 0)
      BY <1>1, <1>7, <2>1 DEF Track!InTheWay
    <2>4. DOMAIN ckpt[o] = {}
      BY <2>3 DEF InOrder
    <2>5. ckpt'[o] = [k \in DOMAIN ckpt[o] \cup {0} |->
             IF k = 0 THEN [data |-> all, whole |-> TRUE] ELSE ckpt[o][k]]
      BY <1>5, <1>7, <2>2, <2>4
    <2>6. /\ InOrder(ckpt'[o], count'[o])
          /\ count'[o] \notin DOMAIN ckpt'[o]
          /\ Track!Joined(ckpt'[o]) = Track!Joined(ckpt[o]) \o all
      <3>1. PICK f, g, z : f = ckpt[o] /\ g = ckpt'[o] /\ z = 0
        OBVIOUS
      <3>2. PutAfter(f, z, all, g)
        BY <2>3, <2>4, <2>5, <3>1 DEF PutAfter
      <3>3. InOrder(f, z)
        BY <2>3, <3>1
      <3>4. count'[o] = z + 1
        BY <2>1, <3>1
      <3>5. /\ InOrder(g, count'[o]) /\ count'[o] \notin DOMAIN g
            /\ Track!Joined(g) = Track!Joined(f) \o all
        BY <3>2, <3>3, <3>4, OneMore
      <3> QED
        BY <3>1, <3>5
    <2>7. SubSeq(all, 1, Len(all)) = all
      BY SubSeqFull DEF Track!Samples
    <2>8. SubSeq(all, Len(all) + 1, Len(all)) = <<>> /\ Len(<<>>) = 0
      BY <1>2, SubSeqEmpty, EmptySeq
    <2>9. safe'[o] = safe[o] + Len(all) /\ buffer'[o] = <<>>
      BY <1>2, <1>4, <1>5, <1>7, <2>1, <2>2
    <2>10. Len(all) \in 0..Len(all) /\ 0 < Interval
      BY <1>2, TrackAssumption
    <2> QED
      BY <1>5, <1>6, <2>6, <2>7, <2>8, <2>9, <2>10
  <1>8. CASE ~ first
    <2>1. cuts > 0 => ~ Track!InTheWay(o)
      BY <1>1
    <2>2. /\ count'[o] = count[o] + cuts /\ buffer'[o] = rest
          /\ ckpt'[o] = files /\ safe'[o] = safe[o] + cuts * Interval
      BY <1>2, <1>4, <1>5, <1>8
    <2>3. /\ InOrder(files, count[o] + cuts)
          /\ ~ Track!InTheWay(o) => count[o] + cuts \notin DOMAIN files
      BY <1>2, <2>1, CutsInOrder DEF files
    <2>4. Track!Joined(files) =
            Track!Joined(ckpt[o]) \o SubSeq(all, 1, cuts * Interval)
      BY <1>2, <2>1, JoinedCuts DEF files
    <2>5. Len(rest) < Interval
      BY <1>2, <1>3
    <2> QED
      BY <1>2, <1>5, <1>6, <2>2, <2>3, <2>4, <2>5 DEF rest
  <1> QED
    BY <1>7, <1>8

\* A run of the encoder that fails leaves what is in order.
LEMMA MaybeTorn ==
  ASSUME TrackShape, NEW o \in Track!Tracks, NEW files, NEW n,
         InOrder(files, n), Track!LeavesTorn(o, files, n)
  PROVE  /\ ckpt' = [ckpt EXCEPT ![o] = ckpt'[o]]
         /\ InOrder(ckpt'[o], n)
         /\ Track!Joined(ckpt'[o]) = Track!Joined(files)
  <1>0. o \in DOMAIN ckpt
    BY DEF TrackShape
  <1>1. CASE ckpt' = [ckpt EXCEPT ![o] = files]
    <2>1. ckpt'[o] = files
      BY <1>0, <1>1
    <2> QED
      BY <1>1, <2>1
  <1>2. CASE /\ n \notin DOMAIN files
             /\ ckpt' = [ckpt EXCEPT ![o] =
                  [k \in DOMAIN files \cup {n} |->
                     IF k = n THEN [data |-> <<>>, whole |-> FALSE]
                     ELSE files[k]]]
    <2> DEFINE torn == [k \in DOMAIN files \cup {n} |->
                          IF k = n THEN [data |-> <<>>, whole |-> FALSE]
                          ELSE files[k]]
    <2>1. InOrder(torn, n) /\ Track!Joined(torn) = Track!Joined(files)
      BY <1>2, TornAddsNothing
    <2>2. ckpt' = [ckpt EXCEPT ![o] = torn]
      BY <1>2
    <2> HIDE DEF torn
    <2>3. ckpt'[o] = torn
      BY <1>0, <2>2
    <2> QED
      BY <2>1, <2>2, <2>3
  <1> QED
    BY <1>1, <1>2 DEF Track!LeavesTorn

\* A chunk that is not stored loses what was still to be written: what the
\* checkpoints hold is theirs.
LEMMA ChunkIsLost ==
  ASSUME TrackShape, NEW o \in Track!Tracks, InOrder(ckpt[o], count[o]),
         NEW from, NEW to \in Nat, Track!LosesChunk(o, from, to), NEW all,
         all = buffer[o] \o Track!Appended(o, from, to), all \in Track!Samples
  PROVE  /\ WritesOf(o) /\ tFailed'[o] = TRUE /\ next'[o] \in Nat
         /\ buffer'[o] \in Track!Samples
         /\ \E n \in 0..Len(all) :
              /\ InOrder(ckpt'[o], count'[o])
              /\ Track!Joined(ckpt'[o]) =
                   Track!Joined(ckpt[o]) \o SubSeq(all, 1, n)
              /\ safe'[o] = safe[o] + n
  <1>1. count[o] \in Nat /\ safe[o] \in Nat /\ next[o] \in Nat
        /\ o \in DOMAIN ckpt /\ o \in DOMAIN count /\ o \in DOMAIN buffer
        /\ o \in DOMAIN safe /\ o \in DOMAIN next /\ o \in DOMAIN tFailed
        /\ count = [count EXCEPT ![o] = count[o]]
        /\ safe = [safe EXCEPT ![o] = safe[o]]
    BY DEF TrackShape
  <1>2. tFailed' = [tFailed EXCEPT ![o] = TRUE]
    BY DEF Track!LosesChunk, Track!Noted
  <1>3. tFailed'[o] = TRUE /\ tFailed' = [tFailed EXCEPT ![o] = tFailed'[o]]
    BY <1>1, <1>2
  <1>4. Len(all) \in Nat
    BY LenProperties DEF Track!Samples
  <1>5. ASSUME NEW files, NEW n, InOrder(files, n),
               Track!LeavesTorn(o, files, n)
        PROVE  /\ ckpt' = [ckpt EXCEPT ![o] = ckpt'[o]]
               /\ InOrder(ckpt'[o], n)
               /\ Track!Joined(ckpt'[o]) = Track!Joined(files)
    BY <1>5, MaybeTorn
  <1> DEFINE cuts == Len(all) \div Interval
  <1>6. CASE \E k \in 1..cuts :
               /\ Track!LeavesTorn(o, Track!WithCheckpoints(o, all, k - 1),
                                   count[o] + k - 1)
               /\ k > 1 => ~ Track!InTheWay(o)
               /\ count' = [count EXCEPT ![o] = @ + k - 1]
               /\ safe' = [safe EXCEPT ![o] = @ + (k - 1) * Interval]
               /\ buffer' = [buffer EXCEPT ![o] = Track!Cut(all, k)]
               /\ next' = [next EXCEPT ![o] =
                    IF Track!Missed(o, from) > 0
                       /\ k * Interval <= Len(buffer[o]) + Track!Missed(o, from)
                    THEN @ ELSE to]
    <2>1. cuts \in Nat /\ cuts * Interval <= Len(all)
      <3> HIDE DEF cuts
      <3> QED
        BY <1>4, WholeIntervals DEF cuts
    <2> HIDE DEF cuts
    <2>2. PICK k \in 1..cuts :
               /\ Track!LeavesTorn(o, Track!WithCheckpoints(o, all, k - 1),
                                   count[o] + k - 1)
               /\ k > 1 => ~ Track!InTheWay(o)
               /\ count' = [count EXCEPT ![o] = @ + k - 1]
               /\ safe' = [safe EXCEPT ![o] = @ + (k - 1) * Interval]
               /\ buffer' = [buffer EXCEPT ![o] = Track!Cut(all, k)]
               /\ next' = [next EXCEPT ![o] =
                    IF Track!Missed(o, from) > 0
                       /\ k * Interval <= Len(buffer[o]) + Track!Missed(o, from)
                    THEN @ ELSE to]
      BY <1>6, Zenon
    <2>3. PICK m \in Nat : m = k - 1
      BY <2>1
    <2>4. /\ m <= k /\ k <= cuts /\ k \in Nat /\ k \in Nat \ {0}
          /\ count[o] + k - 1 = count[o] + m
          /\ m > 0 => k > 1
      BY <1>1, <2>1, <2>3
    <2>5. /\ m * Interval \in Nat /\ k * Interval \in Nat
          /\ cuts * Interval \in Nat
          /\ m * Interval <= k * Interval /\ k * Interval <= cuts * Interval
      BY <2>1, <2>4, MoreIntervals
    <2>6. /\ m * Interval \in 0..Len(all) /\ m * Interval <= Len(all)
          /\ k * Interval <= Len(all)
      <3>1. PICK x \in Nat, y \in Nat, z \in Nat :
              x = m * Interval /\ y = k * Interval /\ z = cuts * Interval
        BY <2>5
      <3> QED
        BY <1>4, <2>1, <2>5, <3>1
    <2>7. m > 0 => ~ Track!InTheWay(o)
      BY <2>2, <2>4
    <2>8. InOrder(Track!WithCheckpoints(o, all, m), count[o] + m)
      BY <2>6, <2>7, CutsInOrder
    <2>9. Track!Joined(Track!WithCheckpoints(o, all, m)) =
            Track!Joined(ckpt[o]) \o SubSeq(all, 1, m * Interval)
      BY <2>6, <2>7, JoinedCuts
    <2>10. Track!LeavesTorn(o, Track!WithCheckpoints(o, all, m), count[o] + m)
      BY <2>2, <2>3, <2>4
    <2>11. /\ ckpt' = [ckpt EXCEPT ![o] = ckpt'[o]]
           /\ InOrder(ckpt'[o], count[o] + m)
           /\ Track!Joined(ckpt'[o]) =
                Track!Joined(ckpt[o]) \o SubSeq(all, 1, m * Interval)
      BY <1>5, <2>8, <2>9, <2>10
    <2>12. /\ count'[o] = count[o] + m
           /\ count' = [count EXCEPT ![o] = count'[o]]
      BY <1>1, <2>2, <2>3
    <2>13. /\ safe'[o] = safe[o] + m * Interval
           /\ safe' = [safe EXCEPT ![o] = safe'[o]]
      BY <1>1, <2>2, <2>3
    <2>14. /\ buffer'[o] = Track!Cut(all, k)
           /\ buffer' = [buffer EXCEPT ![o] = buffer'[o]]
      BY <1>1, <2>2
    <2>15. buffer'[o] \in Track!Samples
      BY <2>4, <2>6, <2>14, CutIsSamples
    <2>16. next'[o] \in Nat /\ next' = [next EXCEPT ![o] = next'[o]]
      BY <1>1, <2>2
    <2> QED
      BY <1>3, <2>6, <2>11, <2>12, <2>13, <2>14, <2>15, <2>16 DEF WritesOf
  <1>7. CASE /\ count[o] = 0
             /\ Track!LeavesTorn(o, ckpt[o], count[o] + 1 - 1)
             /\ buffer' = [buffer EXCEPT ![o] = all]
             /\ next' = [next EXCEPT ![o] = to]
             /\ UNCHANGED <<count, safe>>
    <2>1. Track!LeavesTorn(o, ckpt[o], count[o])
      <3>1. count[o] + 1 - 1 = count[o]
        BY <1>1
      <3> QED
        BY <1>7, <3>1
    <2>2. /\ ckpt' = [ckpt EXCEPT ![o] = ckpt'[o]]
          /\ InOrder(ckpt'[o], count[o])
          /\ Track!Joined(ckpt'[o]) = Track!Joined(ckpt[o])
      BY <1>5, <2>1
    <2>3. /\ buffer'[o] = all /\ next'[o] = to
          /\ buffer' = [buffer EXCEPT ![o] = buffer'[o]]
          /\ next' = [next EXCEPT ![o] = next'[o]]
          /\ count'[o] = count[o] /\ safe'[o] = safe[o]
          /\ count' = [count EXCEPT ![o] = count'[o]]
          /\ safe' = [safe EXCEPT ![o] = safe'[o]]
      BY <1>1, <1>7
    <2>4. /\ SubSeq(all, 1, 0) = <<>>
          /\ Track!Joined(ckpt[o]) \o <<>> = Track!Joined(ckpt[o])
      <3>1. Track!Joined(ckpt[o]) \in Track!Samples
        BY JoinedIsSamples
      <3>2. SubSeq(all, 1, 0) = <<>>
        BY SubSeqEmpty
      <3>3. Track!Joined(ckpt[o]) \o <<>> = Track!Joined(ckpt[o])
        BY <3>1, ConcatEmptySeq DEF Track!Samples
      <3> QED
        BY <3>2, <3>3
    <2>5. 0 \in 0..Len(all) /\ safe[o] + 0 = safe[o]
      BY <1>1, <1>4
    <2>6. WritesOf(o)
      BY <1>3, <2>2, <2>3 DEF WritesOf
    <2> QED
      BY <1>3, <2>2, <2>3, <2>4, <2>5, <2>6
  <1>8. \/ \E k \in 1..cuts :
             /\ Track!LeavesTorn(o, Track!WithCheckpoints(o, all, k - 1),
                                 count[o] + k - 1)
             /\ k > 1 => ~ Track!InTheWay(o)
             /\ count' = [count EXCEPT ![o] = @ + k - 1]
             /\ safe' = [safe EXCEPT ![o] = @ + (k - 1) * Interval]
             /\ buffer' = [buffer EXCEPT ![o] = Track!Cut(all, k)]
             /\ next' = [next EXCEPT ![o] =
                  IF Track!Missed(o, from) > 0
                     /\ k * Interval <= Len(buffer[o]) + Track!Missed(o, from)
                  THEN @ ELSE to]
        \/ /\ count[o] = 0
           /\ Track!LeavesTorn(o, ckpt[o], count[o] + 1 - 1)
           /\ buffer' = [buffer EXCEPT ![o] = all]
           /\ next' = [next EXCEPT ![o] = to]
           /\ UNCHANGED <<count, safe>>
    BY Zenon DEF Track!LosesChunk
  <1> QED
    BY <1>6, <1>7, <1>8

\* What is on disk follows the files while there is no track.
LEMMA StillFaithful ==
  ASSUME NEW x \in Track!Samples, NEW y \in Track!Samples, Len(y) < Interval,
         NEW h, h = x \o y
  PROVE  x = SubSeq(h, 1, Len(x)) /\ Len(x) + Interval > Len(h)
  <1>1. Len(h) = Len(x) + Len(y) /\ Len(x) \in Nat /\ Len(y) \in Nat
    BY TogetherIsSamples
  <1>2. x = SubSeq(h, 1, Len(x))
    BY FirstIsBeginning
  <1> QED
    BY <1>1, <1>2, TrackAssumption

\* add_chunk keeps what is true of the origins.
LEMMA AddChunkKeeps ==
  ASSUME TrackInv, NEW o \in Track!Tracks, Track!AddChunk(o)
  PROVE  TrackInv'
  <1>1. TrackShape /\ \A p \in Track!Tracks : OriginOnDisk(p)
    BY DEF TrackInv
  <1>2. /\ phase = "recording"
        /\ UNCHANGED <<phase, turn, ready, dir, track, playback, metadata,
                       origin, report, halved>>
    BY DEF Track!AddChunk, Track!results
  <1>3. PICK from \in (next[o]..next[o] + 1
                          \cup {n \in {next[o] - 1} : next[o] > 0}),
             length \in 1..MaxChunk :
          /\ from + length \in next[o] + 1..MaxTime["track"]
          /\ tHeard' = [tHeard EXCEPT ![o] =
               @ \o Track!Stretch((IF from > Len(@) THEN from - Len(@) ELSE 0),
                                  Track!Silence)
                 \o Track!Heard(IF from > Len(@) THEN from ELSE Len(@),
                                from + length)]
          /\ \/ Track!StoresChunk(o, from, from + length)
             \/ Track!LosesChunk(o, from, from + length)
    BY DEF Track!AddChunk
  <1>4. PICK to : to = from + length
    OBVIOUS
  <1>5. next[o] \in Nat /\ from \in Nat /\ to \in Nat
        /\ to \in next[o] + 1..MaxTime["track"] /\ from <= to
    <2>1. next[o] \in Nat /\ MaxChunk \in Nat /\ MaxTime["track"] \in Nat
      BY <1>1, TrackAssumption DEF TrackShape
    <2>2. from \in Nat
      BY <2>1
    <2> QED
      BY <1>3, <1>4, <2>1, <2>2
  <1> DEFINE h == tHeard[o]
             app == Track!Appended(o, from, to)
             J == Track!Joined(ckpt[o])
  <1>6. /\ app \in Track!Samples /\ tHeard'[o] \in Track!Samples
        /\ next[o] = Len(h) => tHeard'[o] = h \o app
        /\ Len(app) = to - next[o]
        /\ tHeard' = [tHeard EXCEPT ![o] = tHeard'[o]]
    <2> DEFINE new ==
                 h \o Track!Stretch((IF from > Len(h) THEN from - Len(h)
                                     ELSE 0), Track!Silence)
                   \o Track!Heard(IF from > Len(h) THEN from ELSE Len(h), to)
    <2>1. /\ app \in Track!Samples /\ new \in Track!Samples
          /\ next[o] = Len(h) => new = h \o app
          /\ from <= to => Len(app) = to - next[o]
      BY <1>1, <1>5, ChunkIsSamples
    <2>2. tHeard' = [tHeard EXCEPT ![o] = new]
      BY <1>3, <1>4
    <2> HIDE DEF new, app, h
    <2>3. tHeard'[o] = new
      BY <1>1, <2>2 DEF TrackShape
    <2> QED
      BY <1>5, <2>1, <2>2, <2>3
  <1>7. Collected(o) /\ Kept(o) /\ buffer[o] \in Track!Samples
    <2>1. Collecting(o)
      BY <1>2 DEF Collecting
    <2>2. Collected(o)
      BY <1>1, <2>1 DEF OriginOnDisk
    <2> QED
      BY <1>1, <1>2, <2>2 DEF OriginOnDisk, Collected, TrackShape
  <1>8. /\ InOrder(ckpt[o], count[o]) /\ J \in Track!Samples
        /\ Len(J) = safe[o]
    <2>1. InOrder(ckpt[o], count[o]) /\ Track!OnDisk(o) = J
      BY <1>7 DEF Collected, Track!OnDisk
    <2> QED
      BY <1>7, <2>1 DEF Kept
  <1>9. PICK all : all = buffer[o] \o app
    OBVIOUS
  <1>10. all \in Track!Samples /\ Len(all) \in Nat
    BY <1>6, <1>7, <1>9, TogetherIsSamples, LenProperties DEF Track!Samples
  <1>11. /\ WritesOf(o) /\ next'[o] \in Nat /\ tFailed'[o] \in BOOLEAN
         /\ buffer'[o] \in Track!Samples
         /\ \E n \in 0..Len(all) :
              /\ InOrder(ckpt'[o], count'[o])
              /\ Track!Joined(ckpt'[o]) = J \o SubSeq(all, 1, n)
              /\ safe'[o] = safe[o] + n
              /\ ~ tFailed'[o] =>
                   /\ ~ tFailed[o] /\ next'[o] = to
                   /\ buffer'[o] = SubSeq(all, n + 1, Len(all))
                   /\ Len(buffer'[o]) < Interval
                   /\ ~ Track!InTheWay(o) => count'[o] \notin DOMAIN ckpt'[o]
    <2>1. CASE Track!StoresChunk(o, from, to)
      <3> HIDE DEF app, J
      <3>1. /\ WritesOf(o) /\ tFailed' = tFailed /\ next'[o] = to
            /\ \E n \in 0..Len(all) :
                 /\ InOrder(ckpt'[o], count'[o])
                 /\ Track!Joined(ckpt'[o]) = J \o SubSeq(all, 1, n)
                 /\ buffer'[o] = SubSeq(all, n + 1, Len(all))
                 /\ Len(buffer'[o]) < Interval
                 /\ safe'[o] = safe[o] + n
                 /\ ~ Track!InTheWay(o) => count'[o] \notin DOMAIN ckpt'[o]
        BY <1>1, <1>5, <1>8, <1>9, <1>10, <2>1, ChunkIsStored DEF app, J
      <3>2. PICK n \in 0..Len(all) :
                 /\ InOrder(ckpt'[o], count'[o])
                 /\ Track!Joined(ckpt'[o]) = J \o SubSeq(all, 1, n)
                 /\ buffer'[o] = SubSeq(all, n + 1, Len(all))
                 /\ Len(buffer'[o]) < Interval
                 /\ safe'[o] = safe[o] + n
                 /\ ~ Track!InTheWay(o) => count'[o] \notin DOMAIN ckpt'[o]
        BY <3>1
      <3>3. buffer'[o] \in Track!Samples
        <4>1. n + 1 \in 1..Len(all) + 1 /\ Len(all) \in 0..Len(all)
          BY <1>10
        <4> QED
          BY <1>10, <3>2, <4>1, PieceIsSamples
      <3>4. tFailed'[o] \in BOOLEAN /\ tFailed'[o] = tFailed[o]
        BY <1>1, <3>1 DEF TrackShape
      <3> QED
        BY <1>5, <3>1, <3>2, <3>3, <3>4
    <2>2. CASE Track!LosesChunk(o, from, to)
      <3> HIDE DEF app, J
      <3>1. /\ WritesOf(o) /\ tFailed'[o] = TRUE /\ next'[o] \in Nat
            /\ buffer'[o] \in Track!Samples
            /\ \E n \in 0..Len(all) :
                 /\ InOrder(ckpt'[o], count'[o])
                 /\ Track!Joined(ckpt'[o]) = J \o SubSeq(all, 1, n)
                 /\ safe'[o] = safe[o] + n
        BY <1>1, <1>5, <1>8, <1>9, <1>10, <2>2, ChunkIsLost DEF app, J
      <3> QED
        BY <3>1
    <2> QED
      BY <1>3, <1>4, <2>1, <2>2
  <1>12. PICK n \in 0..Len(all) :
              /\ InOrder(ckpt'[o], count'[o])
              /\ Track!Joined(ckpt'[o]) = J \o SubSeq(all, 1, n)
              /\ safe'[o] = safe[o] + n
              /\ ~ tFailed'[o] =>
                   /\ ~ tFailed[o] /\ next'[o] = to
                   /\ buffer'[o] = SubSeq(all, n + 1, Len(all))
                   /\ Len(buffer'[o]) < Interval
                   /\ ~ Track!InTheWay(o) => count'[o] \notin DOMAIN ckpt'[o]
    BY <1>11
  <1> HIDE DEF app
  <1>13. SubSeq(all, 1, n) \in Track!Samples /\ Len(SubSeq(all, 1, n)) = n
    <2>1. 1 \in 1..Len(all) + 1 /\ n \in Nat
      BY <1>10
    <2>2. /\ SubSeq(all, 1, n) \in Track!Samples
          /\ Len(SubSeq(all, 1, n)) = IF 1 <= n THEN n - 1 + 1 ELSE 0
      BY <1>10, <2>1, PieceIsSamples
    <2> QED
      BY <2>1, <2>2
  <1>14. Len(Track!Joined(ckpt'[o])) = safe'[o] /\ safe'[o] \in Nat
    <2>1. Len(J \o SubSeq(all, 1, n)) = Len(J) + n /\ Len(J) \in Nat
      BY <1>8, <1>13, TogetherIsSamples
    <2>2. safe'[o] = Len(J) + n
      BY <1>8, <1>12
    <2> QED
      BY <1>12, <2>1, <2>2
  <1>15. ASSUME ~ tFailed'[o]
         PROVE  /\ tHeard'[o] = Track!Joined(ckpt'[o]) \o buffer'[o]
                /\ Len(buffer'[o]) < Interval
                /\ count'[o] \notin DOMAIN ckpt'[o]
                /\ next'[o] = Len(tHeard'[o])
    <2>1. /\ ~ tFailed[o] /\ next'[o] = to
          /\ buffer'[o] = SubSeq(all, n + 1, Len(all))
          /\ Len(buffer'[o]) < Interval
          /\ ~ Track!InTheWay(o) => count'[o] \notin DOMAIN ckpt'[o]
      BY <1>12, <1>15
    <2>2. /\ h = J \o buffer[o] /\ ~ Track!InTheWay(o) /\ next[o] = Len(h)
      BY <1>2, <1>7, <2>1 DEF Collected
    <2>3. tHeard'[o] = h \o app
      BY <1>6, <2>2
    <2>4. (J \o buffer[o]) \o app = J \o all
      BY <1>6, <1>7, <1>8, <1>9, SamplesAssociate
    <2>5. all = SubSeq(all, 1, n) \o buffer'[o]
      BY <1>10, <2>1, PiecesMeet
    <2> DEFINE x == SubSeq(all, 1, n)
    <2>6. (J \o x) \o buffer'[o] = J \o (x \o buffer'[o])
      <3>1. x \in Track!Samples /\ buffer'[o] \in Track!Samples
        BY <1>11, <1>13
      <3> HIDE DEF x, J
      <3>2. J \in Track!Samples
        BY <1>8 DEF J
      <3> QED
        BY <3>1, <3>2, SamplesAssociate
    <2>7. tHeard'[o] = Track!Joined(ckpt'[o]) \o buffer'[o]
      BY <1>12, <2>2, <2>3, <2>4, <2>5, <2>6
    <2>8. to = Len(tHeard'[o])
      <3>1. h \in Track!Samples
        BY <1>1 DEF TrackShape
      <3>2. Len(h \o app) = Len(h) + Len(app) /\ Len(h) \in Nat
        BY <1>6, <3>1, TogetherIsSamples
      <3>3. Len(app) = to - Len(h)
        BY <1>6, <2>2
      <3> HIDE DEF h
      <3>4. Len(tHeard'[o]) = Len(h) + (to - Len(h))
        BY <2>3, <3>2, <3>3
      <3> QED
        BY <1>5, <3>2, <3>4
    <2> QED
      BY <2>1, <2>2, <2>7, <2>8
  <1> HIDE DEF J
  <1>16. TrackShape'
    <2>1. o \in Track!Tracks /\ count'[o] \in Nat
      BY <1>12 DEF InOrder
    <2> QED
      BY <1>1, <1>2, <1>6, <1>11, <1>14, <2>1 DEF TrackShape, WritesOf
  <1>17. OriginOnDisk(o)'
    <2>1. Collected(o)'
      <3>1. ~ halved'[o] /\ ~ ready'[o] /\ track'[o] = Track!Missing
        BY <1>2, <1>7 DEF Collected
      <3> QED
        BY <1>12, <1>15, <3>1 DEF Collected, Track!InTheWay
    <2>2. Track!Joined(ckpt'[o]) \in Track!Samples
      BY <1>12, JoinedIsSamples
    <2>3. track'[o] = Track!Missing /\ Track!OnDisk(o)' = Track!Joined(ckpt'[o])
      BY <1>2, <1>7 DEF Track!OnDisk, Collected
    <2>4. Faithful(o)'
      <3> SUFFICES ASSUME ~ tFailed'[o]
                   PROVE  /\ Track!OnDisk(o)' =
                               SubSeq(tHeard'[o], 1, Len(Track!OnDisk(o)'))
                          /\ Len(Track!OnDisk(o)') + Interval > Len(tHeard'[o])
        BY DEF Faithful
      <3> QED
        BY <1>11, <1>15, <2>2, <2>3, StillFaithful
    <2>5. Kept(o)'
      BY <1>12, <1>14, <2>2, <2>3, <2>4 DEF Kept, Placed
    <2>6. origin'[o] = "waiting" /\ ~ ready'[o]
      BY <1>1, <1>2, <1>7 DEF OriginOnDisk, Collected
    <2> QED
      BY <1>2, <2>1, <2>5, <2>6 DEF OriginOnDisk
  <1>18. ASSUME NEW p \in Track!Tracks, p # o PROVE OriginOnDisk(p)'
    <2>1. /\ buffer'[p] = buffer[p] /\ next'[p] = next[p]
          /\ count'[p] = count[p] /\ ckpt'[p] = ckpt[p]
          /\ safe'[p] = safe[p] /\ tFailed'[p] = tFailed[p]
          /\ tHeard'[p] = tHeard[p]
      BY <1>1, <1>6, <1>11, <1>18 DEF WritesOf, TrackShape
    <2>2. /\ Collecting(p)' <=> Collecting(p)
          /\ Stopping' <=> Stopping
      BY <1>2 DEF Collecting, Waiting, Stopping
    <2> QED
      BY <1>1, <1>2, <2>1, <2>2, OtherOrigin
  <1>19. phase' # "describing"
    BY <1>2
  <1> QED
    BY <1>16, <1>17, <1>18, <1>19 DEF TrackInv

\* When the turn passes to the next origin, the others go on as they were.
LEMMA TurnPasses ==
  ASSUME TrackShape, turn # <<>>, phase \in {"saving", "merging", "removing"},
         Track!NextOrigin, NEW o, o = Head(turn)
  PROVE  /\ turn' \in {<<Sys>>, <<>>} /\ phase' \in {"saving", "mixing"}
         /\ phase' = "saving" => turn' # <<>>
         /\ ~ Collecting(o)'
         /\ \A p \in Track!Tracks : p # o => (Collecting(p)' => Collecting(p))
  <1>1. turn \in {<<Mic, Sys>>, <<Sys>>, <<>>}
    BY DEF TrackShape
  <1>2. /\ turn' = Tail(turn)
        /\ phase' = IF Tail(turn) = <<>> THEN "mixing" ELSE "saving"
    BY DEF Track!NextOrigin
  <1>3. /\ \/ turn = <<Mic, Sys>> /\ Head(turn) = Mic /\ Tail(turn) = <<Sys>>
           \/ turn = <<Sys>> /\ Head(turn) = Sys /\ Tail(turn) = <<>>
        /\ <<Sys>> # <<>> /\ <<Mic, Sys>> # <<>> /\ <<Mic, Sys>> # <<Sys>>
    BY <1>1, Turns
  <1>4. Mic # Sys
    BY TimelinesAssumption
  <1>5. CASE turn = <<Mic, Sys>>
    <2>1. turn' = <<Sys>> /\ phase' = "saving" /\ o = Mic
      BY <1>2, <1>3, <1>5
    <2>2. ~ Collecting(Mic)'
      BY <1>3, <1>4, <2>1 DEF Collecting, Waiting
    <2>3. \A p : p # Mic => Collecting(p)
      BY <1>5, <2>1 DEF Collecting, Waiting
    <2> QED
      BY <1>3, <2>1, <2>2, <2>3
  <1>6. CASE turn = <<Sys>>
    <2>1. turn' = <<>> /\ phase' = "mixing"
      BY <1>2, <1>3, <1>6
    <2>2. \A p : ~ Collecting(p)'
      BY <2>1 DEF Collecting
    <2> QED
      BY <2>1, <2>2
  <1> QED
    BY <1>3, <1>5, <1>6

\* stop_and_save begins with all the origins.
LEMMA StopKeeps ==
  ASSUME TrackInv, Track!StopRecording
  PROVE  TrackInv'
  <1>1. /\ phase = "recording" /\ phase' = "saving" /\ turn' = <<Mic, Sys>>
        /\ UNCHANGED <<buffer, next, count, tFailed, ready, ckpt, dir, track,
                       playback, origin, tHeard, safe, halved>>
    BY DEF Track!StopRecording, Track!Order, Track!memory, Track!checkpoints,
      Track!results, Track!history
  <1>2. TrackShape'
    BY <1>1 DEF TrackInv, TrackShape
  <1>3. ASSUME NEW p \in Track!Tracks PROVE OriginOnDisk(p)'
    <2>1. Collecting(p) /\ Stopping
      BY <1>1 DEF Collecting, Stopping
    <2>2. OriginOnDisk(p)
      BY DEF TrackInv
    <2> QED
      BY <1>1, <2>1, <2>2, OtherOrigin
  <1> QED
    BY <1>1, <1>2, <1>3 DEF TrackInv

\* finalize writes what is left of an origin.
LEMMA SaveLastKeeps ==
  ASSUME TrackInv, NEW o \in Track!Tracks, Track!SaveLast(o)
  PROVE  TrackInv'
  <1>1. TrackShape /\ \A p \in Track!Tracks : OriginOnDisk(p)
    BY DEF TrackInv
  <1>2. /\ phase = "saving" /\ turn # <<>> /\ o = Head(turn)
        /\ UNCHANGED <<next, tFailed, ready, dir, track, playback, origin,
                       tHeard, halved>>
    BY DEF Track!SaveLast, Track!results
  <1>3. turn \in {<<Mic, Sys>>, <<Sys>>}
    BY <1>1, <1>2 DEF TrackShape
  <1>4. Waiting(o) /\ Collecting(o) /\ Stopping
    <2>1. Waiting(o)
      BY <1>2, <1>3, Turns DEF Waiting
    <2> QED
      BY <1>2, <2>1 DEF Collecting, Stopping
  <1>5. Collected(o) /\ Kept(o) /\ origin[o] = "waiting"
    <2>1. Collected(o)
      BY <1>1, <1>4 DEF OriginOnDisk
    <2> QED
      BY <1>1, <1>2, <2>1 DEF OriginOnDisk, Collected
  <1> DEFINE J == Track!Joined(ckpt[o])
  <1>6. /\ InOrder(ckpt[o], count[o]) /\ J \in Track!Samples /\ Len(J) = safe[o]
        /\ ~ halved[o] /\ ~ ready[o] /\ track[o] = Track!Missing
        /\ Track!OnDisk(o) = J /\ buffer[o] \in Track!Samples
        /\ count[o] \in Nat /\ safe[o] \in Nat
    <2>1. /\ InOrder(ckpt[o], count[o]) /\ Track!OnDisk(o) = J
          /\ ~ halved[o] /\ ~ ready[o] /\ track[o] = Track!Missing
      BY <1>5 DEF Collected, Track!OnDisk
    <2> QED
      BY <1>1, <1>5, <2>1 DEF Kept, TrackShape
  <1>7. CASE /\ phase' = "merging" /\ turn' = turn /\ o \in Track!Tracks
             /\ buffer' = [buffer EXCEPT ![o] = <<>>]
             /\ count' = [count EXCEPT ![o] = count'[o]]
             /\ ckpt' = [ckpt EXCEPT ![o] = ckpt'[o]]
             /\ safe' = [safe EXCEPT ![o] = safe'[o]]
             /\ InOrder(ckpt'[o], count'[o])
             /\ Track!Joined(ckpt'[o]) = J \o buffer[o]
             /\ safe'[o] = safe[o] + Len(buffer[o])
    <2> HIDE DEF J
    <2>1. /\ J \o buffer[o] \in Track!Samples
          /\ Len(J \o buffer[o]) = safe'[o] /\ safe'[o] \in Nat
      <3>1. J \in Track!Samples /\ buffer[o] \in Track!Samples
        BY <1>6
      <3>2. /\ J \o buffer[o] \in Track!Samples /\ Len(buffer[o]) \in Nat
            /\ Len(J \o buffer[o]) = Len(J) + Len(buffer[o])
        BY <3>1, TogetherIsSamples
      <3>3. safe'[o] = Len(J) + Len(buffer[o]) /\ Len(J) \in Nat
        BY <1>6, <1>7
      <3> QED
        BY <3>2, <3>3
    <2>2. TrackShape'
      <3>1. count'[o] \in Nat /\ <<>> \in Track!Samples
        BY <1>7, EmptySeq DEF InOrder, Track!Samples
      <3> QED
        BY <1>1, <1>2, <1>7, <2>1, <3>1 DEF TrackShape
    <2>3. ~ tFailed'[o] => tHeard'[o] = Track!Joined(ckpt'[o])
      BY <1>2, <1>5, <1>7 DEF Collected, J
    <2>4. Complete(o)'
      BY <1>2, <1>6, <1>7, <2>3 DEF Complete
    <2>5. Track!OnDisk(o)' = Track!Joined(ckpt'[o])
      BY <1>2, <1>6 DEF Track!OnDisk
    <2>6. Faithful(o)'
      <3> DEFINE w == Track!Joined(ckpt'[o])
      <3>1. w = SubSeq(w, 1, Len(w)) /\ Len(w) + Interval > Len(w)
        <4>1. w \in Track!Samples
          BY <1>7, <2>1
        <4> HIDE DEF w
        <4> QED
          BY <4>1, SubSeqFull, LenProperties, TrackAssumption DEF Track!Samples
      <3> HIDE DEF w
      <3>2. Track!OnDisk(o)' = w /\ (~ tFailed'[o] => tHeard'[o] = w)
        BY <2>3, <2>5 DEF w
      <3> QED
        BY <3>1, <3>2 DEF Faithful
    <2>7. Kept(o)'
      BY <1>2, <1>6, <1>7, <2>1, <2>5, <2>6 DEF Kept, Placed
    <2>8. ~ Collecting(o)'
      BY <1>2, <1>7 DEF Collecting
    <2>9. OriginOnDisk(o)'
      BY <1>2, <1>5, <1>6, <1>7, <2>4, <2>7, <2>8 DEF OriginOnDisk
    <2>10. ASSUME NEW p \in Track!Tracks, p # o PROVE OriginOnDisk(p)'
      <3>1. /\ buffer'[p] = buffer[p] /\ next'[p] = next[p]
            /\ count'[p] = count[p] /\ ckpt'[p] = ckpt[p]
            /\ safe'[p] = safe[p]
        BY <1>1, <1>2, <1>7, <2>10 DEF TrackShape
      <3>2. Collecting(p)' => Collecting(p)
        BY <1>2, <1>7 DEF Collecting, Waiting
      <3> QED
        BY <1>1, <1>2, <1>4, <1>7, <2>10, <3>1, <3>2, OtherOrigin
    <2> QED
      BY <1>7, <2>2, <2>9, <2>10 DEF TrackInv
  <1>8. CASE /\ buffer[o] = <<>> /\ phase' = "merging"
             /\ UNCHANGED <<turn, buffer, count, ckpt, safe>>
    <2>1. buffer = [buffer EXCEPT ![o] = buffer[o]]
          /\ count = [count EXCEPT ![o] = count[o]]
          /\ ckpt = [ckpt EXCEPT ![o] = ckpt[o]]
          /\ safe = [safe EXCEPT ![o] = safe[o]]
      BY <1>1 DEF TrackShape
    <2>2. J \o buffer[o] = J /\ safe[o] + Len(buffer[o]) = safe[o]
      <3>1. J \o <<>> = J
        BY <1>6, ConcatEmptySeq DEF Track!Samples
      <3>2. Len(<<>>) = 0
        BY EmptySeq
      <3> QED
        BY <1>6, <1>8, <3>1, <3>2
    <2> QED
      BY <1>6, <1>7, <1>8, <2>1, <2>2
  <1>9. CASE /\ buffer[o] # <<>> /\ ~ Track!InTheWay(o)
             /\ ckpt' = [ckpt EXCEPT ![o] =
                  [k \in DOMAIN @ \cup {count[o]} |->
                     IF k = count[o] THEN [data |-> buffer[o], whole |-> TRUE]
                     ELSE @[k]]]
             /\ count' = [count EXCEPT ![o] = @ + 1]
             /\ safe' = [safe EXCEPT ![o] = @ + Len(buffer[o])]
             /\ buffer' = [buffer EXCEPT ![o] = <<>>]
             /\ phase' = "merging" /\ turn' = turn
    <2>1. o \in DOMAIN ckpt /\ o \in DOMAIN count /\ o \in DOMAIN safe
      BY <1>1 DEF TrackShape
    <2>2. count'[o] = count[o] + 1 /\ safe'[o] = safe[o] + Len(buffer[o])
      BY <1>9, <2>1
    <2>3. PICK f, g, n : f = ckpt[o] /\ g = ckpt'[o] /\ n = count[o]
      OBVIOUS
    <2>4. g = [k \in DOMAIN f \cup {n} |->
                 IF k = n THEN [data |-> buffer[o], whole |-> TRUE] ELSE f[k]]
      BY <1>9, <2>1, <2>3
    <2>5. PutAfter(f, n, buffer[o], g)
      <3>1. n \notin DOMAIN f
        BY <1>9, <2>3 DEF Track!InTheWay
      <3> QED
        BY <2>4, <3>1 DEF PutAfter
    <2>6. InOrder(f, n)
      BY <1>6, <2>3
    <2>7. count'[o] = n + 1
      BY <2>2, <2>3
    <2>8. /\ InOrder(g, count'[o])
          /\ Track!Joined(g) = Track!Joined(f) \o buffer[o]
      BY <1>6, <2>5, <2>6, <2>7, OneMore
    <2>9. /\ ckpt' = [ckpt EXCEPT ![o] = ckpt'[o]]
          /\ count' = [count EXCEPT ![o] = count'[o]]
          /\ safe' = [safe EXCEPT ![o] = safe'[o]]
      BY <1>9, <2>1
    <2> QED
      BY <1>7, <1>9, <2>2, <2>3, <2>8, <2>9
  <1>10. CASE /\ buffer[o] # <<>> /\ Track!LeavesTorn(o, ckpt[o], count[o])
              /\ Track!NextOrigin
              /\ UNCHANGED <<buffer, count, safe>>
    <2>1. /\ turn' \in {<<Sys>>, <<>>} /\ phase' \in {"saving", "mixing"}
          /\ phase' = "saving" => turn' # <<>>
          /\ ~ Collecting(o)'
          /\ \A p \in Track!Tracks : p # o => (Collecting(p)' => Collecting(p))
      BY <1>1, <1>2, <1>10, TurnPasses
    <2>2. /\ ckpt' = [ckpt EXCEPT ![o] = ckpt'[o]]
          /\ InOrder(ckpt'[o], count[o])
          /\ Track!Joined(ckpt'[o]) = J
      BY <1>1, <1>6, <1>10, MaybeTorn
    <2>3. TrackShape'
      BY <1>1, <1>2, <1>10, <2>1, <2>2 DEF TrackShape
    <2>4. Track!OnDisk(o)' = J
      BY <1>2, <1>6, <2>2 DEF Track!OnDisk
    <2>5. Faithful(o)'
      BY <1>2, <1>5, <1>6, <2>4 DEF Faithful, Kept
    <2>6. Kept(o)'
      BY <1>2, <1>6, <1>10, <2>2, <2>4, <2>5 DEF Kept, Placed
    <2>7. OriginOnDisk(o)'
      BY <1>2, <1>5, <1>6, <2>1, <2>6 DEF OriginOnDisk
    <2>8. ASSUME NEW p \in Track!Tracks, p # o PROVE OriginOnDisk(p)'
      <3>1. ckpt'[p] = ckpt[p]
        BY <1>1, <2>2, <2>8 DEF TrackShape
      <3> QED
        BY <1>1, <1>2, <1>4, <1>10, <2>1, <2>8, <3>1, OtherOrigin
    <2> QED
      BY <2>1, <2>3, <2>7, <2>8 DEF TrackInv
  <1>11. \/ /\ buffer[o] = <<>> /\ phase' = "merging"
            /\ UNCHANGED <<turn, buffer, count, ckpt, safe>>
         \/ /\ buffer[o] # <<>> /\ ~ Track!InTheWay(o)
            /\ ckpt' = [ckpt EXCEPT ![o] =
                 [k \in DOMAIN @ \cup {count[o]} |->
                    IF k = count[o] THEN [data |-> buffer[o], whole |-> TRUE]
                    ELSE @[k]]]
            /\ count' = [count EXCEPT ![o] = @ + 1]
            /\ safe' = [safe EXCEPT ![o] = @ + Len(buffer[o])]
            /\ buffer' = [buffer EXCEPT ![o] = <<>>]
            /\ phase' = "merging" /\ turn' = turn
         \/ /\ buffer[o] # <<>> /\ Track!LeavesTorn(o, ckpt[o], count[o])
            /\ Track!NextOrigin
            /\ UNCHANGED <<buffer, count, safe>>
    BY DEF Track!SaveLast
  <1> QED
    BY <1>8, <1>9, <1>10, <1>11

\* merge_checkpoints makes the track what the checkpoints hold, or fails and
\* leaves them.
LEMMA MergeKeeps ==
  ASSUME TrackInv, NEW o \in Track!Tracks, Track!MergeCheckpoints(o)
  PROVE  TrackInv'
  <1>1. TrackShape /\ \A p \in Track!Tracks : OriginOnDisk(p)
    BY DEF TrackInv
  <1>2. /\ phase = "merging" /\ o = Head(turn) /\ turn # <<>>
        /\ UNCHANGED <<buffer, next, count, tFailed, ckpt, dir, playback,
                       origin, tHeard, safe, halved>>
    BY <1>1 DEF TrackShape, Track!MergeCheckpoints, Track!memory,
      Track!checkpoints, Track!results, Track!history
  <1>3. Stopping
    BY <1>2 DEF Stopping
  <1>4. CASE /\ track' = [track EXCEPT ![o] = Track!Joined(ckpt[o])]
             /\ ready' = [ready EXCEPT ![o] = TRUE]
             /\ phase' = "removing" /\ turn' = turn
    <2>1. Complete(o) /\ Kept(o) /\ origin[o] = "waiting"
      BY <1>1, <1>2 DEF OriginOnDisk, Complete
    <2> DEFINE J == Track!Joined(ckpt[o])
    <2>2. /\ InOrder(ckpt[o], count[o]) /\ J \in Track!Samples
          /\ track[o] = Track!Missing /\ Len(J) = safe[o]
          /\ Track!OnDisk(o) = J
      <3>1. /\ InOrder(ckpt[o], count[o]) /\ track[o] = Track!Missing
            /\ Track!OnDisk(o) = J
        BY <2>1 DEF Complete, Track!OnDisk
      <3> QED
        BY <2>1, <3>1 DEF Kept
    <2>3. track'[o] = J /\ ready'[o] = TRUE
      BY <1>1, <1>4 DEF TrackShape
    <2>4. TrackShape'
      BY <1>1, <1>2, <1>4 DEF TrackShape
    <2>5. Track!OnDisk(o)' = J
      BY <1>2, <2>2, <2>3, MissingIsNoTrack DEF Track!OnDisk
    <2>6. Faithful(o)'
      BY <1>2, <2>1, <2>2, <2>5 DEF Faithful, Kept
    <2>7. Kept(o)'
      BY <1>2, <2>2, <2>3, <2>5, <2>6 DEF Kept, Placed
    <2>8. Tracked(o)' /\ (~ tFailed'[o] => track'[o] = tHeard'[o])
      BY <1>2, <2>1, <2>2, <2>3 DEF Tracked, Complete
    <2>9. ~ Collecting(o)'
      BY <1>2, <1>4 DEF Collecting
    <2>10. OriginOnDisk(o)'
      BY <1>2, <1>4, <2>1, <2>7, <2>8, <2>9 DEF OriginOnDisk
    <2>11. ASSUME NEW p \in Track!Tracks, p # o PROVE OriginOnDisk(p)'
      <3>1. track'[p] = track[p] /\ ready'[p] = ready[p]
        BY <1>1, <1>4, <2>11 DEF TrackShape
      <3>2. Collecting(p)' => Collecting(p)
        BY <1>2, <1>4 DEF Collecting, Waiting
      <3> QED
        BY <1>1, <1>2, <1>3, <1>4, <2>11, <3>1, <3>2, OtherOrigin
    <2> QED
      BY <1>4, <2>4, <2>10, <2>11 DEF TrackInv
  <1>5. CASE Track!NextOrigin /\ UNCHANGED <<track, ready>>
    <2>1. /\ turn' \in {<<Sys>>, <<>>} /\ phase' \in {"saving", "mixing"}
          /\ phase' = "saving" => turn' # <<>>
          /\ ~ Collecting(o)'
          /\ \A p \in Track!Tracks : p # o => (Collecting(p)' => Collecting(p))
      BY <1>1, <1>2, <1>5, TurnPasses
    <2>2. TrackShape'
      BY <1>1, <1>2, <1>5, <2>1 DEF TrackShape
    <2>3. ASSUME NEW p \in Track!Tracks PROVE OriginOnDisk(p)'
      BY <1>1, <1>2, <1>3, <1>5, <2>1, OtherOrigin
    <2> QED
      BY <2>1, <2>2, <2>3 DEF TrackInv
  <1> QED
    BY <1>4, <1>5 DEF Track!MergeCheckpoints

\* The checkpoints are removed when the track holds what they hold.
LEMMA RemoveKeeps ==
  ASSUME TrackInv, NEW o \in Track!Tracks, Track!RemoveCheckpoint(o)
  PROVE  TrackInv'
  <1>1. TrackShape /\ \A p \in Track!Tracks : OriginOnDisk(p)
    BY DEF TrackInv
  <1>2. /\ phase = "removing" /\ o = Head(turn) /\ turn # <<>>
        /\ UNCHANGED <<buffer, next, count, tFailed, ready, track, playback,
                       origin, tHeard, safe>>
    BY <1>1 DEF TrackShape, Track!RemoveCheckpoint, Track!memory,
      Track!results
  <1>3. Stopping
    BY <1>2 DEF Stopping
  <1>4. /\ Tracked(o) /\ origin[o] = "waiting"
        /\ ready[o] /\ ~ tFailed[o] => track[o] = tHeard[o]
    BY <1>1, <1>2, <1>3 DEF OriginOnDisk
  <1>5. CASE /\ ckpt' = [ckpt EXCEPT ![o] = ckpt'[o]]
             /\ halved' = [halved EXCEPT ![o] = TRUE]
             /\ UNCHANGED <<phase, turn, dir>>
    <2>1. halved'[o]
      BY <1>1, <1>5 DEF TrackShape
    <2>2. TrackShape'
      BY <1>1, <1>2, <1>5 DEF TrackShape
    <2>3. ~ Collecting(o)' /\ Tracked(o)'
      BY <1>2, <1>4, <1>5 DEF Collecting, Tracked
    <2>4. OriginOnDisk(o)'
      BY <1>2, <1>4, <1>5, <2>1, <2>3 DEF OriginOnDisk
    <2>5. ASSUME NEW p \in Track!Tracks, p # o PROVE OriginOnDisk(p)'
      <3>1. ckpt'[p] = ckpt[p] /\ halved'[p] = halved[p]
        BY <1>1, <1>5, <2>5 DEF TrackShape
      <3>2. Collecting(p)' => Collecting(p)
        BY <1>5 DEF Collecting, Waiting
      <3> QED
        BY <1>1, <1>2, <1>3, <1>5, <2>5, <3>1, <3>2, OtherOrigin
    <2> QED
      BY <1>2, <1>5, <2>2, <2>4, <2>5 DEF TrackInv
  <1>6. CASE /\ dir' = [dir EXCEPT ![o] = FALSE]
             /\ halved' = [halved EXCEPT ![o] = FALSE]
             /\ Track!NextOrigin /\ ckpt' = ckpt
    <2>1. /\ turn' \in {<<Sys>>, <<>>} /\ phase' \in {"saving", "mixing"}
          /\ phase' = "saving" => turn' # <<>>
          /\ ~ Collecting(o)'
          /\ \A p \in Track!Tracks : p # o => (Collecting(p)' => Collecting(p))
      BY <1>1, <1>2, <1>6, TurnPasses
    <2>2. TrackShape'
      BY <1>1, <1>2, <1>6, <2>1 DEF TrackShape
    <2>3. dir'[o] = FALSE /\ track'[o] = track[o]
      BY <1>1, <1>2, <1>6 DEF TrackShape
    <2>4. /\ Track!OnDisk(o)' = track[o] /\ track[o] \in Track!Samples
          /\ Len(track[o]) = safe[o]
      BY <1>2, <1>4, MissingIsNoTrack DEF Track!OnDisk, Tracked
    <2>5. /\ track[o] = SubSeq(track[o], 1, Len(track[o]))
          /\ Len(track[o]) + Interval > Len(track[o])
      BY <2>4, SubSeqFull, LenProperties, TrackAssumption DEF Track!Samples
    <2>6. Faithful(o)'
      <3>1. ~ tFailed'[o] => tHeard'[o] = track[o]
        BY <1>2, <1>4 DEF Tracked
      <3> QED
        BY <2>4, <2>5, <3>1 DEF Faithful
    <2>7. Kept(o)'
      BY <1>2, <2>3, <2>4, <2>6 DEF Kept, Placed
    <2>8. OriginOnDisk(o)'
      BY <1>2, <1>4, <2>1, <2>7 DEF OriginOnDisk
    <2>9. ASSUME NEW p \in Track!Tracks, p # o PROVE OriginOnDisk(p)'
      <3>1. dir'[p] = dir[p] /\ halved'[p] = halved[p]
        BY <1>1, <1>6, <2>9 DEF TrackShape
      <3> QED
        BY <1>1, <1>2, <1>3, <1>6, <2>1, <2>9, <3>1, OtherOrigin
    <2> QED
      BY <2>1, <2>2, <2>8, <2>9 DEF TrackInv
  <1>7. CASE Track!NextOrigin /\ UNCHANGED <<ckpt, dir, halved>>
    <2>1. /\ turn' \in {<<Sys>>, <<>>} /\ phase' \in {"saving", "mixing"}
          /\ phase' = "saving" => turn' # <<>>
          /\ ~ Collecting(o)'
          /\ \A p \in Track!Tracks : p # o => (Collecting(p)' => Collecting(p))
      BY <1>1, <1>2, <1>7, TurnPasses
    <2>2. TrackShape'
      BY <1>1, <1>2, <1>7, <2>1 DEF TrackShape
    <2>3. ASSUME NEW p \in Track!Tracks PROVE OriginOnDisk(p)'
      BY <1>1, <1>2, <1>3, <1>7, <2>1, OtherOrigin
    <2> QED
      BY <2>1, <2>2, <2>3 DEF TrackInv
  <1>8. \/ /\ ckpt' = [ckpt EXCEPT ![o] = ckpt'[o]]
           /\ halved' = [halved EXCEPT ![o] = TRUE]
           /\ UNCHANGED <<phase, turn, dir>>
        \/ /\ dir' = [dir EXCEPT ![o] = FALSE]
           /\ halved' = [halved EXCEPT ![o] = FALSE]
           /\ Track!NextOrigin /\ ckpt' = ckpt
        \/ Track!NextOrigin /\ UNCHANGED <<ckpt, dir, halved>>
    <2>1. \/ /\ \E k \in DOMAIN ckpt[o] :
                  ckpt' = [ckpt EXCEPT ![o] = [j \in DOMAIN @ \ {k} |-> @[j]]]
             /\ halved' = [halved EXCEPT ![o] = TRUE]
             /\ UNCHANGED <<phase, turn, dir>>
          \/ /\ dir' = [dir EXCEPT ![o] = FALSE]
             /\ halved' = [halved EXCEPT ![o] = FALSE]
             /\ Track!NextOrigin /\ ckpt' = ckpt
          \/ Track!NextOrigin /\ UNCHANGED <<ckpt, dir, halved>>
      BY DEF Track!RemoveCheckpoint, Track!checkpoints
    <2>2. ASSUME NEW k \in DOMAIN ckpt[o],
                 ckpt' = [ckpt EXCEPT ![o] = [j \in DOMAIN @ \ {k} |-> @[j]]]
          PROVE  ckpt' = [ckpt EXCEPT ![o] = ckpt'[o]]
      <3>1. o \in DOMAIN ckpt
        BY <1>1 DEF TrackShape
      <3>2. ckpt'[o] = [j \in DOMAIN ckpt[o] \ {k} |-> ckpt[o][j]]
        BY <2>2, <3>1
      <3> QED
        BY <2>2, <3>2
    <2> QED
      BY <2>1, <2>2
  <1> QED
    BY <1>5, <1>6, <1>7, <1>8

\* create_mixed_track takes the origins that have a track.
LEMMA MixKeeps ==
  ASSUME TrackInv, Track!CreateMixedTrack
  PROVE  TrackInv'
  <1>1. TrackShape /\ \A p \in Track!Tracks : OriginOnDisk(p)
    BY DEF TrackInv
  <1>2. /\ phase = "mixing" /\ phase' \in {"describing", "dead"}
        /\ phase' = "describing" => playback' = {o \in Track!Tracks : ready[o]}
        /\ UNCHANGED <<turn, buffer, next, count, tFailed, ready, ckpt, dir,
                       track, origin, tHeard, safe, halved>>
    BY DEF Track!CreateMixedTrack, Track!memory, Track!checkpoints,
      Track!history
  <1>3. TrackShape'
    BY <1>1, <1>2 DEF TrackShape
  <1>4. ASSUME NEW p \in Track!Tracks PROVE OriginOnDisk(p)'
    <2>1. Stopping /\ ~ Collecting(p)'
      BY <1>2 DEF Stopping, Collecting
    <2> QED
      BY <1>1, <1>2, <2>1, OtherOrigin
  <1>5. phase' = "describing" => playback' = {o \in Track!Tracks : ready'[o]}
    BY <1>2
  <1> QED
    BY <1>3, <1>4, <1>5 DEF TrackInv

\* The metadata calls an origin stored that has not failed and has a track.
LEMMA DescribeKeeps ==
  ASSUME TrackInv, Track!WriteMetadata
  PROVE  TrackInv'
  <1>1. TrackShape /\ \A p \in Track!Tracks : OriginOnDisk(p)
    BY DEF TrackInv
  <1>2. /\ phase = "describing" /\ phase' = "closed"
        /\ origin' = [o \in Track!Tracks |->
             IF tFailed[o] THEN "partial"
             ELSE IF ready[o] THEN "stored" ELSE "unavailable"]
        /\ UNCHANGED <<turn, buffer, next, count, tFailed, ready, ckpt, dir,
                       track, playback, tHeard, safe, halved>>
    BY DEF Track!WriteMetadata, Track!memory, Track!checkpoints, Track!history
  <1>3. TrackShape'
    BY <1>1, <1>2 DEF TrackShape
  <1>4. ASSUME NEW p \in Track!Tracks PROVE OriginOnDisk(p)'
    <2>1. Stopping /\ ~ Stopping' /\ ~ Collecting(p)'
      BY <1>2 DEF Stopping, Collecting
    <2>2. origin'[p] = "stored" => ~ tFailed[p] /\ ready[p]
      BY <1>2
    <2>3. origin'[p] = "stored" => track'[p] = tHeard'[p] /\ p \in playback'
      BY <1>1, <1>2, <2>1, <2>2 DEF OriginOnDisk, TrackInv
    <2>4. ~ halved'[p] => Kept(p)'
      BY <1>1, <1>2, KeptStays DEF OriginOnDisk
    <2> QED
      BY <1>2, <2>1, <2>3, <2>4 DEF OriginOnDisk
  <1>5. phase' # "describing"
    BY <1>2
  <1> QED
    BY <1>3, <1>4, <1>5 DEF TrackInv

\* When the process ends, a checkpoint that was being written may stay, torn.
LEMMA CrashKeeps ==
  ASSUME TrackInv, Track!Crash
  PROVE  TrackInv'
  <1>1. TrackShape /\ \A p \in Track!Tracks : OriginOnDisk(p)
    BY DEF TrackInv
  <1>2. /\ phase \notin {"closed", "dead", "cleaned"} /\ phase' = "dead"
        /\ turn' = <<>>
        /\ buffer' = [o \in Track!Tracks |-> <<>>]
        /\ ready' = [o \in Track!Tracks |-> FALSE]
        /\ UNCHANGED <<next, count, tFailed, dir, track, playback, origin,
                       tHeard, safe, halved>>
    BY DEF Track!Crash, Track!results, Track!history
  <1>3. \/ ckpt' = ckpt
        \/ /\ phase = "recording"
           /\ \E o \in Track!Tracks : Track!LeavesTorn(o, ckpt[o], count[o])
    BY DEF Track!Crash
  <1>4. <<>> \in Track!Samples
    BY EmptySeq DEF Track!Samples
  <1>5. CASE ckpt' = ckpt
    <2>1. TrackShape'
      BY <1>1, <1>2, <1>4, <1>5 DEF TrackShape
    <2>2. ASSUME NEW p \in Track!Tracks PROVE OriginOnDisk(p)'
      <3>1. ~ halved'[p] => Kept(p)'
        BY <1>1, <1>2, <1>5, KeptStays DEF OriginOnDisk
      <3> QED
        BY <1>1, <1>2, <3>1, OverOrigin
    <2> QED
      BY <1>2, <2>1, <2>2 DEF TrackInv
  <1>6. CASE /\ phase = "recording"
             /\ \E o \in Track!Tracks : Track!LeavesTorn(o, ckpt[o], count[o])
    <2>1. PICK o \in Track!Tracks : Track!LeavesTorn(o, ckpt[o], count[o])
      BY <1>6
    <2>2. Collecting(o)
      BY <1>6 DEF Collecting
    <2>3. Collected(o) /\ InOrder(ckpt[o], count[o]) /\ Kept(o)
          /\ track[o] = Track!Missing
      BY <1>1, <1>6, <2>2 DEF OriginOnDisk, Collected
    <2>4. /\ ckpt' = [ckpt EXCEPT ![o] = ckpt'[o]]
          /\ InOrder(ckpt'[o], count[o])
          /\ Track!Joined(ckpt'[o]) = Track!Joined(ckpt[o])
      BY <1>1, <2>1, <2>3, MaybeTorn
    <2>5. TrackShape'
      BY <1>1, <1>2, <1>4, <2>4 DEF TrackShape
    <2>6. Track!OnDisk(o)' = Track!OnDisk(o)
      BY <1>2, <2>3, <2>4 DEF Track!OnDisk
    <2>7. Faithful(o)'
      BY <1>2, <2>3, <2>6 DEF Faithful, Kept
    <2>8. Kept(o)'
      BY <1>2, <2>3, <2>4, <2>6, <2>7 DEF Kept, Placed
    <2>9. ASSUME NEW p \in Track!Tracks PROVE OriginOnDisk(p)'
      <3>1. ~ halved'[p] => Kept(p)'
        <4>1. CASE p = o
          BY <2>8, <4>1
        <4>2. CASE p # o
          <5>1. ckpt'[p] = ckpt[p]
            BY <1>1, <2>4, <4>2 DEF TrackShape
          <5> QED
            BY <1>1, <1>2, <5>1, KeptStays DEF OriginOnDisk
        <4> QED
          BY <4>1, <4>2
      <3> QED
        BY <1>1, <1>2, <3>1, OverOrigin
    <2> QED
      BY <1>2, <2>5, <2>9 DEF TrackInv
  <1> QED
    BY <1>3, <1>5, <1>6

\* A recovery begins with what is on disk.
LEMMA RecoverKeeps ==
  ASSUME TrackInv, Track!Recover
  PROVE  TrackInv'
  <1>1. TrackShape /\ \A p \in Track!Tracks : OriginOnDisk(p)
    BY DEF TrackInv
  <1>2. /\ phase = "dead" /\ phase' = "recovering" /\ turn' = <<Mic, Sys>>
        /\ ready' = [o \in Track!Tracks |-> FALSE]
        /\ UNCHANGED <<buffer, next, count, tFailed, ckpt, dir, track,
                       playback, origin, tHeard, safe, halved>>
    BY DEF Track!Recover, Track!Order, Track!memory, Track!checkpoints,
      Track!history
  <1>3. TrackShape'
    BY <1>1, <1>2 DEF TrackShape
  <1>4. ASSUME NEW p \in Track!Tracks PROVE OriginOnDisk(p)'
    <2>1. ~ halved'[p] => Kept(p)'
      BY <1>1, <1>2, KeptStays DEF OriginOnDisk
    <2> QED
      BY <1>1, <1>2, <2>1, OverOrigin
  <1> QED
    BY <1>2, <1>3, <1>4 DEF TrackInv

\* What can be read of files in order is what they hold.
LEMMA ReadableIsAll ==
  ASSUME NEW files, NEW n, InOrder(files, n)
  PROVE  Track!Joined(Track!Readable(files)) = Track!Joined(files)
  <1> DEFINE D == {k \in DOMAIN files :
                     \A j \in DOMAIN files : j <= k => files[j].whole}
             others == Track!Readable(files)
  <1>1. /\ n \in Nat /\ 0..n - 1 \subseteq DOMAIN files
        /\ DOMAIN files \subseteq 0..n
        /\ \A k \in 0..n - 1 : files[k].whole /\ files[k].data \in Track!Samples
        /\ n \in DOMAIN files => ~ files[n].whole
    BY DEF InOrder
  <1>2. DOMAIN others = D /\ \A k \in D : others[k] = files[k]
    BY DEF Track!Readable
  <1>3. n \notin D
    BY <1>1
  <1>4. ASSUME NEW k \in 0..n - 1 PROVE k \in D
    <2>1. ASSUME NEW j \in DOMAIN files, j <= k PROVE files[j].whole
      <3>1. j \in 0..n - 1
        BY <1>1, <2>1
      <3> QED
        BY <1>1, <3>1
    <2> QED
      BY <1>1, <2>1
  <1>5. D \subseteq 0..n
    BY <1>1
  <1> HIDE DEF D, others
  <1>6. \A k \in 0..n - 1 : others[k] = files[k]
    BY <1>2, <1>4
  <1>7. InOrder(others, n)
    BY <1>1, <1>2, <1>3, <1>4, <1>5, <1>6 DEF InOrder
  <1>8. Track!Joined(others) = Track!Joined(files)
    BY <1>6, <1>7, JoinedSame
  <1> QED
    BY <1>8 DEF others

\* A track that is recovered holds what is on disk.
LEMMA RecoverTrackKeeps ==
  ASSUME TrackInv, NEW o \in Track!Tracks, Track!RecoverTrack(o)
  PROVE  TrackInv'
  <1>1. TrackShape /\ \A p \in Track!Tracks : OriginOnDisk(p)
    BY DEF TrackInv
  <1>2. /\ phase = "recovering" /\ turn' = Tail(turn) /\ turn # <<>>
        /\ phase' = IF Tail(turn) = <<>> THEN "replaying" ELSE "recovering"
        /\ UNCHANGED <<buffer, next, count, tFailed, ckpt, dir, playback,
                       origin, tHeard, safe, halved>>
    BY <1>1 DEF TrackShape, Track!RecoverTrack, Track!memory,
      Track!checkpoints, Track!results, Track!history
  <1>3. \/ UNCHANGED <<track, ready>>
        \/ /\ dir[o]
           /\ track' = [track EXCEPT ![o] =
                          Track!Joined(Track!Readable(ckpt[o]))]
           /\ ready' = [ready EXCEPT ![o] = TRUE]
    BY DEF Track!RecoverTrack
  <1>4. /\ turn' \in {<<Sys>>, <<>>} /\ phase' \in {"replaying", "recovering"}
        /\ phase' = "recovering" => turn' # <<>>
    <2>1. turn \in {<<Mic, Sys>>, <<Sys>>, <<>>}
      BY <1>1 DEF TrackShape
    <2> QED
      BY <1>2, <2>1, Turns
  <1>5. TrackShape'
    BY <1>1, <1>2, <1>3, <1>4 DEF TrackShape
  <1>6. ASSUME NEW p \in Track!Tracks, ~ halved'[p] PROVE Kept(p)'
    <2>1. Kept(p)
      BY <1>1, <1>2, <1>6 DEF OriginOnDisk
    <2>2. CASE track'[p] = track[p]
      BY <1>2, <2>1, <2>2, KeptStays
    <2>3. CASE track'[p] # track[p]
      <3>1. /\ p = o /\ dir[p]
            /\ track'[p] = Track!Joined(Track!Readable(ckpt[p]))
        BY <1>1, <1>3, <2>3 DEF TrackShape
      <3>2. /\ InOrder(ckpt[p], count[p])
            /\ Track!OnDisk(p) = Track!Joined(ckpt[p])
        BY <2>1, <3>1, MissingIsNoTrack DEF Kept, Placed, Track!OnDisk
      <3>3. track'[p] = Track!Joined(ckpt[p])
        BY <3>1, <3>2, ReadableIsAll
      <3>4. track'[p] \in Track!Samples
        BY <3>2, <3>3, JoinedIsSamples
      <3>5. Track!OnDisk(p)' = Track!OnDisk(p)
        BY <3>2, <3>3, <3>4, MissingIsNoTrack DEF Track!OnDisk
      <3>6. Faithful(p)'
        BY <1>2, <2>1, <3>5 DEF Faithful, Kept
      <3> QED
        BY <1>2, <2>1, <3>2, <3>3, <3>4, <3>5, <3>6 DEF Kept, Placed
    <2> QED
      BY <2>2, <2>3
  <1>7. ASSUME NEW p \in Track!Tracks PROVE OriginOnDisk(p)'
    BY <1>1, <1>2, <1>4, <1>6, OverOrigin
  <1> QED
    BY <1>4, <1>5, <1>7 DEF TrackInv

\* A recovery that succeeds has all that was there to be recovered.
LEMMA PlaybackKeeps ==
  ASSUME TrackInv, Track!RecoverPlayback
  PROVE  TrackInv'
  <1>1. TrackShape /\ \A p \in Track!Tracks : OriginOnDisk(p)
    BY DEF TrackInv
  <1>2. /\ phase = "replaying" /\ phase' = "cleaning"
        /\ UNCHANGED <<turn, buffer, next, count, tFailed, ready, ckpt, dir,
                       track, origin, tHeard, safe, halved>>
    BY DEF Track!RecoverPlayback, Track!memory, Track!checkpoints,
      Track!history
  <1>3. TrackShape'
    BY <1>1, <1>2 DEF TrackShape
  <1>4. ASSUME NEW p \in Track!Tracks, report' = "success", dir'[p]
        PROVE  p \in playback'
    <2>1. /\ playback' = {o \in Track!Tracks : ready[o]}
          /\ ~ \E o \in Track!Tracks : Track!IsPartial(o)
      BY <1>4 DEF Track!RecoverPlayback
    <2>2. ready[p]
      BY <1>2, <1>4, <2>1 DEF Track!IsPartial
    <2> QED
      BY <2>1, <2>2
  <1>5. ASSUME NEW p \in Track!Tracks PROVE OriginOnDisk(p)'
    <2>1. ~ halved'[p] => Kept(p)'
      BY <1>1, <1>2, KeptStays DEF OriginOnDisk
    <2> QED
      BY <1>1, <1>2, <1>4, <2>1, OverOrigin
  <1> QED
    BY <1>2, <1>3, <1>5 DEF TrackInv

\* The page removes the checkpoints last.
LEMMA CleanupKeeps ==
  ASSUME TrackInv, Track!CleanupCheckpoints
  PROVE  TrackInv'
  <1>1. TrackShape /\ \A p \in Track!Tracks : OriginOnDisk(p)
    BY DEF TrackInv
  <1>2. /\ phase = "cleaning" /\ phase' = "cleaned"
        /\ ckpt' = [o \in Track!Tracks |-> Track!NoFiles]
        /\ dir' = [o \in Track!Tracks |-> FALSE]
        /\ UNCHANGED <<turn, buffer, next, count, tFailed, ready, track,
                       playback, origin, tHeard, safe, halved>>
    BY DEF Track!CleanupCheckpoints, Track!memory, Track!results,
      Track!history
  <1>3. TrackShape'
    BY <1>1, <1>2 DEF TrackShape
  <1>4. ASSUME NEW p \in Track!Tracks PROVE OriginOnDisk(p)'
    BY <1>1, <1>2, OverOrigin
  <1> QED
    BY <1>2, <1>3, <1>4 DEF TrackInv

\* Every step of the saver and of the recovery keeps all of it.
LEMMA TrackStep ==
  ASSUME TrackInv, [Track!Next]_trackVars
  PROVE  TrackInv'
  <1>1. CASE Track!Next
    <2>1. \/ \E o \in Track!Tracks :
               \/ Track!AddChunk(o) \/ Track!SaveLast(o)
               \/ Track!MergeCheckpoints(o) \/ Track!RemoveCheckpoint(o)
               \/ Track!RecoverTrack(o)
          \/ Track!StopRecording \/ Track!CreateMixedTrack
          \/ Track!WriteMetadata \/ Track!Crash \/ Track!Recover
          \/ Track!RecoverPlayback \/ Track!CleanupCheckpoints
      BY <1>1 DEF Track!Next
    <2> QED
      BY <2>1, AddChunkKeeps, SaveLastKeeps, MergeKeeps, RemoveKeeps,
        RecoverTrackKeeps, StopKeeps, MixKeeps, DescribeKeeps, CrashKeeps,
        RecoverKeeps, PlaybackKeeps, CleanupKeeps
  <1>2. CASE UNCHANGED trackVars
    <2> USE <1>2 DEF trackVars
    <2>1. TrackShape'
      BY DEF TrackInv, TrackShape
    <2>2. ASSUME NEW p \in Track!Tracks PROVE OriginOnDisk(p)'
      <3>1. OriginOnDisk(p)
        BY DEF TrackInv
      <3>2. Kept(p) => Kept(p)'
        BY KeptStays
      <3>3. Collected(p) => Collected(p)'
        BY DEF Collected, Track!InTheWay
      <3>4. Complete(p) => Complete(p)'
        BY DEF Complete
      <3>5. Tracked(p) => Tracked(p)'
        BY DEF Tracked
      <3>6. (Collecting(p)' <=> Collecting(p)) /\ (Stopping' <=> Stopping)
        BY DEF Collecting, Waiting, Stopping
      <3> QED
        BY <3>1, <3>2, <3>3, <3>4, <3>5, <3>6 DEF OriginOnDisk
    <2>3. phase' = "describing" =>
            playback' = {o \in Track!Tracks : ready'[o]}
      BY DEF TrackInv
    <2> QED
      BY <2>1, <2>2, <2>3 DEF TrackInv
  <1> QED
    BY <1>1, <1>2

\* What a checkpoint holds survives failures and crashes, and neither the
\* metadata of a recording nor a recovery claims more than what is stored
\* (add_chunk, finalize, completed_origin_status, recover_audio_from_
\* checkpoints).
THEOREM RecordingsStayRecoverable == AudioSpec => []RecordingsAreRecoverable
  <1> DEFINE Inv == component = "track" => TrackInv
  <1>1. AudioInit => Inv
    BY TrackBegins DEF AudioInit, JobsInit, ChangingInit, CaptureInit,
      TrackInit, ImportInit, OriginInit, TimelinesInit, FilterInit,
      SummaryInit, ChunksInit, ModelsInit, ClockInit
  <1>2. Inv /\ [AudioNext]_everything => Inv'
    <2> SUFFICES ASSUME Inv, [AudioNext]_everything, component' = "track"
                 PROVE  TrackInv'
      OBVIOUS
    <2>1. [Track!Next]_trackVars /\ component = "track"
      BY DEF AudioNext, everything, JobsNext, ChangingNext, CaptureNext,
        TrackNext, ImportNext, OriginNext, TimelinesNext, FilterNext,
        SummaryNext, ChunksNext, ModelsNext, ClockNext
    <2> QED
      BY <2>1, TrackStep
  <1>3. Inv => RecordingsAreRecoverable
    <2> SUFFICES ASSUME TrackInv
                 PROVE  /\ Track!NothingSavedIsLost
                        /\ Track!StoredIsComplete
                        /\ Track!SuccessHasEveryOrigin
      BY DEF RecordingsAreRecoverable
    <2>1. TrackShape /\ \A o \in Track!Tracks : OriginOnDisk(o)
      BY DEF TrackInv
    <2>2. Track!NothingSavedIsLost
      <3> SUFFICES ASSUME NEW o \in Track!Tracks,
                          phase # "cleaned" /\ ~ halved[o]
                   PROVE  /\ Len(Track!OnDisk(o)) >= safe[o]
                          /\ Faithful(o)
        BY DEF Track!NothingSavedIsLost, Faithful
      <3>1. Kept(o) /\ safe[o] \in Nat
        BY <2>1 DEF OriginOnDisk, TrackShape
      <3> QED
        BY <3>1 DEF Kept
    <2>3. Track!StoredIsComplete
      BY <2>1 DEF OriginOnDisk, Track!StoredIsComplete
    <2>4. Track!SuccessHasEveryOrigin
      BY <2>1 DEF OriginOnDisk, Track!SuccessHasEveryOrigin
    <2> QED
      BY <2>2, <2>3, <2>4
  <1> QED
    BY <1>1, <1>2, <1>3, PTL DEF AudioSpec
=============================================================================
