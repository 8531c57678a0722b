---------------------------- MODULE PartInfoProofs ----------------------------
(***************************************************************************)
(* The intervals of a PartInfo are the maximal runs of the bytes that were *)
(* added, for a message of any size.  MaximalRuns is inductive but for the *)
(* ends of the intervals: Runs says that they are numbers, and that no     *)
(* byte lies beyond the message.                                           *)
(***************************************************************************)
EXTENDS PartInfoObject, TLAPS, WellFoundedInduction

\* The intervals f are the maximal runs of the bytes C of a message of n bytes.
Runs(f, C, n) ==
  /\ C \subseteq 0..(n - 1)
  /\ DOMAIN f = {i \in C : i - 1 \notin C}
  /\ \A i \in DOMAIN f : /\ f[i] \in 0..n
                         /\ i < f[i]
                         /\ f[i] \notin C
                         /\ i..(f[i] - 1) \subseteq C

\* A set of natural numbers has a least element.
LEMMA LeastNumber ==
  ASSUME NEW S, S \subseteq Nat, S # {}
  PROVE  Min(S) \in S /\ \A y \in S : Min(S) <= y
<1> DEFINE R == {ss \in Nat \X Nat : ss[1] < ss[2]}
<1>1. OpToRel(<, Nat) = R
  BY DEF OpToRel
<1>2. IsWellFoundedOn(R, Nat)
  BY <1>1, NatLessThanWellFounded, Zenon
<1> HIDE DEF R
<1>3. PICK x \in S : \A y \in S : ~(<<y, x>> \in R)
  BY <1>2, WFMin, Zenon
<1>4. \A y \in S : ~(y < x)
  BY <1>3, Zenon DEF R
<1>5. \A y \in S : x =< y
  BY <1>4
<1> QED
  BY <1>5, Zenon DEF Min

\* A bounded one has a greatest element.
LEMMA GreatestNumber ==
  ASSUME NEW S, S \subseteq Nat, S # {}, NEW b \in Nat, \A x \in S : x <= b
  PROVE  \E x \in S : \A y \in S : y <= x
<1> DEFINE D == {b - x : x \in S}
<1>1. D \subseteq Nat /\ D # {}
  <2>1. \A x \in S : b - x \in Nat
    OBVIOUS
  <2> QED
    BY <2>1, Zenon
<1>2. Min(D) \in D /\ \A e \in D : Min(D) <= e
  BY <1>1, LeastNumber, Zenon
<1>3. PICK x \in S : Min(D) = b - x
  BY <1>2, Zenon
<1>4. \A y \in S : b - x <= b - y
  BY <1>2, <1>3, Zenon
<1> HIDE DEF D
<1> QED
  BY <1>4

\* The greater of two numbers.
LEMMA MaxOfTwo ==
  ASSUME NEW a \in Int, NEW b \in Int
  PROVE  /\ Max({a, b}) \in {a, b}
         /\ a <= Max({a, b}) /\ b <= Max({a, b})
<1>1. \E x \in {a, b} : \A y \in {a, b} : x >= y
  OBVIOUS
<1>2. Max({a, b}) \in {a, b} /\ \A y \in {a, b} : Max({a, b}) >= y
  BY <1>1 DEF Max
<1> QED
  BY <1>2

\* Every byte lies in an interval.
LEMMA InRun ==
  ASSUME NEW n \in Nat, NEW f, NEW C, Runs(f, C, n), NEW x \in C
  PROVE  \E i \in DOMAIN f : i <= x /\ x < f[i] /\ i \in Nat
<1> DEFINE S == {b \in 0..n : b <= x /\ b..x \subseteq C}
           b == Min(S)
<1>0. x \in 0..(n - 1) /\ C \subseteq 0..(n - 1)
  BY DEF Runs
<1>1. x \in S
  BY <1>0
<1>2. b \in S /\ \A y \in S : b <= y
  BY <1>1, LeastNumber
<1> HIDE DEF b
<1>3. b \in 0..n /\ b <= x /\ b..x \subseteq C /\ b \in C
  BY <1>0, <1>2
<1>4. b - 1 \notin C
  <2> SUFFICES ASSUME b - 1 \in C PROVE FALSE
    OBVIOUS
  <2>1. b - 1 \in 0..n /\ b - 1 <= x
    BY <1>0, <1>3
  <2>2. (b - 1)..x \subseteq C
    <3> SUFFICES ASSUME NEW y \in (b - 1)..x PROVE y \in C
      OBVIOUS
    <3>1. y = b - 1 \/ y \in b..x
      BY <1>3
    <3> QED
      BY <1>3, <3>1
  <2>3. b - 1 \in S
    BY <2>1, <2>2
  <2> QED
    BY <1>2, <1>3, <2>3
<1>5. b \in DOMAIN f
  BY <1>3, <1>4 DEF Runs
<1>6. f[b] \in 0..n /\ f[b] \notin C /\ b < f[b]
  BY <1>5 DEF Runs
<1>7. x < f[b]
  BY <1>0, <1>3, <1>6
<1> QED
  BY <1>3, <1>5, <1>7

\* Two intervals do not touch.
LEMMA RunsApart ==
  ASSUME NEW n \in Nat, NEW f, NEW C, Runs(f, C, n), NEW i \in DOMAIN f, NEW j \in DOMAIN f, i < j
  PROVE  f[i] < j
<1>1. /\ i \in 0..(n - 1) /\ j \in 0..(n - 1) /\ j - 1 \notin C /\ j \in C
      /\ f[i] \in 0..n /\ f[i] \notin C
      /\ i..(f[i] - 1) \subseteq C
  BY Zenon DEF Runs
<1> QED
  BY <1>1

\* sanitize: the interval from s to e, which replaces the one at i, absorbs the
\* intervals that it touches.
LEMMA SanitizeRuns ==
  ASSUME NEW n \in Nat, NEW f, NEW C, Runs(f, C, n),
         NEW i \in DOMAIN f, NEW s \in 0..i, NEW e \in 0..n, s < e, i <= e, f[i] <= e,
         \A j \in DOMAIN f : j < s => f[j] < s
  PROVE  Runs(sanitize([j \in (DOMAIN f \ {i}) \cup {s} |-> IF j = s THEN e ELSE f[j]], s),
              C \cup s..(e - 1), n)
<1> DEFINE g     == [j \in (DOMAIN f \ {i}) \cup {s} |-> IF j = s THEN e ELSE f[j]]
           later == {j \in DOMAIN g : s < j}
           all   == {g[s]} \cup {g[j] : j \in later}
           ends  == {x \in all : g[s] <= x /\ \A j \in later : j <= x => g[j] <= x}
           end   == Min(ends)
           D     == C \cup s..(e - 1)
           r     == [j \in {j \in DOMAIN g : j <= s \/ end < j} |-> IF j = s THEN end ELSE g[j]]
<1>0. /\ C \subseteq 0..(n - 1) /\ i \in 0..(n - 1) /\ s \in 0..n /\ i \in C
      /\ \A j \in DOMAIN f : /\ j \in 0..(n - 1) /\ j \in C /\ j - 1 \notin C
                             /\ f[j] \in 0..n /\ j < f[j] /\ f[j] \notin C
                             /\ j..(f[j] - 1) \subseteq C
  <2>1. C \subseteq 0..(n - 1) /\ DOMAIN f = {j \in C : j - 1 \notin C}
    BY DEF Runs
  <2>2. i \in C /\ i \in 0..(n - 1)
    BY <2>1, Zenon
  <2>3. s \in 0..n
    BY <2>2
  <2> QED
    BY <2>1, <2>2, <2>3 DEF Runs
<1>1. g[s] = e /\ DOMAIN g = (DOMAIN f \ {i}) \cup {s}
  OBVIOUS
<1>2. \A j \in later : j \in DOMAIN f /\ j # i /\ s < j /\ g[j] = f[j]
  BY <1>0
<1>3. \A j \in DOMAIN f : j # i /\ s < j => j \in later
  BY <1>0
<1>4. \A j \in DOMAIN f : j # i /\ j # s => j \in DOMAIN g /\ g[j] = f[j]
  OBVIOUS
<1> HIDE DEF g, later
<1>5. all \subseteq 0..n /\ e \in all
  BY <1>0, <1>1, <1>2
<1>6. ends # {} /\ ends \subseteq Nat
  <2>0. all # {} /\ all \subseteq Nat /\ \A y \in all : y <= n
    BY <1>5
  <2>1. PICK x \in all : \A y \in all : y <= x
    <3> HIDE DEF all
    <3> QED
      BY <2>0, GreatestNumber, Zenon
  <2>2. x \in ends
    BY <1>1, <1>5, <2>1
  <2> QED
    BY <1>5, <2>2
<1>7. end \in ends /\ \A y \in ends : end <= y
  BY <1>6, LeastNumber, Zenon
<1>8. /\ end \in 0..n /\ e <= end
      /\ \A j \in later : j <= end => g[j] <= end
  BY <1>1, <1>5, <1>7
<1> HIDE DEF end
<1>9. D \subseteq 0..(n - 1)
  BY <1>0
<1>10. s..(end - 1) \subseteq D
  <2> SUFFICES ASSUME NEW x \in s..(end - 1), x \notin D PROVE FALSE
    OBVIOUS
  <2>0. x \in 0..n /\ e <= x /\ x < end /\ x \notin C
    BY <1>0, <1>8
  <2> DEFINE below == {y \in all : y <= x}
  <2>1. e \in below /\ below \subseteq Nat /\ \A y \in below : y <= x
    BY <1>5, <2>0
  <2>2. PICK m \in below : \A y \in below : y <= m
    <3>1. below # {} /\ x \in Nat
      BY <2>0, <2>1
    <3> HIDE DEF below
    <3> QED
      BY <2>1, <3>1, GreatestNumber, Zenon
  <2>3. m \in all /\ e <= m /\ m <= x /\ m \in 0..n
    BY <1>5, <2>1, <2>2
  <2>4. ASSUME NEW j \in later, j <= m PROVE g[j] <= m
    <3>1. j \in 0..n /\ g[j] \in 0..n /\ g[j] = f[j] /\ j..(f[j] - 1) \subseteq C
      BY <1>0, <1>2
    <3>2. g[j] <= x
      BY <2>0, <2>3, <2>4, <3>1
    <3>3. g[j] \in below
      BY <3>2
    <3> QED
      BY <2>2, <3>3
  <2>5. m \in ends
    BY <1>1, <2>3, <2>4
  <2> HIDE DEF ends, below
  <2> QED
    BY <1>7, <1>8, <2>0, <2>3, <2>5
<1>11. end \notin D
  <2> SUFFICES ASSUME end \in D PROVE FALSE
    OBVIOUS
  <2>1. end \in C
    BY <1>0, <1>8
  <2>2. PICK j \in DOMAIN f : j <= end /\ end < f[j] /\ j \in Nat
    BY <2>1, InRun
  <2>3. f[j] \in 0..n
    BY <1>0
  <2>4. CASE j = i
    BY <1>8, <2>2, <2>3, <2>4
  <2>5. CASE j # i /\ s < j
    BY <1>2, <1>3, <1>8, <2>2, <2>3, <2>5
  <2>6. CASE j # i /\ j < s
    BY <1>8, <2>2, <2>3, <2>6
  <2>7. CASE j # i /\ j = s
    <3>1. f[j] < i
      BY <1>0, <2>7, RunsApart
    <3> QED
      BY <1>0, <1>8, <2>2, <2>3, <3>1
  <2> QED
    BY <1>0, <2>2, <2>4, <2>5, <2>6, <2>7
<1>12. s \in D /\ s - 1 \notin D
  <2>1. s \in D
    BY <1>0
  <2>2. s - 1 \notin s..(e - 1)
    BY <1>0
  <2>3. ASSUME s - 1 \in C PROVE FALSE
    <3>1. PICK j \in DOMAIN f : j <= s - 1 /\ s - 1 < f[j] /\ j \in Nat
      BY <2>3, InRun
    <3> QED
      BY <1>0, <3>1
  <2> QED
    BY <2>1, <2>2, <2>3
<1>13. DOMAIN r = {x \in D : x - 1 \notin D}
  <2>0. DOMAIN r = {j \in DOMAIN g : j <= s \/ end < j}
    OBVIOUS
  <2>1. ASSUME NEW x \in DOMAIN r PROVE x \in D /\ x - 1 \notin D
    <3>1. CASE x = s
      BY <1>12, <3>1
    <3>2. CASE x # s
      <4>1. x \in DOMAIN f /\ (x <= s \/ end < x)
        BY <1>1, <2>0, <3>2
      <4>2. x \in C /\ x - 1 \notin C /\ x \in Int
        BY <1>0, <4>1
      <4>3. x - 1 \notin s..(e - 1)
        BY <1>0, <1>8, <3>2, <4>1, <4>2
      <4> QED
        BY <4>2, <4>3
    <3> QED
      BY <3>1, <3>2
  <2>2. ASSUME NEW x \in D, x - 1 \notin D PROVE x \in DOMAIN r
    <3>0. x \in 0..(n - 1)
      BY <1>9
    <3>1. CASE x = s
      BY <1>1, <2>0, <3>1, <1>0
    <3>2. CASE s < x
      <4>1. ~(x - 1 \in s..(end - 1)) /\ x # end
        BY <1>10, <1>11, <2>2
      <4>2. end < x
        BY <1>0, <1>8, <3>0, <3>2, <4>1
      <4>3. x \in C /\ x - 1 \notin C /\ x # i
        BY <1>0, <1>8, <2>2, <3>0, <4>2
      <4>4. x \in DOMAIN f
        BY <4>3 DEF Runs
      <4> QED
        BY <1>1, <2>0, <4>2, <4>3, <4>4
    <3>3. CASE x < s
      <4>1. x \in C /\ x - 1 \notin C /\ x # i
        BY <1>0, <2>2, <3>0, <3>3
      <4>2. x \in DOMAIN f
        BY <4>1 DEF Runs
      <4> QED
        BY <1>0, <1>1, <2>0, <3>0, <3>3, <4>1, <4>2
    <3> QED
      BY <1>0, <3>0, <3>1, <3>2, <3>3
  <2> HIDE DEF r, D
  <2> QED
    BY <2>1, <2>2
<1>14. ASSUME NEW j \in DOMAIN r
       PROVE  r[j] \in 0..n /\ j < r[j] /\ r[j] \notin D /\ j..(r[j] - 1) \subseteq D
  <2>1. CASE j = s
    <3>1. r[j] = end
      BY <2>1
    <3>2. s < end
      BY <1>0, <1>8
    <3> HIDE DEF r, D
    <3> QED
      BY <1>8, <1>10, <1>11, <2>1, <3>1, <3>2
  <2>2. CASE j # s
    <3>1. j \in DOMAIN f /\ r[j] = g[j] /\ (j <= s \/ end < j) /\ j # i
      BY <1>0, <1>1, <1>8, <2>2
    <3>2. r[j] = f[j]
      BY <1>4, <2>2, <3>1
    <3>3. /\ j \in 0..n /\ f[j] \in 0..n /\ j < f[j] /\ f[j] \notin C
          /\ j..(f[j] - 1) \subseteq C
      BY <1>0, <3>1
    <3>4. f[j] \notin s..(e - 1)
      BY <1>0, <1>8, <2>2, <3>1, <3>3
    <3> HIDE DEF r
    <3> QED
      BY <3>2, <3>3, <3>4
  <2> QED
    BY <2>1, <2>2
<1>15. sanitize(g, s) = r
  BY DEF sanitize, end, later
<1> HIDE DEF r, D
<1>16. Runs(r, D, n)
  BY <1>9, <1>13, <1>14 DEF Runs
<1> QED
  BY <1>15, <1>16 DEF D, g

\* add_part, whichever intervals the new one touches.
LEMMA AddPartRuns ==
  ASSUME NEW n \in Nat, NEW f, NEW C, Runs(f, C, n), NEW a \in 0..n, NEW b \in 0..n
  PROVE  Runs(add_part(f, a, b), C \cup a..(b - 1), n)
<1> DEFINE touched == {j \in From(f, a) : a <= f[j] /\ j <= b}
           i       == Min(touched)
           rest    == [j \in DOMAIN f \ {i} |-> f[j]]
           D       == C \cup a..(b - 1)
<1>0. /\ C \subseteq 0..(n - 1)
      /\ DOMAIN f = {j \in C : j - 1 \notin C}
      /\ \A j \in DOMAIN f : /\ j \in 0..(n - 1) /\ j \in C /\ j - 1 \notin C
                             /\ f[j] \in 0..n /\ j < f[j] /\ f[j] \notin C
                             /\ j..(f[j] - 1) \subseteq C
  BY Zenon DEF Runs
<1>1. CASE b <= a
  <2>1. D = C
    BY <1>1
  <2>2. add_part(f, a, b) = f
    BY <1>1 DEF add_part
  <2> QED
    BY <2>1, <2>2, Zenon
<1>2. ASSUME NEW j \in DOMAIN f, a <= f[j], j <= b PROVE j \in touched
  <2>1. ASSUME NEW k \in DOMAIN f, j < k PROVE a <= k
    <3>1. f[j] < k
      BY <2>1, RunsApart
    <3> QED
      BY <1>0, <1>2, <3>1
  <2> QED
    BY <1>2, <2>1 DEF From
<1>3. \A j \in touched : j \in DOMAIN f /\ a <= f[j] /\ j <= b
  BY DEF From
<1> HIDE DEF touched
<1>4. CASE a < b /\ touched = {}
  <2>1. \A j \in DOMAIN f : f[j] < a \/ b < j
    BY <1>0, <1>2, <1>4
  <2>2. \A x \in C : x < a - 1 \/ b < x
    <3> SUFFICES ASSUME NEW x \in C PROVE x < a - 1 \/ b < x
      OBVIOUS
    <3>1. PICK j \in DOMAIN f : j <= x /\ x < f[j] /\ j \in Nat
      BY InRun
    <3> QED
      BY <1>0, <2>1, <3>1
  <2> DEFINE r == With(f, a, b)
  <2>3. DOMAIN r = DOMAIN f \cup {a} /\ r[a] = b /\ \A j \in DOMAIN f : j # a => r[j] = f[j]
    BY DEF With
  <2> HIDE DEF r
  <2>4. a \in D /\ a - 1 \notin D /\ b \notin D /\ D \subseteq 0..(n - 1)
    BY <1>0, <1>4, <2>2
  <2>5. DOMAIN r \subseteq {x \in D : x - 1 \notin D}
    <3> SUFFICES ASSUME NEW x \in DOMAIN f PROVE x \in D /\ x - 1 \notin D
      BY <2>3, <2>4
    <3>1. x \in C /\ x - 1 \notin C /\ (f[x] < a \/ b < x) /\ x \in Int /\ x < f[x] /\ f[x] \in Int
      BY <1>0, <2>1
    <3> QED
      BY <1>4, <3>1
  <2>6. {x \in D : x - 1 \notin D} \subseteq DOMAIN r
    <3> SUFFICES ASSUME NEW x \in D, x - 1 \notin D, x # a PROVE x \in DOMAIN f
      BY <2>3
    <3>1. x \in C
      BY <1>4
    <3> QED
      BY <1>0, <3>1
  <2>7. ASSUME NEW j \in DOMAIN f, j # a
        PROVE  r[j] \in 0..n /\ j < r[j] /\ r[j] \notin D /\ j..(r[j] - 1) \subseteq D
    <3>1. r[j] = f[j] /\ (f[j] < a \/ b < j)
      BY <2>1, <2>3, <2>7
    <3>2. f[j] \notin a..(b - 1)
      BY <1>0, <1>4, <3>1
    <3> QED
      BY <1>0, <3>1, <3>2
  <2>8. r[a] \in 0..n /\ a < r[a] /\ r[a] \notin D /\ a..(r[a] - 1) \subseteq D
    BY <1>4, <2>3, <2>4
  <2>9. add_part(f, a, b) = r
    BY <1>4 DEF add_part, touched, r
  <2> HIDE DEF D
  <2>10. Runs(r, D, n)
    BY <2>3, <2>4, <2>5, <2>6, <2>7, <2>8 DEF Runs
  <2> QED
    BY <2>9, <2>10 DEF D
<1>5. CASE a < b /\ touched # {}
  <2>1. i \in touched /\ \A j \in touched : i <= j
    BY <1>0, <1>3, <1>5, LeastNumber
  <2> DEFINE e == Max({b, f[i]})
             s == IF i <= a THEN i ELSE a
             g == [j \in (DOMAIN f \ {i}) \cup {s} |-> IF j = s THEN e ELSE f[j]]
  <2> HIDE DEF i
  <2>2. i \in DOMAIN f /\ a <= f[i] /\ i <= b /\ i \in 0..(n - 1) /\ f[i] \in 0..n /\ i < f[i]
        /\ i..(f[i] - 1) \subseteq C
    BY <1>0, <1>3, <2>1
  <2>3. e \in {b, f[i]} /\ b <= e /\ f[i] <= e
    <3>1. b \in Int /\ f[i] \in Int
      BY <2>2
    <3> QED
      BY <3>1, MaxOfTwo, Zenon
  <2> HIDE DEF e
  <2>4. e \in 0..n /\ s \in 0..i /\ s < e /\ i <= e
    BY <1>5, <2>2, <2>3
  <2>5. ASSUME NEW j \in DOMAIN f, j < s PROVE f[j] < s
    <3>1. j < i /\ j \in 0..(n - 1) /\ j < a
      BY <1>0, <2>2, <2>5
    <3>2. CASE i <= a
      <4>1. f[j] < i
        BY <3>1, <2>2, RunsApart
      <4> QED
        BY <3>2, <4>1
    <3>3. CASE ~(i <= a)
      <4>1. j \notin touched
        BY <2>1, <2>2, <3>1
      <4>2. ~(a <= f[j])
        BY <1>2, <1>5, <3>1, <4>1
      <4> QED
        BY <1>0, <3>3, <4>2
    <3> QED
      BY <3>2, <3>3
  <2>6. Runs(sanitize(g, s), C \cup s..(e - 1), n)
    <3> HIDE DEF s
    <3> QED
      BY <2>2, <2>3, <2>4, <2>5, SanitizeRuns
  <2>7. C \cup s..(e - 1) = D
    <3>1. ASSUME NEW x \in s..(e - 1) PROVE x \in D
      <4>1. x \in i..(f[i] - 1) \/ x \in a..(b - 1)
        BY <2>2, <2>3, <2>4
      <4> QED
        BY <2>2, <4>1
    <3>2. a..(b - 1) \subseteq s..(e - 1)
      BY <2>2, <2>3, <2>4
    <3> HIDE DEF s
    <3> QED
      BY <3>1, <3>2
  <2>8. add_part(f, a, b) = sanitize(g, s)
    <3>1. CASE i <= a
      <4>1. With(f, i, e) = g
        BY <2>2, <3>1 DEF With
      <4>2. add_part(f, a, b) = sanitize(With(f, i, e), i)
        BY <1>5, <3>1 DEF add_part, touched, i, e
      <4> QED
        BY <3>1, <4>1, <4>2
    <3>2. CASE ~(i <= a)
      <4>1. With(rest, a, e) = g
        BY <2>2, <3>2 DEF With
      <4>2. add_part(f, a, b) = sanitize(With(rest, a, e), a)
        BY <1>5, <3>2 DEF add_part, touched, i, e
      <4> QED
        BY <3>2, <4>1, <4>2
    <3> QED
      BY <3>1, <3>2
  <2> QED
    BY <2>6, <2>7, <2>8
<1> QED
  BY <1>1, <1>4, <1>5

\* No parts, no bytes.
LEMMA NoPartsRuns ==
  ASSUME NEW n \in Nat
  PROVE  Runs(NoParts, {}, n)
BY DEF Runs, NoParts

\* PartInfo: the intervals are the maximal runs of the bytes that were added, so that a
\* message counts as complete exactly when all of it has arrived, in whichever order and
\* however often its parts came.
THEOREM IntervalsAreMaximal == PartSpec => []MaximalRuns
<1> DEFINE Inv == Runs(info, covered, MessageSize)
<1>1. PartInit => Inv
  BY MessageSizeAssumption, NoPartsRuns DEF PartInit
<1>2. Inv /\ [PartNext]_partVars => Inv'
  <2> SUFFICES ASSUME Inv, [PartNext]_partVars PROVE Inv'
    OBVIOUS
  <2>1. CASE PartNext
    <3>1. PICK start, end \in 0..MessageSize :
            info' = add_part(info, start, end) /\ covered' = covered \cup start..(end - 1)
      BY <2>1 DEF PartNext, AddPart
    <3> QED
      BY <3>1, MessageSizeAssumption, AddPartRuns
  <2>2. CASE UNCHANGED partVars
    BY <2>2 DEF partVars
  <2> QED
    BY <2>1, <2>2
<1>3. Inv => MaximalRuns
  BY DEF Runs, MaximalRuns
<1> QED
  BY <1>1, <1>2, <1>3, PTL DEF PartSpec
===============================================================================
