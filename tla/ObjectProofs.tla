----------------------------- MODULE ObjectProofs -----------------------------
(***************************************************************************)
(* The objects that a transport is made of: the AckSet, the alarm and the  *)
(* cyclic queue.                                                           *)
(*                                                                         *)
(* An AckSet loses nothing, for any width of the mask, any number of       *)
(* sequence numbers and any first one.  Exact is not inductive: it does    *)
(* not say why the numbers that a shift pushes out of the mask were added. *)
(* AckSetInv does: from the first number on, the mask is the picture of    *)
(* the last Bits numbers, and below it there is no gap.                    *)
(*                                                                         *)
(* The alarm keeps its promise for any durations and any number of calls.  *)
(* OneWait alone is not inductive and says nothing of time.  AlarmInv      *)
(* adds, for every state of the alarm, which waits it can have and when    *)
(* on_expire may be called: never before the wait of a running alarm       *)
(* expires.                                                                *)
(*                                                                         *)
(* A cycle visits every entry of the queue once, for any number of         *)
(* entries.  VisitsOnce does not say what the end of the cycle is while it *)
(* goes on.  QueueInv does: the first entry that was kept; and that the    *)
(* list has no entry twice, so that the entries name positions.            *)
(***************************************************************************)
EXTENDS AckSetObject, Alarm, CyclicQueueObject, TLAPS, SequenceTheorems

Positions == 0..(Bits - 1)

\* What a set with the given highest and lowest number and mask says of `numbers'.
Pictures(highest, lowest, mask, numbers) ==
  /\ highest \in SequenceNumber /\ lowest \in SequenceNumber /\ mask \subseteq Positions
  /\ lowest <= highest
  /\ lowest \in numbers /\ highest \in numbers
  /\ numbers \subseteq SequenceNumber
  /\ \A sn \in numbers : sn <= highest
  /\ \A b \in Positions : lowest <= highest - b => (b \in mask <=> highest - b \in numbers)
  /\ \A sn \in SequenceNumber : lowest <= sn /\ sn < highest - (Bits - 1) => sn \in numbers

AckSetInv ==
  /\ acks \in AckSets
  /\ late \in BOOLEAN
  /\ acks.mask = {} <=> added = {}
  /\ added # {} /\ ~late => Pictures(acks.highest, acks.lowest, acks.mask, added)

\* Unsigned arithmetic that does not wrap around.
LEMMA ModSmall ==
  ASSUME NEW a \in Int, NEW n \in Nat, 0 <= a, a < n
  PROVE  a % n = a
OBVIOUS

\* Unsigned arithmetic that wraps around once.
LEMMA ModWrapped ==
  ASSUME NEW a \in Int, NEW n \in Nat, n <= a, a < 2 * n
  PROVE  a % n = a - n
OBVIOUS

\* highest + i and lowest + i of can_add: the sum, or less than the number that is added to.
LEMMA PlusFacts ==
  ASSUME NEW a \in SequenceNumber, NEW b \in Positions
  PROVE  /\ Plus(a, b) \in Int
         /\ a + b < Modulus => Plus(a, b) = a + b
         /\ ~(a + b < Modulus) => Plus(a, b) < a
<1>1. a \in Int /\ b \in Int /\ 0 <= a /\ 0 <= b /\ a < Modulus /\ b < Modulus
        /\ Modulus \in Nat
  BY AckSetAssumption DEF SequenceNumber, Positions
<1>2. CASE a + b < Modulus
  <2>1. (a + b) % Modulus = a + b
    BY <1>1, <1>2, ModSmall
  <2> QED
    BY <1>1, <1>2, <2>1 DEF Plus
<1>3. CASE ~(a + b < Modulus)
  <2>0. a + b \in Int /\ Modulus <= a + b /\ a + b < 2 * Modulus
    BY <1>1, <1>3
  <2>1. (a + b) % Modulus = (a + b) - Modulus
    BY <1>1, <2>0, ModWrapped, Zenon
  <2> QED
    BY <1>1, <1>3, <2>1 DEF Plus
<1> QED
  BY <1>2, <1>3

\* Unsigned arithmetic below zero.
LEMMA ModNegative ==
  ASSUME NEW a \in Int, NEW n \in Nat, 0 - n <= a, a < 0
  PROVE  a % n = a + n
OBVIOUS

\* highest - 31 does not wrap around when it is at least zero; else it is above the highest.
LEMMA MinusFacts ==
  ASSUME NEW a \in SequenceNumber
  PROVE  /\ Minus(a, Bits - 1) \in Int
         /\ Bits - 1 <= a => Minus(a, Bits - 1) = a - (Bits - 1)
         /\ a < Bits - 1 => a < Minus(a, Bits - 1)
<1>1. /\ a \in Int /\ 0 <= a /\ a < Modulus /\ Modulus \in Nat /\ Bits \in Int /\ 0 < Bits
      /\ Bits < Modulus
  BY AckSetAssumption DEF SequenceNumber
<1>2. CASE Bits - 1 <= a
  <2>1. a - (Bits - 1) \in Int /\ 0 <= a - (Bits - 1) /\ a - (Bits - 1) < Modulus
    BY <1>1, <1>2
  <2>2. Minus(a, Bits - 1) = a - (Bits - 1)
    BY <1>1, <2>1, ModSmall DEF Minus
  <2> QED
    BY <1>1, <1>2, <2>2
<1>3. CASE a < Bits - 1
  <2>1. a - (Bits - 1) \in Int /\ 0 - Modulus <= a - (Bits - 1) /\ a - (Bits - 1) < 0
    BY <1>1, <1>3
  <2>2. Minus(a, Bits - 1) = a - (Bits - 1) + Modulus
    BY <1>1, <2>1, ModNegative DEF Minus
  <2> QED
    BY <1>1, <1>3, <2>2
<1> QED
  BY <1>1, <1>2, <1>3

\* A number that is not above the highest one: recorded, below the first or the mask, or there.
LEMMA AddOld ==
  ASSUME NEW h, NEW l, NEW mask, NEW numbers, Pictures(h, l, mask, numbers),
         NEW sn \in SequenceNumber, sn <= h
  PROVE  /\ sn < h - (Bits - 1) \/ sn < l \/ sn \in numbers =>
              Pictures(h, l, mask, numbers \cup {sn})
         /\ h - (Bits - 1) <= sn => Pictures(h, l, mask \cup {h - sn}, numbers \cup {sn})
<1>1. /\ h \in Int /\ l \in Int /\ sn \in Int /\ Bits \in Nat \ {0} /\ Modulus \in Nat
      /\ 0 <= sn
  BY AckSetAssumption DEF Pictures, SequenceNumber
<1>2. ASSUME sn < h - (Bits - 1) \/ sn < l
      PROVE  \A b \in Positions : l <= h - b => (b \in mask <=> h - b \in numbers \cup {sn})
  <2> SUFFICES ASSUME NEW b \in Positions, l <= h - b PROVE h - b # sn
    BY DEF Pictures
  <2> QED
    BY <1>1, <1>2 DEF Positions
<1>3. ASSUME h - (Bits - 1) <= sn
      PROVE  /\ h - sn \in Positions
             /\ \A b \in Positions : l <= h - b =>
                  (b \in mask \cup {h - sn} <=> h - b \in numbers \cup {sn})
  <2>1. h - sn \in Positions
    BY <1>1, <1>3 DEF Positions
  <2>2. ASSUME NEW b \in Positions PROVE b = h - sn <=> h - b = sn
    BY <1>1 DEF Positions
  <2> QED
    BY <2>1, <2>2 DEF Pictures
<1>4. ASSUME sn \in numbers PROVE numbers \cup {sn} = numbers
  BY <1>4
<1> QED
  BY <1>1, <1>2, <1>3, <1>4 DEF Pictures

\* A new highest number: the mask is shifted, and what is pushed out was added.
LEMMA AddNew ==
  ASSUME NEW h, NEW l, NEW mask, NEW numbers, Pictures(h, l, mask, numbers),
         NEW sn \in SequenceNumber, h < sn, sn <= Plus(h, Bits - 1),
         \A i \in (Bits - (sn - h))..(Bits - 1) : i \in mask \/ h <= Plus(l, i)
  PROVE  Pictures(sn, l, {0} \cup {b \in 0..(Bits - 1) : b - (sn - h) \in mask},
                  numbers \cup {sn})
<1> DEFINE shifted == {0} \cup {b \in 0..(Bits - 1) : b - (sn - h) \in mask}
<1>1. /\ h \in Int /\ l \in Int /\ sn \in Int /\ Bits \in Nat \ {0} /\ Modulus \in Nat
      /\ 0 <= h /\ 0 <= l /\ l <= h /\ h \in SequenceNumber /\ l \in SequenceNumber
      /\ Bits - 1 \in Positions
  BY AckSetAssumption DEF Pictures, SequenceNumber, Positions
<1>2. sn - h <= Bits - 1
  <2>1. /\ Plus(h, Bits - 1) \in Int
        /\ h + (Bits - 1) < Modulus => Plus(h, Bits - 1) = h + (Bits - 1)
        /\ ~(h + (Bits - 1) < Modulus) => Plus(h, Bits - 1) < h
    BY <1>1, PlusFacts
  <2> QED
    BY <1>1, <2>1
<1>3. shifted \subseteq Positions
  BY <1>1 DEF Positions
<1>4. \A b \in Positions : l <= sn - b => (b \in shifted <=> sn - b \in numbers \cup {sn})
  <2> SUFFICES ASSUME NEW b \in Positions, l <= sn - b
               PROVE  b \in shifted <=> sn - b \in numbers \cup {sn}
    OBVIOUS
  <2>0. b \in Int /\ 0 <= b /\ b <= Bits - 1 /\ l <= sn - b
    BY <1>1 DEF Positions
  <2>1. CASE b = 0
    BY <1>1, <2>1
  <2>2. CASE 0 < b /\ b < sn - h
    <3>1. b - (sn - h) \notin mask
      BY <1>1, <2>0, <2>2 DEF Pictures, Positions
    <3>2. sn - b \notin numbers /\ sn - b # sn
      BY <1>1, <2>0, <2>2 DEF Pictures
    <3> QED
      BY <2>2, <3>1, <3>2, <2>0
  <2>3. CASE sn - h <= b
    <3>1. b - (sn - h) \in Positions /\ h - (b - (sn - h)) = sn - b /\ b # 0
      BY <1>1, <2>0, <2>3 DEF Positions
    <3>2. b - (sn - h) \in mask <=> sn - b \in numbers
      BY <2>0, <3>1, Zenon DEF Pictures
    <3> QED
      BY <1>1, <2>0, <3>1, <3>2 DEF Positions
  <2> QED
    BY <1>1, <2>0, <2>1, <2>2, <2>3
<1>5. ASSUME NEW x \in SequenceNumber, l <= x, x < sn - (Bits - 1)
      PROVE  x \in numbers
  <2>0. x \in Int /\ 0 <= x
    BY DEF SequenceNumber
  <2>1. CASE x < h - (Bits - 1)
    BY <1>5, <2>1 DEF Pictures
  <2>2. CASE h - (Bits - 1) <= x
    <3>1. h - x \in (Bits - (sn - h))..(Bits - 1) /\ h - x \in Positions
      BY <1>1, <1>2, <1>5, <2>0, <2>2 DEF Positions
    <3>2. CASE h - x \in mask
      <4>1. h - (h - x) = x
        BY <1>1, <2>0
      <4> QED
        BY <1>5, <3>1, <3>2, <4>1 DEF Pictures
    <3>3. CASE h <= Plus(l, h - x)
      <4>0. /\ Plus(l, h - x) \in Int
            /\ l + (h - x) < Modulus => Plus(l, h - x) = l + (h - x)
            /\ ~(l + (h - x) < Modulus) => Plus(l, h - x) < l
        BY <1>1, <3>1, PlusFacts
      <4>1. x = l
        BY <1>1, <1>5, <2>0, <3>3, <4>0
      <4> QED
        BY <4>1 DEF Pictures
    <3> QED
      BY <3>1, <3>2, <3>3
  <2> QED
    BY <1>1, <2>0, <2>1, <2>2
<1>6. \A x \in numbers \cup {sn} : x <= sn /\ x \in SequenceNumber
  BY <1>1 DEF Pictures, SequenceNumber
<1> HIDE DEF shifted
<1>7. Pictures(sn, l, shifted, numbers \cup {sn})
  BY <1>1, <1>3, <1>4, <1>5, <1>6 DEF Pictures
<1> QED
  BY <1>7 DEF shifted

\* try_add leaves an AckSet with the same first number, and not empty.
LEMMA AddTypes ==
  ASSUME NEW a \in AckSets, NEW sn \in SequenceNumber
  PROVE  /\ try_add(a, sn) \in AckSets
         /\ try_add(a, sn).mask # {}
         /\ a.mask # {} => try_add(a, sn).lowest = a.lowest
<1> DEFINE h == a.highest
           l == a.lowest
           mask == a.mask
           shifted == {0} \cup {b \in 0..(Bits - 1) : b - (sn - h) \in mask}
<1>0. /\ Bits \in Nat \ {0} /\ h \in SequenceNumber /\ h \in Int /\ sn \in Int
      /\ 0 \in 0..(Bits - 1) /\ mask \subseteq 0..(Bits - 1) /\ l \in SequenceNumber
      /\ a = [highest |-> h, lowest |-> l, mask |-> mask]
  BY AckSetAssumption DEF AckSets, SequenceNumber
<1>1. CASE mask = {}
  <2>1. try_add(a, sn) = [highest |-> sn, lowest |-> sn, mask |-> {0}]
    BY <1>1 DEF try_add
  <2>2. {0} \subseteq 0..(Bits - 1)
    BY <1>0
  <2> QED
    BY <1>1, <2>1, <2>2 DEF AckSets
<1>2. CASE mask # {} /\ try_add(a, sn) = a
  BY <1>2
<1>3. CASE mask # {} /\ try_add(a, sn) = [highest |-> h, lowest |-> l, mask |-> mask \cup {h - sn}]
           /\ sn < h /\ ~(sn < Minus(h, Bits - 1))
  <2>1. /\ Minus(h, Bits - 1) \in Int
        /\ Bits - 1 <= h => Minus(h, Bits - 1) = h - (Bits - 1)
        /\ h < Bits - 1 => h < Minus(h, Bits - 1)
    BY <1>0, MinusFacts
  <2>2. h - sn \in 0..(Bits - 1)
    BY <1>0, <1>3, <2>1
  <2>3. mask \cup {h - sn} \subseteq 0..(Bits - 1)
    BY <1>0, <2>2
  <2> HIDE DEF h, l, mask
  <2> QED
    BY <1>0, <1>3, <2>3 DEF AckSets, l, mask
<1>4. CASE mask # {} /\ try_add(a, sn) = [a EXCEPT !.highest = sn, !.mask = shifted]
  <2>1. shifted \subseteq 0..(Bits - 1) /\ shifted # {}
    BY <1>0
  <2> HIDE DEF shifted
  <2>2. [a EXCEPT !.highest = sn, !.mask = shifted] \in AckSets
    BY <2>1, Zenon DEF AckSets
  <2>3. /\ [a EXCEPT !.highest = sn, !.mask = shifted].mask = shifted
        /\ [a EXCEPT !.highest = sn, !.mask = shifted].lowest = a.lowest
    BY DEF AckSets
  <2> QED
    BY <1>4, <2>1, <2>2, <2>3, Zenon
<1>5. \/ mask = {}
      \/ mask # {} /\ try_add(a, sn) = a
      \/ /\ mask # {} /\ try_add(a, sn) = [a EXCEPT !.mask = mask \cup {-(sn - h)}]
         /\ sn < h /\ ~(sn < Minus(h, Bits - 1))
      \/ mask # {} /\ try_add(a, sn) = [a EXCEPT !.highest = sn, !.mask = shifted]
  BY DEF try_add
<1>6. -(sn - h) = h - sn
  BY <1>0
<1>7. [a EXCEPT !.mask = mask \cup {h - sn}] =
        [highest |-> h, lowest |-> l, mask |-> mask \cup {h - sn}]
  <2> HIDE DEF h, l, mask
  <2>1. a = [highest |-> h, lowest |-> l, mask |-> mask]
    BY <1>0
  <2> QED
    BY <2>1, SMTT(20)
<1> HIDE DEF shifted, h, l, mask
<1> QED
  BY <1>1, <1>2, <1>3, <1>4, <1>5, <1>6, <1>7, Zenon DEF l, mask

\* try_add keeps the mask a picture of the numbers it accepted.
LEMMA AddStep ==
  ASSUME AckSetInv, NEW sn \in SequenceNumber, Add(sn)
  PROVE  AckSetInv'
<1> DEFINE h == acks.highest
           l == acks.lowest
           mask == acks.mask
<1>0. Bits \in Nat \ {0} /\ Modulus \in Nat /\ acks' = try_add(acks, sn) /\ acks \in AckSets
      /\ acks = [highest |-> h, lowest |-> l, mask |-> mask]
      /\ h \in SequenceNumber /\ l \in SequenceNumber /\ h \in Int /\ l \in Int /\ sn \in Int
  BY AckSetAssumption DEF Add, AckSetInv, AckSets, SequenceNumber
<1>1. acks' \in AckSets /\ acks'.mask # {} /\ late' \in BOOLEAN /\ added' # {}
  <2>1. acks' \in AckSets /\ acks'.mask # {}
    BY <1>0, AddTypes, Zenon
  <2>2. added' # {}
    BY DEF Add, AckSetInv, can_add
  <2> QED
    BY <2>1, <2>2 DEF Add
<1> SUFFICES ASSUME ~late'
             PROVE  Pictures(acks'.highest, acks'.lowest, acks'.mask, added')
  BY <1>1 DEF AckSetInv
<1>2. ~late
  BY Zenon DEF Add
<1>3. CASE mask = {}
  <2>1. added' = {sn}
    BY <1>3 DEF Add, can_add, AckSetInv
  <2>2. acks' = [highest |-> sn, lowest |-> sn, mask |-> {0}]
    BY <1>0, <1>3 DEF try_add
  <2>3. 0 \in Positions /\ {0} \subseteq Positions
    BY <1>0 DEF Positions
  <2>4. \A b \in Positions : b \in {0} <=> sn - b \in {sn}
    BY <1>0, <2>3 DEF Positions
  <2>5. Pictures(sn, sn, {0}, {sn})
    BY <1>0, <2>3, <2>4 DEF Pictures, SequenceNumber, Positions
  <2> QED
    BY <2>1, <2>2, <2>5
<1>4. ASSUME mask # {} PROVE Pictures(h, l, mask, added) /\ added # {}
  BY <1>2, <1>4 DEF AckSetInv
<1>5. CASE mask # {} /\ sn <= h
  <2>1. added' = added \cup {sn}
    BY <1>5 DEF Add, can_add
  <2>2. /\ Minus(h, Bits - 1) \in Int
        /\ Bits - 1 <= h => Minus(h, Bits - 1) = h - (Bits - 1)
        /\ h < Bits - 1 => h < Minus(h, Bits - 1)
    BY <1>0, MinusFacts
  <2>3. /\ sn < h - (Bits - 1) \/ sn < l \/ sn \in added => Pictures(h, l, mask, added')
        /\ h - (Bits - 1) <= sn => Pictures(h, l, mask \cup {h - sn}, added')
    <3> HIDE DEF h, l, mask
    <3> QED
      BY <1>4, <1>5, <2>1, AddOld
  <2>4. CASE sn = h \/ sn < Minus(h, Bits - 1)
    <3>1. acks' = acks
      BY <1>0, <1>5, <2>4 DEF try_add
    <3>2. CASE sn = h
      <4>1. sn \in added
        BY <1>4, <1>5, <3>2 DEF Pictures
      <4> QED
        BY <2>3, <3>1, <4>1
    <3>3. CASE sn < h - (Bits - 1)
      BY <2>3, <3>1, <3>3
    <3>4. CASE h < Bits - 1
      <4>1. ~(sn \in Span \ added)
        BY <1>4, <1>5, <3>4, Zenon DEF Add
      <4>2. sn < l \/ sn \in added
        BY <1>0, <1>5, <4>1 DEF Span
      <4> QED
        BY <2>3, <3>1, <4>2
    <3> QED
      BY <1>0, <2>2, <2>4, <3>2, <3>3, <3>4
  <2>5. CASE ~(sn = h) /\ ~(sn < Minus(h, Bits - 1))
    <3>1. acks' = [acks EXCEPT !.mask = mask \cup {-(sn - h)}]
      BY <1>0, <1>5, <2>5 DEF try_add
    <3>2. -(sn - h) = h - sn /\ h - (Bits - 1) <= sn
      BY <1>0, <1>5, <2>2, <2>5
    <3> HIDE DEF h, l, mask
    <3>3. acks' = [highest |-> h, lowest |-> l, mask |-> mask \cup {h - sn}]
      BY <1>0, <3>1, <3>2, Zenon
    <3> QED
      BY <2>3, <3>2, <3>3
  <2> QED
    BY <2>4, <2>5
<1>6. CASE mask # {} /\ h < sn /\ can_add(acks, sn)
  <2>1. added' = added \cup {sn}
    BY <1>6 DEF Add
  <2>2. sn <= Plus(h, Bits - 1) /\ MayShift(acks, sn - h)
    BY <1>0, <1>6 DEF can_add
  <2> DEFINE shifted == {0} \cup {b \in 0..(Bits - 1) : b - (sn - h) \in mask}
  <2>3. acks' = [highest |-> sn, lowest |-> l, mask |-> shifted]
    <3>1. ~(sn = h) /\ ~(sn < h)
      BY <1>0, <1>6
    <3>2. acks' = [acks EXCEPT !.highest = sn, !.mask = shifted]
      BY <1>0, <1>6, <3>1 DEF try_add
    <3> HIDE DEF shifted, h, mask
    <3> QED
      BY <1>0, <3>2, Zenon
  <2>4. \A i \in (Bits - (sn - h))..(Bits - 1) : i \in mask \/ h <= Plus(l, i)
    BY <2>2 DEF MayShift
  <2>5. Pictures(sn, l, shifted, added')
    <3> HIDE DEF h, l, mask
    <3> QED
      BY <1>4, <1>6, <2>1, <2>2, <2>4, AddNew
  <2> HIDE DEF shifted, l
  <2> QED
    BY <2>3, <2>5
<1>7. CASE mask # {} /\ h < sn /\ ~can_add(acks, sn)
  <2>1. acks' = acks /\ added' = added
    BY <1>0, <1>7 DEF try_add, Add
  <2> QED
    BY <1>4, <1>7, <2>1
<1> HIDE DEF h, mask
<1> QED
  BY <1>0, <1>3, <1>5, <1>6, <1>7

\* The invariant of an AckSet.
LEMMA AckSetInvariant == AckSetSpec => []AckSetInv
<1>1. AckSetInit => AckSetInv
  <2> SUFFICES ASSUME AckSetInit PROVE AckSetInv
    OBVIOUS
  <2>1. acks \in AckSets /\ acks.mask = {}
    BY AckSetAssumption DEF AckSetInit, EmptyAckSet, AckSets, SequenceNumber
  <2> QED
    BY <2>1, Zenon DEF AckSetInit, AckSetInv
<1>2. AckSetInv /\ [AckSetNext]_ackSetVars => AckSetInv'
  <2> SUFFICES ASSUME AckSetInv, [AckSetNext]_ackSetVars PROVE AckSetInv'
    OBVIOUS
  <2>1. CASE AckSetNext
    BY <2>1, AddStep DEF AckSetNext
  <2>2. CASE UNCHANGED ackSetVars
    BY <2>2 DEF ackSetVars, AckSetInv
  <2> QED
    BY <2>1, <2>2
<1> QED
  BY <1>1, <1>2, PTL DEF AckSetSpec

\* AckSet::is_in is true of exactly the numbers that try_add accepted and those below
\* the first one, which may be any, 0 included: the 32 bits that are sent to the peer
\* acknowledge nothing that has not arrived, and no shift forgets what is missing.
\* The exception is a number that is missing while the highest one is below 31.
THEOREM AcksAreExact == AckSetSpec => []Exact
<1>1. AckSetInv => Exact
  <2> SUFFICES ASSUME AckSetInv, added # {}, ~late,
                      acks.highest < Bits - 1 => Span \subseteq added,
                      NEW sn \in SequenceNumber
               PROVE  is_in(acks, sn) <=> (sn \in added \/ sn < acks.lowest)
    BY DEF Exact
  <2> DEFINE h == acks.highest
             l == acks.lowest
             mask == acks.mask
  <2>1. Pictures(h, l, mask, added) /\ mask # {}
    BY DEF AckSetInv
  <2>2. /\ h \in Int /\ l \in Int /\ sn \in Int /\ Bits \in Nat \ {0}
        /\ h \in SequenceNumber /\ l <= h
    BY <2>1, AckSetAssumption DEF Pictures, SequenceNumber
  <2>3. /\ Minus(h, Bits - 1) \in Int
        /\ Bits - 1 <= h => Minus(h, Bits - 1) = h - (Bits - 1)
        /\ h < Bits - 1 => h < Minus(h, Bits - 1)
    BY <2>2, MinusFacts
  <2>a. CASE h < Bits - 1
    <3>1. is_in(acks, sn) <=> sn <= h
      BY <2>1, <2>2, <2>3, <2>a DEF is_in
    <3>2. l <= sn /\ sn <= h => sn \in added
      BY <2>2, <2>a DEF Span
    <3>3. sn \in added => sn <= h
      BY <2>1 DEF Pictures
    <3> QED
      BY <2>2, <3>1, <3>2, <3>3
  <2> SUFFICES ASSUME Bits - 1 <= h PROVE is_in(acks, sn) <=> (sn \in added \/ sn < l)
    BY <2>2, <2>a
  <2>4. is_in(acks, sn) <=> sn <= h /\ (sn < h - (Bits - 1) \/ sn < l \/ h - sn \in mask)
    BY <2>1, <2>3 DEF is_in
  <2> HIDE DEF h, l, mask
  <2>5. h - sn \in mask => sn \in added \/ sn < l
    <3>1. h - (h - sn) = sn
      BY <2>2
    <3> QED
      BY <2>1, <2>2, <3>1 DEF Pictures
  <2>6. sn < h - (Bits - 1) => sn < l \/ sn \in added
    BY <2>1, <2>2 DEF Pictures
  <2>7. sn \in added => sn <= h /\ (sn < h - (Bits - 1) \/ sn < l \/ h - sn \in mask)
    <3>1. CASE sn < h - (Bits - 1)
      BY <2>2, <3>1
    <3>2. CASE ~(sn < h - (Bits - 1))
      <4> SUFFICES ASSUME sn \in added, l <= sn PROVE sn <= h /\ h - sn \in mask
        BY <2>1, <2>2 DEF Pictures
      <4>1. sn <= h
        BY <2>1 DEF Pictures
      <4>2. h - sn \in Positions /\ h - (h - sn) = sn
        BY <2>2, <3>2, <4>1 DEF Positions
      <4> QED
        BY <2>1, <4>1, <4>2 DEF Pictures
    <3> QED
      BY <3>1, <3>2
  <2>8. sn < l => sn <= h
    BY <2>2
  <2>9. is_in(acks, sn) <=> (sn \in added \/ sn < l)
    BY <2>4, <2>5, <2>6, <2>7, <2>8
  <2> QED
    BY <2>9 DEF l
<1> QED
  BY <1>1, AckSetInvariant, PTL
-------------------------------------------------------------------------------
States == {"idle", "running", "canceling", "canceling_for_restart"}

\* The alarm is due once, in at most n ticks.
DueWithin(n) == \E d \in Nat : due = {d} /\ d <= n

Consistent ==
  /\ state = "idle" => wait = "none" /\ due = {}
  /\ state = "running" => \/ wait = "pending" /\ DueWithin(left)
                          \/ wait = "expired" /\ due = {0}
  /\ state = "canceling" => wait \in {"expired", "aborted"} /\ due = {}
  /\ state = "canceling_for_restart" =>
       wait \in {"expired", "aborted"} /\ DueWithin(timeout)

AlarmInv ==
  /\ state \in States /\ timeout \in Nat /\ left \in Nat
  /\ destroyed \in BOOLEAN
  /\ early = FALSE
  /\ ~destroyed => Consistent

\* start: the alarm is due after the duration, whatever it was doing.
LEMMA StartStep ==
  ASSUME AlarmInv, ~destroyed, NEW d \in Durations, start(d), due' = {d}
  PROVE  Consistent' /\ state' \in States /\ timeout' \in Nat /\ left' \in Nat
<1>1. d \in Nat
  BY AlarmAssumption
<1>2. due' = {d} /\ d <= d
  BY <1>1
<1>3. CASE state = "idle" /\ Wait(d)
  BY <1>1, <1>2, <1>3 DEF Wait, Consistent, DueWithin, States, AlarmInv
<1>4. CASE /\ state # "idle"
           /\ state' = "canceling_for_restart" /\ timeout' = d
           /\ wait' = IF state = "running" THEN Cancelled ELSE wait
           /\ UNCHANGED left
  <2>1. wait' \in {"expired", "aborted"}
    BY <1>4 DEF Cancelled, AlarmInv, Consistent, States
  <2> QED
    BY <1>1, <1>2, <1>4, <2>1 DEF Consistent, DueWithin, States, AlarmInv
<1> QED
  BY <1>3, <1>4 DEF start

\* stop, also by the destructor: nothing is due any more.
LEMMA StopStep ==
  ASSUME AlarmInv, ~destroyed, stop, due' = {}
  PROVE  Consistent' /\ state' \in States /\ timeout' \in Nat /\ left' \in Nat
<1>1. CASE state = "idle"
  BY <1>1 DEF stop, Consistent, AlarmInv, States
<1>2. CASE state # "idle"
  <2>1. state' = "canceling" /\ wait' \in {"expired", "aborted"}
    BY <1>2 DEF stop, Cancelled, Consistent, AlarmInv, States
  <2> QED
    BY <2>1 DEF stop, Consistent, AlarmInv, States
<1> QED
  BY <1>1, <1>2

\* Time brings the alarm closer, and what is due at least as close.
LEMMA TickStep ==
  ASSUME AlarmInv, Tick
  PROVE  AlarmInv'
<1>1. left' \in Nat
  BY DEF Tick, AlarmInv
<1>2. ASSUME NEW n \in Nat, DueWithin(n)
      PROVE  \E d \in Nat : due' = {d} /\ d <= n /\ d <= IF n > 0 THEN n - 1 ELSE 0
  <2>1. PICK d \in Nat : due = {d} /\ d <= n
    BY <1>2 DEF DueWithin
  <2> DEFINE e == IF d > 0 THEN d - 1 ELSE 0
  <2>2. due' = {e}
    BY <2>1 DEF Tick
  <2>3. e \in Nat /\ e <= n /\ e <= IF n > 0 THEN n - 1 ELSE 0
    BY <2>1
  <2> HIDE DEF e
  <2> QED
    BY <2>2, <2>3
<1>3. due = {} => due' = {}
  BY DEF Tick
<1>4. due = {0} => due' = {0}
  BY DEF Tick
<1>5. DueWithin(left) => DueWithin(left)'
  BY <1>2 DEF Tick, AlarmInv, DueWithin
<1>6. DueWithin(timeout) => DueWithin(timeout)'
  BY <1>2 DEF Tick, AlarmInv, DueWithin
<1>7. UNCHANGED <<state, timeout, destroyed, wait, early>>
  BY DEF Tick
<1> QED
  BY <1>1, <1>3, <1>4, <1>5, <1>6, <1>7 DEF AlarmInv, Consistent

\* on_timeout: on_expire is called only in state running, when it is due.
LEMMA TimeoutStep ==
  ASSUME AlarmInv, ~destroyed, wait \in {"expired", "aborted"}, on_timeout
  PROVE  AlarmInv'
<1>1. CASE state = "running" /\ OnExpire
  <2>1. due = {0} /\ early' = FALSE
    BY <1>1 DEF AlarmInv, Consistent, OnExpire
  <2>2. CASE /\ state' = "idle" /\ wait' = "none" /\ due' = {}
             /\ UNCHANGED <<timeout, destroyed, left>>
    BY <2>1, <2>2 DEF AlarmInv, Consistent, States
  <2>3. ASSUME NEW d \in Durations, Wait(d), due' = {d}, UNCHANGED destroyed
        PROVE  AlarmInv'
    <3>1. d \in Nat /\ d <= d
      BY AlarmAssumption
    <3>2. DueWithin(left)'
      BY <2>3, <3>1 DEF DueWithin, Wait
    <3> QED
      BY <2>1, <2>3, <3>1, <3>2 DEF AlarmInv, Consistent, Wait, States
  <2>4. CASE /\ state' = "idle" /\ wait' = "none" /\ due' = {} /\ destroyed' = TRUE
             /\ UNCHANGED <<timeout, left>>
    BY <2>1, <2>4 DEF AlarmInv, States
  <2> QED
    BY <1>1, <2>2, <2>3, <2>4, Zenon DEF OnExpire
<1>2. CASE /\ state = "canceling"
           /\ state' = "idle" /\ wait' = "none"
           /\ UNCHANGED <<timeout, destroyed, left, calls, due, early>>
  BY <1>2 DEF AlarmInv, Consistent, States
<1>3. CASE /\ state = "canceling_for_restart"
           /\ Wait(timeout)
           /\ UNCHANGED <<destroyed, calls, due, early>>
  <2>1. DueWithin(timeout)
    BY <1>3 DEF AlarmInv, Consistent
  <2>2. DueWithin(left)'
    BY <1>3, <2>1 DEF DueWithin, Wait
  <2> QED
    BY <1>3, <2>2 DEF AlarmInv, Consistent, Wait, States
<1> QED
  BY <1>1, <1>2, <1>3 DEF on_timeout

\* start, stop, the destructor, on_timeout and the passing of time keep the invariant.
LEMMA AlarmInductive ==
  AlarmInv /\ [AlarmNext]_alarmVars => AlarmInv'
<1> SUFFICES ASSUME AlarmInv, [AlarmNext]_alarmVars PROVE AlarmInv'
  OBVIOUS
<1>1. CASE OwnerCalls
  <2>1. ~destroyed /\ early' = early /\ early = FALSE
    BY <1>1 DEF OwnerCalls, AlarmInv
  <2>2. ASSUME NEW d \in Durations, start(d), due' = {d}, UNCHANGED destroyed PROVE AlarmInv'
    BY <2>1, <2>2, StartStep, Zenon DEF AlarmInv
  <2>3. CASE stop /\ due' = {} /\ UNCHANGED destroyed
    BY <2>1, <2>3, StopStep, Zenon DEF AlarmInv
  <2>4. CASE stop /\ due' = {} /\ destroyed' = TRUE
    BY <2>1, <2>4, StopStep, Zenon DEF AlarmInv
  <2> QED
    BY <1>1, <2>2, <2>3, <2>4, Zenon DEF OwnerCalls, AlarmCall
<1>2. CASE Tick
  BY <1>2, TickStep
<1>3. CASE Expire
  <2>1. wait = "pending" /\ left = 0 /\ wait' = "expired"
        /\ UNCHANGED <<state, timeout, destroyed, left, due, early>>
    BY <1>3 DEF Expire
  <2>2. DueWithin(left) => due = {0}
    BY <2>1 DEF DueWithin
  <2> QED
    BY <2>1, <2>2 DEF AlarmInv, Consistent, States
<1>4. CASE Handle
  <2>1. CASE destroyed /\ UNCHANGED <<state, timeout, destroyed, left, early>>
    BY <2>1 DEF AlarmInv
  <2>2. CASE ~destroyed /\ on_timeout
    BY <1>4, <2>2, TimeoutStep DEF Handle
  <2> QED
    BY <1>4, <2>1, <2>2 DEF Handle
<1>5. CASE UNCHANGED alarmVars
  BY <1>5 DEF alarmVars, AlarmInv, Consistent, DueWithin
<1> QED
  BY <1>1, <1>2, <1>3, <1>4, <1>5 DEF AlarmNext

\* The invariant of an Alarm and its timer.
LEMMA AlarmInvariant == AlarmSpec => []AlarmInv
<1>1. AlarmInit => AlarmInv
  <2> SUFFICES ASSUME AlarmInit PROVE AlarmInv
    OBVIOUS
  <2>1. state \in States /\ timeout \in Nat /\ left \in Nat
    BY DEF AlarmInit, States
  <2>2. Consistent
    BY DEF AlarmInit, Consistent
  <2> QED
    BY <2>1, <2>2, Zenon DEF AlarmInit, AlarmInv
<1> QED
  BY <1>1, AlarmInductive, PTL DEF AlarmSpec

\* alarm.h's "it doesn't call its on_expire handler if it was stopped or destroyed",
\* for any order of calls, ticks and handlers that are queued already; nor is
\* on_expire called before the last start allows it.
THEOREM NeverEarly == AlarmSpec => []OnTime
<1>1. AlarmInv => OnTime
  BY DEF AlarmInv, OnTime
<1> QED
  BY <1>1, AlarmInvariant, PTL

\* on_timeout's asserts hold: the alarm has one wait, and it belongs to its state.
THEOREM WaitsOnce == AlarmSpec => []OneWait
<1>1. AlarmInv => OneWait
  BY Zenon DEF AlarmInv, Consistent, OneWait, States
<1> QED
  BY <1>1, AlarmInvariant, PTL
-------------------------------------------------------------------------------
\* A list without duplicates.
Distinct(s) == \A i, j \in 1..Len(s) : s[i] = s[j] => i = j

\* Where a cycle is that has left `gone' of the entries in `before'.
InCycle ==
  /\ before \in Seq(1..inserted) /\ kept \in Seq(1..inserted)
  /\ gone \in 0..Len(before)
  /\ messages = Cycled(before, gone, kept)
  /\ gone < Len(before) => mi = before[gone + 1] /\ cycle_end = FirstOf(kept)
  /\ gone = Len(before) => mi = cycle_end

QueueInv ==
  /\ inserted \in 0..MaxEntries /\ cycle \in BOOLEAN
  /\ messages \in Seq(1..inserted) /\ Distinct(messages)
  /\ cycle => InCycle

\* The list that a cycle leaves, entry by entry.
LEMMA CycledFacts ==
  ASSUME NEW S, NEW b \in Seq(S), NEW k \in Seq(S), NEW g \in 0..Len(b)
  PROVE  /\ Cycled(b, g, k) \in Seq(S)
         /\ Len(Cycled(b, g, k)) = Len(b) - g + Len(k)
         /\ \A i \in 1..(Len(b) - g + Len(k)) :
              Cycled(b, g, k)[i] = IF i <= Len(b) - g THEN b[g + i] ELSE k[i - (Len(b) - g)]
<1> DEFINE s == SubSeq(b, g + 1, Len(b))
<1>1. Len(b) \in Nat /\ Len(k) \in Nat /\ g \in Nat /\ g <= Len(b)
  OBVIOUS
<1>2. \A i \in (g + 1)..Len(b) : b[i] \in S
  BY <1>1
<1>3. /\ s \in Seq(S)
      /\ Len(s) = IF g + 1 <= Len(b) THEN Len(b) - (g + 1) + 1 ELSE 0
      /\ \A i \in 1..(Len(b) - (g + 1) + 1) : s[i] = b[g + 1 + i - 1]
  BY <1>1, <1>2, SubSeqProperties
<1> HIDE DEF s
<1> DEFINE m == Len(b)
<1>4. Len(s) = m - g /\ \A i \in 1..(m - g) : s[i] = b[g + i]
  <2>1. m \in Nat /\ g <= m
    BY <1>1
  <2>2. /\ Len(s) = IF g + 1 <= m THEN m - (g + 1) + 1 ELSE 0
        /\ \A i \in 1..(m - (g + 1) + 1) : s[i] = b[g + 1 + i - 1]
    BY <1>3
  <2> HIDE DEF m
  <2>3. m - (g + 1) + 1 = m - g /\ Len(s) = m - g
    BY <1>1, <2>1, <2>2
  <2>4. \A i \in 1..(m - g) : g + 1 + i - 1 = g + i
    BY <1>1, <2>1
  <2> QED
    BY <2>2, <2>3, <2>4
<1>5. /\ s \o k \in Seq(S)
      /\ Len(s \o k) = Len(s) + Len(k)
      /\ \A i \in 1..(Len(s) + Len(k)) : (s \o k)[i] = IF i <= Len(s) THEN s[i] ELSE k[i - Len(s)]
  BY <1>3, ConcatProperties, Zenon
<1>6. Cycled(b, g, k) = s \o k
  BY DEF Cycled, s
<1> HIDE DEF m
<1>7. ASSUME NEW i \in 1..(m - g + Len(k))
      PROVE  (s \o k)[i] = IF i <= m - g THEN b[g + i] ELSE k[i - (m - g)]
  BY <1>1, <1>4, <1>5, <1>7 DEF m
<1> QED
  BY <1>4, <1>5, <1>6, <1>7 DEF m

\* The next entry of a cycle is the first one of the list.
LEMMA CycledNext ==
  ASSUME NEW S, NEW b \in Seq(S), NEW k \in Seq(S), NEW g \in 0..(Len(b) - 1)
  PROVE  /\ Cycled(b, g, k) # <<>>
         /\ Cycled(b, g, k)[1] = b[g + 1]
         /\ Tail(Cycled(b, g, k)) = Cycled(b, g + 1, k)
<1> DEFINE c == Cycled(b, g, k)
           d == Cycled(b, g + 1, k)
           m == Len(b)
           n == Len(k)
<1>1. m \in Nat /\ n \in Nat /\ g \in Nat /\ g < m /\ g \in 0..m /\ g + 1 \in 0..m
  OBVIOUS
<1>2. /\ c \in Seq(S) /\ Len(c) = m - g + n
      /\ \A i \in 1..(m - g + n) : c[i] = IF i <= m - g THEN b[g + i] ELSE k[i - (m - g)]
  BY <1>1, CycledFacts
<1>3. /\ d \in Seq(S) /\ Len(d) = m - (g + 1) + n
      /\ \A i \in 1..(m - (g + 1) + n) :
           d[i] = IF i <= m - (g + 1) THEN b[g + 1 + i] ELSE k[i - (m - (g + 1))]
  BY <1>1, CycledFacts
<1> HIDE DEF c, d, m, n
<1>4. Len(c) > 0 /\ c # <<>>
  BY <1>1, <1>2
<1>5. /\ Tail(c) \in Seq(S) /\ Len(Tail(c)) = Len(c) - 1
      /\ \A i \in 1..Len(Tail(c)) : Tail(c)[i] = c[i + 1]
  BY <1>2, <1>4, HeadTailProperties
<1>6. Len(Tail(c)) = Len(d)
  BY <1>1, <1>2, <1>3, <1>5
<1>7. ASSUME NEW i \in 1..Len(Tail(c)) PROVE Tail(c)[i] = d[i]
  <2>1. i \in 1..(m - (g + 1) + n) /\ i + 1 \in 1..(m - g + n) /\ Tail(c)[i] = c[i + 1]
    BY <1>1, <1>2, <1>5, <1>7
  <2>2. CASE i <= m - (g + 1)
    <3>1. i + 1 <= m - g /\ g + (i + 1) = g + 1 + i
      BY <1>1, <2>1, <2>2
    <3>2. c[i + 1] = b[g + (i + 1)]
      BY <1>2, <2>1, <3>1, Zenon
    <3>3. d[i] = b[g + 1 + i]
      BY <1>3, <2>1, <2>2, Zenon
    <3> QED
      BY <2>1, <3>1, <3>2, <3>3, Zenon
  <2>3. CASE ~(i <= m - (g + 1))
    <3>1. ~(i + 1 <= m - g) /\ (i + 1) - (m - g) = i - (m - (g + 1))
      BY <1>1, <2>1, <2>3
    <3>2. c[i + 1] = k[(i + 1) - (m - g)]
      BY <1>2, <2>1, <3>1, Zenon
    <3>3. d[i] = k[i - (m - (g + 1))]
      BY <1>3, <2>1, <2>3, Zenon
    <3> QED
      BY <2>1, <3>1, <3>2, <3>3, Zenon
  <2> QED
    BY <2>2, <2>3
<1>8. Tail(c) = d
  BY <1>3, <1>5, <1>6, <1>7, SeqEqual
<1>9. c[1] = b[g + 1]
  BY <1>1, <1>2
<1> QED
  BY <1>4, <1>8, <1>9 DEF c, d

\* An entry that was left and not erased is at the back.
LEMMA CycledAppend ==
  ASSUME NEW S, NEW b \in Seq(S), NEW k \in Seq(S), NEW g \in 0..Len(b), NEW x \in S
  PROVE  Append(Cycled(b, g, k), x) = Cycled(b, g, Append(k, x))
<1> DEFINE s == SubSeq(b, g + 1, Len(b))
<1>1. s \in Seq(S)
  <2>1. g + 1 \in Int /\ Len(b) \in Int /\ \A i \in (g + 1)..Len(b) : b[i] \in S
    OBVIOUS
  <2> QED
    BY <2>1, SubSeqProperties
<1>2. Cycled(b, g, k) = s \o k /\ Cycled(b, g, Append(k, x)) = s \o Append(k, x)
  BY DEF Cycled
<1> HIDE DEF s
<1> DEFINE sk == s \o k
           kx == Append(k, x)
<1>3. /\ sk \in Seq(S) /\ Len(sk) = Len(s) + Len(k)
      /\ \A i \in 1..(Len(s) + Len(k)) : sk[i] = IF i <= Len(s) THEN s[i] ELSE k[i - Len(s)]
  BY <1>1, ConcatProperties
<1>4. /\ kx \in Seq(S) /\ Len(kx) = Len(k) + 1 /\ kx[Len(k) + 1] = x
      /\ \A i \in 1..Len(k) : kx[i] = k[i]
  BY AppendProperties
<1> HIDE DEF sk, kx
<1>5. /\ Append(sk, x) \in Seq(S) /\ Len(Append(sk, x)) = Len(sk) + 1
      /\ Append(sk, x)[Len(sk) + 1] = x
      /\ \A i \in 1..Len(sk) : Append(sk, x)[i] = sk[i]
  <2>1. sk \in Seq(S)
    BY <1>3
  <2> QED
    BY <2>1, AppendProperties
<1>6. /\ s \o kx \in Seq(S) /\ Len(s \o kx) = Len(s) + Len(kx)
      /\ \A i \in 1..(Len(s) + Len(kx)) : (s \o kx)[i] = IF i <= Len(s) THEN s[i] ELSE kx[i - Len(s)]
  BY <1>1, <1>4, ConcatProperties, Zenon
<1>7. Len(s) \in Nat /\ Len(k) \in Nat
  BY <1>1
<1> DEFINE l == Append(sk, x)
           r == s \o kx
<1> HIDE DEF l, r
<1>8. Len(l) = Len(r)
  BY <1>3, <1>4, <1>5, <1>6, <1>7 DEF l, r
<1>9. ASSUME NEW i \in 1..Len(l) PROVE l[i] = r[i]
  <2> DEFINE p == Len(s)
             q == Len(k)
  <2>1. /\ Len(sk) = p + q /\ Len(kx) = q + 1 /\ Len(l) = p + q + 1
        /\ p \in Nat /\ q \in Nat /\ i \in 1..(p + q + 1)
    BY <1>3, <1>4, <1>5, <1>7 DEF l
  <2>2. r[i] = IF i <= p THEN s[i] ELSE kx[i - p]
    BY <1>6, <2>1 DEF r
  <2>3. CASE i = p + q + 1
    <3>1. l[i] = x
      BY <1>5, <2>1, <2>3 DEF l
    <3>2. ~(i <= p) /\ i - p = q + 1
      BY <2>1, <2>3
    <3> QED
      BY <1>4, <2>2, <3>1, <3>2
  <2>4. CASE i # p + q + 1
    <3>1. i \in 1..(p + q) /\ (~(i <= p) => i - p \in 1..q)
      BY <2>1, <2>4
    <3>2. l[i] = sk[i] /\ sk[i] = IF i <= p THEN s[i] ELSE k[i - p]
      BY <1>3, <1>5, <2>1, <3>1 DEF l
    <3>3. ~(i <= p) => kx[i - p] = k[i - p]
      BY <1>4, <3>1, Zenon
    <3> QED
      BY <2>2, <3>2, <3>3
  <2> QED
    BY <2>3, <2>4
<1>10. l = r
  BY <1>5, <1>6, <1>8, <1>9, SeqEqual, Zenon DEF l, r
<1> QED
  BY <1>2, <1>10 DEF l, r, sk, kx

\* The first entry of the list: what follows it, and the list without it.
LEMMA FirstEntry ==
  ASSUME NEW S, NEW s \in Seq(S), s # <<>>, Distinct(s)
  PROVE  /\ After(s, s[1]) = IF Len(s) = 1 THEN End ELSE s[2]
         /\ Removed(s, s[1]) = Tail(s)
<1>1. Len(s) \in Nat /\ Len(s) > 0 /\ 1 \in 1..Len(s) /\ Len(s) \in 1..Len(s) /\ DOMAIN s = 1..Len(s)
  OBVIOUS
<1>2. Index(s, s[1]) = 1
  <2>1. \E i \in DOMAIN s : s[i] = s[1]
    BY <1>1
  <2> DEFINE i == Index(s, s[1])
  <2>2. i \in DOMAIN s /\ s[i] = s[1]
    BY <2>1 DEF Index
  <2> HIDE DEF i
  <2>3. i = 1
    BY <1>1, <2>2 DEF Distinct
  <2> QED
    BY <2>3 DEF i
<1>3. s[1] = s[Len(s)] <=> Len(s) = 1
  BY <1>1 DEF Distinct
<1>4. After(s, s[1]) = IF Len(s) = 1 THEN End ELSE s[2]
  BY <1>2, <1>3 DEF After
<1>5. Removed(s, s[1]) = Tail(s)
  <2>1. Removed(s, s[1]) = SubSeq(s, 1, 0) \o SubSeq(s, 2, Len(s))
    BY <1>2 DEF Removed
  <2>2. SubSeq(s, 1, 0) = <<>>
    BY SubSeqEmpty
  <2>3. Tail(s) = SubSeq(s, 2, Len(s)) /\ Tail(s) \in Seq(S)
    BY TailIsSubSeq, HeadTailProperties
  <2> QED
    BY <2>1, <2>2, <2>3, ConcatEmptySeq
<1> QED
  BY <1>4, <1>5

\* The list stays without duplicates.
LEMMA DistinctTail ==
  ASSUME NEW S, NEW s \in Seq(S), s # <<>>, Distinct(s)
  PROVE  /\ Tail(s) \in Seq(S) /\ Distinct(Tail(s))
         /\ Append(Tail(s), s[1]) \in Seq(S) /\ Distinct(Append(Tail(s), s[1]))
<1> DEFINE t == Tail(s)
           u == Append(t, s[1])
           n == Len(s)
<1>1. n \in Nat /\ n > 0 /\ s[1] \in S /\ \A i, j \in 1..n : s[i] = s[j] => i = j
  BY DEF Distinct
<1>2. t \in Seq(S) /\ Len(t) = n - 1 /\ \A i \in 1..(n - 1) : t[i] = s[i + 1]
  BY HeadTailProperties
<1> HIDE DEF t
<1>3. /\ u \in Seq(S) /\ Len(u) = Len(t) + 1
      /\ \A i \in 1..Len(t) : u[i] = t[i]
      /\ u[Len(t) + 1] = s[1]
  BY <1>1, <1>2, AppendProperties
<1> HIDE DEF u, n
<1>4. Len(u) = n /\ u[n] = s[1] /\ \A i \in 1..(n - 1) : u[i] = s[i + 1]
  BY <1>1, <1>2, <1>3
<1>5. Distinct(t)
  <2> SUFFICES ASSUME NEW i \in 1..(n - 1), NEW j \in 1..(n - 1), t[i] = t[j] PROVE i = j
    BY <1>2 DEF Distinct
  <2>1. i + 1 \in 1..n /\ j + 1 \in 1..n /\ s[i + 1] = s[j + 1]
    BY <1>1, <1>2
  <2>2. i + 1 = j + 1
    BY <1>1, <2>1
  <2> QED
    BY <1>1, <2>2
<1>6. Distinct(u)
  <2> DEFINE at(i) == IF i = n THEN 1 ELSE i + 1
  <2>1. \A i \in 1..n : at(i) \in 1..n /\ u[i] = s[at(i)]
    BY <1>1, <1>4
  <2> SUFFICES ASSUME NEW i \in 1..n, NEW j \in 1..n, u[i] = u[j] PROVE i = j
    BY <1>4 DEF Distinct
  <2>2. s[at(i)] = s[at(j)] /\ at(i) \in 1..n /\ at(j) \in 1..n
    BY <2>1
  <2>3. at(i) = at(j)
    BY <1>1, <2>2, Zenon
  <2> QED
    BY <1>1, <2>3
<1> QED
  BY <1>2, <1>3, <1>5, <1>6 DEF t, u

\* Before the end of a cycle, the iterator is at the first entry of the list; the
\* end of the cycle is the first entry that was kept.
LEMMA AtFirst ==
  ASSUME QueueInv, cycle, gone < Len(before)
  PROVE  /\ messages # <<>> /\ mi = messages[1] /\ mi \in 1..inserted
         /\ gone \in 0..(Len(before) - 1) /\ gone + 1 \in 0..Len(before)
         /\ Tail(messages) = Cycled(before, gone + 1, kept)
         /\ Len(messages) = Len(before) - gone + Len(kept)
         /\ Len(messages) > 1 =>
              messages[2] = IF gone + 1 < Len(before) THEN before[gone + 2] ELSE kept[1]
         /\ kept # <<>> => kept[1] = messages[Len(before) - gone + 1]
         /\ cycle_end = FirstOf(kept)
<1> DEFINE m == Len(before)
           n == Len(kept)
<1>1. InCycle
  BY DEF QueueInv
<1>2. /\ before \in Seq(1..inserted) /\ kept \in Seq(1..inserted) /\ gone \in 0..m
      /\ messages = Cycled(before, gone, kept)
      /\ mi = before[gone + 1] /\ cycle_end = FirstOf(kept)
  BY <1>1 DEF InCycle
<1>3. m \in Nat /\ n \in Nat /\ gone \in 0..(m - 1) /\ gone + 1 \in 0..m /\ gone + 1 \in 1..m
  BY <1>2
<1>4. messages # <<>> /\ messages[1] = before[gone + 1] /\ Tail(messages) = Cycled(before, gone + 1, kept)
  BY <1>2, <1>3, CycledNext
<1>5. /\ Len(messages) = m - gone + n
      /\ \A i \in 1..(m - gone + n) :
           messages[i] = IF i <= m - gone THEN before[gone + i] ELSE kept[i - (m - gone)]
  BY <1>2, CycledFacts, Zenon
<1>6. mi \in 1..inserted
  <2> DEFINE S == 1..inserted
  <2>1. before \in Seq(S) /\ gone + 1 \in 1..Len(before) /\ mi = before[gone + 1]
    BY <1>2, <1>3
  <2> HIDE DEF S
  <2>2. mi \in S
    BY <2>1
  <2> QED
    BY <2>2 DEF S
<1>7. kept # <<>> => n > 0
  BY <1>2
<1>8. gone < m
  OBVIOUS
<1> HIDE DEF m, n
<1>9. m - gone + n > 1 => messages[2] = IF gone + 1 < m THEN before[gone + 2] ELSE kept[1]
  BY <1>3, <1>5, <1>8
<1>10. kept # <<>> => kept[1] = messages[m - gone + 1]
  BY <1>3, <1>5, <1>7, <1>8
<1> QED
  BY <1>2, <1>3, <1>4, <1>5, <1>6, <1>9, <1>10 DEF m, n

\* It is not at the end of the cycle.
LEMMA NotAtEnd ==
  ASSUME QueueInv, cycle
  PROVE  mi = cycle_end <=> gone = Len(before)
<1>1. gone \in 0..Len(before) /\ Len(before) \in Nat /\ (gone = Len(before) => mi = cycle_end)
  BY DEF QueueInv, InCycle
<1>2. ASSUME gone < Len(before) PROVE mi # cycle_end
  <2>1. /\ messages # <<>> /\ mi = messages[1] /\ mi \in 1..inserted
        /\ Len(messages) = Len(before) - gone + Len(kept)
        /\ kept # <<>> => kept[1] = messages[Len(before) - gone + 1]
        /\ cycle_end = FirstOf(kept)
    BY <1>2, AtFirst
  <2>2. CASE kept = <<>>
    <3>1. cycle_end = End
      BY <2>1, <2>2 DEF FirstOf
    <3>2. mi \in 1..inserted /\ inserted \in 0..MaxEntries
      BY <2>1 DEF QueueInv
    <3>3. mi \in 1..MaxEntries
      BY <3>2, EndAssumption
    <3> QED
      BY <3>1, <3>3, EndAssumption
  <2>3. CASE kept # <<>>
    <3>1. kept \in Seq(1..inserted)
      BY DEF QueueInv, InCycle
    <3>2. Len(kept) \in Nat /\ Len(kept) > 0 /\ cycle_end = kept[1]
      BY <2>1, <2>3, <3>1 DEF FirstOf
    <3>3. /\ 1 \in 1..Len(messages) /\ Len(before) - gone + 1 \in 1..Len(messages)
          /\ Len(before) - gone + 1 # 1
      BY <1>1, <1>2, <2>1, <3>2
    <3>4. messages[1] # messages[Len(before) - gone + 1]
      BY <3>3, Zenon DEF QueueInv, Distinct
    <3> QED
      BY <2>1, <2>3, <3>2, <3>4
  <2> QED
    BY <2>2, <2>3
<1> QED
  BY <1>1, <1>2

\* The three lemmas together: leaving the first entry.
LEMMA LeaveFirst ==
  ASSUME QueueInv, cycle, gone < Len(before)
  PROVE  /\ Removed(messages, mi) = Cycled(before, gone + 1, kept)
         /\ Append(Removed(messages, mi), mi) = Cycled(before, gone + 1, Append(kept, mi))
         /\ Removed(messages, mi) \in Seq(1..inserted) /\ Distinct(Removed(messages, mi))
         /\ Append(Removed(messages, mi), mi) \in Seq(1..inserted)
         /\ Distinct(Append(Removed(messages, mi), mi))
         /\ After(messages, mi) =
              IF gone + 1 < Len(before) THEN before[gone + 2] ELSE FirstOf(kept)
         /\ Len(messages) = 1 => kept = <<>> /\ gone + 1 = Len(before)
         /\ After(messages, mi) = End <=> Len(messages) = 1
<1> DEFINE S == 1..inserted
<1>1. /\ messages # <<>> /\ mi = messages[1] /\ mi \in S
      /\ gone \in 0..(Len(before) - 1) /\ gone + 1 \in 0..Len(before)
      /\ Tail(messages) = Cycled(before, gone + 1, kept)
      /\ Len(messages) = Len(before) - gone + Len(kept)
      /\ Len(messages) > 1 =>
           messages[2] = IF gone + 1 < Len(before) THEN before[gone + 2] ELSE kept[1]
  BY AtFirst
<1>2. /\ messages \in Seq(S) /\ Distinct(messages) /\ inserted \in 0..MaxEntries
      /\ before \in Seq(S) /\ kept \in Seq(S)
  BY DEF QueueInv, InCycle
<1>3. Len(before) \in Nat /\ Len(kept) \in Nat /\ (kept = <<>> <=> Len(kept) = 0)
  BY <1>2
<1>4. End \notin S
  BY <1>2, EndAssumption
<1> HIDE DEF S
<1>5. /\ After(messages, mi) = IF Len(messages) = 1 THEN End ELSE messages[2]
      /\ Removed(messages, mi) = Tail(messages)
  BY <1>1, <1>2, FirstEntry, Zenon
<1>6. /\ Tail(messages) \in Seq(S) /\ Distinct(Tail(messages))
      /\ Append(Tail(messages), mi) \in Seq(S) /\ Distinct(Append(Tail(messages), mi))
  BY <1>1, <1>2, DistinctTail
<1>7. Append(Cycled(before, gone + 1, kept), mi) = Cycled(before, gone + 1, Append(kept, mi))
  <2>1. gone + 1 \in 0..Len(before) /\ before \in Seq(S) /\ kept \in Seq(S) /\ mi \in S
    BY <1>1, <1>2
  <2> QED
    BY <2>1, CycledAppend
<1> DEFINE L == Len(messages)
           m == Len(before)
           n == Len(kept)
<1>8. /\ L = m - gone + n /\ m \in Nat /\ n \in Nat /\ gone \in 0..(m - 1)
      /\ kept = <<>> <=> n = 0
  BY <1>1, <1>3
<1> HIDE DEF L, m, n
<1>9. L = 1 => kept = <<>> /\ gone + 1 = m /\ ~(gone + 1 < m)
  BY <1>8
<1>10. L # 1 => L > 1 /\ 2 \in 1..L /\ (gone + 1 < m \/ kept # <<>>)
  BY <1>8
<1>11. L # 1 => messages[2] \in S
  <2>1. 2 \in 1..Len(messages) => messages[2] \in S
    BY <1>2
  <2> QED
    BY <1>10, <2>1 DEF L
<1>12. kept # <<>> => FirstOf(kept) = kept[1]
  BY <1>2 DEF FirstOf
<1>13. L = 1 => FirstOf(kept) = End
  BY <1>9 DEF FirstOf
<1>14. After(messages, mi) = IF gone + 1 < m THEN before[gone + 2] ELSE FirstOf(kept)
  <2>1. After(messages, mi) = IF L = 1 THEN End ELSE messages[2]
    BY <1>5 DEF L
  <2>2. L > 1 => messages[2] = IF gone + 1 < m THEN before[gone + 2] ELSE kept[1]
    BY <1>1 DEF L, m
  <2> QED
    BY <1>9, <1>10, <1>12, <1>13, <2>1, <2>2
<1>15. After(messages, mi) = End <=> L = 1
  BY <1>4, <1>5, <1>11, Zenon DEF L
<1> QED
  BY <1>1, <1>5, <1>6, <1>7, <1>9, <1>14, <1>15 DEF S, L, m

\* What Append returns.
LEMMA AppendIs ==
  ASSUME NEW T, NEW s \in Seq(T), NEW x \in T
  PROVE  /\ Append(s, x) \in Seq(T) /\ Len(Append(s, x)) = Len(s) + 1
         /\ Append(s, x)[Len(s) + 1] = x
         /\ \A i \in 1..Len(s) : Append(s, x)[i] = s[i]
BY AppendProperties, SMTT(20)

\* insert appends a new number.
LEMMA InsertStep == QueueInv /\ insert => QueueInv'
<1> SUFFICES ASSUME QueueInv, insert PROVE QueueInv'
  OBVIOUS
<1>1. /\ inserted \in 0..MaxEntries /\ inserted < MaxEntries /\ inserted' = inserted + 1
      /\ messages \in Seq(1..inserted) /\ messages' = Append(messages, inserted')
      /\ Distinct(messages) /\ cycle = FALSE /\ cycle' = cycle
  BY DEF QueueInv, insert
<1>2. inserted' \in 0..MaxEntries /\ inserted' \in 1..inserted' /\ inserted' \notin 1..inserted
  BY <1>1, EndAssumption
<1>3. \A e \in 1..inserted : e \in 1..inserted'
  BY <1>1, EndAssumption
<1> DEFINE S == 1..inserted
           T == 1..inserted'
           x == inserted'
           n == Len(messages)
<1>4. messages \in Seq(S) /\ S \subseteq T /\ x \in T /\ x \notin S
  BY <1>1, <1>2, <1>3
<1> HIDE DEF S, T, x
<1>5. messages \in Seq(T) /\ n \in Nat /\ \A i \in 1..n : messages[i] \in S
  BY <1>4
<1>6. /\ Append(messages, x) \in Seq(T) /\ Len(Append(messages, x)) = n + 1
      /\ Append(messages, x)[n + 1] = x
      /\ \A i \in 1..n : Append(messages, x)[i] = messages[i]
  <2>1. messages \in Seq(T) /\ x \in T
    BY <1>4, <1>5, Zenon
  <2> QED
    BY <2>1, AppendIs, SMTT(20)
<1>7. \A i, j \in 1..n : messages[i] = messages[j] => i = j
  BY <1>1 DEF Distinct
<1> DEFINE l == Append(messages, x)
<1> HIDE DEF l, n
<1>8. ASSUME NEW i \in 1..(n + 1), NEW j \in 1..(n + 1), l[i] = l[j] PROVE i = j
  <2>1. \A h \in 1..(n + 1) : h \in 1..n \/ h = n + 1
    BY <1>5
  <2>2. \A h \in 1..n : l[h] = messages[h] /\ l[h] \in S
    BY <1>5, <1>6 DEF l
  <2>3. l[n + 1] \notin S
    BY <1>4, <1>6 DEF l
  <2> QED
    BY <1>7, <1>8, <2>1, <2>2, <2>3
<1>9. Distinct(l)
  BY <1>6, <1>8 DEF Distinct, l
<1> QED
  BY <1>1, <1>2, <1>6, <1>9 DEF QueueInv, l, x, T, Distinct

\* A cycle starts at the first entry.
LEMMA BeginStep == QueueInv /\ Begin => QueueInv'
<1> SUFFICES ASSUME QueueInv, Begin PROVE QueueInv'
  OBVIOUS
<1> DEFINE S == 1..inserted
<1>1. /\ messages \in Seq(S) /\ messages' = messages /\ inserted' = inserted
      /\ before' = messages /\ kept' = <<>> /\ gone' = 0
      /\ mi' = FirstOf(messages) /\ cycle_end' = End
  BY DEF QueueInv, Begin
<1> HIDE DEF S
<1> DEFINE o == <<>>
           n == Len(messages)
<1>2. n \in Nat /\ 0 \in 0..n /\ o \in Seq(S) /\ Len(o) = 0
  BY <1>1
<1> HIDE DEF o
<1> DEFINE c == Cycled(messages, 0, o)
<1>6. c = messages
  <2>1. SubSeq(messages, 1, Len(messages)) = messages
    BY <1>1, SubSeqFull
  <2>2. c = SubSeq(messages, 1, Len(messages)) \o <<>>
    BY DEF c, Cycled, o
  <2> QED
    BY <1>1, <2>1, <2>2, ConcatEmptySeq
<1>7. 0 < Len(messages) => FirstOf(messages) = messages[1]
  BY <1>1 DEF FirstOf
<1>8. 0 = Len(messages) => FirstOf(messages) = End
  BY <1>1 DEF FirstOf
<1>9. FirstOf(<<>>) = End
  BY DEF FirstOf
<1>10. InCycle'
  <2>2. messages' = Cycled(before', gone', kept')
    BY <1>1, <1>6 DEF c, o
  <2>3. gone' < Len(before') => mi' = before'[gone' + 1] /\ cycle_end' = FirstOf(kept')
    BY <1>1, <1>7, <1>9
  <2>4. gone' = Len(before') => mi' = cycle_end'
    BY <1>1, <1>8
  <2>5. before' \in Seq(S) /\ kept' \in Seq(S) /\ gone' \in 0..Len(before')
    BY <1>1, <1>2 DEF o, n
  <2> QED
    BY <1>1, <2>2, <2>3, <2>4, <2>5 DEF InCycle, S, Cycled, FirstOf
<1> QED
  BY <1>1, <1>10 DEF QueueInv, Begin, Distinct

\* What a step of the iterator leaves, when it keeps or erases the entry.
LEMMA Stepped ==
  ASSUME QueueInv, cycle, mi # cycle_end
  PROVE  /\ gone < Len(before) /\ gone + 1 \in 0..Len(before)
         /\ mi \in 1..inserted /\ kept \in Seq(1..inserted) /\ Append(kept, mi) \in Seq(1..inserted)
         /\ FirstOf(Append(kept, mi)) = IF kept = <<>> THEN mi ELSE FirstOf(kept)
         /\ kept # <<>> => FirstOf(kept) # End
         /\ cycle_end = FirstOf(kept)
<1>1. /\ gone \in 0..Len(before) /\ Len(before) \in Nat
      /\ kept \in Seq(1..inserted) /\ inserted \in 0..MaxEntries
  BY DEF QueueInv, InCycle
<1>2. gone < Len(before)
  BY <1>1, NotAtEnd
<1>3. gone + 1 \in 0..Len(before) /\ mi \in 1..inserted /\ cycle_end = FirstOf(kept)
  BY <1>2, AtFirst
<1> DEFINE S == 1..inserted
<1>4. kept \in Seq(S) /\ mi \in S
  BY <1>1, <1>3
<1>5. End \notin S
  BY <1>1, EndAssumption
<1> HIDE DEF S
<1>6. Append(kept, mi) \in Seq(S) /\ Append(kept, mi) # <<>>
  BY <1>4, AppendProperties
<1>7. kept # <<>> => Head(kept) \in S /\ Head(Append(kept, mi)) = Head(kept)
  BY <1>4
<1>8. kept = <<>> => Head(Append(kept, mi)) = mi
  OBVIOUS
<1> QED
  BY <1>2, <1>3, <1>4, <1>5, <1>6, <1>7, <1>8 DEF S, FirstOf

\* operator++ leaves the first entry at the back.
LEMMA AdvanceStep == QueueInv /\ Advance => QueueInv'
<1> SUFFICES ASSUME QueueInv, Advance PROVE QueueInv'
  OBVIOUS
<1>1. /\ cycle /\ mi # cycle_end /\ mi' = After(messages, mi)
      /\ messages' = IF After(messages, mi) = End THEN messages ELSE Append(Removed(messages, mi), mi)
      /\ cycle_end' = IF After(messages, mi) # End /\ cycle_end = End THEN mi ELSE cycle_end
      /\ gone' = gone + 1 /\ kept' = Append(kept, mi)
      /\ inserted' = inserted /\ cycle' = cycle /\ before' = before
  BY DEF Advance
<1>2. /\ gone < Len(before) /\ gone + 1 \in 0..Len(before)
      /\ Append(kept, mi) \in Seq(1..inserted)
      /\ FirstOf(Append(kept, mi)) = IF kept = <<>> THEN mi ELSE FirstOf(kept)
      /\ kept # <<>> => FirstOf(kept) # End
      /\ cycle_end = FirstOf(kept)
  BY <1>1, Stepped, Zenon
<1>3. /\ Append(Removed(messages, mi), mi) = Cycled(before, gone + 1, Append(kept, mi))
      /\ Append(Removed(messages, mi), mi) \in Seq(1..inserted)
      /\ Distinct(Append(Removed(messages, mi), mi))
      /\ After(messages, mi) = IF gone + 1 < Len(before) THEN before[gone + 2] ELSE FirstOf(kept)
      /\ Len(messages) = 1 => kept = <<>> /\ gone + 1 = Len(before)
      /\ After(messages, mi) = End <=> Len(messages) = 1
  BY <1>1, <1>2, LeaveFirst
<1>4. messages \in Seq(1..inserted) /\ messages # <<>> /\ mi = messages[1]
      /\ Removed(messages, mi) = Tail(messages)
  <2>1. messages # <<>> /\ mi = messages[1]
    BY <1>1, <1>2, AtFirst
  <2>2. messages \in Seq(1..inserted) /\ Distinct(messages)
    BY DEF QueueInv
  <2> QED
    BY <2>1, <2>2, FirstEntry
<1>5. Len(messages) = 1 => Append(Tail(messages), mi) = messages
  <2> DEFINE S == 1..inserted
             u == Append(Tail(messages), mi)
  <2> SUFFICES ASSUME Len(messages) = 1 PROVE u = messages
    OBVIOUS
  <2>1. messages \in Seq(S) /\ messages # <<>> /\ mi = messages[1] /\ mi \in S
    BY <1>1, <1>4, Stepped
  <2> HIDE DEF S
  <2>2. Tail(messages) \in Seq(S) /\ Len(Tail(messages)) = 0
    BY <2>1, HeadTailProperties
  <2> DEFINE t == Tail(messages)
  <2> HIDE DEF t
  <2>3. t \in Seq(S) /\ Len(t) = 0 /\ mi \in S
    BY <2>1, <2>2, Zenon DEF t
  <2>4. Append(t, mi) \in Seq(S) /\ Len(Append(t, mi)) = Len(t) + 1 /\ Append(t, mi)[Len(t) + 1] = mi
    BY <2>3, AppendProperties
  <2>5. u = Append(t, mi) /\ Len(t) + 1 = 1
    BY <2>3 DEF t
  <2> HIDE DEF u
  <2>6. u \in Seq(S) /\ Len(u) = 1 /\ u[1] = mi
    BY <2>4, <2>5, Zenon
  <2>7. \A i \in 1..Len(u) : u[i] = messages[i]
    BY <2>1, <2>6
  <2> QED
    BY <2>1, <2>6, <2>7, SeqEqual
<1>6. messages' = Append(Removed(messages, mi), mi)
  BY <1>1, <1>3, <1>4, <1>5
<1>7. gone + 1 < Len(before) => After(messages, mi) # End
  BY <1>2, <1>3
<1>8. FirstOf(<<>>) = End
  BY DEF FirstOf
<1>9. /\ gone' < Len(before) => mi' = before[gone' + 1] /\ cycle_end' = FirstOf(kept')
      /\ gone' = Len(before) => mi' = cycle_end'
  <2>1. before \in Seq(1..inserted) /\ gone \in 0..Len(before) /\ Len(before) \in Nat
    BY <1>1 DEF QueueInv, InCycle
  <2>2. gone + 2 = gone + 1 + 1 /\ ~(Len(before) < Len(before))
    BY <2>1
  <2>3. ASSUME gone + 1 < Len(before)
        PROVE  After(messages, mi) = before[gone + 2] /\ cycle_end' = FirstOf(Append(kept, mi))
    BY <1>1, <1>2, <1>3, <1>7, <1>8, <2>3
  <2>4. ASSUME gone + 1 = Len(before)
        PROVE  After(messages, mi) = cycle_end'
    <3>1. After(messages, mi) = FirstOf(kept) /\ cycle_end = FirstOf(kept)
      BY <1>2, <1>3, <2>2, <2>4
    <3> QED
      BY <1>1, <3>1
  <2> QED
    BY <1>1, <2>2, <2>3, <2>4
<1>10. before \in Seq(1..inserted)
  BY <1>1 DEF QueueInv, InCycle
<1>11. InCycle'
  BY <1>1, <1>2, <1>3, <1>6, <1>9, <1>10, Zenon DEF InCycle, Cycled, FirstOf
<1> QED
  BY <1>1, <1>3, <1>6, <1>11 DEF QueueInv, Distinct

\* erase takes it out.
LEMMA EraseStep == QueueInv /\ Erase => QueueInv'
<1> SUFFICES ASSUME QueueInv, Erase PROVE QueueInv'
  OBVIOUS
<1>1. /\ cycle /\ mi # cycle_end /\ mi' = After(messages, mi)
      /\ messages' = Removed(messages, mi)
      /\ gone' = gone + 1 /\ kept' = kept /\ cycle_end' = cycle_end
      /\ inserted' = inserted /\ cycle' = cycle /\ before' = before
  BY Zenon DEF Erase
<1>2. /\ gone < Len(before) /\ gone + 1 \in 0..Len(before)
      /\ kept \in Seq(1..inserted) /\ cycle_end = FirstOf(kept)
  BY <1>1, Stepped, Zenon
<1>3. /\ Removed(messages, mi) = Cycled(before, gone + 1, kept)
      /\ Removed(messages, mi) \in Seq(1..inserted) /\ Distinct(Removed(messages, mi))
      /\ After(messages, mi) = IF gone + 1 < Len(before) THEN before[gone + 2] ELSE FirstOf(kept)
  BY <1>1, <1>2, LeaveFirst
<1>4. before \in Seq(1..inserted) /\ gone \in 0..Len(before) /\ Len(before) \in Nat
  BY <1>1 DEF QueueInv, InCycle
<1>5. gone + 2 = gone + 1 + 1 /\ ~(Len(before) < Len(before))
  BY <1>4
<1>6. /\ gone' < Len(before) => mi' = before[gone' + 1] /\ cycle_end' = FirstOf(kept')
      /\ gone' = Len(before) => mi' = cycle_end'
  BY <1>1, <1>2, <1>3, <1>5, Zenon
<1>7. InCycle'
  BY <1>1, <1>2, <1>3, <1>4, <1>6 DEF InCycle, Cycled, FirstOf
<1> QED
  BY <1>1, <1>3, <1>7 DEF QueueInv, Distinct

\* cyclic_queue.h: the iterator of a cycle visits every entry once, in the order of
\* the list, whatever is erased on the way, and is at the end exactly when it has
\* left them all.
THEOREM VisitsEachOnce == QueueSpec => []VisitsOnce
<1>1. QueueInit => QueueInv
  <2> SUFFICES ASSUME QueueInit PROVE QueueInv
    OBVIOUS
  <2>1. messages = <<>> /\ inserted = 0 /\ cycle = FALSE
    BY DEF QueueInit
  <2>2. Distinct(messages) /\ messages \in Seq(1..inserted) /\ inserted \in 0..MaxEntries
    BY <2>1, EndAssumption DEF Distinct
  <2> QED
    BY <2>1, <2>2, Zenon DEF QueueInv
<1>2. QueueInv /\ [QueueNext]_queueVars => QueueInv'
  <2> SUFFICES ASSUME QueueInv, [QueueNext]_queueVars PROVE QueueInv'
    OBVIOUS
  <2>1. CASE Leave
    BY <2>1, Zenon DEF Leave, QueueInv, Distinct
  <2>2. CASE UNCHANGED queueVars
    BY <2>2, Zenon DEF queueVars, QueueInv, InCycle, Distinct, Cycled, FirstOf
  <2> QED
    BY <2>1, <2>2, InsertStep, BeginStep, AdvanceStep, EraseStep DEF QueueNext
<1>3. QueueInv => VisitsOnce
  <2> SUFFICES ASSUME QueueInv, cycle
               PROVE  /\ gone <= Len(before)
                      /\ mi = cycle_end <=> gone = Len(before)
                      /\ gone < Len(before) => mi = before[gone + 1]
                      /\ messages = Cycled(before, gone, kept)
    BY DEF VisitsOnce
  <2>1. /\ before \in Seq(1..inserted) /\ gone \in 0..Len(before)
        /\ messages = Cycled(before, gone, kept)
        /\ gone < Len(before) => mi = before[gone + 1]
    BY DEF QueueInv, InCycle
  <2>2. gone <= Len(before)
    BY <2>1
  <2> QED
    BY <2>1, <2>2, NotAtEnd
<1> QED
  BY <1>1, <1>2, <1>3, PTL DEF QueueSpec
===============================================================================
