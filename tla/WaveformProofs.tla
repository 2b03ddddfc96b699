----------------------------- MODULE WaveformProofs -----------------------------
(***************************************************************************)
(* Proofs about the arithmetic of Waveform, for any peaks, any width and   *)
(* any of the outcomes floating point may have at a border.                *)
(***************************************************************************)
EXTENDS Waveform, WellFoundedInduction, TLAPS

\* The least number of a set.
LEMMA MinIsLeast ==
    ASSUME NEW S \in SUBSET Nat, S # {}
    PROVE  Min(S) \in S /\ \A y \in S : Min(S) <= y
<1>1. IsWellFoundedOn(OpToRel(<, Nat), Nat)
  BY NatLessThanWellFounded
<1>2. PICK R : R = OpToRel(<, Nat)
  OBVIOUS
<1>3. \E x \in S : \A y \in S : ~(<<y, x>> \in R)
  BY <1>1, <1>2, WFMin
<1>4. \A x, y \in Nat : <<y, x>> \in R <=> y < x
  BY <1>2 DEF OpToRel
<1>5. \E x \in S : \A y \in S : x <= y
  <2>1. PICK x \in S : \A y \in S : ~(<<y, x>> \in R)
    BY <1>3
  <2>2. \A y \in S : ~(y < x)
    BY <1>4, <2>1
  <2> QED BY <2>2
<1> QED BY <1>5 DEF Min

\* The greatest number of a set that has a bound: the least distance from the bound.
LEMMA MaxIsGreatest ==
    ASSUME NEW bound \in Nat, NEW S \in SUBSET (0..bound), S # {}
    PROVE  Max(S) \in S /\ \A y \in S : Max(S) >= y
<1> DEFINE D == {bound - y : y \in S}
<1>1. D \in SUBSET Nat /\ D # {}
  OBVIOUS
<1>2. Min(D) \in D /\ \A d \in D : Min(D) <= d
  BY <1>1, MinIsLeast
<1>3. PICK x \in S : Min(D) = bound - x
  BY <1>2
<1>4. \A y \in S : x >= y
  <2>1. ASSUME NEW y \in S
        PROVE  x >= y
    <3>1. bound - y \in D
      OBVIOUS
    <3>2. bound - x <= bound - y
      BY <1>2, <1>3, <3>1
    <3> QED BY <3>2
  <2> QED BY <2>1
<1>5. \E z \in S : \A y \in S : z >= y
  BY <1>4
<1> QED BY <1>5 DEF Max

\* Two numbers are enough for the maxima of the code.
LEMMA MaxOfTwo ==
    ASSUME NEW m \in Int, NEW n \in Int
    PROVE  Max({m, n}) = IF m >= n THEN m ELSE n
<1>1. CASE m >= n
  <2>1. \A x \in {m, n} : (\A y \in {m, n} : x >= y) <=> x = m
    BY <1>1
  <2> QED BY <1>1, <2>1 DEF Max
<1>2. CASE ~(m >= n)
  <2>1. \A x \in {m, n} : (\A y \in {m, n} : x >= y) <=> x = n
    BY <1>2
  <2> QED BY <1>2, <2>1 DEF Max
<1> QED BY <1>1, <1>2

LEMMA MinOfTwo ==
    ASSUME NEW m \in Int, NEW n \in Int
    PROVE  Min({m, n}) = IF m <= n THEN m ELSE n
<1>1. CASE m <= n
  <2>1. \A x \in {m, n} : (\A y \in {m, n} : x <= y) <=> x = m
    BY <1>1
  <2> QED BY <1>1, <2>1 DEF Min
<1>2. CASE ~(m <= n)
  <2>1. \A x \in {m, n} : (\A y \in {m, n} : x <= y) <=> x = n
    BY <1>2
  <2> QED BY <1>2, <2>1 DEF Min
<1> QED BY <1>1, <1>2

-----------------------------------------------------------------------------
(* Products and quotients                                                  *)

LEMMA TimesMonotonic ==
    ASSUME NEW m \in Nat, NEW n \in Nat, NEW k \in Nat, m <= n
    PROVE  /\ m * k \in Nat /\ n * k \in Nat
           /\ m * k <= n * k
           /\ m < n /\ k > 0 => m * k < n * k
<1>1. PICK d \in Nat : n = m + d
  <2>1. n - m \in Nat /\ n = m + (n - m)
    OBVIOUS
  <2> QED BY <2>1
<1>2. n * k = m * k + d * k
  BY <1>1
<1>3. m * k \in Nat /\ d * k \in Nat /\ n * k \in Nat
  OBVIOUS
<1>4. d > 0 /\ k > 0 => d * k > 0
  OBVIOUS
<1> QED BY <1>1, <1>2, <1>3, <1>4

LEMMA Quotient ==
    ASSUME NEW m \in Nat, NEW k \in Nat \ {0}
    PROVE  /\ m \div k \in Nat
           /\ (m \div k) * k <= m
           /\ m < (m \div k + 1) * k
           /\ m % k \in 0..(k - 1)
           /\ m = (m \div k) * k + (m % k)
  OBVIOUS

-----------------------------------------------------------------------------
(* Amplitudes                                                              *)

LEMMA AmplitudeRange ==
    ASSUME NEW peak \in Peak
    PROVE  Amplitude(peak) \in 0..Loudest
<1>1. peak[1] \in -128..127 /\ peak[2] \in -128..127
  BY DEF Peak
<1>2. Size(peak[1]) * 127 \in Nat /\ Size(peak[2]) * 128 \in Nat
  BY <1>1 DEF Size
<1>3. PICK m \in Nat : m = Max({Size(peak[1]) * 127, Size(peak[2]) * 128})
  BY <1>2, MaxOfTwo
<1>4. Loudest \in Nat
  BY DEF Loudest
<1>5. Min({Loudest, m}) \in 0..Loudest
  BY <1>4, MinOfTwo
<1> QED BY <1>3, <1>5 DEF Amplitude

\* Weighed by two numbers that add up to the duration, two amplitudes stay below the
\* larger one of them.
LEMMA Interpolation ==
    ASSUME NEW x \in Nat, NEW y \in Nat, NEW d \in Nat \ {0}, NEW w \in 0..d
    PROVE  \E z \in {x, y} :
             /\ (x * (d - w) + y * w) \div d \in Nat
             /\ (x * (d - w) + y * w) \div d <= z
<1>1. PICK z \in {x, y} : x <= z /\ y <= z
  OBVIOUS
<1>2. z \in Nat /\ d - w \in Nat /\ w \in Nat /\ d \in Nat
  OBVIOUS
<1>3. /\ x * (d - w) \in Nat /\ z * (d - w) \in Nat
      /\ x * (d - w) <= z * (d - w)
  BY <1>1, <1>2, TimesMonotonic
<1>4. /\ y * w \in Nat /\ z * w \in Nat
      /\ y * w <= z * w
  BY <1>1, <1>2, TimesMonotonic
<1>5. z * (d - w) + z * w = z * d
  BY <1>2
<1>6. PICK s \in Nat : s = x * (d - w) + y * w
  BY <1>3, <1>4
<1>7. z * d \in Nat /\ s <= z * d
  BY <1>2, <1>3, <1>4, <1>5, <1>6
<1>8. PICK q \in Nat : q = s \div d /\ q * d <= s
  BY <1>6, Quotient
<1>9. q <= z
  <2>1. CASE q > z
    <3>1. z * d < q * d
      BY <1>2, <1>8, <2>1, TimesMonotonic
    <3> QED BY <1>2, <1>6, <1>7, <1>8, <3>1
  <2> QED BY <1>2, <1>8, <2>1
<1> QED BY <1>6, <1>8, <1>9

\* The energy a frame aims at is never above every peak of the track (LiveWaveform.tsx).
LEMMA AmplitudeAtBelowPeak ==
    ASSUME NEW peaks \in Seq(Peak), peaks # <<>>, NEW t \in Int, NEW d \in Nat \ {0}
    PROVE  \E j \in DOMAIN peaks :
             /\ AmplitudeAt(peaks, t, d) \in Nat
             /\ AmplitudeAt(peaks, t, d) <= Amplitude(peaks[j])
<1> DEFINE last == Len(peaks) - 1
           time == Clamp(0, d, t)
           position == time * last
           index == position \div d
           blend == position % d
           next == Min({last, index + 1})
<1>1. /\ Len(peaks) \in Nat \ {0} /\ last \in Nat
      /\ DOMAIN peaks = 1..Len(peaks)
      /\ \A j \in 1..Len(peaks) : peaks[j] \in Peak
  OBVIOUS
<1>2. time \in 0..d
  BY DEF Clamp
<1> HIDE DEF time
<1>3. position \in Nat /\ position <= last * d
  <2>1. time * last \in Nat /\ d * last \in Nat /\ time * last <= d * last
    BY <1>1, <1>2, TimesMonotonic
  <2> QED BY <1>1, <2>1
<1> HIDE DEF position
<1>4. index \in Nat /\ index * d <= position /\ blend \in 0..(d - 1)
  BY <1>3, Quotient
<1>5. index <= last
  <2> HIDE DEF index
  <2>1. CASE index > last
    <3>1. last * d < index * d
      BY <1>1, <1>4, <2>1, TimesMonotonic
    <3>2. last * d \in Nat /\ index * d \in Nat
      BY <1>1, <1>4
    <3> QED BY <1>3, <1>4, <3>1, <3>2
  <2> QED BY <1>1, <1>4, <2>1
<1> HIDE DEF index, blend
<1>6. next \in 0..last
  BY <1>1, <1>4, <1>5, MinOfTwo
<1> HIDE DEF next
<1>7. index + 1 \in DOMAIN peaks /\ next + 1 \in DOMAIN peaks
  BY <1>1, <1>4, <1>5, <1>6
<1>8. Amplitude(peaks[index + 1]) \in Nat /\ Amplitude(peaks[next + 1]) \in Nat
  BY <1>1, <1>7, AmplitudeRange
<1>9. PICK x \in Nat, y \in Nat :
        x = Amplitude(peaks[index + 1]) /\ y = Amplitude(peaks[next + 1])
  BY <1>8
<1>10. AmplitudeAt(peaks, t, d) = (x * (d - blend) + y * blend) \div d
  BY <1>9 DEF AmplitudeAt, index, blend, next, position, time
<1>11. PICK z \in {x, y} : AmplitudeAt(peaks, t, d) \in Nat /\ AmplitudeAt(peaks, t, d) <= z
  <2>1. blend \in 0..d
    BY <1>4
  <2> QED BY <1>10, <2>1, Interpolation
<1> QED BY <1>7, <1>9, <1>11

-----------------------------------------------------------------------------
(* Buckets                                                                 *)

\* Between two borders lies what the bars stand for, with or without a product that
\* fell short: nothing starts after a part of the track it is to show.
LEMMA BorderBounds ==
    ASSUME NEW peaks, NEW n \in Nat \ {0}, n = Len(peaks), NEW count \in Nat \ {0},
           NEW short \in SUBSET ShortBorders(peaks, count), NEW i \in 0..count
    PROVE  /\ Border(peaks, count, short, i) \in 0..n
           /\ Border(peaks, count, short, i) * count <= i * n
           /\ i * n <= (Border(peaks, count, short, i) + 1) * count
           /\ i < count => Border(peaks, count, short, i) < n
           /\ i = count => Border(peaks, count, short, i) >= n - 1
<1> DEFINE b == Border(peaks, count, short, i)
           q == (i * n) \div count
<1>1. i * n \in Nat /\ count \in Nat /\ n \in Nat /\ i \in Nat
  OBVIOUS
<1>2. q \in Nat /\ q * count <= i * n /\ i * n < (q + 1) * count
      /\ i * n = q * count + ((i * n) % count)
  BY <1>1, Quotient
<1>3. b = q - (IF i \in short THEN 1 ELSE 0)
  BY DEF Border
<1>4. i \in short => i * n = q * count /\ i >= 1
  BY <1>1, <1>2 DEF ShortBorders
<1> HIDE DEF q, b
<1>5. i \in short => q >= 1
  <2>1. CASE i \in short /\ q = 0
    <3>1. i * n = 0
      BY <1>1, <1>4, <2>1
    <3>2. i * n > 0
      BY <1>4, <2>1
    <3> QED BY <3>1, <3>2
  <2> QED BY <1>2, <2>1
<1>6. b \in Nat /\ b <= q /\ q <= b + 1
  BY <1>2, <1>3, <1>5
<1>7. b * count <= i * n
  <2>1. b * count <= q * count /\ b * count \in Nat /\ q * count \in Nat
    BY <1>2, <1>6, TimesMonotonic
  <2> QED BY <1>1, <1>2, <2>1
<1>8. i * n <= (b + 1) * count
  <2>1. CASE i \in short
    BY <1>2, <1>3, <1>4, <2>1
  <2>2. CASE i \notin short
    BY <1>1, <1>2, <1>3, <2>2
  <2> QED BY <2>1, <2>2
<1>9. q <= n /\ (i < count => q < n) /\ (i = count => q >= n)
  <2>1. i * n <= count * n /\ count * n \in Nat /\ (i < count => i * n < count * n)
    BY <1>1, TimesMonotonic
  <2>2. count * n = n * count
    BY <1>1
  <2>3. q > n => n * count < q * count
    BY <1>1, <1>2, TimesMonotonic
  <2>4. q >= n => n * count <= q * count
    BY <1>1, <1>2, TimesMonotonic
  <2>5. q < n => (q + 1) * count <= n * count
    BY <1>1, <1>2, TimesMonotonic
  <2>6. q * count \in Nat /\ (q + 1) * count \in Nat /\ n * count \in Nat
    BY <1>1, <1>2
  <2>7. q <= n
    BY <1>1, <1>2, <2>1, <2>2, <2>3, <2>6
  <2>8. i < count => q < n
    BY <1>1, <1>2, <2>1, <2>2, <2>4, <2>6
  <2>9. i = count => q >= n
    BY <1>1, <1>2, <2>1, <2>2, <2>5, <2>6
  <2> QED BY <2>7, <2>8, <2>9
<1>10. i < count => b < n
  BY <1>1, <1>6, <1>9, <1>2
<1>11. i = count => b >= n - 1
  BY <1>1, <1>6, <1>9, <1>2
<1>12. b \in 0..n
  BY <1>1, <1>2, <1>6, <1>9
<1> QED BY <1>7, <1>8, <1>10, <1>11, <1>12 DEF b

\* The bucket of a bar is never empty, and all its peaks are of the bar's part.
LEMMA BucketMeets ==
    ASSUME NEW peaks, NEW n \in Nat \ {0}, n = Len(peaks), NEW count \in Nat \ {0},
           NEW short \in SUBSET ShortBorders(peaks, count), NEW i \in 0..(count - 1)
    PROVE  /\ Border(peaks, count, short, i) \in Bucket(peaks, count, short, i)
           /\ \A j \in Bucket(peaks, count, short, i) :
                j \in 0..(n - 1) /\ Meet(peaks, count, i, j)
           /\ \A j \in 0..(n - 1) :
                /\ Border(peaks, count, short, i) <= j
                /\ j < Border(peaks, count, short, i + 1)
                => j \in Bucket(peaks, count, short, i)
<1>1. i \in 0..count /\ i + 1 \in 0..count /\ i < count
  OBVIOUS
<1>2. PICK s \in 0..n : s = Border(peaks, count, short, i)
  BY <1>1, BorderBounds
<1>3. PICK e \in 0..n : e = Border(peaks, count, short, i + 1)
  BY <1>1, BorderBounds
<1>4. s * count <= i * n /\ i * n <= (s + 1) * count /\ s < n
  BY <1>1, <1>2, BorderBounds
<1>5. e * count <= (i + 1) * n
  BY <1>1, <1>3, BorderBounds
<1>6. PICK end \in Nat : end = Max({s + 1, e}) /\ end >= s + 1 /\ end >= e /\ end \in {s + 1, e}
  <2>1. s + 1 \in Int /\ e \in Int
    OBVIOUS
  <2>2. Max({s + 1, e}) = IF s + 1 >= e THEN s + 1 ELSE e
    BY <2>1, MaxOfTwo
  <2> QED BY <2>2
<1>7. Bucket(peaks, count, short, i) = {j \in 0..(n - 1) : s <= j /\ j < end}
  BY <1>2, <1>3, <1>6 DEF Bucket
<1>8. ASSUME NEW j \in 0..(n - 1), s <= j, j < end
      PROVE  Meet(peaks, count, i, j)
  <2>1. i * n <= (j + 1) * count
    <3>1. (s + 1) * count <= (j + 1) * count
      BY <1>8, TimesMonotonic
    <3>2. i * n \in Nat /\ (s + 1) * count \in Nat /\ (j + 1) * count \in Nat
      OBVIOUS
    <3> QED BY <1>4, <3>1, <3>2
  <2>2. j * count <= (i + 1) * n
    <3>1. CASE j = s
      <4>1. i * n <= (i + 1) * n /\ i * n \in Nat /\ (i + 1) * n \in Nat /\ s * count \in Nat
        BY TimesMonotonic
      <4> QED BY <1>4, <3>1, <4>1
    <3>2. CASE j < e
      <4>1. j * count <= e * count /\ j * count \in Nat /\ e * count \in Nat
        BY <3>2, TimesMonotonic
      <4>2. (i + 1) * n \in Nat
        OBVIOUS
      <4> QED BY <1>5, <4>1, <4>2
    <3> QED BY <1>6, <1>8, <3>1, <3>2
  <2> QED BY <2>1, <2>2 DEF Meet
<1>9. s \in Bucket(peaks, count, short, i)
  BY <1>4, <1>6, <1>7
<1>10. \A j \in 0..(n - 1) : s <= j /\ j < e => j \in Bucket(peaks, count, short, i)
  BY <1>6, <1>7
<1> QED BY <1>2, <1>3, <1>7, <1>8, <1>9, <1>10

\* Every peak but the last one is in the bucket of some bar.
LEMMA BucketsCover ==
    ASSUME NEW peaks, NEW n \in Nat \ {0}, n = Len(peaks), NEW count \in Nat \ {0},
           NEW short \in SUBSET ShortBorders(peaks, count), NEW j \in 0..(n - 2)
    PROVE  \E i \in 0..(count - 1) : j \in Bucket(peaks, count, short, i)
<1> DEFINE Later == {i \in 1..count : j < Border(peaks, count, short, i)}
<1>1. Border(peaks, count, short, count) \in 0..n /\ Border(peaks, count, short, count) >= n - 1
  BY BorderBounds
<1>2. count \in Later
  BY <1>1
<1>3. Min(Later) \in Later /\ \A i \in Later : Min(Later) <= i
  <2>1. Later \in SUBSET Nat /\ Later # {}
    BY <1>2
  <2> HIDE DEF Later
  <2> QED BY <2>1, MinIsLeast
<1>4. PICK m \in 1..count : m = Min(Later) /\ j < Border(peaks, count, short, m)
  BY <1>3
<1>5. Border(peaks, count, short, m - 1) \in 0..n
  BY BorderBounds
<1>6. Border(peaks, count, short, m - 1) <= j
  <2>1. CASE m = 1
    <3>1. Border(peaks, count, short, 0) * count <= 0 * n /\ 0 * n = 0
      BY BorderBounds
    <3>2. PICK b \in 0..n : b = Border(peaks, count, short, m - 1)
      BY <1>5
    <3>3. b * count <= 0
      BY <2>1, <3>1, <3>2
    <3>4. b = 0
      BY <3>3
    <3> QED BY <3>2, <3>4
  <2>2. CASE m # 1
    <3>1. m - 1 \in 1..count /\ m - 1 \notin Later
      BY <1>3, <1>4, <2>2
    <3> QED BY <1>5, <3>1
  <2> QED BY <2>1, <2>2
<1>7. j \in Bucket(peaks, count, short, m - 1)
  <2>1. m - 1 \in 0..(count - 1) /\ (m - 1) + 1 = m /\ j \in 0..(n - 1)
    OBVIOUS
  <2> QED BY <1>4, <1>6, <2>1, BucketMeets
<1> QED BY <1>7

\* The bars of any canvas are a picture of the peaks, whichever borders fall short in
\* floating point (LiveWaveform.tsx:22-38): no bar is taller than its part of the track
\* and no peak but perhaps the last one is lost.
THEOREM BarsArePicture ==
    ASSUME NEW peaks \in Seq(Peak), NEW count \in Nat \ {0},
           NEW short \in SUBSET ShortBorders(peaks, count)
    PROVE  Pictures(Downsample(peaks, count, short), peaks, count)
<1> DEFINE bars == Downsample(peaks, count, short)
           Heights(i) == {Amplitude(peaks[j + 1]) : j \in Bucket(peaks, count, short, i)}
<1>0. PICK n \in Nat : n = Len(peaks)
  OBVIOUS
<1>1. /\ n \in Nat /\ DOMAIN peaks = 1..n
      /\ \A j \in 1..n : peaks[j] \in Peak
      /\ peaks = <<>> <=> n = 0
  BY <1>0
<1>2. /\ DOMAIN bars = 0..(count - 1)
      /\ \A i \in 0..(count - 1) : bars[i] = Max({0} \cup Heights(i))
  BY DEF Downsample
<1>3. Loudest \in Nat
  BY DEF Loudest
<1> HIDE DEF bars
<1>4. CASE n = 0
  <2>1. \A i \in 0..(count - 1) : Bucket(peaks, count, short, i) = {}
    BY <1>0, <1>4 DEF Bucket
  <2>2. Max({0}) = 0
    <3>1. {0} \in SUBSET (0..0)
      OBVIOUS
    <3> QED BY <3>1, MaxIsGreatest
  <2>3. \A i \in 0..(count - 1) : bars[i] = 0
    BY <1>2, <2>1, <2>2
  <2>4. \A i \in 0..(count - 1) :
          IF peaks = <<>> THEN bars[i] = 0
          ELSE \E j \in 0..(Len(peaks) - 1) :
                 Meet(peaks, count, i, j) /\ bars[i] = Amplitude(peaks[j + 1])
    BY <1>1, <1>4, <2>3
  <2>5. \A j \in 0..(Len(peaks) - 2) : FALSE
    BY <1>0, <1>4
  <2> QED BY <1>2, <2>4, <2>5 DEF Pictures, bars
<1>5. CASE n > 0
  <2>1. ASSUME NEW i \in 0..(count - 1)
        PROVE  /\ \E j \in 0..(n - 1) :
                    Meet(peaks, count, i, j) /\ bars[i] = Amplitude(peaks[j + 1])
               /\ bars[i] \in Nat
               /\ \A j \in Bucket(peaks, count, short, i) :
                    /\ Meet(peaks, count, i, j)
                    /\ bars[i] >= Amplitude(peaks[j + 1])
    <3>1. PICK B : B = Bucket(peaks, count, short, i)
      OBVIOUS
    <3>2. /\ B \subseteq 0..(n - 1)
          /\ B # {}
          /\ \A j \in B : Meet(peaks, count, i, j)
      <4>1. /\ Border(peaks, count, short, i) \in B
            /\ \A j \in B : j \in 0..(n - 1) /\ Meet(peaks, count, i, j)
        <5>1. n \in Nat \ {0}
          BY <1>5
        <5> QED BY <1>0, <3>1, <5>1, BucketMeets
      <4> QED BY <4>1
    <3>3. \A j \in B : Amplitude(peaks[j + 1]) \in 0..Loudest
      <4>1. ASSUME NEW j \in B
            PROVE  Amplitude(peaks[j + 1]) \in 0..Loudest
        <5>1. j + 1 \in 1..n
          BY <1>1, <3>2
        <5> QED BY <1>1, <5>1, AmplitudeRange
      <4> QED BY <4>1
    <3> DEFINE H == {0} \cup Heights(i)
    <3>4. Heights(i) = {Amplitude(peaks[j + 1]) : j \in B}
      BY <3>1
    <3>5. H \in SUBSET (0..Loudest) /\ H # {}
      <4>1. Heights(i) \subseteq 0..Loudest
        BY <3>3, <3>4
      <4> HIDE DEF Heights
      <4> QED BY <1>3, <4>1
    <3>6. Max(H) \in H /\ \A h \in H : Max(H) >= h
      <4> HIDE DEF H
      <4> QED BY <1>3, <3>5, MaxIsGreatest
    <3>7. bars[i] \in H /\ \A h \in H : bars[i] >= h
      BY <1>2, <3>6
    <3>8. \A j \in B : Amplitude(peaks[j + 1]) \in H
      BY <3>4
    <3>9. bars[i] \in Nat
      BY <3>5, <3>7
    <3>10. \E j \in B : bars[i] = Amplitude(peaks[j + 1])
      <4>1. CASE bars[i] \in Heights(i)
        BY <3>4, <4>1
      <4>2. CASE bars[i] = 0
        <5>1. PICK j \in B : TRUE
          BY <3>2
        <5>2. Amplitude(peaks[j + 1]) \in 0..Loudest /\ bars[i] >= Amplitude(peaks[j + 1])
          BY <3>3, <3>7, <3>8
        <5>3. Amplitude(peaks[j + 1]) = 0
          BY <1>3, <4>2, <5>2
        <5> QED BY <4>2, <5>3
      <4> QED BY <3>7, <4>1, <4>2
    <3> HIDE DEF H, Heights
    <3> QED BY <3>1, <3>2, <3>7, <3>8, <3>9, <3>10
  <2>2. ASSUME NEW j \in 0..(n - 2)
        PROVE  \E i \in 0..(count - 1) :
                 Meet(peaks, count, i, j) /\ bars[i] >= Amplitude(peaks[j + 1])
    <3>1. n \in Nat \ {0}
      BY <1>5
    <3>2. PICK i \in 0..(count - 1) : j \in Bucket(peaks, count, short, i)
      BY <1>0, <3>1, BucketsCover
    <3> QED BY <2>1, <3>2
  <2>3. \A i \in 0..(count - 1) :
          IF peaks = <<>> THEN bars[i] = 0
          ELSE \E j \in 0..(Len(peaks) - 1) :
                 Meet(peaks, count, i, j) /\ bars[i] = Amplitude(peaks[j + 1])
    <3>1. peaks # <<>>
      BY <1>1, <1>5
    <3> QED BY <1>0, <2>1, <3>1
  <2>4. \A j \in 0..(Len(peaks) - 2) :
          \E i \in 0..(count - 1) :
             Meet(peaks, count, i, j) /\ bars[i] >= Amplitude(peaks[j + 1])
    BY <1>0, <2>2
  <2> QED BY <1>2, <2>3, <2>4 DEF Pictures, bars
<1> QED BY <1>1, <1>4, <1>5

=============================================================================
