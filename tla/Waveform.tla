------------------------------- MODULE Waveform -------------------------------
(***************************************************************************)
(* The arithmetic of services/web/src/components/audio/LiveWaveform.tsx.   *)
(*                                                                         *)
(* Peaks are pairs of bytes.  Amplitudes are the fractions of the code     *)
(* times 128 * 127, which makes them integers; positions in a list are     *)
(* counted from 0, as they are there.                                      *)
(***************************************************************************)
EXTENDS Integers, Sequences, FiniteSetsExt

Loudest == 128 * 127
Peak == (-128..127) \X (-128..127)

Size(x) == IF x < 0 THEN -x ELSE x
Clamp(low, high, x) == IF x < low THEN low ELSE IF x > high THEN high ELSE x

\* The larger one of |low| / 128 and |high| / 127, at most 1.
Amplitude(peak) == Min({Loudest, Max({Size(peak[1]) * 127, Size(peak[2]) * 128})})

\* Bars that fit into a width; a canvas that is not laid out has none.
BarCount(width, step) == Max({1, width \div step})

\* Math.floor(i * bucket), where bucket is the quotient of two numbers in floating
\* point: when it is not a whole number, a product that should be one may fall short
\* of it, as 11 * (15 / 11) does.  "short" are the borders where that happens.
Border(peaks, count, short, i) ==
    (i * Len(peaks)) \div count - (IF i \in short THEN 1 ELSE 0)

ShortBorders(peaks, count) ==
    IF Len(peaks) % count = 0 THEN {}
    ELSE {i \in 1..count : (i * Len(peaks)) % count = 0}

\* Mutant: a bucket may be empty.
BucketMaybeEmpty(peaks, count, short, i) ==
    {j \in 0..(Len(peaks) - 1) : /\ Border(peaks, count, short, i) <= j
                                 /\ j < Border(peaks, count, short, i + 1)}

\* The peaks of bar i: at least one, even when there are more bars than peaks.
Bucket(peaks, count, short, i) ==
    LET start == Border(peaks, count, short, i)
        end == Max({start + 1, Border(peaks, count, short, i + 1)})
    IN  {j \in 0..(Len(peaks) - 1) : start <= j /\ j < end}

Downsample(peaks, count, short) ==
    [i \in 0..(count - 1) |->
        Max({0} \cup {Amplitude(peaks[j + 1]) : j \in Bucket(peaks, count, short, i)})]

\* amplitudeAt, at time t of a track that takes "duration": the two peaks around it,
\* each weighed by how near it is.
AmplitudeAt(peaks, t, duration) ==
    IF peaks = <<>> THEN 0
    ELSE LET last == Len(peaks) - 1
             position == Clamp(0, duration, t) * last
             index == position \div duration
             blend == position % duration
             next == Min({last, index + 1})
         IN  (Amplitude(peaks[index + 1]) * (duration - blend)
                + Amplitude(peaks[next + 1]) * blend) \div duration

-----------------------------------------------------------------------------
(* What a picture of the peaks should be                                   *)

\* Bar i and peak j stand for parts of the track that meet.
Meet(peaks, count, i, j) ==
    /\ i * Len(peaks) <= (j + 1) * count
    /\ j * count <= (i + 1) * Len(peaks)

\* Every bar has the height of a peak of its part of the track, and every peak but the
\* last one is under a bar that is at least as high.
Pictures(bars, peaks, count) ==
    /\ DOMAIN bars = 0..(count - 1)
    /\ \A i \in 0..(count - 1) :
         IF peaks = <<>> THEN bars[i] = 0
         ELSE \E j \in 0..(Len(peaks) - 1) :
                 Meet(peaks, count, i, j) /\ bars[i] = Amplitude(peaks[j + 1])
    /\ \A j \in 0..(Len(peaks) - 2) :
         \E i \in 0..(count - 1) :
            Meet(peaks, count, i, j) /\ bars[i] >= Amplitude(peaks[j + 1])

=============================================================================
