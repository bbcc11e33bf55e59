----------------------------- MODULE CodecProofs -----------------------------
(***************************************************************************)
(* What serialization.ts reads is what it wrote, for lists of every        *)
(* length; and the time ranges keep applying, however often they are       *)
(* written and read.                                                       *)
(*                                                                         *)
(* The lists are written and read by recursion.  The induction that needs  *)
(* is taken from a theorem of the library without an operator parameter:   *)
(* the finite sets are well founded under strict inclusion.                *)
(***************************************************************************)
EXTENDS Codec, FiniteSetTheorems, SequenceTheorems, TLAPS

-----------------------------------------------------------------------------
(* Induction and recursion over the naturals.                               *)

\* Every set of naturals has a least element.
LEMMA LeastElement ==
  ASSUME NEW S, S \subseteq Nat, S # {}
  PROVE  \E m \in S : \A n \in S : m <= n
  <1> DEFINE T == {0..n : n \in S}
  <1>1. T \subseteq FiniteSubsetsOf(Nat)
    <2> SUFFICES ASSUME NEW n \in S PROVE 0..n \in FiniteSubsetsOf(Nat)
      OBVIOUS
    <2>1. IsFiniteSet(0..n) /\ 0..n \in SUBSET Nat
      BY FS_Interval
    <2>2. QED
      BY <2>1 DEF FiniteSubsetsOf
  <1>2. T # {}
    OBVIOUS
  <1>3. PICK x \in T : \A y \in T : <<y, x>> \notin StrictSubsetOrdering(Nat)
    BY <1>1, <1>2, FS_StrictSubsetOrderingWellFounded, WFMin
  <1>4. PICK m \in S : x = 0..m
    OBVIOUS
  <1>5. ASSUME NEW n \in S, n < m PROVE FALSE
    <2>1. 0..n \in T /\ 0..n \subseteq 0..m /\ 0..n # 0..m
      BY <1>5
    <2>2. 0..n \in SUBSET Nat /\ 0..m \in SUBSET Nat
      OBVIOUS
    <2>3. QED
      BY <2>1, <2>2, <1>3, <1>4 DEF StrictSubsetOrdering
  <1>6. QED
    BY <1>5

\* A set that contains 0, and with each natural the next one, contains them all.
LEMMA SetInduction ==
  ASSUME NEW S, 0 \in S, \A n \in Nat : n \in S => n + 1 \in S
  PROVE  Nat \subseteq S
  <1>1. SUFFICES ASSUME Nat \ S # {} PROVE FALSE
    OBVIOUS
  <1>2. PICK m \in Nat \ S : \A n \in Nat \ S : m <= n
    BY <1>1, LeastElement
  <1>3. m # 0 /\ m - 1 \in Nat /\ m - 1 \in S
    BY <1>2
  <1>4. QED
    BY <1>2, <1>3

\* The functions that satisfy a recursion up to n.
Approximations(D, c, g, n) ==
  {h \in [0..n -> D] : h[0] = c /\ \A i \in 1..n : h[i] = g[i][h[i - 1]]}

LEMMA ApproximationsAgree ==
  ASSUME NEW D, NEW c, NEW g, NEW m \in Nat, NEW n \in Nat,
         NEW h \in Approximations(D, c, g, m), NEW k \in Approximations(D, c, g, n),
         NEW j \in Nat, j <= m, j <= n
  PROVE  h[j] = k[j]
  <1> DEFINE S == {i \in Nat : i <= m /\ i <= n => h[i] = k[i]}
  <1>1. 0 \in S
    BY DEF Approximations
  <1>2. ASSUME NEW i \in Nat, i \in S PROVE i + 1 \in S
    <2> SUFFICES ASSUME i + 1 <= m, i + 1 <= n PROVE h[i + 1] = k[i + 1]
      OBVIOUS
    <2>1. h[i] = k[i]
      BY <1>2
    <2>2. i + 1 \in 1..m /\ i + 1 \in 1..n /\ (i + 1) - 1 = i
      OBVIOUS
    <2>3. h[i + 1] = g[i + 1][h[i]] /\ k[i + 1] = g[i + 1][k[i]]
      BY <2>2 DEF Approximations
    <2>4. QED
      BY <2>1, <2>3
  <1> HIDE DEF S
  <1>3. Nat \subseteq S
    BY <1>1, <1>2, SetInduction
  <1>4. QED
    BY <1>3 DEF S

LEMMA ApproximationsExist ==
  ASSUME NEW D, NEW c \in D, NEW g \in [Nat -> [D -> D]], NEW n \in Nat
  PROVE  Approximations(D, c, g, n) # {}
  <1> DEFINE S == {i \in Nat : Approximations(D, c, g, i) # {}}
  <1>1. 0 \in S
    <2>1. [i \in 0..0 |-> c] \in Approximations(D, c, g, 0)
      BY DEF Approximations
    <2>2. QED
      BY <2>1
  <1>2. ASSUME NEW i \in Nat, i \in S PROVE i + 1 \in S
    <2>1. PICK h \in Approximations(D, c, g, i) : TRUE
      BY <1>2
    <2> DEFINE k == [j \in 0..(i + 1) |-> IF j = i + 1 THEN g[i + 1][h[i]] ELSE h[j]]
    <2>2. h \in [0..i -> D] /\ h[0] = c /\ \A j \in 1..i : h[j] = g[j][h[j - 1]]
      BY <2>1 DEF Approximations
    <2>3. k \in [0..(i + 1) -> D]
      BY <2>2
    <2>4. k[0] = c
      BY <2>2
    <2>5. ASSUME NEW j \in 1..(i + 1) PROVE k[j] = g[j][k[j - 1]]
      <3>1. CASE j = i + 1
        <4>1. j - 1 = i /\ i \in 0..(i + 1) /\ i # i + 1 /\ j \in 0..(i + 1)
          BY <3>1
        <4>2. k[j] = g[i + 1][h[i]] /\ k[j - 1] = h[i]
          BY <3>1, <4>1
        <4>3. QED
          BY <3>1, <4>2
      <3>2. CASE j # i + 1
        <4>1. j \in 1..i /\ j - 1 \in 0..(i + 1) /\ j - 1 # i + 1
          BY <3>2
        <4>2. k[j] = h[j] /\ k[j - 1] = h[j - 1]
          BY <4>1
        <4>3. QED
          BY <2>2, <4>1, <4>2
      <3>3. QED
        BY <3>1, <3>2
    <2> HIDE DEF k
    <2>6. k \in Approximations(D, c, g, i + 1)
      BY <2>3, <2>4, <2>5 DEF Approximations
    <2>7. QED
      BY <2>6
  <1> HIDE DEF S
  <1>3. Nat \subseteq S
    BY <1>1, <1>2, SetInduction
  <1>4. QED
    BY <1>3 DEF S

Steps(D)   == [Nat -> [D -> D]]
Results(D) == [Nat -> D]
Recursion(f, c, g) == f[0] = c /\ \A n \in Nat : f[n + 1] = g[n + 1][f[n]]

\* A function can be defined by recursion.
LEMMA PrimitiveRecursion ==
  ASSUME NEW D, NEW c \in D, NEW g \in Steps(D)
  PROVE  \E f \in Results(D) : Recursion(f, c, g)
  <1> DEFINE A(n) == CHOOSE h : h \in Approximations(D, c, g, n)
             f == [n \in Nat |-> A(n)[n]]
  <1> USE DEF Steps
  <1>1. \A n \in Nat : A(n) \in Approximations(D, c, g, n)
    BY ApproximationsExist
  <1> HIDE DEF A
  <1>2. f \in [Nat -> D]
    BY <1>1 DEF Approximations
  <1>3. f[0] = c
    BY <1>1 DEF Approximations
  <1>4. ASSUME NEW n \in Nat PROVE f[n + 1] = g[n + 1][f[n]]
    <2>1. A(n) \in Approximations(D, c, g, n) /\ A(n + 1) \in Approximations(D, c, g, n + 1)
      BY <1>1
    <2>2. A(n)[n] = A(n + 1)[n]
      BY <2>1, ApproximationsAgree
    <2>3. n + 1 \in 1..(n + 1) /\ (n + 1) - 1 = n
      OBVIOUS
    <2>4. A(n + 1)[n + 1] = g[n + 1][A(n + 1)[n]]
      BY <2>1, <2>3 DEF Approximations
    <2>5. QED
      BY <2>2, <2>4
  <1>5. QED
    BY <1>2, <1>3, <1>4 DEF Results, Recursion

-----------------------------------------------------------------------------
(* Arrays as they are written.                                              *)

\* What FlattenSeq computes: the sequences up to the n-th, one after the other.
LEMMA FlattenSeqDefined ==
  ASSUME NEW T, NEW s \in Seq(Seq(T))
  PROVE  \E f \in [Nat -> Seq(T)] :
           /\ f[0] = <<>>
           /\ \A n \in 0..(Len(s) - 1) : f[n + 1] = f[n] \o s[n + 1]
           /\ FlattenSeq(s) = f[Len(s)]
  <1> DEFINE g == [n \in Nat |-> [t \in Seq(T) |-> IF n \in 1..Len(s) THEN t \o s[n] ELSE t]]
             D == 1..Len(s)
  <1>1. \A n \in D : s[n] \in Seq(T)
    OBVIOUS
  <1>2. g \in [Nat -> [Seq(T) -> Seq(T)]]
    BY <1>1
  <1>3. <<>> \in Seq(T)
    OBVIOUS
  <1>4. PICK f \in [Nat -> Seq(T)] :
          f[0] = <<>> /\ \A n \in Nat : f[n + 1] = g[n + 1][f[n]]
    <2> HIDE DEF g
    <2>1. g \in Steps(Seq(T))
      BY <1>2 DEF Steps
    <2>2. \E f \in Results(Seq(T)) : Recursion(f, <<>>, g)
      BY <1>3, <2>1, PrimitiveRecursion
    <2>3. QED
      BY <2>2 DEF Results, Recursion
  <1>5. \A n \in 0..(Len(s) - 1) : f[n + 1] = f[n] \o s[n + 1]
    <2> SUFFICES ASSUME NEW n \in 0..(Len(s) - 1) PROVE f[n + 1] = f[n] \o s[n + 1]
      OBVIOUS
    <2>1. n \in Nat /\ n + 1 \in 1..Len(s) /\ f[n] \in Seq(T)
      OBVIOUS
    <2>2. f[n + 1] = g[n + 1][f[n]]
      BY <1>4, <2>1
    <2>3. g[n + 1] = [t \in Seq(T) |-> t \o s[n + 1]]
      BY <2>1
    <2>4. QED
      BY <2>1, <2>2, <2>3
  <1> HIDE DEF g
  <1>6. CASE Len(s) = 0
    <2>1. s = <<>>
      BY <1>6
    <2>2. QED
      BY <1>4, <1>5, <1>6, <2>1 DEF FlattenSeq
  <1>7. CASE Len(s) # 0
    <2> DEFINE Flat(h) == h = [i \in D |-> IF i = 1 THEN s[i] ELSE h[i - 1] \o s[i]]
               h == [i \in D |-> f[i]]
               k == CHOOSE e : Flat(e)
    <2>1. Len(s) \in Nat \ {0}
      BY <1>7
    <2>2. Flat(h)
      <3> SUFFICES ASSUME NEW i \in D
                   PROVE  f[i] = IF i = 1 THEN s[i] ELSE h[i - 1] \o s[i]
        OBVIOUS
      <3>1. i - 1 \in 0..(Len(s) - 1) /\ (i - 1) + 1 = i
        BY <2>1
      <3>2. f[i] = f[i - 1] \o s[i]
        BY <1>5, <3>1
      <3>3. CASE i = 1
        <4>1. f[i - 1] = <<>> /\ s[i] \in Seq(T)
          BY <1>1, <1>4, <3>3
        <4>2. QED
          BY <3>2, <3>3, <4>1
      <3>4. CASE i # 1
        <4>1. i - 1 \in D
          BY <2>1, <3>4
        <4>2. QED
          BY <3>2, <3>4, <4>1
      <3>5. QED
        BY <3>3, <3>4
    <2>3. Flat(k)
      BY <2>2
    <2>4. FlattenSeq(s) = k[Len(s)]
      BY <1>7 DEF FlattenSeq
    <2> HIDE DEF k
    <2> DEFINE S == {n \in Nat : n + 1 \in D => k[n + 1] = f[n + 1]}
    <2>5. 0 \in S
      <3> SUFFICES ASSUME 0 + 1 \in D PROVE k[1] = f[1]
        OBVIOUS
      <3>1. 1 \in D
        OBVIOUS
      <3>2. k[1] = s[1]
        BY <2>3, <3>1
      <3>3. h[1] = s[1]
        BY <2>2, <3>1
      <3>4. QED
        BY <3>1, <3>2, <3>3
    <2>6. ASSUME NEW n \in Nat, n \in S PROVE n + 1 \in S
      <3> SUFFICES ASSUME (n + 1) + 1 \in D PROVE k[(n + 1) + 1] = f[(n + 1) + 1]
        OBVIOUS
      <3>1. n + 1 \in D /\ ((n + 1) + 1) - 1 = n + 1 /\ (n + 1) + 1 # 1
        BY <2>1
      <3>2. n + 1 \in 0..(Len(s) - 1)
        BY <2>1
      <3>3. k[n + 1] = f[n + 1]
        BY <2>6, <3>1
      <3>4. k[(n + 1) + 1] = k[n + 1] \o s[(n + 1) + 1]
        BY <2>3, <3>1
      <3>5. QED
        BY <1>5, <3>2, <3>3, <3>4
    <2> HIDE DEF S
    <2>7. Nat \subseteq S
      BY <2>5, <2>6, SetInduction
    <2>8. Len(s) - 1 \in Nat /\ (Len(s) - 1) + 1 = Len(s) /\ Len(s) \in D
      BY <2>1
    <2>9. k[Len(s)] = f[Len(s)]
      BY <2>7, <2>8 DEF S
    <2>10. QED
      BY <1>4, <1>5, <2>4, <2>9
  <1>8. QED
    BY <1>6, <1>7

LEMMA FlattenSeqEmpty == FlattenSeq(<<>>) = <<>>
  BY DEF FlattenSeq

\* Flattening a list with one more item puts that item's tokens behind the others.
LEMMA FlattenSeqAppend ==
  ASSUME NEW T, NEW s \in Seq(Seq(T)), NEW e \in Seq(T)
  PROVE  /\ FlattenSeq(s) \in Seq(T)
         /\ FlattenSeq(Append(s, e)) = FlattenSeq(s) \o e
  <1> DEFINE t == Append(s, e)
  <1>1. /\ t \in Seq(Seq(T)) /\ Len(t) = Len(s) + 1
        /\ \A i \in 1..Len(s) : t[i] = s[i]
        /\ t[Len(s) + 1] = e
    BY AppendProperties
  <1> HIDE DEF t
  <1>2. PICK f \in [Nat -> Seq(T)] :
          /\ f[0] = <<>>
          /\ \A n \in 0..(Len(s) - 1) : f[n + 1] = f[n] \o s[n + 1]
          /\ FlattenSeq(s) = f[Len(s)]
    BY FlattenSeqDefined
  <1>3. PICK h \in [Nat -> Seq(T)] :
          /\ h[0] = <<>>
          /\ \A n \in 0..(Len(t) - 1) : h[n + 1] = h[n] \o t[n + 1]
          /\ FlattenSeq(t) = h[Len(t)]
    BY <1>1, FlattenSeqDefined
  <1>4. Len(s) \in Nat
    OBVIOUS
  <1> DEFINE S == {n \in Nat : n <= Len(s) => h[n] = f[n]}
  <1>5. 0 \in S
    BY <1>2, <1>3
  <1>6. ASSUME NEW n \in Nat, n \in S PROVE n + 1 \in S
    <2> SUFFICES ASSUME n + 1 <= Len(s) PROVE h[n + 1] = f[n + 1]
      OBVIOUS
    <2>1. n \in 0..(Len(s) - 1) /\ n \in 0..(Len(t) - 1) /\ n + 1 \in 1..Len(s)
      BY <1>1, <1>4
    <2>2. h[n] = f[n]
      BY <1>4, <1>6
    <2>3. QED
      BY <1>1, <1>2, <1>3, <2>1, <2>2
  <1> HIDE DEF S
  <1>7. Nat \subseteq S
    BY <1>5, <1>6, SetInduction
  <1>8. h[Len(s)] = f[Len(s)]
    BY <1>4, <1>7 DEF S
  <1>9. h[Len(s) + 1] = h[Len(s)] \o e
    <2>1. Len(s) \in 0..(Len(t) - 1)
      BY <1>1, <1>4
    <2>2. QED
      BY <1>1, <1>3, <2>1
  <1>10. FlattenSeq(t) = FlattenSeq(s) \o e
    BY <1>1, <1>2, <1>3, <1>8, <1>9
  <1>11. QED
    BY <1>2, <1>4, <1>10 DEF t
-----------------------------------------------------------------------------
(* The values that the two files can hold.                                  *)

Token == ({"int"} \X Int) \union ({"str"} \X Names)

StoredRange == {FromTimes(from, till) : from, till \in TimesOfDay}

StoredConditional ==
  [tag : {"Countdown"}, lifetime : Countdown]
    \union [tag : {"TimeRange"}, range : StoredRange, lifetime : Countdown]
    \union [tag : {"UptimeAllowance"}, allowance : Durations, lifetime : Countdown]

StoredVault == [name : Names, data : Names, protection : Countdown]
StoredUser  == [screen : Seq(StoredConditional), internet : Seq(StoredConditional)]
StoredData1 == [luny : StoredUser, ruru : StoredUser, vaults : Seq(StoredVault)]
StoredClock == [counted : Durations, prev : Nat]
StoredData2 == [uptime : StoredClock, mono : StoredClock]

\* What a reader of values of X may return.
Outcomes(X) == {Failure} \union {Got(x, rest) : x \in X, rest \in Seq(Token)}

LEMMA GotFields ==
  ASSUME NEW value, NEW rest
  PROVE  /\ Got(value, rest).ok /\ ~Failure.ok
         /\ Got(value, rest).value = value /\ Got(value, rest).rest = rest
  BY DEF Got, Failure

LEMMA OutcomeFields ==
  ASSUME NEW X, NEW o \in Outcomes(X)
  PROVE  /\ o.ok => o.value \in X /\ o.rest \in Seq(Token) /\ o = Got(o.value, o.rest)
         /\ ~o.ok => o = Failure
  BY GotFields DEF Outcomes

LEMMA GotIsOutcome ==
  ASSUME NEW X
  PROVE  /\ Failure \in Outcomes(X)
         /\ \A x \in X, rest \in Seq(Token) : Got(x, rest) \in Outcomes(X)
  BY DEF Outcomes

LEMMA TimeFacts ==
  /\ MsPerDay \in Nat \ {0} /\ TimesOfDay \subseteq Nat /\ MaxMilliseconds \in Nat
  /\ Durations \subseteq Nat
  BY ChronicAssumption DEF TimesOfDay, Durations

\* A range that is stored ends within a day of its beginning.
LEMMA RangeFields ==
  ASSUME NEW r \in StoredRange
  PROVE  /\ r = [from |-> r.from, till |-> r.till]
         /\ r.from \in TimesOfDay /\ r.till \in Nat
         /\ r.from <= r.till /\ r.till < r.from + MsPerDay
  BY TimeFacts DEF StoredRange, FromTimes, TimesOfDay

\* What is written of a range are two times of the day, and what is made of them
\* is a range again (time_range.ts, getTill).
LEMMA RangeIsReadBack ==
  ASSUME NEW r \in StoredRange
  PROVE  RangeTill(r) \in TimesOfDay /\ RangeReadBack(r) \in StoredRange
  BY TimeFacts DEF StoredRange, FromTimes, TimesOfDay, RangeTill, RangeReadBack

-----------------------------------------------------------------------------
(* What a reader returns is a value of its type, whatever the tokens are.   *)

LEMMA BothOutcome ==
  ASSUME NEW X, NEW Y, NEW Z, NEW a \in Outcomes(X), NEW b, NEW value,
         a.ok => b \in Outcomes(Y),
         a.ok /\ b.ok => value \in Z
  PROVE  Both(a, b, value) \in Outcomes(Z)
  <1>1. CASE a.ok /\ b.ok
    <2>1. b.rest \in Seq(Token) /\ value \in Z
      BY <1>1, OutcomeFields
    <2>2. Both(a, b, value) = Got(value, b.rest)
      BY <1>1 DEF Both
    <2>3. QED
      BY <2>1, <2>2, GotIsOutcome
  <1>2. CASE ~(a.ok /\ b.ok)
    BY <1>2, GotIsOutcome DEF Both
  <1>3. QED
    BY <1>1, <1>2

LEMMA ReadTokenTyped ==
  ASSUME NEW kind, NEW accepted, NEW tokens \in Seq(Token)
  PROVE  ReadToken(kind, accepted, tokens) \in Outcomes(accepted)
  <1>1. CASE tokens # <<>> /\ Head(tokens)[1] = kind /\ Head(tokens)[2] \in accepted
    <2>1. Tail(tokens) \in Seq(Token)
      BY <1>1
    <2>2. ReadToken(kind, accepted, tokens) = Got(Head(tokens)[2], Tail(tokens))
      BY <1>1 DEF ReadToken
    <2>3. QED
      BY <1>1, <2>1, <2>2, GotIsOutcome
  <1>2. CASE ~(tokens # <<>> /\ Head(tokens)[1] = kind /\ Head(tokens)[2] \in accepted)
    BY <1>2, GotIsOutcome DEF ReadToken
  <1>3. QED
    BY <1>1, <1>2

LEMMA PrimitivesTyped ==
  ASSUME NEW tokens \in Seq(Token)
  PROVE  /\ ReadInteger(tokens) \in Outcomes(Int)
         /\ ReadDuration(tokens) \in Outcomes(Durations)
         /\ ReadDateTime(tokens) \in Outcomes(Nat)
         /\ ReadTime(tokens) \in Outcomes(TimesOfDay)
         /\ ReadName(tokens) \in Outcomes(Names)
  BY ReadTokenTyped DEF ReadInteger, ReadDuration, ReadDateTime, ReadTime, ReadName

LEMMA ReadCountdownTyped ==
  ASSUME NEW tokens \in Seq(Token)
  PROVE  ReadCountdown(tokens) \in Outcomes(Countdown)
  <1> DEFINE from     == ReadDuration(tokens)
             duration == ReadDuration(from.rest)
             value    == [from |-> from.value, duration |-> duration.value]
  <1>1. from \in Outcomes(Durations)
    BY PrimitivesTyped
  <1>2. from.ok => from.value \in Durations /\ from.rest \in Seq(Token)
    BY <1>1, OutcomeFields
  <1>3. from.ok => duration \in Outcomes(Durations)
    BY <1>2, PrimitivesTyped
  <1>4. from.ok /\ duration.ok => duration.value \in Durations
    BY <1>3, OutcomeFields
  <1> HIDE DEF from, duration
  <1>5. from.ok /\ duration.ok => value \in Countdown
    BY <1>2, <1>4 DEF Countdown
  <1> HIDE DEF value
  <1>6. Both(from, duration, value) \in Outcomes(Countdown)
    BY <1>1, <1>3, <1>5, BothOutcome
  <1>7. QED
    BY <1>6 DEF ReadCountdown, from, duration, value

LEMMA ReadTimeRangeTyped ==
  ASSUME NEW tokens \in Seq(Token)
  PROVE  ReadTimeRange(tokens) \in Outcomes(StoredRange)
  <1> DEFINE from  == ReadTime(tokens)
             till  == ReadTime(from.rest)
             value == FromTimes(from.value, till.value)
  <1>1. from \in Outcomes(TimesOfDay)
    BY PrimitivesTyped
  <1>2. from.ok => from.value \in TimesOfDay /\ from.rest \in Seq(Token)
    BY <1>1, OutcomeFields
  <1>3. from.ok => till \in Outcomes(TimesOfDay)
    BY <1>2, PrimitivesTyped
  <1>4. from.ok /\ till.ok => till.value \in TimesOfDay
    BY <1>3, OutcomeFields
  <1> HIDE DEF from, till
  <1>5. from.ok /\ till.ok => value \in StoredRange
    BY <1>2, <1>4 DEF StoredRange
  <1> HIDE DEF value
  <1>6. Both(from, till, value) \in Outcomes(StoredRange)
    BY <1>1, <1>3, <1>5, BothOutcome
  <1>7. QED
    BY <1>6 DEF ReadTimeRange, from, till, value

\* The three kinds of conditional as they are stored.
LEMMA ConditionalKinds ==
  ASSUME NEW c \in Countdown
  PROVE  /\ [tag |-> "Countdown", lifetime |-> c] \in StoredConditional
         /\ \A r \in StoredRange :
              [tag |-> "TimeRange", range |-> r, lifetime |-> c] \in StoredConditional
         /\ \A d \in Durations :
              [tag |-> "UptimeAllowance", allowance |-> d, lifetime |-> c] \in StoredConditional
  BY DEF StoredConditional

LEMMA ReadKindsTyped ==
  ASSUME NEW tokens \in Seq(Token)
  PROVE  /\ ReadCountdownConditional(tokens) \in Outcomes(StoredConditional)
         /\ ReadTimeRangeConditional(tokens) \in Outcomes(StoredConditional)
         /\ ReadAllowanceConditional(tokens) \in Outcomes(StoredConditional)
  <1>1. ReadCountdownConditional(tokens) \in Outcomes(StoredConditional)
    <2> DEFINE lifetime == ReadCountdown(tokens)
    <2>1. lifetime \in Outcomes(Countdown)
      BY ReadCountdownTyped
    <2>2. lifetime.ok => lifetime.value \in Countdown /\ lifetime.rest \in Seq(Token)
      BY <2>1, OutcomeFields
    <2>3. ReadCountdownConditional(tokens) =
            IF lifetime.ok
            THEN Got([tag |-> "Countdown", lifetime |-> lifetime.value], lifetime.rest)
            ELSE Failure
      BY DEF ReadCountdownConditional
    <2> HIDE DEF lifetime
    <2>4. CASE lifetime.ok
      BY <2>2, <2>3, <2>4, ConditionalKinds, GotIsOutcome
    <2>5. CASE ~lifetime.ok
      BY <2>3, <2>5, GotIsOutcome
    <2>6. QED
      BY <2>4, <2>5
  <1>2. ReadTimeRangeConditional(tokens) \in Outcomes(StoredConditional)
    <2> DEFINE range    == ReadTimeRange(tokens)
               lifetime == ReadCountdown(range.rest)
               value    == [tag |-> "TimeRange", range |-> range.value,
                            lifetime |-> lifetime.value]
    <2>1. range \in Outcomes(StoredRange)
      BY ReadTimeRangeTyped
    <2>2. range.ok => range.value \in StoredRange /\ range.rest \in Seq(Token)
      BY <2>1, OutcomeFields
    <2>3. range.ok => lifetime \in Outcomes(Countdown)
      BY <2>2, ReadCountdownTyped
    <2>4. range.ok /\ lifetime.ok => lifetime.value \in Countdown
      BY <2>3, OutcomeFields
    <2> HIDE DEF range, lifetime
    <2>5. range.ok /\ lifetime.ok => value \in StoredConditional
      BY <2>2, <2>4, ConditionalKinds
    <2> HIDE DEF value
    <2>6. Both(range, lifetime, value) \in Outcomes(StoredConditional)
      BY <2>1, <2>3, <2>5, BothOutcome
    <2>7. QED
      BY <2>6 DEF ReadTimeRangeConditional, range, lifetime, value
  <1>3. ReadAllowanceConditional(tokens) \in Outcomes(StoredConditional)
    <2> DEFINE allowance == ReadDuration(tokens)
               lifetime  == ReadCountdown(allowance.rest)
               value     == [tag |-> "UptimeAllowance", allowance |-> allowance.value,
                             lifetime |-> lifetime.value]
    <2>1. allowance \in Outcomes(Durations)
      BY PrimitivesTyped
    <2>2. allowance.ok => allowance.value \in Durations /\ allowance.rest \in Seq(Token)
      BY <2>1, OutcomeFields
    <2>3. allowance.ok => lifetime \in Outcomes(Countdown)
      BY <2>2, ReadCountdownTyped
    <2>4. allowance.ok /\ lifetime.ok => lifetime.value \in Countdown
      BY <2>3, OutcomeFields
    <2> HIDE DEF allowance, lifetime
    <2>5. allowance.ok /\ lifetime.ok => value \in StoredConditional
      BY <2>2, <2>4, ConditionalKinds
    <2> HIDE DEF value
    <2>6. Both(allowance, lifetime, value) \in Outcomes(StoredConditional)
      BY <2>1, <2>3, <2>5, BothOutcome
    <2>7. QED
      BY <2>6 DEF ReadAllowanceConditional, allowance, lifetime, value
  <1>4. QED
    BY <1>1, <1>2, <1>3

\* The tag tells which of the three readers the rest is for.
LEMMA TagSelects ==
  ASSUME NEW tokens, NEW number, NEW rest, ReadInteger(tokens) = Got(number, rest)
  PROVE  /\ number = 0 => ReadConditional(tokens) = ReadCountdownConditional(rest)
         /\ number = 1 => ReadConditional(tokens) = ReadTimeRangeConditional(rest)
         /\ number = 2 => ReadConditional(tokens) = ReadAllowanceConditional(rest)
         /\ number \notin {0, 1, 2} => ReadConditional(tokens) = Failure
  <1>1. /\ ReadInteger(tokens).ok /\ ReadInteger(tokens).value = number
        /\ ReadInteger(tokens).rest = rest
    BY GotFields
  <1>2. /\ TagNumber.Countdown = 0 /\ TagNumber.TimeRange = 1
        /\ TagNumber.UptimeAllowance = 2
    BY DEF TagNumber
  <1>3. QED
    BY <1>1, <1>2 DEF ReadConditional

LEMMA ReadConditionalTyped ==
  ASSUME NEW tokens \in Seq(Token)
  PROVE  ReadConditional(tokens) \in Outcomes(StoredConditional)
  <1> DEFINE tag == ReadInteger(tokens)
  <1>1. tag \in Outcomes(Int)
    BY PrimitivesTyped
  <1>2. CASE tag.ok
    <2>1. tag.rest \in Seq(Token) /\ tag = Got(tag.value, tag.rest)
      BY <1>1, <1>2, OutcomeFields
    <2>2. \/ ReadConditional(tokens) \in {ReadCountdownConditional(tag.rest),
                                          ReadTimeRangeConditional(tag.rest),
                                          ReadAllowanceConditional(tag.rest)}
          \/ ReadConditional(tokens) = Failure
      BY <2>1, TagSelects
    <2>3. QED
      BY <2>1, <2>2, ReadKindsTyped, GotIsOutcome
  <1>3. CASE ~tag.ok
    <2>1. ReadConditional(tokens) = Failure
      BY <1>3 DEF ReadConditional
    <2>2. QED
      BY <2>1, GotIsOutcome
  <1>4. QED
    BY <1>2, <1>3

LEMMA ReadVaultTyped ==
  ASSUME NEW tokens \in Seq(Token)
  PROVE  ReadVault(tokens) \in Outcomes(StoredVault)
  <1> DEFINE name       == ReadName(tokens)
             data       == ReadName(name.rest)
             protection == ReadCountdown(data.rest)
             value      == [name |-> name.value, data |-> data.value,
                            protection |-> protection.value]
  <1>1. name \in Outcomes(Names)
    BY PrimitivesTyped
  <1>2. CASE name.ok
    <2>1. name.value \in Names /\ name.rest \in Seq(Token)
      BY <1>1, <1>2, OutcomeFields
    <2>2. data \in Outcomes(Names)
      BY <2>1, PrimitivesTyped
    <2>3. data.ok => data.value \in Names /\ data.rest \in Seq(Token)
      BY <2>2, OutcomeFields
    <2>4. data.ok => protection \in Outcomes(Countdown)
      BY <2>3, ReadCountdownTyped
    <2>5. data.ok /\ protection.ok => protection.value \in Countdown
      BY <2>4, OutcomeFields
    <2>6. ReadVault(tokens) = Both(data, protection, value)
      BY <1>2 DEF ReadVault
    <2> HIDE DEF name, data, protection
    <2>7. data.ok /\ protection.ok => value \in StoredVault
      BY <2>1, <2>3, <2>5 DEF StoredVault
    <2> HIDE DEF value
    <2>8. QED
      BY <2>2, <2>4, <2>6, <2>7, BothOutcome
  <1>3. CASE ~name.ok
    <2>1. ReadVault(tokens) = Failure
      BY <1>3 DEF ReadVault
    <2>2. QED
      BY <2>1, GotIsOutcome
  <1>4. QED
    BY <1>2, <1>3

\* The values that an array of a type holds.
ItemsOf(type) == IF type = "Conditional" THEN StoredConditional ELSE StoredVault

LEMMA ReadItemTyped ==
  ASSUME NEW type, NEW tokens \in Seq(Token)
  PROVE  ReadItem(type, tokens) \in Outcomes(ItemsOf(type))
  BY ReadConditionalTyped, ReadVaultTyped DEF ReadItem, ItemsOf

\* What readArray has read after each number of items (serialization.ts, readArray).
LEMMA ReadItemsSteps ==
  ASSUME NEW type, NEW tokens \in Seq(Token)
  PROVE  LET read == ReadItems(type, tokens)
         IN  /\ read \in [Nat -> Outcomes(Seq(ItemsOf(type)))]
             /\ read[0] = Got(<<>>, tokens)
             /\ \A n \in Nat :
                  read[n + 1] = LET item == ReadItem(type, read[n].rest)
                                IN  Both(read[n], item, Append(read[n].value, item.value))
  <1> DEFINE D        == Outcomes(Seq(ItemsOf(type)))
             Step(o)  == Both(o, ReadItem(type, o.rest),
                              Append(o.value, ReadItem(type, o.rest).value))
             start    == Got(<<>>, tokens)
             g        == [n \in Nat |-> [o \in D |-> Step(o)]]
             Def(f)   == f = [n \in Nat |-> IF n = 0 THEN start ELSE Step(f[n - 1])]
             read     == ReadItems(type, tokens)
  <1>1. \A o \in D : Step(o) \in D
    <2> SUFFICES ASSUME NEW o \in D PROVE Step(o) \in D
      OBVIOUS
    <2> DEFINE item  == ReadItem(type, o.rest)
               value == Append(o.value, item.value)
    <2>1. o.ok => o.value \in Seq(ItemsOf(type)) /\ o.rest \in Seq(Token)
      BY OutcomeFields
    <2>2. o.ok => item \in Outcomes(ItemsOf(type))
      BY <2>1, ReadItemTyped
    <2>3. o.ok /\ item.ok => item.value \in ItemsOf(type)
      BY <2>2, OutcomeFields
    <2> HIDE DEF item
    <2>4. o.ok /\ item.ok => value \in Seq(ItemsOf(type))
      BY <2>1, <2>3
    <2> HIDE DEF value
    <2>5. Both(o, item, value) \in D
      BY <2>2, <2>4, BothOutcome
    <2>6. QED
      BY <2>5 DEF item, value
  <1>2. start \in D
    BY GotIsOutcome, EmptySeq
  <1> HIDE DEF D, Step, start
  <1>3. g \in Steps(D)
    BY <1>1 DEF Steps
  <1>4. \A n \in Nat : \A o \in D : g[n][o] = Step(o)
    OBVIOUS
  <1> HIDE DEF g
  <1>5. PICK f \in Results(D) : Recursion(f, start, g)
    BY <1>2, <1>3, PrimitiveRecursion
  <1>6. Def(f)
    <2>1. f \in [Nat -> D] /\ f[0] = start /\ \A n \in Nat : f[n + 1] = g[n + 1][f[n]]
      BY <1>5 DEF Results, Recursion
    <2>2. ASSUME NEW n \in Nat, n # 0 PROVE f[n] = Step(f[n - 1])
      <3>1. n - 1 \in Nat /\ (n - 1) + 1 = n
        BY <2>2
      <3>2. f[n] = g[n][f[n - 1]]
        BY <2>1, <3>1
      <3>3. QED
        BY <1>4, <2>1, <3>1, <3>2
    <2>3. QED
      BY <2>1, <2>2
  <1>7. read = CHOOSE h : Def(h)
    BY DEF ReadItems, Step, start
  <1> HIDE DEF read
  <1>8. Def(read)
    BY <1>6, <1>7
  <1>9. /\ read[0] = start /\ \A n \in Nat : read[n + 1] = Step(read[n])
    <2>1. ASSUME NEW n \in Nat PROVE read[n + 1] = Step(read[n])
      <3>1. n + 1 \in Nat /\ n + 1 # 0 /\ (n + 1) - 1 = n
        OBVIOUS
      <3>2. QED
        BY <1>8, <3>1
    <2>2. QED
      BY <1>8, <2>1
  <1>10. read \in [Nat -> D]
    <2> DEFINE S == {n \in Nat : read[n] \in D}
    <2>1. 0 \in S
      BY <1>2, <1>9
    <2>2. ASSUME NEW n \in Nat, n \in S PROVE n + 1 \in S
      <3>1. read[n] \in D
        BY <2>2
      <3>2. Step(read[n]) \in D
        BY <1>1, <3>1
      <3>3. read[n + 1] = Step(read[n])
        BY <1>9
      <3>4. QED
        BY <3>2, <3>3
    <2> HIDE DEF S
    <2>3. Nat \subseteq S
      BY <2>1, <2>2, SetInduction
    <2>4. \A n \in Nat : read[n] \in D
      BY <2>3 DEF S
    <2>5. QED
      BY <1>8, <2>4
  <1>11. QED
    BY <1>9, <1>10 DEF read, D, Step, start

LEMMA ReadArrayTyped ==
  ASSUME NEW type, NEW tokens \in Seq(Token)
  PROVE  ReadArray(type, tokens) \in Outcomes(Seq(ItemsOf(type)))
  <1> DEFINE length == ReadInteger(tokens)
  <1>1. length \in Outcomes(Int)
    BY PrimitivesTyped
  <1>2. CASE length.ok /\ length.value >= 0
    <2>1. length.value \in Int /\ length.rest \in Seq(Token)
      BY <1>1, <1>2, OutcomeFields
    <2>2. length.value \in Nat
      BY <1>2, <2>1
    <2>3. ReadArray(type, tokens) = ReadItems(type, length.rest)[length.value]
      BY <1>2 DEF ReadArray
    <2> HIDE DEF length
    <2>4. ReadItems(type, length.rest) \in [Nat -> Outcomes(Seq(ItemsOf(type)))]
      BY <2>1, ReadItemsSteps
    <2>5. QED
      BY <2>2, <2>3, <2>4
  <1>3. CASE ~(length.ok /\ length.value >= 0)
    <2>1. ReadArray(type, tokens) = Failure
      BY <1>3 DEF ReadArray
    <2>2. QED
      BY <2>1, GotIsOutcome
  <1>4. QED
    BY <1>2, <1>3

LEMMA ReadListsTyped ==
  ASSUME NEW tokens \in Seq(Token)
  PROVE  /\ ReadConditionals(tokens) \in Outcomes(Seq(StoredConditional))
         /\ ReadVaults(tokens) \in Outcomes(Seq(StoredVault))
  <1>1. ItemsOf("Conditional") = StoredConditional /\ ItemsOf("Vault") = StoredVault
    BY DEF ItemsOf
  <1>2. QED
    BY <1>1, ReadArrayTyped DEF ReadConditionals, ReadVaults

LEMMA ReadUserTyped ==
  ASSUME NEW tokens \in Seq(Token)
  PROVE  ReadUser(tokens) \in Outcomes(StoredUser)
  <1> DEFINE screen   == ReadConditionals(tokens)
             internet == ReadConditionals(screen.rest)
             value    == [screen |-> screen.value, internet |-> internet.value]
  <1>1. screen \in Outcomes(Seq(StoredConditional))
    BY ReadListsTyped
  <1>2. screen.ok => screen.value \in Seq(StoredConditional) /\ screen.rest \in Seq(Token)
    BY <1>1, OutcomeFields
  <1>3. screen.ok => internet \in Outcomes(Seq(StoredConditional))
    BY <1>2, ReadListsTyped
  <1>4. screen.ok /\ internet.ok => internet.value \in Seq(StoredConditional)
    BY <1>3, OutcomeFields
  <1> HIDE DEF screen, internet
  <1>5. screen.ok /\ internet.ok => value \in StoredUser
    BY <1>2, <1>4 DEF StoredUser
  <1> HIDE DEF value
  <1>6. Both(screen, internet, value) \in Outcomes(StoredUser)
    BY <1>1, <1>3, <1>5, BothOutcome
  <1>7. QED
    BY <1>6 DEF ReadUser, ReadUserAfter, UserOf, screen, internet, value

LEMMA ReadData1Typed ==
  ASSUME NEW tokens \in Seq(Token)
  PROVE  ReadData1(tokens) \in Outcomes(StoredData1)
  <1> DEFINE luny   == ReadUser(tokens)
             ruru   == ReadUser(luny.rest)
             vaults == ReadVaults(ruru.rest)
             value  == [luny |-> luny.value, ruru |-> ruru.value, vaults |-> vaults.value]
  <1>1. luny \in Outcomes(StoredUser)
    BY ReadUserTyped
  <1>2. CASE luny.ok
    <2>1. luny.value \in StoredUser /\ luny.rest \in Seq(Token)
      BY <1>1, <1>2, OutcomeFields
    <2>2. ruru \in Outcomes(StoredUser)
      BY <2>1, ReadUserTyped
    <2>3. ruru.ok => ruru.value \in StoredUser /\ ruru.rest \in Seq(Token)
      BY <2>2, OutcomeFields
    <2>4. ruru.ok => vaults \in Outcomes(Seq(StoredVault))
      BY <2>3, ReadListsTyped
    <2>5. ruru.ok /\ vaults.ok => vaults.value \in Seq(StoredVault)
      BY <2>4, OutcomeFields
    <2>6. ReadData1(tokens) = Both(ruru, vaults, value)
      BY <1>2 DEF ReadData1, ReadRuruAfter, ReadVaultsAfter, Data1Of
    <2> HIDE DEF luny, ruru, vaults
    <2>7. ruru.ok /\ vaults.ok => value \in StoredData1
      BY <2>1, <2>3, <2>5 DEF StoredData1
    <2> HIDE DEF value
    <2>8. QED
      BY <2>2, <2>4, <2>6, <2>7, BothOutcome
  <1>3. CASE ~luny.ok
    <2>1. ReadData1(tokens) = Failure
      BY <1>3 DEF ReadData1, ReadRuruAfter, ReadVaultsAfter, Data1Of
    <2>2. QED
      BY <2>1, GotIsOutcome
  <1>4. QED
    BY <1>2, <1>3

LEMMA ReadClockTyped ==
  ASSUME NEW tokens \in Seq(Token)
  PROVE  ReadClock(tokens) \in Outcomes(StoredClock)
  <1> DEFINE counted == ReadDuration(tokens)
             prev    == ReadDateTime(counted.rest)
             value   == [counted |-> counted.value, prev |-> prev.value]
  <1>1. counted \in Outcomes(Durations)
    BY PrimitivesTyped
  <1>2. counted.ok => counted.value \in Durations /\ counted.rest \in Seq(Token)
    BY <1>1, OutcomeFields
  <1>3. counted.ok => prev \in Outcomes(Nat)
    BY <1>2, PrimitivesTyped
  <1>4. counted.ok /\ prev.ok => prev.value \in Nat
    BY <1>3, OutcomeFields
  <1> HIDE DEF counted, prev
  <1>5. counted.ok /\ prev.ok => value \in StoredClock
    BY <1>2, <1>4 DEF StoredClock
  <1> HIDE DEF value
  <1>6. Both(counted, prev, value) \in Outcomes(StoredClock)
    BY <1>1, <1>3, <1>5, BothOutcome
  <1>7. QED
    BY <1>6 DEF ReadClock, counted, prev, value

LEMMA ReadData2Typed ==
  ASSUME NEW tokens \in Seq(Token)
  PROVE  ReadData2(tokens) \in Outcomes(StoredData2)
  <1> DEFINE uptime == ReadClock(tokens)
             mono   == ReadClock(uptime.rest)
             value  == [uptime |-> uptime.value, mono |-> mono.value]
  <1>1. uptime \in Outcomes(StoredClock)
    BY ReadClockTyped
  <1>2. uptime.ok => uptime.value \in StoredClock /\ uptime.rest \in Seq(Token)
    BY <1>1, OutcomeFields
  <1>3. uptime.ok => mono \in Outcomes(StoredClock)
    BY <1>2, ReadClockTyped
  <1>4. uptime.ok /\ mono.ok => mono.value \in StoredClock
    BY <1>3, OutcomeFields
  <1> HIDE DEF uptime, mono
  <1>5. uptime.ok /\ mono.ok => value \in StoredData2
    BY <1>2, <1>4 DEF StoredData2
  <1> HIDE DEF value
  <1>6. Both(uptime, mono, value) \in Outcomes(StoredData2)
    BY <1>1, <1>3, <1>5, BothOutcome
  <1>7. QED
    BY <1>6 DEF ReadData2, uptime, mono, value

\* Whatever integers and names a file holds, it is refused or gives data that every
\* constructor accepts: no tag is unknown, no time lies outside the day, no range is
\* longer than a day, no duration above the maximum (serialization.ts, Deserialize).
THEOREM ReadsAreWellFormed ==
  \A tokens \in Seq(Token) :
    /\ ReadData1(tokens).ok => ReadData1(tokens).value \in StoredData1
    /\ ReadData2(tokens).ok => ReadData2(tokens).value \in StoredData2
  BY ReadData1Typed, ReadData2Typed, OutcomeFields

-----------------------------------------------------------------------------
(* What is written can be read: one value at a time, whatever follows it.   *)

LEMMA WrittenTokens ==
  /\ \A n \in Int : WriteInteger(n) \in Seq(Token)
  /\ \A n \in Names : WriteString(n) \in Seq(Token)
  BY DEF WriteInteger, WriteString, Token

LEMMA FirstOf ==
  ASSUME NEW T, NEW token \in T, NEW rest \in Seq(T)
  PROVE  LET s == <<token>> \o rest
         IN  s \in Seq(T) /\ s # <<>> /\ Head(s) = token /\ Tail(s) = rest
  OBVIOUS

LEMMA ReadTokenWritten ==
  ASSUME NEW kind, NEW accepted, NEW value \in accepted, <<kind, value>> \in Token,
         NEW rest \in Seq(Token)
  PROVE  ReadToken(kind, accepted, << <<kind, value>> >> \o rest) = Got(value, rest)
  <1> DEFINE token == <<kind, value>>
             s == <<token>> \o rest
  <1>1. s # <<>> /\ Head(s) = token /\ Tail(s) = rest
    BY FirstOf
  <1>2. token[1] = kind /\ token[2] = value
    OBVIOUS
  <1> HIDE DEF token, s
  <1>3. ReadToken(kind, accepted, s) = Got(value, rest)
    BY <1>1, <1>2 DEF ReadToken
  <1>4. QED
    BY <1>3 DEF s, token

LEMMA IntegerWritten ==
  ASSUME NEW n \in Int, NEW rest \in Seq(Token)
  PROVE  /\ WriteInteger(n) \o rest \in Seq(Token)
         /\ ReadInteger(WriteInteger(n) \o rest) = Got(n, rest)
         /\ n \in Durations  => ReadDuration(WriteInteger(n) \o rest) = Got(n, rest)
         /\ n \in Nat        => ReadDateTime(WriteInteger(n) \o rest) = Got(n, rest)
         /\ n \in TimesOfDay => ReadTime(WriteInteger(n) \o rest) = Got(n, rest)
  <1>1. <<"int", n>> \in Token
    BY DEF Token
  <1>2. WriteInteger(n) \o rest \in Seq(Token)
    BY WrittenTokens, ConcatProperties
  <1>3. QED
    BY <1>1, <1>2, ReadTokenWritten
       DEF WriteInteger, ReadInteger, ReadDuration, ReadDateTime, ReadTime

LEMMA NameWritten ==
  ASSUME NEW n \in Names, NEW rest \in Seq(Token)
  PROVE  /\ WriteString(n) \o rest \in Seq(Token)
         /\ ReadName(WriteString(n) \o rest) = Got(n, rest)
  <1>1. <<"str", n>> \in Token
    BY DEF Token
  <1>2. WriteString(n) \o rest \in Seq(Token)
    BY WrittenTokens, ConcatProperties
  <1>3. QED
    BY <1>1, <1>2, ReadTokenWritten DEF WriteString, ReadName

LEMMA CountdownFields ==
  ASSUME NEW c \in Countdown
  PROVE  /\ c.from \in Durations /\ c.duration \in Durations
         /\ c.from \in Int /\ c.duration \in Int
         /\ c = [from |-> c.from, duration |-> c.duration]
  <1>1. c.from \in Durations /\ c.duration \in Durations
    BY DEF Countdown
  <1>2. c = [from |-> c.from, duration |-> c.duration]
    BY DEF Countdown
  <1>3. QED
    BY <1>1, <1>2, TimeFacts

\* The tokens of three values can be taken apart from either end.
LEMMA TokensAssociate ==
  \A a, b, c \in Seq(Token) : (a \o b) \o c = a \o (b \o c)
  BY ConcatAssociative

LEMMA CountdownWritten ==
  ASSUME NEW c \in Countdown, NEW rest \in Seq(Token)
  PROVE  /\ WriteCountdown(c) \in Seq(Token)
         /\ WriteCountdown(c) \o rest \in Seq(Token)
         /\ ReadCountdown(WriteCountdown(c) \o rest) = Got(c, rest)
  <1> DEFINE from     == WriteInteger(c.from)
             duration == WriteInteger(c.duration)
  <1>1. from \in Seq(Token) /\ duration \in Seq(Token)
    BY CountdownFields, WrittenTokens
  <1>2. ReadDuration(duration \o rest) = Got(c.duration, rest) /\ duration \o rest \in Seq(Token)
    BY CountdownFields, IntegerWritten
  <1>3. ReadDuration(from \o (duration \o rest)) = Got(c.from, duration \o rest)
    BY CountdownFields, <1>2, IntegerWritten
  <1>4. WriteCountdown(c) = from \o duration
    BY DEF WriteCountdown
  <1> HIDE DEF from, duration
  <1>5. (from \o duration) \o rest = from \o (duration \o rest)
    BY <1>1, TokensAssociate, Zenon
  <1>6. ReadCountdown(from \o (duration \o rest))
          = Got([from |-> c.from, duration |-> c.duration], rest)
    BY <1>2, <1>3, GotFields DEF ReadCountdown, Both
  <1>7. QED
    BY <1>1, <1>4, <1>5, <1>6, CountdownFields, ConcatProperties

LEMMA TimeRangeWritten ==
  ASSUME NEW r \in StoredRange, NEW rest \in Seq(Token)
  PROVE  /\ WriteTimeRange(r) \in Seq(Token)
         /\ WriteTimeRange(r) \o rest \in Seq(Token)
         /\ ReadTimeRange(WriteTimeRange(r) \o rest) = Got(RangeReadBack(r), rest)
  <1> DEFINE from == WriteInteger(r.from)
             till == WriteInteger(RangeTill(r))
  <1>1. /\ r.from \in TimesOfDay /\ RangeTill(r) \in TimesOfDay
        /\ r.from \in Int /\ RangeTill(r) \in Int
    BY RangeFields, RangeIsReadBack, TimeFacts
  <1>2. from \in Seq(Token) /\ till \in Seq(Token)
    BY <1>1, WrittenTokens
  <1>3. ReadTime(till \o rest) = Got(RangeTill(r), rest) /\ till \o rest \in Seq(Token)
    BY <1>1, IntegerWritten
  <1>4. ReadTime(from \o (till \o rest)) = Got(r.from, till \o rest)
    BY <1>1, <1>3, IntegerWritten
  <1>5. WriteTimeRange(r) = from \o till
    BY DEF WriteTimeRange
  <1> HIDE DEF from, till
  <1>6. (from \o till) \o rest = from \o (till \o rest)
    BY <1>2, TokensAssociate, Zenon
  <1>7. ReadTimeRange(from \o (till \o rest)) = Got(FromTimes(r.from, RangeTill(r)), rest)
    BY <1>3, <1>4, GotFields DEF ReadTimeRange, Both
  <1>8. QED
    BY <1>2, <1>5, <1>6, <1>7, ConcatProperties DEF RangeReadBack

\* A conditional is of one of three kinds.
LEMMA ConditionalFields ==
  ASSUME NEW c \in StoredConditional
  PROVE  /\ c.lifetime \in Countdown
         /\ \/ c.tag = "Countdown" /\ c = [tag |-> "Countdown", lifetime |-> c.lifetime]
            \/ /\ c.tag = "TimeRange" /\ c.range \in StoredRange
               /\ c = [tag |-> "TimeRange", range |-> c.range, lifetime |-> c.lifetime]
            \/ /\ c.tag = "UptimeAllowance" /\ c.allowance \in Durations
               /\ c = [tag |-> "UptimeAllowance", allowance |-> c.allowance,
                       lifetime |-> c.lifetime]
  <1>1. CASE c \in [tag : {"Countdown"}, lifetime : Countdown]
    BY <1>1
  <1>2. CASE c \in [tag : {"TimeRange"}, range : StoredRange, lifetime : Countdown]
    BY <1>2
  <1>3. CASE c \in [tag : {"UptimeAllowance"}, allowance : Durations, lifetime : Countdown]
    BY <1>3
  <1>4. QED
    BY <1>1, <1>2, <1>3 DEF StoredConditional

\* What is made of a conditional by reading it back is a conditional.
LEMMA ReadBackFields ==
  ASSUME NEW c \in StoredConditional
  PROVE  /\ ReadBackOf(c) \in StoredConditional
         /\ c.tag # "TimeRange" => ReadBackOf(c) = c
         /\ c.tag = "TimeRange" =>
              ReadBackOf(c) = [tag |-> "TimeRange", range |-> RangeReadBack(c.range),
                               lifetime |-> c.lifetime]
  <1>1. CASE c.tag # "TimeRange"
    BY <1>1 DEF ReadBackOf
  <1>2. CASE c.tag = "TimeRange"
    <2> DEFINE lifetime == c.lifetime
               range    == c.range
    <2>1. /\ c = [tag |-> "TimeRange", range |-> range, lifetime |-> lifetime]
          /\ range \in StoredRange /\ lifetime \in Countdown
      BY <1>2, ConditionalFields
    <2>2. RangeReadBack(range) \in StoredRange
      BY <2>1, RangeIsReadBack
    <2>3. ReadBackOf(c) = [c EXCEPT !.range = RangeReadBack(range)]
      BY <1>2 DEF ReadBackOf
    <2> HIDE DEF range, lifetime
    <2>4. [c EXCEPT !.range = RangeReadBack(range)]
            = [tag |-> "TimeRange", range |-> RangeReadBack(range), lifetime |-> lifetime]
      BY <2>1
    <2>5. [tag |-> "TimeRange", range |-> RangeReadBack(range), lifetime |-> lifetime]
            \in StoredConditional
      BY <2>1, <2>2 DEF StoredConditional
    <2>6. QED
      BY <1>2, <2>3, <2>4, <2>5 DEF range, lifetime
  <1>3. QED
    BY <1>1, <1>2

LEMMA ConditionalWritten ==
  ASSUME NEW c \in StoredConditional, NEW rest \in Seq(Token)
  PROVE  /\ WriteConditional(c) \in Seq(Token)
         /\ WriteConditional(c) \o rest \in Seq(Token)
         /\ ReadConditional(WriteConditional(c) \o rest) = Got(ReadBackOf(c), rest)
  <1> DEFINE tag      == WriteInteger(TagNumber[c.tag])
             lifetime == WriteCountdown(c.lifetime)
             after    == lifetime \o rest
  <1>1. /\ lifetime \in Seq(Token) /\ after \in Seq(Token)
        /\ ReadCountdown(after) = Got(c.lifetime, rest)
    BY ConditionalFields, CountdownWritten
  <1>2. TagNumber[c.tag] \in Int /\ tag \in Seq(Token)
    BY ConditionalFields, WrittenTokens DEF TagNumber
  <1>3. ASSUME NEW body \in Seq(Token), WriteConditional(c) = tag \o body \o lifetime
        PROVE  /\ WriteConditional(c) \in Seq(Token)
               /\ WriteConditional(c) \o rest \in Seq(Token)
               /\ WriteConditional(c) \o rest = tag \o (body \o after)
               /\ ReadInteger(WriteConditional(c) \o rest)
                    = Got(TagNumber[c.tag], body \o after)
    <2> HIDE DEF tag, lifetime, after
    <2>1. tag \o body \o lifetime \in Seq(Token)
      BY <1>1, <1>2, ConcatProperties
    <2>2. (tag \o body \o lifetime) \o rest = tag \o (body \o after)
      <3> DEFINE before == tag \o body
      <3>1. before \in Seq(Token)
        BY <1>2, ConcatProperties
      <3>2. before \o after = tag \o (body \o after)
        <4>1. tag \in Seq(Token) /\ after \in Seq(Token)
          BY <1>1, <1>2
        <4>2. (tag \o body) \o after = tag \o (body \o after)
          BY <4>1, TokensAssociate, Zenon
        <4>3. QED
          BY <4>2
      <3> HIDE DEF before
      <3>3. (before \o lifetime) \o rest = before \o (lifetime \o rest)
        <4>1. lifetime \in Seq(Token)
          BY <1>1
        <4>2. QED
          BY <3>1, <4>1, TokensAssociate, Zenon
      <3>4. QED
        BY <3>2, <3>3 DEF before, after
    <2>3. body \o after \in Seq(Token)
      BY <1>1, ConcatProperties
    <2>4. ReadInteger(tag \o (body \o after)) = Got(TagNumber[c.tag], body \o after)
      BY <1>2, <2>3, IntegerWritten DEF tag
    <2>5. QED
      BY <1>1, <1>3, <2>1, <2>2, <2>3, <2>4, ConcatProperties DEF after
  <1>4. CASE c.tag = "Countdown"
    <2>1. WriteConditional(c) = tag \o <<>> \o lifetime
      BY <1>4 DEF WriteConditional
    <2>2. <<>> \in Seq(Token)
      OBVIOUS
    <2> HIDE DEF tag, lifetime
    <2>3. /\ WriteConditional(c) \in Seq(Token) /\ WriteConditional(c) \o rest \in Seq(Token)
          /\ ReadInteger(WriteConditional(c) \o rest) = Got(TagNumber[c.tag], <<>> \o after)
      BY <1>3, <2>1, <2>2
    <2> HIDE DEF after
    <2>4. <<>> \o after = after
      BY <1>1, ConcatEmptySeq
    <2>5. ReadConditional(WriteConditional(c) \o rest) = ReadCountdownConditional(after)
      <3>1. TagNumber[c.tag] = 0
        BY <1>4 DEF TagNumber
      <3>2. QED
        BY <2>3, <2>4, <3>1, TagSelects
    <2>6. ReadCountdownConditional(after)
            = Got([tag |-> "Countdown", lifetime |-> c.lifetime], rest)
      BY <1>1, GotFields DEF ReadCountdownConditional
    <2>7. QED
      BY <1>4, <2>3, <2>5, <2>6, ConditionalFields, ReadBackFields
  <1>5. CASE c.tag = "TimeRange"
    <2> DEFINE body == WriteTimeRange(c.range)
    <2>1. WriteConditional(c) = tag \o body \o lifetime
      BY <1>5 DEF WriteConditional
    <2>2. /\ body \in Seq(Token) /\ body \o after \in Seq(Token)
          /\ ReadTimeRange(body \o after) = Got(RangeReadBack(c.range), after)
      BY <1>1, <1>5, ConditionalFields, TimeRangeWritten
    <2> HIDE DEF tag, lifetime, body
    <2>3. /\ WriteConditional(c) \in Seq(Token) /\ WriteConditional(c) \o rest \in Seq(Token)
          /\ ReadInteger(WriteConditional(c) \o rest) = Got(TagNumber[c.tag], body \o after)
      BY <1>3, <2>1, <2>2
    <2> HIDE DEF after
    <2>4. ReadConditional(WriteConditional(c) \o rest) = ReadTimeRangeConditional(body \o after)
      <3>1. TagNumber[c.tag] = 1
        BY <1>5 DEF TagNumber
      <3>2. QED
        BY <2>3, <3>1, TagSelects
    <2>5. ReadTimeRangeConditional(body \o after)
            = Got([tag |-> "TimeRange", range |-> RangeReadBack(c.range),
                   lifetime |-> c.lifetime], rest)
      BY <1>1, <2>2, GotFields DEF ReadTimeRangeConditional, Both
    <2>6. QED
      BY <1>5, <2>3, <2>4, <2>5, ReadBackFields
  <1>6. CASE c.tag = "UptimeAllowance"
    <2> DEFINE body == WriteInteger(c.allowance)
    <2>1. WriteConditional(c) = tag \o body \o lifetime
      BY <1>6 DEF WriteConditional
    <2>2. c.allowance \in Durations /\ c.allowance \in Int
      BY <1>6, ConditionalFields, TimeFacts
    <2>3. /\ body \in Seq(Token) /\ body \o after \in Seq(Token)
          /\ ReadDuration(body \o after) = Got(c.allowance, after)
      BY <1>1, <2>2, IntegerWritten, WrittenTokens
    <2> HIDE DEF tag, lifetime, body
    <2>4. /\ WriteConditional(c) \in Seq(Token) /\ WriteConditional(c) \o rest \in Seq(Token)
          /\ ReadInteger(WriteConditional(c) \o rest) = Got(TagNumber[c.tag], body \o after)
      BY <1>3, <2>1, <2>3
    <2> HIDE DEF after
    <2>5. ReadConditional(WriteConditional(c) \o rest) = ReadAllowanceConditional(body \o after)
      <3>1. TagNumber[c.tag] = 2
        BY <1>6 DEF TagNumber
      <3>2. QED
        BY <2>4, <3>1, TagSelects
    <2>6. ReadAllowanceConditional(body \o after)
            = Got([tag |-> "UptimeAllowance", allowance |-> c.allowance,
                   lifetime |-> c.lifetime], rest)
      BY <1>1, <2>3, GotFields DEF ReadAllowanceConditional, Both
    <2>7. QED
      BY <1>6, <2>4, <2>5, <2>6, ConditionalFields, ReadBackFields
  <1>7. QED
    BY <1>4, <1>5, <1>6, ConditionalFields

LEMMA VaultWritten ==
  ASSUME NEW v \in StoredVault, NEW rest \in Seq(Token)
  PROVE  /\ WriteVault(v) \in Seq(Token)
         /\ WriteVault(v) \o rest \in Seq(Token)
         /\ ReadVault(WriteVault(v) \o rest) = Got(v, rest)
  <1> DEFINE name       == WriteString(v.name)
             data       == WriteString(v.data)
             protection == WriteCountdown(v.protection)
             after      == protection \o rest
  <1>1. v.name \in Names /\ v.data \in Names /\ v.protection \in Countdown
    BY DEF StoredVault
  <1>2. v = [name |-> v.name, data |-> v.data, protection |-> v.protection]
    BY DEF StoredVault
  <1>3. /\ protection \in Seq(Token) /\ after \in Seq(Token)
        /\ ReadCountdown(after) = Got(v.protection, rest)
    BY <1>1, CountdownWritten
  <1> HIDE DEF after
  <1>4. data \o after \in Seq(Token) /\ ReadName(data \o after) = Got(v.data, after)
    BY <1>1, <1>3, NameWritten
  <1>5. ReadName(name \o (data \o after)) = Got(v.name, data \o after)
    BY <1>1, <1>4, NameWritten
  <1>6. name \in Seq(Token) /\ data \in Seq(Token)
    BY <1>1, WrittenTokens
  <1>7. WriteVault(v) = name \o data \o protection
    BY DEF WriteVault
  <1> HIDE DEF name, data, protection
  <1>8. name \o data \o protection \in Seq(Token)
    BY <1>3, <1>6, ConcatProperties
  <1>9. (name \o data \o protection) \o rest = name \o (data \o after)
    <2> DEFINE before == name \o data
    <2>1. before \in Seq(Token)
      BY <1>6, ConcatProperties
    <2>2. before \o after = name \o (data \o after)
      <3>1. after \in Seq(Token)
        BY <1>3
      <3> HIDE DEF after
      <3>2. (name \o data) \o after = name \o (data \o after)
        BY <1>6, <3>1, TokensAssociate, Zenon
      <3>3. QED
        BY <3>2
    <2> HIDE DEF before
    <2>3. (before \o protection) \o rest = before \o (protection \o rest)
      BY <1>3, <2>1, TokensAssociate, Zenon
    <2>4. QED
      BY <2>2, <2>3 DEF before, after
  <1>10. ReadVault(name \o (data \o after))
           = Got([name |-> v.name, data |-> v.data, protection |-> v.protection], rest)
    BY <1>3, <1>4, <1>5, GotFields DEF ReadVault, Both
  <1>11. QED
    BY <1>2, <1>7, <1>8, <1>9, <1>10, ConcatProperties

LEMMA ClockWritten ==
  ASSUME NEW clock \in StoredClock, NEW rest \in Seq(Token)
  PROVE  /\ WriteClock(clock) \in Seq(Token)
         /\ WriteClock(clock) \o rest \in Seq(Token)
         /\ ReadClock(WriteClock(clock) \o rest) = Got(clock, rest)
  <1> DEFINE counted == WriteInteger(clock.counted)
             prev    == WriteInteger(clock.prev)
  <1>1. clock.counted \in Durations /\ clock.prev \in Nat /\ clock.prev \in Int
    BY DEF StoredClock
  <1>2. clock.counted \in Int
    <2> DEFINE n == clock.counted
    <2> HIDE DEF n
    <2>1. n \in Durations
      BY <1>1 DEF n
    <2>2. n \in Int
      BY <2>1, TimeFacts
    <2>3. QED
      BY <2>2 DEF n
  <1>3. clock = [counted |-> clock.counted, prev |-> clock.prev]
    BY DEF StoredClock
  <1>4. counted \in Seq(Token) /\ prev \in Seq(Token)
    BY <1>1, <1>2, WrittenTokens
  <1>5. prev \o rest \in Seq(Token) /\ ReadDateTime(prev \o rest) = Got(clock.prev, rest)
    BY <1>1, IntegerWritten
  <1>6. ReadDuration(counted \o (prev \o rest)) = Got(clock.counted, prev \o rest)
    BY <1>1, <1>2, <1>5, IntegerWritten
  <1>7. WriteClock(clock) = counted \o prev
    BY DEF WriteClock
  <1> HIDE DEF counted, prev
  <1>8. (counted \o prev) \o rest = counted \o (prev \o rest)
    BY <1>4, TokensAssociate, Zenon
  <1>9. ReadClock(counted \o (prev \o rest))
          = Got([counted |-> clock.counted, prev |-> clock.prev], rest)
    BY <1>5, <1>6, GotFields DEF ReadClock, Both
  <1>10. QED
    BY <1>3, <1>4, <1>7, <1>8, <1>9, ConcatProperties

\* The second file.
LEMMA Data2Written ==
  ASSUME NEW d \in StoredData2
  PROVE  ReadData2(WriteData2(d)) = Got(d, <<>>)
  <1> DEFINE uptime == WriteClock(d.uptime)
             mono   == WriteClock(d.mono)
  <1>1. d.uptime \in StoredClock /\ d.mono \in StoredClock
    BY DEF StoredData2
  <1>2. d = [uptime |-> d.uptime, mono |-> d.mono]
    BY DEF StoredData2
  <1>3. <<>> \in Seq(Token)
    OBVIOUS
  <1>4. /\ mono \in Seq(Token) /\ uptime \in Seq(Token)
        /\ ReadClock(mono \o <<>>) = Got(d.mono, <<>>)
    BY <1>1, <1>3, ClockWritten
  <1>5. mono \o <<>> = mono
    BY <1>4, ConcatEmptySeq
  <1>6. ReadClock(uptime \o mono) = Got(d.uptime, mono)
    BY <1>1, <1>4, ClockWritten
  <1>7. WriteData2(d) = uptime \o mono
    BY DEF WriteData2
  <1> HIDE DEF uptime, mono
  <1>8. ReadData2(uptime \o mono) = Got([uptime |-> d.uptime, mono |-> d.mono], <<>>)
    BY <1>4, <1>5, <1>6, GotFields DEF ReadData2, Both
  <1>9. QED
    BY <1>2, <1>7, <1>8

-----------------------------------------------------------------------------
(* Lists of any length.                                                     *)

\* The items are the tokens of the values, whatever comes behind them.
Written(type, values, items) ==
  \A i \in 1..Len(values) : \A rest \in Seq(Token) :
    ReadItem(type, items[i] \o rest) = Got(values[i], rest)

LEMMA FlattenSeqThen ==
  ASSUME NEW l \in Seq(Seq(Token)), NEW e \in Seq(Token), NEW r \in Seq(Token)
  PROVE  FlattenSeq(Append(l, e)) \o r = FlattenSeq(l) \o (e \o r)
  <1> DEFINE flat == FlattenSeq(l)
  <1>1. flat \in Seq(Token) /\ FlattenSeq(Append(l, e)) = flat \o e
    BY FlattenSeqAppend
  <1> HIDE DEF flat
  <1>2. flat \in Seq(Token)
    BY <1>1
  <1>3. (flat \o e) \o r = flat \o (e \o r)
    BY <1>2, TokensAssociate, Zenon
  <1>4. QED
    BY <1>1, <1>3 DEF flat

LEMMA LastOf ==
  ASSUME NEW T, NEW s \in Seq(T), NEW n \in Nat, Len(s) = n + 1
  PROVE  \E front \in Seq(T), last \in T : s = Append(front, last)
  <1>1. s # <<>>
    OBVIOUS
  <1>2. QED
    BY <1>1, SequenceEmptyOrAppend

LEMMA ItemsWritten ==
  ASSUME NEW type, NEW values \in Seq(ItemsOf(type)), NEW items \in Seq(Seq(Token)),
         Len(items) = Len(values), Written(type, values, items), NEW rest \in Seq(Token)
  PROVE  ReadItems(type, FlattenSeq(items) \o rest)[Len(values)] = Got(values, rest)
  <1> DEFINE V == Seq(ItemsOf(type))
             L == Seq(Seq(Token))
             Read(v, l, r) == ReadItems(type, FlattenSeq(l) \o r)[Len(v)] = Got(v, r)
             S == {n \in Nat : \A v \in V, l \in L, r \in Seq(Token) :
                     Len(v) = n /\ Len(l) = n /\ Written(type, v, l) => Read(v, l, r)}
  <1>1. 0 \in S
    <2> SUFFICES ASSUME NEW v \in V, NEW l \in L, NEW r \in Seq(Token),
                        Len(v) = 0, Len(l) = 0
                 PROVE  Read(v, l, r)
      OBVIOUS
    <2>1. v = <<>> /\ l = <<>>
      OBVIOUS
    <2>2. FlattenSeq(<<>>) = <<>>
      BY FlattenSeqEmpty
    <2>3. <<>> \o r = r
      BY ConcatEmptySeq
    <2>4. ReadItems(type, r)[0] = Got(<<>>, r)
      BY ReadItemsSteps
    <2>5. QED
      BY <2>1, <2>2, <2>3, <2>4
  <1>2. ASSUME NEW n \in Nat, n \in S PROVE n + 1 \in S
    <2> SUFFICES ASSUME NEW v \in V, NEW l \in L, NEW r \in Seq(Token),
                        Len(v) = n + 1, Len(l) = n + 1, Written(type, v, l)
                 PROVE  Read(v, l, r)
      OBVIOUS
    <2>1. PICK front \in V, last \in ItemsOf(type) : v = Append(front, last)
      BY LastOf
    <2>2. PICK before \in L, e \in Seq(Token) : l = Append(before, e)
      BY LastOf
    <2>3. /\ Len(front) = n /\ v[n + 1] = last
          /\ \A i \in 1..n : v[i] = front[i]
      BY <2>1, AppendProperties
    <2>4. /\ Len(before) = n /\ l[n + 1] = e
          /\ \A i \in 1..n : l[i] = before[i]
      BY <2>2, AppendProperties
    <2>5. Written(type, front, before)
      BY <2>3, <2>4 DEF Written
    <2>6. ReadItem(type, e \o r) = Got(last, r)
      BY <2>3, <2>4 DEF Written
    <2>7. e \o r \in Seq(Token)
      BY ConcatProperties
    <2>8. Read(front, before, e \o r)
      BY <1>2, <2>3, <2>4, <2>5, <2>7
    <2>9. /\ FlattenSeq(before) \in Seq(Token)
          /\ FlattenSeq(l) = FlattenSeq(before) \o e
      BY <2>2, FlattenSeqAppend
    <2>10. FlattenSeq(l) \o r = FlattenSeq(before) \o (e \o r)
      BY <2>2, FlattenSeqThen
    <2> DEFINE tokens == FlattenSeq(l) \o r
               read   == ReadItems(type, tokens)
    <2>11. tokens \in Seq(Token)
      BY <2>7, <2>9, <2>10, ConcatProperties
    <2>12. read[n] = Got(front, e \o r)
      BY <2>3, <2>8, <2>10
    <2> HIDE DEF tokens
    <2>13. read[n + 1] = Both(read[n], ReadItem(type, read[n].rest),
                              Append(read[n].value, ReadItem(type, read[n].rest).value))
      BY <2>11, ReadItemsSteps
    <2> HIDE DEF read
    <2>14. read[n + 1] = Got(Append(front, last), r)
      BY <2>6, <2>12, <2>13, GotFields DEF Both
    <2>15. QED
      BY <2>1, <2>14 DEF read, tokens
  <1> HIDE DEF S
  <1>3. Nat \subseteq S
    BY <1>1, <1>2, SetInduction
  <1>4. Len(values) \in Nat /\ Len(values) \in S
    BY <1>3
  <1>5. QED
    BY <1>4 DEF S

LEMMA ArrayWritten ==
  ASSUME NEW type, NEW values \in Seq(ItemsOf(type)), NEW items \in Seq(Seq(Token)),
         Len(items) = Len(values), Written(type, values, items), NEW rest \in Seq(Token)
  PROVE  /\ WriteArray(items) \in Seq(Token)
         /\ WriteArray(items) \o rest \in Seq(Token)
         /\ ReadArray(type, WriteArray(items) \o rest) = Got(values, rest)
  <1> DEFINE length == WriteInteger(Len(items))
             flat   == FlattenSeq(items)
  <1>1. Len(items) \in Nat /\ Len(items) \in Int
    OBVIOUS
  <1>2. length \in Seq(Token)
    BY <1>1, WrittenTokens
  <1>3. flat \in Seq(Token)
    BY FlattenSeqAppend, EmptySeq
  <1>4. flat \o rest \in Seq(Token)
    BY <1>3, ConcatProperties
  <1>5. ReadInteger(length \o (flat \o rest)) = Got(Len(items), flat \o rest)
    BY <1>1, <1>4, IntegerWritten
  <1>6. ReadItems(type, flat \o rest)[Len(items)] = Got(values, rest)
    BY ItemsWritten
  <1>7. WriteArray(items) = length \o flat
    BY DEF WriteArray
  <1> HIDE DEF length, flat
  <1>8. (length \o flat) \o rest = length \o (flat \o rest)
    BY <1>2, <1>3, TokensAssociate, Zenon
  <1>9. ReadArray(type, length \o (flat \o rest)) = Got(values, rest)
    BY <1>1, <1>5, <1>6, GotFields DEF ReadArray
  <1>10. QED
    BY <1>2, <1>3, <1>7, <1>8, <1>9, ConcatProperties

\* A list of conditionals, with what reading back does to each of them.
LEMMA ConditionalsWritten ==
  ASSUME NEW list \in Seq(StoredConditional), NEW rest \in Seq(Token)
  PROVE  /\ WriteConditionals(list) \in Seq(Token)
         /\ WriteConditionals(list) \o rest \in Seq(Token)
         /\ [i \in DOMAIN list |-> ReadBackOf(list[i])] \in Seq(StoredConditional)
         /\ ReadConditionals(WriteConditionals(list) \o rest)
              = Got([i \in DOMAIN list |-> ReadBackOf(list[i])], rest)
  <1> DEFINE values == [i \in 1..Len(list) |-> ReadBackOf(list[i])]
             items  == [i \in 1..Len(list) |-> WriteConditional(list[i])]
  <1>1. Len(list) \in Nat /\ DOMAIN list = 1..Len(list)
    OBVIOUS
  <1>2. \A i \in 1..Len(list) : list[i] \in StoredConditional
    OBVIOUS
  <1>3. \A i \in 1..Len(list) : ReadBackOf(list[i]) \in StoredConditional
    BY <1>2, ReadBackFields
  <1>4. \A i \in 1..Len(list) : WriteConditional(list[i]) \in Seq(Token)
    BY <1>2, EmptySeq, ConditionalWritten
  <1>5. values \in Seq(StoredConditional) /\ Len(values) = Len(list)
    BY <1>1, <1>3
  <1>6. items \in Seq(Seq(Token)) /\ Len(items) = Len(list)
    BY <1>1, <1>4
  <1>7. Written("Conditional", values, items)
    <2> SUFFICES ASSUME NEW i \in 1..Len(list), NEW r \in Seq(Token)
                 PROVE  ReadItem("Conditional", items[i] \o r) = Got(values[i], r)
      BY <1>5 DEF Written
    <2>1. ReadConditional(WriteConditional(list[i]) \o r) = Got(ReadBackOf(list[i]), r)
      BY <1>2, ConditionalWritten
    <2>2. QED
      BY <2>1 DEF ReadItem
  <1>8. WriteConditionals(list) = WriteArray(items)
    BY <1>1 DEF WriteConditionals
  <1> HIDE DEF values, items
  <1>9. /\ WriteArray(items) \in Seq(Token)
        /\ WriteArray(items) \o rest \in Seq(Token)
        /\ ReadArray("Conditional", WriteArray(items) \o rest) = Got(values, rest)
    BY <1>5, <1>6, <1>7, ArrayWritten DEF ItemsOf
  <1>10. QED
    BY <1>1, <1>5, <1>8, <1>9 DEF ReadConditionals, values

LEMMA VaultsWritten ==
  ASSUME NEW list \in Seq(StoredVault), NEW rest \in Seq(Token)
  PROVE  /\ WriteVaults(list) \in Seq(Token)
         /\ WriteVaults(list) \o rest \in Seq(Token)
         /\ ReadVaults(WriteVaults(list) \o rest) = Got(list, rest)
  <1> DEFINE items == [i \in 1..Len(list) |-> WriteVault(list[i])]
  <1>1. Len(list) \in Nat /\ DOMAIN list = 1..Len(list)
    OBVIOUS
  <1>2. \A i \in 1..Len(list) : list[i] \in StoredVault
    OBVIOUS
  <1>3. \A i \in 1..Len(list) : WriteVault(list[i]) \in Seq(Token)
    BY <1>2, EmptySeq, VaultWritten
  <1>4. items \in Seq(Seq(Token)) /\ Len(items) = Len(list)
    BY <1>1, <1>3
  <1>5. Written("Vault", list, items)
    <2> SUFFICES ASSUME NEW i \in 1..Len(list), NEW r \in Seq(Token)
                 PROVE  ReadItem("Vault", items[i] \o r) = Got(list[i], r)
      BY DEF Written
    <2>1. ReadVault(WriteVault(list[i]) \o r) = Got(list[i], r)
      BY <1>2, VaultWritten
    <2>2. QED
      BY <2>1 DEF ReadItem
  <1>6. WriteVaults(list) = WriteArray(items)
    BY <1>1 DEF WriteVaults
  <1> HIDE DEF items
  <1>7. /\ WriteArray(items) \in Seq(Token)
        /\ WriteArray(items) \o rest \in Seq(Token)
        /\ ReadArray("Vault", WriteArray(items) \o rest) = Got(list, rest)
    BY <1>4, <1>5, ArrayWritten DEF ItemsOf
  <1>8. QED
    BY <1>6, <1>7 DEF ReadVaults

-----------------------------------------------------------------------------
(* The first file.                                                          *)

\* What reading back does to a list, to a user and to the data.
ListBack(list) == [i \in DOMAIN list |-> ReadBackOf(list[i])]
UserBack(u)    == [screen |-> ListBack(u.screen), internet |-> ListBack(u.internet)]
DataBack(d)    == [luny |-> UserBack(d.luny), ruru |-> UserBack(d.ruru), vaults |-> d.vaults]

LEMMA MappedIsDataBack ==
  ASSUME NEW d
  PROVE  Mapped(d, ReadBackOf) = DataBack(d)
  BY DEF Mapped, DataBack, UserBack, ListBack

LEMMA UserWritten ==
  ASSUME NEW u \in StoredUser, NEW rest \in Seq(Token)
  PROVE  /\ WriteUser(u) \in Seq(Token)
         /\ WriteUser(u) \o rest \in Seq(Token)
         /\ UserBack(u) \in StoredUser
         /\ ReadUser(WriteUser(u) \o rest) = Got(UserBack(u), rest)
  <1> DEFINE screen   == WriteConditionals(u.screen)
             internet == WriteConditionals(u.internet)
  <1>1. u.screen \in Seq(StoredConditional) /\ u.internet \in Seq(StoredConditional)
    BY DEF StoredUser
  <1>2. /\ internet \in Seq(Token) /\ internet \o rest \in Seq(Token)
        /\ ListBack(u.internet) \in Seq(StoredConditional)
        /\ ReadConditionals(internet \o rest) = Got(ListBack(u.internet), rest)
    BY <1>1, ConditionalsWritten DEF ListBack
  <1>3. /\ screen \in Seq(Token)
        /\ ListBack(u.screen) \in Seq(StoredConditional)
        /\ ReadConditionals(screen \o (internet \o rest))
             = Got(ListBack(u.screen), internet \o rest)
    BY <1>1, <1>2, ConditionalsWritten DEF ListBack
  <1>4. UserBack(u) \in StoredUser
    BY <1>2, <1>3 DEF UserBack, StoredUser
  <1>5. WriteUser(u) = screen \o internet
    BY DEF WriteUser
  <1> HIDE DEF screen, internet
  <1>6. screen \in Seq(Token) /\ internet \in Seq(Token)
    BY <1>2, <1>3
  <1>7. (screen \o internet) \o rest = screen \o (internet \o rest)
    BY <1>6, TokensAssociate, Zenon
  <1>8. ReadUser(screen \o (internet \o rest))
          = Got([screen |-> ListBack(u.screen), internet |-> ListBack(u.internet)], rest)
    BY <1>2, <1>3, GotFields DEF ReadUser, ReadUserAfter, UserOf, Both
  <1>9. screen \o internet \in Seq(Token) /\ (screen \o internet) \o rest \in Seq(Token)
    BY <1>6, ConcatProperties
  <1>10. QED
    BY <1>4, <1>5, <1>7, <1>8, <1>9 DEF UserBack

LEMMA Data1Written ==
  ASSUME NEW d \in StoredData1
  PROVE  /\ DataBack(d) \in StoredData1
         /\ ReadData1(WriteData1(d)) = Got(DataBack(d), <<>>)
  <1> DEFINE luny   == WriteUser(d.luny)
             ruru   == WriteUser(d.ruru)
             vaults == WriteVaults(d.vaults)
  <1>1. d.luny \in StoredUser /\ d.ruru \in StoredUser /\ d.vaults \in Seq(StoredVault)
    BY DEF StoredData1
  <1>2. <<>> \in Seq(Token)
    BY EmptySeq
  <1>3. vaults \in Seq(Token) /\ ReadVaults(vaults \o <<>>) = Got(d.vaults, <<>>)
    BY <1>1, <1>2, VaultsWritten
  <1>4. ReadVaults(vaults) = Got(d.vaults, <<>>)
    <2>1. vaults \o <<>> = vaults
      BY <1>3, ConcatEmptySeq
    <2>2. QED
      BY <1>3, <2>1
  <1>5. /\ ruru \in Seq(Token) /\ ruru \o vaults \in Seq(Token)
        /\ UserBack(d.ruru) \in StoredUser
        /\ ReadUser(ruru \o vaults) = Got(UserBack(d.ruru), vaults)
    BY <1>1, <1>3, UserWritten
  <1>6. /\ luny \in Seq(Token)
        /\ UserBack(d.luny) \in StoredUser
        /\ ReadUser(luny \o (ruru \o vaults)) = Got(UserBack(d.luny), ruru \o vaults)
    BY <1>1, <1>5, UserWritten
  <1>7. DataBack(d) \in StoredData1
    BY <1>1, <1>5, <1>6 DEF DataBack, StoredData1
  <1>8. WriteData1(d) = luny \o ruru \o vaults
    BY DEF WriteData1
  <1> HIDE DEF luny, ruru, vaults
  <1>9. luny \in Seq(Token) /\ ruru \in Seq(Token) /\ vaults \in Seq(Token)
    BY <1>3, <1>5, <1>6
  <1>10. (luny \o ruru) \o vaults = luny \o (ruru \o vaults)
    BY <1>9, TokensAssociate, Zenon
  <1>11. ReadData1(luny \o (ruru \o vaults))
           = Got([luny |-> UserBack(d.luny), ruru |-> UserBack(d.ruru),
                  vaults |-> d.vaults], <<>>)
    BY <1>4, <1>5, <1>6, GotFields
       DEF ReadData1, ReadRuruAfter, ReadVaultsAfter, Data1Of, Both
  <1>12. QED
    BY <1>7, <1>8, <1>10, <1>11 DEF DataBack

-----------------------------------------------------------------------------
(* How far the ranges have drifted.                                         *)

\* What a conditional has become in a number of launches.  A range within one day
\* is kept.  The end of one that passes midnight is later by at most one unit for
\* each launch, unless it has drifted all the way to the beginning of the range.
Drifted(mine, original, n) ==
  (original.tag = "TimeRange") =>
    LET m == mine.range
        o == original.range
    IN  /\ mine.tag = "TimeRange"
        /\ m.from = o.from
        /\ o.till \in TimesOfDay => m = o
        /\ o.till \notin TimesOfDay =>
             \/ MsPerDay <= m.till /\ m.till <= o.till + n
             \/ MsPerDay + o.from <= o.till + n

ListDrifted(a, b, n) == Len(a) = Len(b) /\ \A i \in 1..Len(a) : Drifted(a[i], b[i], n)

DataDrifted(d, e, n) ==
  \A user \in {"luny", "ruru"} : \A list \in {"screen", "internet"} :
    ListDrifted(d[user][list], e[user][list], n)

\* The inductive invariant.  The files are what the writers make of the data they
\* were written from.
CodecIInv ==
  /\ data1 \in StoredData1 /\ asked \in StoredData1
  /\ saved1 \in StoredData1 /\ saved \in StoredData1
  /\ data2 \in StoredData2 /\ saved2 \in StoredData2
  /\ file1 = WriteData1(saved1) /\ file2 = WriteData2(saved2)
  /\ launches \in Nat
  /\ DataDrifted(data1, asked, launches)
  /\ DataDrifted(saved1, saved, launches)

LEMMA DriftedSelf ==
  ASSUME NEW c \in StoredConditional, NEW n \in Nat
  PROVE  Drifted(c, c, n)
  <1> SUFFICES ASSUME c.tag = "TimeRange", c.range.till \notin TimesOfDay
               PROVE  MsPerDay <= c.range.till /\ c.range.till <= c.range.till + n
    BY DEF Drifted
  <1>1. c.range \in StoredRange
    BY ConditionalFields
  <1>2. c.range.till \in Nat
    BY <1>1, RangeFields
  <1>3. QED
    BY <1>2, TimeFacts DEF TimesOfDay

LEMMA DriftedLater ==
  ASSUME NEW m \in StoredConditional, NEW o \in StoredConditional, NEW n \in Nat,
         Drifted(m, o, n)
  PROVE  Drifted(m, o, n + 1)
  <1> SUFFICES ASSUME o.tag = "TimeRange"
               PROVE  Drifted(m, o, n + 1)
    BY DEF Drifted
  <1>1. m.tag = "TimeRange"
    BY DEF Drifted
  <1>2. m.range \in StoredRange /\ o.range \in StoredRange
    BY <1>1, ConditionalFields
  <1>3. m.range.till \in Nat /\ o.range.till \in Nat /\ o.range.from \in Nat
    BY <1>2, RangeFields, TimeFacts
  <1>4. QED
    BY <1>1, <1>3, TimeFacts DEF Drifted

\* One more launch moves the end of a range that passes midnight by one unit.
LEMMA DriftedBack ==
  ASSUME NEW m \in StoredConditional, NEW o \in StoredConditional, NEW n \in Nat,
         Drifted(m, o, n)
  PROVE  Drifted(ReadBackOf(m), o, n + 1)
  <1> SUFFICES ASSUME o.tag = "TimeRange"
               PROVE  Drifted(ReadBackOf(m), o, n + 1)
    BY DEF Drifted
  <1> DEFINE r == m.range
             p == o.range
             b == RangeReadBack(r)
  <1>1. /\ m.tag = "TimeRange" /\ r.from = p.from
        /\ p.till \in TimesOfDay => r = p
        /\ p.till \notin TimesOfDay =>
             \/ MsPerDay <= r.till /\ r.till <= p.till + n
             \/ MsPerDay + p.from <= p.till + n
    BY DEF Drifted
  <1>2. r \in StoredRange /\ p \in StoredRange
    BY <1>1, ConditionalFields
  <1>3. ReadBackOf(m).tag = "TimeRange" /\ ReadBackOf(m).range = b
    BY <1>1, ReadBackFields
  <1> HIDE DEF r, p
  <1>4. /\ r = [from |-> r.from, till |-> r.till]
        /\ r.from \in TimesOfDay /\ r.till \in Nat /\ r.from <= r.till
        /\ r.till < r.from + MsPerDay
        /\ p.from \in Nat /\ p.till \in Nat
    BY <1>2, RangeFields, TimeFacts
  <1>5. b.from = r.from
    BY DEF RangeReadBack, FromTimes
  <1>6. r.till <= MsPerDay - 1 => b = r
    BY <1>4, TimeFacts DEF RangeReadBack, RangeTill, FromTimes
  <1>7. MsPerDay <= r.till =>
          \/ b.till = r.till + 1 /\ MsPerDay <= b.till
          \/ MsPerDay + r.from <= r.till + 1
    BY <1>4, TimeFacts DEF RangeReadBack, RangeTill, FromTimes, TimesOfDay
  <1> HIDE DEF b
  <1>8. p.till \in TimesOfDay => b = p
    BY <1>1, <1>6, TimeFacts DEF TimesOfDay
  <1>9. p.till \notin TimesOfDay =>
          \/ MsPerDay <= b.till /\ b.till <= p.till + (n + 1)
          \/ MsPerDay + p.from <= p.till + (n + 1)
    BY <1>1, <1>4, <1>7, TimeFacts
  <1>10. QED
    BY <1>1, <1>3, <1>5, <1>8, <1>9 DEF Drifted, p

\* A range whose end has not drifted to its beginning applies when it did.
LEMMA DriftedCovers ==
  ASSUME NEW m \in StoredConditional, NEW o \in StoredConditional, NEW n \in Nat,
         Drifted(m, o, n), o.tag = "TimeRange"
  PROVE  /\ o.range.till \in TimesOfDay => m.range = o.range
         /\ o.range.till + n < MsPerDay + o.range.from
              => Covered(m.range) = Covered(o.range)
  <1> DEFINE r == m.range
             p == o.range
  <1>1. /\ m.tag = "TimeRange" /\ r.from = p.from
        /\ p.till \in TimesOfDay => r = p
        /\ p.till \notin TimesOfDay =>
             \/ MsPerDay <= r.till /\ r.till <= p.till + n
             \/ MsPerDay + p.from <= p.till + n
    BY DEF Drifted
  <1>2. r \in StoredRange /\ p \in StoredRange
    BY <1>1, ConditionalFields
  <1> HIDE DEF r, p
  <1>3. r.till \in Nat /\ p.till \in Nat /\ p.from \in Nat
    BY <1>2, RangeFields, TimeFacts
  <1>4. ASSUME p.till + n < MsPerDay + p.from PROVE Covered(r) = Covered(p)
    <2>1. CASE p.till \in TimesOfDay
      BY <1>1, <2>1
    <2>2. CASE p.till \notin TimesOfDay
      <3>1. MsPerDay <= r.till /\ MsPerDay <= p.till
        BY <1>1, <1>3, <1>4, <2>2, TimeFacts DEF TimesOfDay
      <3>2. \A time \in TimesOfDay : time <= r.till /\ time <= p.till
        BY <1>3, <3>1, TimeFacts DEF TimesOfDay
      <3>3. QED
        BY <1>1, <3>2 DEF Covered, ContainsTime
    <2>3. QED
      BY <2>1, <2>2
  <1>5. QED
    BY <1>1, <1>4 DEF r, p

-----------------------------------------------------------------------------
(* The same for all the lists of the data.                                  *)

LEMMA ListsOfData ==
  ASSUME NEW d \in StoredData1, NEW user \in {"luny", "ruru"},
         NEW list \in {"screen", "internet"}
  PROVE  /\ d[user][list] \in Seq(StoredConditional)
         /\ DataBack(d)[user][list] = ListBack(d[user][list])
  <1>1. d[user] \in StoredUser
    BY DEF StoredData1
  <1>2. d[user][list] \in Seq(StoredConditional)
    BY <1>1 DEF StoredUser
  <1>3. DataBack(d)[user] = UserBack(d[user])
    BY DEF DataBack
  <1>4. UserBack(d[user])[list] = ListBack(d[user][list])
    BY DEF UserBack
  <1>5. QED
    BY <1>2, <1>3, <1>4

\* addConditional changes one list and leaves the others as they are.
Pushed(e, d, user, list, c) == e = [d EXCEPT ![user][list] = Append(@, c)]

OneMore(e, d, user, list, c) ==
  /\ e \in StoredData1
  /\ \A u \in {"luny", "ruru"} : \A l \in {"screen", "internet"} :
       e[u][l] = IF u = user /\ l = list THEN Append(d[u][l], c) ELSE d[u][l]

LEMMA OneListGrows ==
  ASSUME NEW d \in StoredData1, NEW user \in {"luny", "ruru"},
         NEW list \in {"screen", "internet"}, NEW c \in StoredConditional,
         NEW e, Pushed(e, d, user, list, c)
  PROVE  OneMore(e, d, user, list, c)
  <1> DEFINE old == d[user]
             new == [old EXCEPT ![list] = Append(@, c)]
  <1>1. /\ d.luny \in StoredUser /\ d.ruru \in StoredUser /\ d.vaults \in Seq(StoredVault)
        /\ old \in StoredUser
    BY DEF StoredData1
  <1>2. old.screen \in Seq(StoredConditional) /\ old.internet \in Seq(StoredConditional)
    BY <1>1 DEF StoredUser
  <1>3. Append(old[list], c) \in Seq(StoredConditional)
    BY <1>2
  <1>4. DOMAIN old = {"screen", "internet"} /\ DOMAIN d = {"luny", "ruru", "vaults"}
    BY <1>1 DEF StoredUser, StoredData1
  <1> HIDE DEF old
  <1>5. \A l \in {"screen", "internet"} :
          new[l] = IF l = list THEN Append(old[l], c) ELSE old[l]
    BY <1>4
  <1>6. new \in StoredUser
    BY <1>1, <1>3 DEF StoredUser
  <1> HIDE DEF new
  <1>7. e = [d EXCEPT ![user] = new]
    BY DEF Pushed, new, old
  <1>8. \A u \in {"luny", "ruru"} : e[u] = IF u = user THEN new ELSE d[u]
    BY <1>4, <1>7
  <1>9. e \in StoredData1
    BY <1>6, <1>7 DEF StoredData1
  <1>10. ASSUME NEW u \in {"luny", "ruru"}, NEW l \in {"screen", "internet"}
         PROVE  e[u][l] = IF u = user /\ l = list THEN Append(d[u][l], c) ELSE d[u][l]
    <2>1. CASE u = user
      <3>1. e[u] = new /\ old = d[u]
        BY <1>8, <2>1 DEF old
      <3>2. QED
        BY <1>5, <2>1, <3>1
    <2>2. CASE u # user
      <3>1. e[u] = d[u]
        BY <1>8, <2>2
      <3>2. QED
        BY <2>2, <3>1
    <2>3. QED
      BY <2>1, <2>2
  <1>11. QED
    BY <1>9, <1>10 DEF OneMore

LEMMA ListDriftedAppend ==
  ASSUME NEW a \in Seq(StoredConditional), NEW b \in Seq(StoredConditional), NEW n \in Nat,
         ListDrifted(a, b, n), NEW c \in StoredConditional
  PROVE  ListDrifted(Append(a, c), Append(b, c), n)
  <1>1. /\ Len(Append(a, c)) = Len(a) + 1 /\ Append(a, c)[Len(a) + 1] = c
        /\ \A i \in 1..Len(a) : Append(a, c)[i] = a[i]
    BY AppendProperties
  <1>2. /\ Len(Append(b, c)) = Len(b) + 1 /\ Append(b, c)[Len(b) + 1] = c
        /\ \A i \in 1..Len(b) : Append(b, c)[i] = b[i]
    BY AppendProperties
  <1>3. Drifted(c, c, n)
    BY DriftedSelf
  <1>4. Len(a) \in Nat /\ Len(a) = Len(b)
    BY DEF ListDrifted
  <1>5. ASSUME NEW i \in 1..(Len(a) + 1)
        PROVE  Drifted(Append(a, c)[i], Append(b, c)[i], n)
    <2>1. CASE i = Len(a) + 1
      BY <1>1, <1>2, <1>3, <1>4, <2>1
    <2>2. CASE i # Len(a) + 1
      <3>1. i \in 1..Len(a)
        BY <1>4, <2>2
      <3>2. QED
        BY <1>1, <1>2, <1>4, <3>1 DEF ListDrifted
    <2>3. QED
      BY <2>1, <2>2
  <1>6. QED
    BY <1>1, <1>2, <1>4, <1>5 DEF ListDrifted

LEMMA ListDriftedNext ==
  ASSUME NEW a \in Seq(StoredConditional), NEW b \in Seq(StoredConditional), NEW n \in Nat,
         ListDrifted(a, b, n)
  PROVE  ListDrifted(a, b, n + 1) /\ ListDrifted(ListBack(a), b, n + 1)
  <1>1. Len(a) \in Nat /\ Len(a) = Len(b) /\ DOMAIN a = 1..Len(a)
    BY DEF ListDrifted
  <1>2. \A i \in 1..Len(a) : /\ a[i] \in StoredConditional /\ b[i] \in StoredConditional
                             /\ Drifted(a[i], b[i], n)
    BY <1>1 DEF ListDrifted
  <1>3. \A i \in 1..Len(a) : Drifted(a[i], b[i], n + 1)
    BY <1>2, DriftedLater
  <1>4. \A i \in 1..Len(a) : Drifted(ReadBackOf(a[i]), b[i], n + 1)
    BY <1>2, DriftedBack
  <1>5. /\ ListBack(a) = [i \in 1..Len(a) |-> ReadBackOf(a[i])]
        /\ Len(ListBack(a)) = Len(a)
    BY <1>1 DEF ListBack
  <1>6. \A i \in 1..Len(a) : ListBack(a)[i] = ReadBackOf(a[i])
    BY <1>5
  <1>7. QED
    BY <1>1, <1>3, <1>4, <1>5, <1>6 DEF ListDrifted

LEMMA DataDriftedNext ==
  ASSUME NEW d \in StoredData1, NEW e \in StoredData1, NEW n \in Nat, DataDrifted(d, e, n)
  PROVE  DataDrifted(d, e, n + 1) /\ DataDrifted(DataBack(d), e, n + 1)
  <1> SUFFICES ASSUME NEW user \in {"luny", "ruru"}, NEW list \in {"screen", "internet"}
               PROVE  /\ ListDrifted(d[user][list], e[user][list], n + 1)
                      /\ ListDrifted(DataBack(d)[user][list], e[user][list], n + 1)
    BY DEF DataDrifted
  <1>1. /\ d[user][list] \in Seq(StoredConditional) /\ e[user][list] \in Seq(StoredConditional)
        /\ DataBack(d)[user][list] = ListBack(d[user][list])
    BY ListsOfData
  <1>2. ListDrifted(d[user][list], e[user][list], n)
    BY DEF DataDrifted
  <1>3. QED
    BY <1>1, <1>2, ListDriftedNext

-----------------------------------------------------------------------------
(* The invariant is inductive.                                              *)

\* What is asked for is what can be stored.
LEMMA AskedIsStored ==
  /\ Conditional \subseteq StoredConditional
  /\ Vault \subseteq StoredVault
  /\ Clock \subseteq StoredClock
  <1>1. Lifetimes \subseteq Countdown /\ Spans \subseteq Durations /\ Stamps \subseteq Nat
    BY CodecAssumption
  <1>2. Ranges \subseteq StoredRange
    BY CodecAssumption DEF StoredRange
  <1>3. Conditional \subseteq StoredConditional
    BY <1>1, <1>2 DEF Conditional, StoredConditional
  <1>4. Vault \subseteq StoredVault /\ Clock \subseteq StoredClock
    BY <1>1 DEF Vault, StoredVault, Clock, StoredClock
  <1>5. QED
    BY <1>3, <1>4

LEMMA CodecStart == CodecInit => CodecIInv
  <1> SUFFICES ASSUME CodecInit PROVE CodecIInv
    OBVIOUS
  <1>1. EmptyUser \in StoredUser
    BY EmptySeq DEF EmptyUser, StoredUser
  <1>2. EmptyData1 \in StoredData1
    BY <1>1, EmptySeq DEF EmptyData1, StoredData1
  <1>3. data2 \in StoredData2
    BY AskedIsStored DEF CodecInit, StoredData2
  <1>4. \A user \in {"luny", "ruru"} : \A list \in {"screen", "internet"} :
          EmptyData1[user][list] = <<>>
    BY DEF EmptyData1, EmptyUser
  <1>5. DataDrifted(EmptyData1, EmptyData1, 0)
    BY <1>4 DEF DataDrifted, ListDrifted
  <1>6. QED
    BY <1>2, <1>3, <1>5 DEF CodecInit, CodecIInv

LEMMA CodecStep == CodecIInv /\ [CodecNext]_codecVars => CodecIInv'
  <1> SUFFICES ASSUME CodecIInv, [CodecNext]_codecVars PROVE CodecIInv'
    OBVIOUS
  <1>1. ASSUME NEW user \in {"luny", "ruru"}, NEW list \in {"screen", "internet"},
               NEW c \in Conditional, AddConditional(user, list, c)
        PROVE  CodecIInv'
    <2>1. c \in StoredConditional
      BY AskedIsStored
    <2>2. data1 \in StoredData1 /\ asked \in StoredData1 /\ launches \in Nat
      BY DEF CodecIInv
    <2>3. Pushed(data1', data1, user, list, c)
      BY <1>1 DEF AddConditional, Pushed
    <2>4. Pushed(asked', asked, user, list, c)
      BY <1>1 DEF AddConditional, Pushed
    <2>5. /\ data1' \in StoredData1
          /\ \A u \in {"luny", "ruru"} : \A l \in {"screen", "internet"} :
               data1'[u][l] = IF u = user /\ l = list THEN Append(data1[u][l], c)
                              ELSE data1[u][l]
      <3>1. OneMore(data1', data1, user, list, c)
        BY <2>1, <2>2, <2>3, OneListGrows
      <3>2. QED
        BY <3>1 DEF OneMore
    <2>6. /\ asked' \in StoredData1
          /\ \A u \in {"luny", "ruru"} : \A l \in {"screen", "internet"} :
               asked'[u][l] = IF u = user /\ l = list THEN Append(asked[u][l], c)
                              ELSE asked[u][l]
      <3>1. OneMore(asked', asked, user, list, c)
        BY <2>1, <2>2, <2>4, OneListGrows
      <3>2. QED
        BY <3>1 DEF OneMore
    <2>7. DataDrifted(data1', asked', launches)
      <3> SUFFICES ASSUME NEW u \in {"luny", "ruru"}, NEW l \in {"screen", "internet"}
                   PROVE  ListDrifted(data1'[u][l], asked'[u][l], launches)
        BY DEF DataDrifted
      <3>1. ListDrifted(data1[u][l], asked[u][l], launches)
        BY DEF CodecIInv, DataDrifted
      <3>2. /\ data1[u][l] \in Seq(StoredConditional)
            /\ asked[u][l] \in Seq(StoredConditional)
        BY <2>2, ListsOfData
      <3>3. CASE u = user /\ l = list
        <4>1. ListDrifted(Append(data1[u][l], c), Append(asked[u][l], c), launches)
          BY <2>1, <2>2, <3>1, <3>2, ListDriftedAppend
        <4>2. QED
          BY <2>5, <2>6, <3>3, <4>1
      <3>4. CASE ~(u = user /\ l = list)
        BY <2>5, <2>6, <3>1, <3>4
      <3>5. QED
        BY <3>3, <3>4
    <2>8. UNCHANGED <<data2, file1, file2, saved1, saved2, saved, launches>>
      BY <1>1 DEF AddConditional
    <2>9. QED
      BY <2>5, <2>6, <2>7, <2>8 DEF CodecIInv
  <1>2. ASSUME NEW v \in Vault, AddVault(v) PROVE CodecIInv'
    <2>1. v \in StoredVault
      BY AskedIsStored
    <2>2. /\ data1' = [data1 EXCEPT !.vaults = Append(@, v)]
          /\ asked' = [asked EXCEPT !.vaults = Append(@, v)]
      BY <1>2 DEF AddVault
    <2>3. ASSUME NEW d \in StoredData1
          PROVE  LET e == [d EXCEPT !.vaults = Append(@, v)]
                 IN  e \in StoredData1 /\ e.luny = d.luny /\ e.ruru = d.ruru
      BY <2>1 DEF StoredData1
    <2>4. /\ data1' \in StoredData1 /\ data1'.luny = data1.luny /\ data1'.ruru = data1.ruru
          /\ asked' \in StoredData1 /\ asked'.luny = asked.luny /\ asked'.ruru = asked.ruru
      BY <2>2, <2>3 DEF CodecIInv
    <2>5. DataDrifted(data1', asked', launches)
      BY <2>4 DEF CodecIInv, DataDrifted
    <2>6. UNCHANGED <<data2, file1, file2, saved1, saved2, saved, launches>>
      BY <1>2 DEF AddVault
    <2>7. QED
      BY <2>4, <2>5, <2>6 DEF CodecIInv
  <1>3. CASE SaveBoth
    BY <1>3 DEF SaveBoth, CodecIInv
  <1>4. CASE Relaunch
    <2>1. /\ saved1 \in StoredData1 /\ saved \in StoredData1 /\ saved2 \in StoredData2
          /\ launches \in Nat /\ DataDrifted(saved1, saved, launches)
          /\ file1 = WriteData1(saved1) /\ file2 = WriteData2(saved2)
      BY DEF CodecIInv
    <2>2. DataBack(saved1) \in StoredData1 /\ ReadData1(file1) = Got(DataBack(saved1), <<>>)
      BY <2>1, Data1Written
    <2>3. ReadData2(file2) = Got(saved2, <<>>)
      BY <2>1, Data2Written
    <2>4. data1' = DataBack(saved1) /\ data2' = saved2 /\ asked' = saved
      BY <1>4, <2>2, <2>3, GotFields DEF Relaunch
    <2>5. /\ DataDrifted(saved1, saved, launches + 1)
          /\ DataDrifted(DataBack(saved1), saved, launches + 1)
      BY <2>1, DataDriftedNext
    <2>6. launches' = launches + 1 /\ UNCHANGED <<file1, file2, saved1, saved2, saved>>
      BY <1>4 DEF Relaunch
    <2>7. QED
      BY <2>1, <2>2, <2>4, <2>5, <2>6 DEF CodecIInv
  <1>5. CASE UNCHANGED codecVars
    BY <1>5 DEF codecVars, CodecIInv
  <1>6. QED
    BY <1>1, <1>2, <1>3, <1>4, <1>5 DEF CodecNext

THEOREM CodecInvariant == CodecSpec => []CodecIInv
  BY CodecStart, CodecStep, PTL DEF CodecSpec

-----------------------------------------------------------------------------
(* What follows for the files and for the ranges.                           *)

\* A file that saveData1 or saveData2 wrote is read to its last token, so the daemon
\* can be launched again, whatever the data were (serialization.ts, storage.ts).
THEOREM FilesCanBeRead == CodecSpec => []FilesAreReadable
  <1>1. CodecIInv => FilesAreReadable
    BY Data1Written, Data2Written, GotFields DEF CodecIInv, FilesAreReadable
  <1>2. QED
    BY <1>1, CodecInvariant, PTL

\* What the deserializers make of the files is what the serializers were given, in
\* every list of any length and in the same order, but for the ends of the ranges
\* that pass midnight.
THEOREM WhatIsReadWasWritten == CodecSpec => []ReadsWhatWasWritten
  <1>1. CodecIInv => ReadsWhatWasWritten
    BY Data1Written, Data2Written, GotFields, MappedIsDataBack
       DEF CodecIInv, ReadsWhatWasWritten
  <1>2. QED
    BY <1>1, CodecInvariant, PTL

\* A range within one day is never changed by being written and read; one that passes
\* midnight drifts, but applies at the same times of the day until its end has come
\* to its beginning (time_range.ts, getTill and fromTimes).
THEOREM RangesApplyOn == CodecSpec => []RangesKeepApplying
  <1>1. ASSUME CodecIInv,
               NEW user \in {"luny", "ruru"}, NEW list \in {"screen", "internet"},
               NEW i \in DOMAIN data1[user][list],
               asked[user][list][i].tag = "TimeRange"
        PROVE  LET mine     == data1[user][list][i]
                   original == asked[user][list][i]
               IN  /\ original.range.till \in TimesOfDay => mine.range = original.range
                   /\ original.range.till + launches < MsPerDay + original.range.from
                        => Covered(mine.range) = Covered(original.range)
    <2> DEFINE a == data1[user][list]
               b == asked[user][list]
    <2>1. a \in Seq(StoredConditional) /\ b \in Seq(StoredConditional) /\ launches \in Nat
      BY <1>1, ListsOfData DEF CodecIInv
    <2>2. ListDrifted(a, b, launches)
      BY <1>1 DEF CodecIInv, DataDrifted
    <2> HIDE DEF a, b
    <2>3. i \in 1..Len(a)
      BY <2>1 DEF a
    <2>4. /\ a[i] \in StoredConditional /\ b[i] \in StoredConditional
          /\ Drifted(a[i], b[i], launches)
      BY <2>1, <2>2, <2>3 DEF ListDrifted
    <2>5. b[i].tag = "TimeRange"
      BY <1>1 DEF b
    <2>6. QED
      BY <2>1, <2>4, <2>5, DriftedCovers DEF a, b
  <1>2. CodecIInv => RangesKeepApplying
    BY <1>1 DEF RangesKeepApplying
  <1>3. QED
    BY <1>2, CodecInvariant, PTL
=============================================================================
