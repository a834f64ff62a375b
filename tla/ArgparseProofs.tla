--------------------------- MODULE ArgparseProofs ---------------------------
(***************************************************************************)
(* For any options, any argument lists and any flags, the parser follows   *)
(* the reading of ArgparseProps until an argument leaves a rest behind.    *)
(***************************************************************************)
EXTENDS ArgparseProps, SequenceTheorems, WellFoundedInduction, TLAPS

-----------------------------------------------------------------------------
(* Sets of numbers.                                                         *)

LEMMA LeastNatural ==
  ASSUME NEW T \in SUBSET Nat, T # {}
  PROVE  \E n \in T : \A m \in T : n <= m
<1>. DEFINE R == OpToRel(<, Nat)
<1>1. IsWellFoundedOn(R, Nat)
  BY NatLessThanWellFounded
<1>2. \A x, y \in Nat : y < x => <<y, x>> \in R
  BY DEF OpToRel
<1>. HIDE DEF R
<1>3. PICK x \in T : \A y \in T : <<y, x>> \notin R
  BY <1>1, WFMin
<1>4. \A y \in T : x \in Nat /\ y \in Nat /\ ~(y < x)
  BY <1>2, <1>3
<1>5. \A y \in T : x <= y
  BY <1>4
<1>. QED
  BY <1>5

LEMMA MinIs ==
  ASSUME NEW T \in SUBSET Nat, T # {}
  PROVE  Min(T) \in T /\ \A m \in T : Min(T) <= m
<1>1. \E n \in T : \A m \in T : n <= m
  BY LeastNatural
<1>. QED
  BY <1>1 DEF Min

LEMMA MaxIs ==
  ASSUME NEW T \in SUBSET Nat, NEW k \in T, \A m \in T : m <= k
  PROVE  Max(T) = k
<1>1. k \in T /\ \A m \in T : k >= m
  OBVIOUS
<1>2. Max(T) \in T /\ \A m \in T : Max(T) >= m
  BY <1>1 DEF Max
<1>3. Max(T) >= k /\ k >= Max(T) /\ Max(T) \in Nat /\ k \in Nat
  BY <1>1, <1>2
<1>. QED
  BY <1>3

-----------------------------------------------------------------------------
(* Arguments and texts.                                                     *)

LEMMA ArgumentParts ==
  ASSUME NEW a \in Argument
  PROVE  /\ a.dashes \in 0 .. 2 /\ a.text \in Seq(Symbols)
         /\ a.value = NULL \/ a.value \in Seq(Symbols)
         /\ Len(a.text) \in Nat /\ (a.text # <<>> => Len(a.text) >= 1)
         /\ \A n \in 1 .. Len(a.text) : a.text[n] \in Symbols
<1>1. /\ a.dashes \in 0 .. 2 /\ a.text \in Seq(Symbols)
      /\ a.value = NULL \/ a.value \in Seq(Symbols)
  BY DEF Argument
<1>2. Len(a.text) \in Nat /\ (a.text # <<>> => Len(a.text) \in Nat \ {0})
  BY <1>1, LenProperties, EmptySeq
<1>3. \A n \in 1 .. Len(a.text) : a.text[n] \in Symbols
  BY <1>1, ElementOfSeq
<1>. QED
  BY <1>1, <1>2, <1>3

LEMMA TextIs ==
  ASSUME NEW t \in Seq(Symbols)
  PROVE  /\ Text(t) \in Argument /\ Text(t) # NULL
         /\ Text(t).text = t /\ Text(t).dashes = 0 /\ Text(t).value = NULL
<1>1. Text(t) \in Argument
  BY DEF Text, Argument
<1>. QED
  BY <1>1, ArgparseAssumption DEF Text

LEMMA InputIs ==
  ASSUME input \in Inputs
  PROVE  /\ input \in Seq(Argument) /\ Len(input) \in Nat /\ DOMAIN input = 1 .. Len(input)
         /\ \A k \in 1 .. Len(input) : input[k] \in Argument
<1>1. input \in Seq(Argument)
  BY ArgparseAssumption
<1>. QED
  BY <1>1, LenProperties, ElementOfSeq

\* The last letter that is looked at: no letter before it stops the cluster,
\* and it does, unless it is the last of all.
LetterStops(a, n) == \A o \in ByLetter(a.text[n]) : TakesValue(o)

LEMMA LastLetterIs ==
  ASSUME NEW a \in Argument, IsCluster(a)
  PROVE  /\ LastLetter(a) \in 1 .. Len(a.text)
         /\ \A n \in 1 .. Len(a.text) : LetterStops(a, n) => LastLetter(a) <= n
         /\ LastLetter(a) < Len(a.text) => LetterStops(a, LastLetter(a))
<1>. DEFINE stops == {n \in DOMAIN a.text : LetterStops(a, n)}
<1>1. LastLetter(a) = IF stops = {} THEN Len(a.text) ELSE Min(stops)
  BY DEF LastLetter, LetterStops
<1>2. Len(a.text) \in Nat /\ Len(a.text) >= 1 /\ DOMAIN a.text = 1 .. Len(a.text)
  BY ArgumentParts, LenProperties DEF IsCluster
<1>3. CASE stops = {}
  BY <1>1, <1>2, <1>3
<1>4. CASE stops # {}
  <2>1. stops \in SUBSET Nat
    BY <1>2
  <2>2. Min(stops) \in stops /\ \A m \in stops : Min(stops) <= m
    <3>. HIDE DEF stops
    <3>. QED
      BY <1>4, <2>1, MinIs
  <2>. QED
    BY <1>1, <1>2, <1>4, <2>2
<1>. QED
  BY <1>3, <1>4

\* An option is found by its names.
LEMMA NamesApart ==
  ASSUME NEW o \in Options
  PROVE  /\ \A c \in Symbols : o.short_name = c => ByLetter(c) = {o}
         /\ \A c \in Symbols : o.long_name = c => ByName(c) = {o}
BY ArgparseAssumption DEF ByLetter, ByName

-----------------------------------------------------------------------------
(* The reading.  ReadFrom and OperandsFrom are recursive: that functions    *)
(* with such values exist for lists of every length is an induction from    *)
(* the end of the list, by the least k from which on one exists.            *)

LEMMA AfterIs ==
  ASSUME NEW k
  PROVE  After(k) = k + 1 \/ After(k) = k + 2
BY DEF After

\* What holds of a place if it holds of the one the reading goes on to holds
\* of every place.
LEMMA ReadingInduction ==
  ASSUME input \in Inputs, NEW G,
         \A k \in 1 .. Len(input) + 2 : (k <= Len(input) => After(k) \in G) => k \in G
  PROVE  \A k \in 1 .. Len(input) + 2 : k \in G
<1>. DEFINE N == Len(input)
            T == {n \in 0 .. N + 1 : N + 2 - n \notin G}
<1>1. N \in Nat
  BY InputIs
<1>2. SUFFICES ASSUME NEW k \in 1 .. N + 2, k \notin G PROVE FALSE
  OBVIOUS
<1>3. N + 2 - k \in T
  BY <1>1, <1>2
<1>4. PICK n \in T : \A m \in T : n <= m
  <2>1. T \in SUBSET Nat
    BY <1>1
  <2>. HIDE DEF T
  <2>. QED
    BY <1>3, <2>1, LeastNatural
<1>5. N + 2 - n \in 1 .. N + 2 /\ N + 2 - n \notin G /\ n \in 0 .. N + 1
  BY <1>1, <1>4
<1>6. N + 2 - n <= N /\ After(N + 2 - n) \notin G
  BY <1>5
<1>7. PICK l \in {N + 2 - n + 1, N + 2 - n + 2} : l = After(N + 2 - n)
  BY AfterIs
<1>8. l \notin G /\ l \in 1 .. N + 2 /\ l > N + 2 - n
  BY <1>1, <1>5, <1>6, <1>7
<1>9. N + 2 - l \in T /\ N + 2 - l < n
  <2>1. N + 2 - l \in 0 .. N + 1 /\ N + 2 - (N + 2 - l) = l
    BY <1>1, <1>8
  <2>. QED
    BY <1>1, <1>5, <1>8, <2>1
<1>. QED
  BY <1>1, <1>4, <1>9

ReadStep(f, k) ==
  IF k > Len(input) THEN {} ELSE IF Stops(input[k]) THEN {}
  ELSE {k} \cup f[After(k)]

IsReading(f, b) == f = [k \in b .. Len(input) + 2 |-> ReadStep(f, k)]

LEMMA ReadingExists ==
  ASSUME input \in Inputs
  PROVE  \E f : IsReading(f, 1)
<1>. DEFINE N == Len(input)
            T == {b \in 1 .. N + 3 : \E f : IsReading(f, b)}
<1>1. N \in Nat
  BY InputIs
<1>2. N + 3 \in T
  <2>1. IsReading([k \in N + 3 .. N + 2 |-> {}], N + 3)
    BY <1>1 DEF IsReading
  <2>. QED
    BY <1>1, <2>1
<1>3. PICK b \in T : \A m \in T : b <= m
  <2>1. T \in SUBSET Nat
    BY <1>1
  <2>. HIDE DEF T
  <2>. QED
    BY <1>2, <2>1, LeastNatural
<1>4. PICK f : IsReading(f, b)
  OBVIOUS
<1>5. CASE b = 1
  BY <1>4, <1>5
<1>6. CASE b # 1
  <2>1. b - 1 \in 1 .. N + 2 /\ b \in Nat /\ b \in 2 .. N + 3
    BY <1>1, <1>3, <1>6
  <2>. DEFINE c == b - 1
              g == [k \in c .. N + 2 |-> IF k = c THEN ReadStep(f, c) ELSE f[k]]
  <2>2. \A k \in c .. N + 2 : k = c \/ k \in b .. N + 2
    BY <1>1, <2>1
  <2>3. ASSUME NEW k \in c .. N + 2
        PROVE  g[k] = ReadStep(g, k)
    <3>1. k <= N => After(k) \in c .. N + 2 /\ After(k) # c
      BY <1>1, <2>1, AfterIs
    <3>2. k <= N => g[After(k)] = f[After(k)]
      BY <3>1
    <3>3. ReadStep(g, k) = ReadStep(f, k)
      <4>. HIDE DEF g
      <4>1. CASE k <= N
        BY <3>2, <4>1 DEF ReadStep
      <4>2. CASE k > N
        BY <4>2 DEF ReadStep
      <4>. QED
        BY <1>1, <2>1, <4>1, <4>2
    <3>4. g[k] = ReadStep(f, k)
      BY <1>4, <2>2 DEF IsReading
    <3>. QED
      BY <3>3, <3>4
  <2>4. IsReading(g, c)
    <3>1. g = [k \in c .. N + 2 |-> g[k]]
      OBVIOUS
    <3>. HIDE DEF g
    <3>. QED
      BY <2>3, <3>1 DEF IsReading
  <2>5. c \in T
    BY <2>1, <2>4, <1>1
  <2>. QED
    BY <1>3, <2>1, <2>5
<1>. QED
  BY <1>5, <1>6

LEMMA ReadFromSteps ==
  ASSUME input \in Inputs
  PROVE  \A k \in 1 .. Len(input) + 2 : ReadFrom[k] = ReadStep(ReadFrom, k)
<1>. DEFINE Solution == CHOOSE f : IsReading(f, 1)
<1>1. IsReading(Solution, 1)
  BY ReadingExists
<1>2. ReadFrom = Solution
  BY DEF ReadFrom, ReadStep, IsReading
<1>3. IsReading(ReadFrom, 1)
  <2>. HIDE DEF Solution
  <2>. QED
    BY <1>1, <1>2
<1>4. PICK f : f = ReadFrom
  OBVIOUS
<1>5. f = [k \in 1 .. Len(input) + 2 |-> ReadStep(f, k)]
  BY <1>3, <1>4 DEF IsReading
<1>6. \A k \in 1 .. Len(input) + 2 : f[k] = ReadStep(f, k)
  BY <1>5
<1>. QED
  BY <1>4, <1>6

\* What is read from k on lies from k on.
LEMMA ReadFromBounds ==
  ASSUME input \in Inputs
  PROVE  \A k \in 1 .. Len(input) + 2 : ReadFrom[k] \subseteq k .. Len(input)
<1>. DEFINE N == Len(input)
            G == {k \in 1 .. N + 2 : ReadFrom[k] \subseteq k .. N}
<1>1. N \in Nat
  BY InputIs
<1>2. ASSUME NEW k \in 1 .. N + 2, k <= N => After(k) \in G
      PROVE  k \in G
  <2>1. ReadFrom[k] = ReadStep(ReadFrom, k)
    BY ReadFromSteps
  <2>2. CASE k > N \/ Stops(input[k])
    BY <1>1, <2>1, <2>2 DEF ReadStep
  <2>3. CASE k <= N /\ ~Stops(input[k])
    <3>1. ReadStep(ReadFrom, k) = {k} \cup ReadFrom[After(k)]
      BY <1>1, <2>3 DEF ReadStep
    <3>2. ReadFrom[After(k)] \subseteq After(k) .. N
      BY <1>2, <2>3
    <3>3. After(k) .. N \subseteq k .. N /\ k \in k .. N
      BY <1>1, <2>3, AfterIs
    <3>. QED
      BY <2>1, <3>1, <3>2, <3>3
  <2>. QED
    BY <1>1, <2>2, <2>3
<1>3. \A k \in 1 .. N + 2 : k \in G
  <2>. HIDE DEF G
  <2>. QED
    BY <1>2, ReadingInduction
<1>. QED
  BY <1>3

OperandStep(f, k) ==
  IF k > Len(input) THEN <<>>
  ELSE IF IsEnd(input[k]) THEN SubSeq(input, k + 1, Len(input))
  ELSE IF Stops(input[k]) THEN SubSeq(input, k, Len(input))
  ELSE IF IsOperand(input[k]) THEN <<input[k]>> \o f[After(k)]
  ELSE f[After(k)]

IsOperands(f, b) == f = [k \in b .. Len(input) + 2 |-> OperandStep(f, k)]

LEMMA OperandsExist ==
  ASSUME input \in Inputs
  PROVE  \E f : IsOperands(f, 1)
<1>. DEFINE N == Len(input)
            T == {b \in 1 .. N + 3 : \E f : IsOperands(f, b)}
<1>1. N \in Nat
  BY InputIs
<1>2. N + 3 \in T
  <2>1. IsOperands([k \in N + 3 .. N + 2 |-> {}], N + 3)
    BY <1>1 DEF IsOperands
  <2>. QED
    BY <1>1, <2>1
<1>3. PICK b \in T : \A m \in T : b <= m
  <2>1. T \in SUBSET Nat
    BY <1>1
  <2>. HIDE DEF T
  <2>. QED
    BY <1>2, <2>1, LeastNatural
<1>4. PICK f : IsOperands(f, b)
  OBVIOUS
<1>5. CASE b = 1
  BY <1>4, <1>5
<1>6. CASE b # 1
  <2>1. b - 1 \in 1 .. N + 2 /\ b \in Nat /\ b \in 2 .. N + 3
    BY <1>1, <1>3, <1>6
  <2>. DEFINE c == b - 1
              g == [k \in c .. N + 2 |-> IF k = c THEN OperandStep(f, c) ELSE f[k]]
  <2>2. \A k \in c .. N + 2 : k = c \/ k \in b .. N + 2
    BY <1>1, <2>1
  <2>3. ASSUME NEW k \in c .. N + 2
        PROVE  g[k] = OperandStep(g, k)
    <3>1. k <= N => After(k) \in c .. N + 2 /\ After(k) # c
      BY <1>1, <2>1, AfterIs
    <3>2. k <= N => g[After(k)] = f[After(k)]
      BY <3>1
    <3>3. OperandStep(g, k) = OperandStep(f, k)
      <4>. HIDE DEF g
      <4>1. CASE k <= N
        BY <3>2, <4>1 DEF OperandStep
      <4>2. CASE k > N
        BY <4>2 DEF OperandStep
      <4>. QED
        BY <1>1, <2>1, <4>1, <4>2
    <3>4. g[k] = OperandStep(f, k)
      BY <1>4, <2>2 DEF IsOperands
    <3>. QED
      BY <3>3, <3>4
  <2>4. IsOperands(g, c)
    <3>1. g = [k \in c .. N + 2 |-> g[k]]
      OBVIOUS
    <3>. HIDE DEF g
    <3>. QED
      BY <2>3, <3>1 DEF IsOperands
  <2>5. c \in T
    BY <2>1, <2>4, <1>1
  <2>. QED
    BY <1>3, <2>1, <2>5
<1>. QED
  BY <1>5, <1>6

LEMMA OperandsFromSteps ==
  ASSUME input \in Inputs
  PROVE  \A k \in 1 .. Len(input) + 2 : OperandsFrom[k] = OperandStep(OperandsFrom, k)
<1>. DEFINE Solution == CHOOSE f : IsOperands(f, 1)
<1>1. IsOperands(Solution, 1)
  BY OperandsExist
<1>2. OperandsFrom = Solution
  BY DEF OperandsFrom, OperandStep, IsOperands
<1>3. IsOperands(OperandsFrom, 1)
  <2>. HIDE DEF Solution
  <2>. QED
    BY <1>1, <1>2
<1>4. PICK f : f = OperandsFrom
  OBVIOUS
<1>5. f = [k \in 1 .. Len(input) + 2 |-> OperandStep(f, k)]
  BY <1>3, <1>4 DEF IsOperands
<1>6. \A k \in 1 .. Len(input) + 2 : f[k] = OperandStep(f, k)
  BY <1>5
<1>. QED
  BY <1>4, <1>6

LEMMA OperandsFromType ==
  ASSUME input \in Inputs
  PROVE  \A k \in 1 .. Len(input) + 2 : OperandsFrom[k] \in Seq(Argument)
<1>. DEFINE N == Len(input)
            G == {k \in 1 .. N + 2 : OperandsFrom[k] \in Seq(Argument)}
<1>1. N \in Nat /\ \A k \in 1 .. N : input[k] \in Argument
  BY InputIs
<1>2. ASSUME NEW k \in 1 .. N + 2, k <= N => After(k) \in G
      PROVE  k \in G
  <2>1. OperandsFrom[k] = OperandStep(OperandsFrom, k)
    BY OperandsFromSteps
  <2>2. SubSeq(input, k + 1, N) \in Seq(Argument) /\ SubSeq(input, k, N) \in Seq(Argument)
    <3>1. /\ \A i \in k + 1 .. N : input[i] \in Argument
          /\ \A i \in k .. N : input[i] \in Argument
      BY <1>1
    <3>2. SubSeq(input, k + 1, N) \in Seq(Argument)
      BY <1>1, <3>1, SubSeqProperties
    <3>3. SubSeq(input, k, N) \in Seq(Argument)
      BY <1>1, <3>1, SubSeqProperties
    <3>. QED
      BY <3>2, <3>3
  <2>3. <<>> \in Seq(Argument)
    BY EmptySeq
  <2>4. k <= N => OperandsFrom[After(k)] \in Seq(Argument)
    BY <1>2
  <2>5. k <= N => <<input[k]>> \o OperandsFrom[After(k)] \in Seq(Argument)
    <3>1. k <= N => <<input[k]>> \in Seq(Argument)
      BY <1>1
    <3>. QED
      BY <2>4, <3>1, ConcatProperties
  <2>6. OperandStep(OperandsFrom, k) \in Seq(Argument)
    BY <1>1, <2>2, <2>3, <2>4, <2>5 DEF OperandStep
  <2>. QED
    BY <2>1, <2>6
<1>3. \A k \in 1 .. N + 2 : k \in G
  <2>. HIDE DEF G
  <2>. QED
    BY <1>2, ReadingInduction
<1>. QED
  BY <1>3

-----------------------------------------------------------------------------
(* How the reading goes on after an argument.                               *)

LEMMA ReadingStays ==
  ASSUME input' = input, flags' = flags
  PROVE  /\ ReadFrom' = ReadFrom /\ OperandsFrom' = OperandsFrom
         /\ \A a : Stops(a)' = Stops(a)
         /\ \A k : After(k)' = After(k) /\ ValueIn(k)' = ValueIn(k)
         /\ \A m : (Tainted(m)' <=> Tainted(m)) /\ (ComesTo(m)' <=> ComesTo(m))
         /\ \A o, m : Givers(o, m)' = Givers(o, m)
<1>1. ReadFrom' = ReadFrom
  BY DEF ReadFrom, Stops, After
<1>2. OperandsFrom' = OperandsFrom
  BY DEF OperandsFrom, Stops, After
<1>3. \A a : Stops(a)' = Stops(a)
  BY DEF Stops
<1>4. \A k : After(k)' = After(k) /\ ValueIn(k)' = ValueIn(k)
  BY DEF After, ValueIn
<1>5. \A m : (Tainted(m)' <=> Tainted(m)) /\ (ComesTo(m)' <=> ComesTo(m))
  BY <1>1 DEF Tainted, ComesTo
<1>6. \A o, m : Givers(o, m)' = Givers(o, m)
  BY <1>1 DEF Givers
<1>. QED
  BY <1>1, <1>2, <1>3, <1>4, <1>5, <1>6

\* The places read are places of the list.
LEMMA ReadPlaces ==
  ASSUME input \in Inputs
  PROVE  \A k \in ReadFrom[1] : k \in 1 .. Len(input)
<1>1. 1 \in 1 .. Len(input) + 2
  BY InputIs
<1>. QED
  BY <1>1, ReadFromBounds

\* What the reading does not stop at is read, and nothing between it and the
\* place the reading goes on at is.
LEMMA ComesOn ==
  ASSUME input \in Inputs, NEW k \in 1 .. Len(input), ~Stops(input[k]), ComesTo(k),
         NEW m, m = After(k)
  PROVE  /\ m \in k + 1 .. k + 2 /\ k \in ReadFrom[1] /\ ComesTo(m)
         /\ \A l \in ReadFrom[1] : l < m <=> l < k \/ l = k
<1>. DEFINE N == Len(input)
<1>1. N \in Nat /\ k \in 1 .. N + 2
  BY InputIs
<1>2. m \in k + 1 .. k + 2 /\ m \in 1 .. N + 2
  BY <1>1, AfterIs
<1>3. ReadFrom[k] = {k} \cup ReadFrom[m]
  <2>1. ReadFrom[k] = ReadStep(ReadFrom, k)
    BY <1>1, ReadFromSteps
  <2>. QED
    BY <1>1, <2>1 DEF ReadStep
<1>4. \A l \in ReadFrom[m] : l >= m /\ l \in 1 .. N
  BY <1>1, <1>2, ReadFromBounds
<1>5. \A l \in ReadFrom[1] : l \in 1 .. N
  BY ReadPlaces
<1>6. \A l : l \in ReadFrom[1] /\ l >= k <=> l = k \/ l \in ReadFrom[m]
  BY <1>3 DEF ComesTo
<1>7. k \in ReadFrom[1]
  BY <1>6
<1>8. \A l : l \in ReadFrom[1] /\ l >= m <=> l \in ReadFrom[m]
  <2>1. \A l \in ReadFrom[1] : l >= m => l >= k /\ l # k
    BY <1>2, <1>5
  <2>2. \A l \in ReadFrom[m] : l \in ReadFrom[1] /\ l >= m
    BY <1>4, <1>6
  <2>. QED
    BY <1>6, <2>1, <2>2
<1>9. ComesTo(m)
  BY <1>8 DEF ComesTo
<1>10. ASSUME NEW l \in ReadFrom[1]
       PROVE  l < m <=> l < k \/ l = k
  <2>1. l < m /\ l >= k => l = k
    BY <1>4, <1>5, <1>6, <1>2
  <2>. QED
    BY <1>2, <1>5, <2>1
<1>. QED
  BY <1>2, <1>7, <1>9, <1>10

\* Where the reading stops, nothing more is read.
LEMMA ComesToEnd ==
  ASSUME input \in Inputs, NEW k \in 1 .. Len(input) + 1, ComesTo(k),
         k <= Len(input) => Stops(input[k])
  PROVE  \A l \in ReadFrom[1] : l < k
<1>1. Len(input) \in Nat /\ k \in 1 .. Len(input) + 2
  BY InputIs
<1>2. ReadFrom[k] = ReadStep(ReadFrom, k)
  BY <1>1, ReadFromSteps
<1>3. ReadFrom[k] = {}
  BY <1>1, <1>2 DEF ReadStep
<1>4. \A l \in ReadFrom[1] : l \in 1 .. Len(input) /\ ~(l >= k)
  BY <1>3, ReadPlaces DEF ComesTo
<1>. QED
  BY <1>1, <1>4

\* The values after an argument, when its option has taken what it gives.
LEMMA ValuesGoOn ==
  ASSUME input \in Inputs, input' = input, flags' = flags,
         NEW k \in 1 .. Len(input), ~Stops(input[k]), ComesTo(k), ValuesUpTo(k),
         NEW m, m = After(k),
         \A o \in Options :
           TakesValue(o) =>
             values'[o] = IF o \in Given(input[k]) THEN ValueIn(k) ELSE values[o]
  PROVE  ValuesUpTo(m)'
<1>1. /\ k \in ReadFrom[1]
      /\ \A l \in ReadFrom[1] : l < m <=> l < k \/ l = k
  BY ComesOn
<1>2. \A l \in ReadFrom[1] : l \in Nat
  BY ReadPlaces
<1>3. ASSUME NEW o \in Options, TakesValue(o)
      PROVE  \/ Givers(o, m) = {} /\ values'[o] = NULL
             \/ \E l \in Givers(o, m) :
                  values'[o] = ValueIn(l) /\ \A n \in Givers(o, m) : n <= l
  <2>1. CASE o \in Given(input[k])
    <3>1. k \in Givers(o, m) /\ \A n \in Givers(o, m) : n <= k
      BY <1>1, <1>2, <2>1 DEF Givers
    <3>. QED
      BY <1>3, <2>1, <3>1
  <2>2. CASE o \notin Given(input[k])
    <3>1. Givers(o, m) = Givers(o, k)
      BY <1>1, <2>2 DEF Givers
    <3>. QED
      BY <1>3, <2>2, <3>1 DEF ValuesUpTo
  <2>. QED
    BY <2>1, <2>2
<1>4. \A o : Givers(o, m)' = Givers(o, m)
  BY ReadingStays
<1>5. \A l : ValueIn(l)' = ValueIn(l)
  BY ReadingStays
<1>. QED
  BY <1>3, <1>4, <1>5 DEF ValuesUpTo

\* The operands after an argument that is none.
LEMMA OperandsGoOn ==
  ASSUME input \in Inputs, UNCHANGED <<input, flags, argv, cpidx>>,
         NEW k \in 1 .. Len(input), ~Stops(input[k]), ~IsOperand(input[k]), OperandsUpTo(k),
         NEW m, m = After(k)
  PROVE  OperandsUpTo(m)'
<1>1. Len(input) \in Nat /\ k \in 1 .. Len(input) + 2
  BY InputIs
<1>2. OperandsFrom[k] = OperandStep(OperandsFrom, k)
  BY <1>1, OperandsFromSteps
<1>3. OperandStep(OperandsFrom, k) = OperandsFrom[m]
  BY <1>1 DEF OperandStep, Stops
<1>4. OperandsFrom' = OperandsFrom
  BY ReadingStays
<1>. QED
  BY <1>2, <1>3, <1>4 DEF OperandsUpTo

\* An operand is moved behind those before it.
LEMMA OperandMoves ==
  ASSUME input \in Inputs, input' = input, flags' = flags, argv \in Seq(Argument),
         NEW k \in 1 .. Len(input), ~Stops(input[k]), IsOperand(input[k]), OperandsUpTo(k),
         cpidx \in Nat, cpidx < Len(argv),
         argv' = [argv EXCEPT ![cpidx + 1] = input[k]], cpidx' = cpidx + 1,
         NEW m, m = After(k)
  PROVE  OperandsUpTo(m)'
<1>1. /\ Len(input) \in Nat /\ k \in 1 .. Len(input) + 2 /\ input[k] \in Argument
      /\ Len(argv) \in Nat /\ cpidx + 1 \in 1 .. Len(argv)
      /\ m \in 1 .. Len(input) + 2
  BY InputIs, LenProperties, AfterIs
<1>2. OperandsFrom[k] = <<input[k]>> \o OperandsFrom[m]
  <2>1. OperandsFrom[k] = OperandStep(OperandsFrom, k)
    BY <1>1, OperandsFromSteps
  <2>. QED
    BY <1>1, <2>1 DEF OperandStep, Stops
<1>3. /\ argv' \in Seq(Argument) /\ Len(argv') = Len(argv)
      /\ argv'[cpidx + 1] = input[k]
      /\ \A i \in 1 .. cpidx : argv'[i] = argv[i]
  <2>1. /\ argv' \in Seq(Argument) /\ Len(argv') = Len(argv)
        /\ \A i \in 1 .. Len(argv) : argv'[i] = IF i = cpidx + 1 THEN input[k] ELSE argv[i]
    BY <1>1, ExceptSeq
  <2>. QED
    BY <1>1, <2>1
<1>4. \A i \in 1 .. cpidx : argv[i] \in Argument /\ argv'[i] \in Argument
  BY <1>1, <1>3, ElementOfSeq
<1>5. /\ SubSeq(argv, 1, cpidx) \in Seq(Argument)
      /\ Len(SubSeq(argv, 1, cpidx)) = cpidx
      /\ \A i \in 1 .. cpidx : SubSeq(argv, 1, cpidx)[i] = argv[i]
  <2>1. /\ SubSeq(argv, 1, cpidx) \in Seq(Argument)
        /\ Len(SubSeq(argv, 1, cpidx)) = IF 1 <= cpidx THEN cpidx - 1 + 1 ELSE 0
        /\ \A i \in 1 .. cpidx - 1 + 1 : SubSeq(argv, 1, cpidx)[i] = argv[1 + i - 1]
    BY <1>4, SubSeqProperties
  <2>. QED
    BY <2>1
<1>6. /\ SubSeq(argv', 1, cpidx) \in Seq(Argument)
      /\ Len(SubSeq(argv', 1, cpidx)) = cpidx
      /\ \A i \in 1 .. cpidx : SubSeq(argv', 1, cpidx)[i] = argv'[i]
  <2>1. /\ SubSeq(argv', 1, cpidx) \in Seq(Argument)
        /\ Len(SubSeq(argv', 1, cpidx)) = IF 1 <= cpidx THEN cpidx - 1 + 1 ELSE 0
        /\ \A i \in 1 .. cpidx - 1 + 1 : SubSeq(argv', 1, cpidx)[i] = argv'[1 + i - 1]
    BY <1>4, SubSeqProperties
  <2>. QED
    BY <2>1
<1>7. SubSeq(argv', 1, cpidx) = SubSeq(argv, 1, cpidx)
  <2>1. \A i \in 1 .. cpidx : SubSeq(argv', 1, cpidx)[i] = SubSeq(argv, 1, cpidx)[i]
    BY <1>3, <1>5, <1>6
  <2>. QED
    BY <1>5, <1>6, <2>1, SeqEqual
<1>8. SubSeq(argv', 1, cpidx + 1) = SubSeq(argv', 1, cpidx) \o <<input[k]>>
  <2>1. 1 \in 1 .. Len(argv') /\ cpidx + 1 \in 1 .. Len(argv') /\ cpidx + 1 - 1 = cpidx
    BY <1>1, <1>3
  <2>2. SubSeq(argv', 1, cpidx + 1) = SubSeq(argv', 1, cpidx + 1 - 1) \o <<argv'[cpidx + 1]>>
    BY <1>3, <2>1, SubSeqRecursiveSecond
  <2>. QED
    BY <1>3, <2>1, <2>2
<1>9. /\ OperandsFrom[m] \in Seq(Argument) /\ <<input[k]>> \in Seq(Argument)
      /\ OperandsFrom' = OperandsFrom
  BY <1>1, OperandsFromType, ReadingStays
<1>10. (SubSeq(argv, 1, cpidx) \o <<input[k]>>) \o OperandsFrom[m]
       = SubSeq(argv, 1, cpidx) \o (<<input[k]>> \o OperandsFrom[m])
  <2>1. PICK x : x = SubSeq(argv, 1, cpidx)
    OBVIOUS
  <2>2. PICK y : y = <<input[k]>>
    OBVIOUS
  <2>3. PICK z : z = OperandsFrom[m]
    OBVIOUS
  <2>4. x \in Seq(Argument) /\ y \in Seq(Argument) /\ z \in Seq(Argument)
    BY <1>5, <1>9, <2>1, <2>2, <2>3
  <2>5. (x \o y) \o z = x \o (y \o z)
    BY <2>4, ConcatAssociative, SMTT(30)
  <2>. QED
    BY <2>1, <2>2, <2>3, <2>5
<1>. QED
  BY <1>2, <1>7, <1>8, <1>9, <1>10 DEF OperandsUpTo

\* What the parser has, when it has done with argument k.
LEMMA ReadUpToGoesOn ==
  ASSUME input \in Inputs, UNCHANGED <<input, flags, argv, cpidx>>,
         NEW k \in 1 .. Len(input), ~Stops(input[k]), ~IsOperand(input[k]), ReadUpTo(k),
         NEW m, m = After(k),
         \A o \in Options :
           TakesValue(o) =>
             values'[o] = IF o \in Given(input[k]) THEN ValueIn(k) ELSE values[o]
  PROVE  ReadUpTo(m)'
<1>1. ComesTo(m)'
  <2>1. ComesTo(m)
    BY ComesOn DEF ReadUpTo
  <2>. QED
    BY <2>1, ReadingStays
<1>2. OperandsUpTo(m)'
  BY OperandsGoOn DEF ReadUpTo
<1>3. ValuesUpTo(m)'
  BY ValuesGoOn DEF ReadUpTo
<1>. QED
  BY <1>1, <1>2, <1>3 DEF ReadUpTo

\* A step between two arguments, or within a cluster.
LEMMA ReadUpToStays ==
  ASSUME UNCHANGED <<input, flags, argv, cpidx>>, NEW m,
         \A o \in Options : TakesValue(o) => values'[o] = values[o]
  PROVE  ReadUpTo(m) => ReadUpTo(m)'
<1>1. ComesTo(m) => ComesTo(m)'
  BY ReadingStays
<1>2. OperandsUpTo(m) => OperandsUpTo(m)'
  BY ReadingStays DEF OperandsUpTo
<1>3. ValuesUpTo(m) => ValuesUpTo(m)'
  <2>1. \A o : Givers(o, m)' = Givers(o, m)
    BY ReadingStays
  <2>2. \A l : ValueIn(l)' = ValueIn(l)
    BY ReadingStays
  <2>. QED
    BY <2>1, <2>2 DEF ValuesUpTo
<1>. QED
  BY <1>1, <1>2, <1>3 DEF ReadUpTo

-----------------------------------------------------------------------------
(* The kinds of arguments.                                                  *)

LEMMA OperandGivesNothing ==
  ASSUME NEW a \in Argument, IsOperand(a)
  PROVE  Given(a) = {} /\ ~IsCluster(a) /\ ~IsLong(a) /\ ~IsEnd(a)
BY DEF IsOperand, Given, IsCluster, IsLong, IsEnd

LEMMA OptionsAreRead ==
  ASSUME NEW a \in Argument, IsCluster(a) \/ IsLong(a)
  PROVE  ~Stops(a) /\ ~IsOperand(a)
BY DEF IsOperand, Stops, IsCluster, IsLong, IsEnd

\* A letter of a cluster that the parser comes to, and the option it names.
LEMMA ClusterLetter ==
  ASSUME NEW a \in Argument, IsCluster(a), NEW n \in 1 .. LastLetter(a),
         NEW o \in Options, o.short_name = a.text[n]
  PROVE  /\ TakesValue(o) => /\ LastLetter(a) = n /\ Given(a) = {o}
                             /\ HasValue(a) <=> n < Len(a.text)
         /\ ~TakesValue(o) => \/ n < LastLetter(a)
                              \/ n = Len(a.text) /\ Given(a) = {}
<1>1. /\ LastLetter(a) \in 1 .. Len(a.text) /\ Len(a.text) \in Nat
      /\ \A i \in 1 .. Len(a.text) : LetterStops(a, i) => LastLetter(a) <= i
      /\ LastLetter(a) < Len(a.text) => LetterStops(a, LastLetter(a))
  BY LastLetterIs, ArgumentParts
<1>2. n \in 1 .. Len(a.text) /\ a.text[n] \in Symbols
  BY <1>1, ArgumentParts
<1>3. ByLetter(a.text[n]) = {o}
  BY <1>2, NamesApart
<1>4. LetterStops(a, n) <=> TakesValue(o)
  BY <1>3 DEF LetterStops
<1>5. CASE TakesValue(o)
  <2>1. LastLetter(a) = n
    BY <1>1, <1>2, <1>4, <1>5
  <2>2. Given(a) = {o}
    BY <1>3, <1>5, <2>1 DEF Given
  <2>. QED
    BY <1>5, <2>1, <2>2 DEF HasValue
<1>6. CASE ~TakesValue(o) /\ n = LastLetter(a)
  <2>1. n = Len(a.text)
    BY <1>1, <1>4, <1>6
  <2>2. Given(a) = {}
    BY <1>3, <1>6 DEF Given
  <2>. QED
    BY <1>6, <2>1, <2>2
<1>. QED
  BY <1>1, <1>2, <1>5, <1>6

\* A long option.
LEMMA LongName ==
  ASSUME NEW a \in Argument, IsLong(a), NEW o \in Options, IsNamed(o, a) \/ IsNegated(o, a)
  PROVE  /\ TakesValue(o) => Given(a) = {o} /\ ~IsNegated(o, a)
         /\ ~TakesValue(o) => Given(a) = {}
         /\ HasValue(a) <=> a.value # NULL
<1>1. ~IsCluster(a)
  BY DEF IsLong, IsCluster
<1>2. CASE IsNamed(o, a)
  <2>1. Len(a.text) = 1 /\ a.text[1] = o.long_name
    BY <1>2 DEF IsNamed
  <2>2. a.text[1] \in Symbols
    BY <2>1, ArgumentParts
  <2>3. ByName(a.text[1]) = {o}
    BY <2>1, <2>2, NamesApart
  <2>4. ~IsNegated(o, a)
    BY <2>1 DEF IsNegated
  <2>. QED
    BY <1>1, <2>1, <2>3, <2>4 DEF Given, HasValue
<1>3. CASE IsNegated(o, a)
  <2>1. Len(a.text) = 2 /\ ~TakesValue(o)
    BY <1>3 DEF IsNegated, TakesValue
  <2>. QED
    BY <1>1, <2>1 DEF Given, HasValue
<1>. QED
  BY <1>2, <1>3

-----------------------------------------------------------------------------
(* Types, and what is still to be read.                                     *)

\* The argument that the pointer is at.
LEMMA ArgIs ==
  ASSUME TypeOK, ArrayBehind, status # "done"
  PROVE  /\ input \in Inputs /\ Len(input) \in Nat /\ Len(argv) = Len(input) + 1
         /\ pos \in 2 .. Len(input) + 2 /\ cpidx \in 0 .. Len(input) /\ cpidx + 2 <= pos
         /\ argc > 0 <=> pos <= Len(input) + 1
         /\ argc > 1 <=> pos <= Len(input)
         /\ argc = 0 <=> pos = Len(input) + 2
         /\ pos <= Len(input) + 1 =>
              pos - 1 \in 1 .. Len(input) /\ arg = input[pos - 1] /\ arg \in Argument
         /\ pos <= Len(input) => argv[pos + 1] = input[pos] /\ pos \in 1 .. Len(input)
<1>1. /\ input \in Inputs /\ Len(input) \in Nat /\ Len(argv) = Len(input) + 1
      /\ pos \in 2 .. Len(input) + 2 /\ cpidx \in 0 .. Len(input) /\ cpidx + 2 <= pos
      /\ \A k \in 1 .. Len(input) : input[k] \in Argument
      /\ \A p \in pos .. Len(input) + 1 : argv[p] = input[p - 1]
  BY InputIs DEF TypeOK, ArrayBehind
<1>2. /\ argc > 0 <=> pos <= Len(input) + 1
      /\ argc > 1 <=> pos <= Len(input)
      /\ argc = 0 <=> pos = Len(input) + 2
  BY <1>1 DEF argc
<1>3. pos <= Len(input) + 1 =>
        pos - 1 \in 1 .. Len(input) /\ arg = input[pos - 1] /\ arg \in Argument
  BY <1>1 DEF arg
<1>4. pos <= Len(input) => argv[pos + 1] = input[pos] /\ pos \in 1 .. Len(input)
  <2>. SUFFICES ASSUME pos <= Len(input)
                PROVE  argv[pos + 1] = input[pos] /\ pos \in 1 .. Len(input)
    OBVIOUS
  <2>1. pos + 1 \in pos .. Len(input) + 1 /\ pos + 1 - 1 = pos /\ pos \in 1 .. Len(input)
    BY <1>1
  <2>. QED
    BY <1>1, <2>1
<1>. QED
  BY <1>1, <1>2, <1>3, <1>4

IsRest(rest) == rest # NULL => rest.text \in Seq(Symbols) /\ rest = Text(rest.text)

\* What every step leaves as it is.
LEMMA Frame ==
  ASSUME Next
  PROVE  flags' = flags /\ input' = input
BY DEF Next, Operand, ShortCluster, ShortUnknown, ShortEnd, LongUnknown, LongEnd, Unknown,
       Finish, ShortOption, LongOption, Get, Advance, vars

LEMMA RestIs ==
  ASSUME NEW t \in Seq(Symbols)
  PROVE  /\ IsRest(Rest(t))
         /\ Rest(t) = IF Len(t) > 1 THEN Text(SubSeq(t, 2, Len(t))) ELSE NULL
         /\ Len(t) > 1 => Rest(t) # NULL
<1>1. Len(t) > 1 => t # <<>>
  BY EmptySeq
<1>2. Len(t) > 1 => Tail(t) \in Seq(Symbols) /\ Tail(t) = SubSeq(t, 2, Len(t))
  BY <1>1, HeadTailProperties, TailIsSubSeq
<1>3. Len(t) > 1 => Text(Tail(t)) # NULL /\ Text(Tail(t)).text = Tail(t)
  BY <1>2, TextIs
<1>. QED
  BY <1>2, <1>3 DEF IsRest, Rest

LEMMA LongRestIs ==
  ASSUME TypeOK, ArrayBehind, arg \in Argument
  PROVE  /\ IsRest(LongRest)
         /\ arg.value # NULL => LongRest = Text(arg.value) /\ LongRest # NULL
         /\ arg.value = NULL => LongRest = optvalue
<1>1. arg.value # NULL => arg.value \in Seq(Symbols)
  BY ArgumentParts
<1>2. arg.value # NULL => Text(arg.value) # NULL /\ Text(arg.value).text = arg.value
  BY <1>1, TextIs
<1>3. IsRest(optvalue)
  BY DEF ArrayBehind, IsRest
<1>. QED
  BY <1>1, <1>2, <1>3 DEF LongRest, IsRest

\* The values of the options that count never fall below zero.
LEMMA FlaggedType ==
  ASSUME TypeOK, NEW o \in Options, ~TakesValue(o), NEW unset \in BOOLEAN
  PROVE  Flagged(o, unset) \in Nat
<1>1. values[o] \in Nat /\ o.type \in {"BOOLEAN", "BIT"}
  BY ArgparseAssumption DEF TypeOK, TakesValue
<1>. QED
  BY <1>1 DEF Flagged, Counted

\* The steps that leave the array alone.
LEMMA TypesStay ==
  ASSUME TypeOK, ArrayBehind, status # "done", UNCHANGED <<flags, input, argv, cpidx>>,
         pos' \in pos .. Len(input) + 2, IsRest(optvalue'),
         DOMAIN values' = Options,
         \A o \in Options : ~TakesValue(o) => values'[o] \in Nat,
         status' \in {"next", "short", "long", "unknown", "error", "help"},
         status' \in {"short", "long", "unknown"} => pos' <= Len(input) + 1
  PROVE  TypeOK' /\ ArrayBehind'
<1>1. /\ Len(input) \in Nat /\ Len(argv) = Len(input) + 1
      /\ pos \in 2 .. Len(input) + 2 /\ cpidx + 2 <= pos /\ cpidx \in Nat
  BY ArgIs
<1>2. \A o : TakesValue(o)' <=> TakesValue(o)
  BY DEF TakesValue
<1>3. optvalue' # NULL => optvalue'.dashes = 0
  BY DEF IsRest, Text
<1>4. TypeOK'
  BY <1>1, <1>2, <1>3 DEF TypeOK
<1>5. \A p \in pos' .. Len(argv) : argv[p] = input[p - 1]
  BY <1>1 DEF ArrayBehind
<1>6. ArrayBehind'
  BY <1>1, <1>5 DEF ArrayBehind, IsRest, Text
<1>. QED
  BY <1>4, <1>6

LEMMA GetTypes ==
  ASSUME TypeOK, ArrayBehind, status # "done", pos <= Len(input) + 1, NEW o \in Options,
         NEW unset \in BOOLEAN, NEW rest, IsRest(rest), NEW after \in {"short", "long"},
         Get(o, unset, rest, after)
  PROVE  TypeOK' /\ ArrayBehind'
<1>1. /\ Len(input) \in Nat /\ pos \in Nat /\ UNCHANGED <<flags, input, cpidx>>
      /\ argc > 1 <=> pos <= Len(input)
  BY ArgIs DEF Get
<1>2. DOMAIN values = Options /\ \A p \in Options : ~TakesValue(p) => values[p] \in Nat
  BY DEF TypeOK
<1>3. CASE GetFlag(o, unset, rest, after)
  <2>1. /\ UNCHANGED <<argv, pos>> /\ optvalue' = rest /\ status' \in {"help", after}
        /\ values' = values \/ values' = [values EXCEPT ![o] = Flagged(o, unset)]
    BY <1>3 DEF GetFlag
  <2>2. ~TakesValue(o) /\ Flagged(o, unset) \in Nat
    BY <1>3, FlaggedType DEF GetFlag
  <2>3. /\ DOMAIN values' = Options
        /\ \A p \in Options : ~TakesValue(p) => values'[p] \in Nat
    BY <1>2, <2>1, <2>2
  <2>. QED
    BY <1>1, <2>1, <2>3, TypesStay
<1>4. CASE GetValue(o, rest, after)
  <2>1. /\ argv' = argv /\ optvalue' = NULL /\ status' \in {"error", after}
        /\ pos' = IF rest # NULL THEN pos ELSE pos + 1
        /\ rest # NULL \/ argc > 1
        /\ DOMAIN values' = Options /\ \A p \in Options \ {o} : values'[p] = values[p]
        /\ TakesValue(o)
    BY <1>2, <1>4 DEF GetValue, UsedUp
  <2>2. pos' \in pos .. Len(input) + 1 /\ pos' \in pos .. Len(input) + 2
    BY <1>1, <2>1
  <2>3. IsRest(optvalue')
    BY <2>1 DEF IsRest
  <2>4. \A p \in Options : ~TakesValue(p) => values'[p] \in Nat
    BY <1>2, <2>1
  <2>. QED
    BY <1>1, <2>1, <2>2, <2>3, <2>4, TypesStay
<1>5. CASE GetNothing(o, rest)
  <2>1. UNCHANGED <<argv, pos, optvalue, values>> /\ status' = "error"
    BY <1>5 DEF GetNothing
  <2>2. IsRest(optvalue') /\ pos' \in pos .. Len(input) + 2
    BY <1>1, <2>1 DEF ArrayBehind, IsRest
  <2>. QED
    BY <1>1, <1>2, <2>1, <2>2, TypesStay
<1>. QED
  BY <1>3, <1>4, <1>5 DEF Get

\* The end of the array is the end of the list.
LEMMA WhatIsLeft ==
  ASSUME TypeOK, ArrayBehind, status # "done", NEW l \in pos .. Len(input) + 2
  PROVE  /\ SubSeq(argv, l, Len(argv)) = SubSeq(input, l - 1, Len(input))
         /\ SubSeq(argv, l, Len(argv)) \in Seq(Argument)
         /\ Len(SubSeq(argv, l, Len(argv))) = Len(input) + 2 - l
<1>. DEFINE N == Len(input)
<1>1. N \in Nat /\ Len(argv) = N + 1 /\ pos \in 2 .. N + 2
  BY ArgIs
<1>2. \A i \in l .. N + 1 : argv[i] = input[i - 1] /\ argv[i] \in Argument
  <2>1. \A k \in 1 .. N : input[k] \in Argument
    BY InputIs DEF TypeOK
  <2>. QED
    BY <1>1, <2>1 DEF ArrayBehind
<1>3. \A i \in l - 1 .. N : input[i] \in Argument
  BY <1>1, InputIs DEF TypeOK
<1>4. PICK x : x = SubSeq(argv, l, N + 1)
  OBVIOUS
<1>5. PICK y : y = SubSeq(input, l - 1, N)
  OBVIOUS
<1>6. /\ x \in Seq(Argument) /\ Len(x) = IF l <= N + 1 THEN N + 1 - l + 1 ELSE 0
      /\ \A i \in 1 .. N + 1 - l + 1 : x[i] = argv[l + i - 1]
  <2>1. l \in Int /\ N + 1 \in Int
    BY <1>1
  <2>. QED
    BY <1>2, <1>4, <2>1, SubSeqProperties
<1>7. /\ y \in Seq(Argument) /\ Len(y) = IF l - 1 <= N THEN N - (l - 1) + 1 ELSE 0
      /\ \A i \in 1 .. N - (l - 1) + 1 : y[i] = input[l - 1 + i - 1]
  <2>1. l - 1 \in Int /\ N \in Int
    BY <1>1
  <2>. QED
    BY <1>3, <1>5, <2>1, SubSeqProperties
<1>8. Len(x) = N + 2 - l /\ Len(y) = N + 2 - l
  <2>. HIDE DEF N
  <2>1. CASE l <= N + 1
    <3>1. l - 1 <= N /\ N + 1 - l + 1 = N + 2 - l /\ N - (l - 1) + 1 = N + 2 - l
      BY <1>1, <2>1
    <3>. QED
      BY <1>6, <1>7, <2>1, <3>1
  <2>2. CASE l = N + 2
    <3>1. ~(l <= N + 1) /\ ~(l - 1 <= N) /\ N + 2 - l = 0
      BY <1>1, <2>2
    <3>. QED
      BY <1>6, <1>7, <3>1
  <2>3. l <= N + 1 \/ l = N + 2
    BY <1>1 DEF N
  <2>. QED
    BY <2>1, <2>2, <2>3
<1>9. \A i \in 1 .. Len(x) : x[i] = y[i]
  <2>. SUFFICES ASSUME NEW i \in 1 .. Len(x) PROVE x[i] = y[i]
    OBVIOUS
  <2>1. /\ i \in 1 .. N + 1 - l + 1 /\ i \in 1 .. N - (l - 1) + 1
        /\ l + i - 1 \in l .. N + 1 /\ (l + i - 1) - 1 = l - 1 + i - 1
    BY <1>1, <1>8
  <2>2. x[i] = argv[l + i - 1] /\ y[i] = input[l - 1 + i - 1]
    BY <1>6, <1>7, <2>1
  <2>3. argv[l + i - 1] = input[(l + i - 1) - 1]
    BY <1>2, <2>1
  <2>. QED
    BY <2>1, <2>2, <2>3
<1>10. x = y
  BY <1>6, <1>7, <1>8, <1>9, SeqEqual
<1>. QED
  BY <1>1, <1>4, <1>5, <1>6, <1>8, <1>10

\* Where the parser stops.
LEMMA FinishIs ==
  ASSUME TypeOK, ArrayBehind, Finish
  PROVE  \E l \in pos .. Len(input) + 2 :
           /\ l = (IF argc > 0 /\ IsEnd(arg) THEN pos + 1 ELSE pos)
           /\ argv' = SubSeq(argv, 1, cpidx) \o SubSeq(input, l - 1, Len(input))
           /\ argv' \in Seq(Argument) /\ Len(argv') <= Len(input) + 1
           /\ pos' = l
<1>1. /\ Len(input) \in Nat /\ Len(argv) = Len(input) + 1 /\ pos \in 2 .. Len(input) + 2
      /\ argc > 0 <=> pos <= Len(input) + 1
      /\ cpidx \in Nat /\ cpidx + 2 <= pos /\ status # "done" /\ argv \in Seq(Argument)
  BY ArgIs DEF Finish, ArrayBehind
<1>2. PICK l : l = IF argc > 0 /\ IsEnd(arg) THEN pos + 1 ELSE pos
  OBVIOUS
<1>3. l \in pos .. Len(input) + 2
  BY <1>1, <1>2
<1>4. argv' = SubSeq(argv, 1, cpidx) \o SubSeq(argv, l, Len(argv)) /\ pos' = l
  BY <1>2 DEF Finish
<1>5. PICK x : x = SubSeq(argv, 1, cpidx)
  OBVIOUS
<1>6. PICK y : y = SubSeq(argv, l, Len(argv))
  OBVIOUS
<1>7. y = SubSeq(input, l - 1, Len(input)) /\ y \in Seq(Argument) /\ Len(y) = Len(input) + 2 - l
  BY <1>1, <1>3, <1>6, WhatIsLeft
<1>8. x \in Seq(Argument) /\ Len(x) = cpidx
  <2>1. \A i \in 1 .. cpidx : argv[i] \in Argument
    BY <1>1, ElementOfSeq
  <2>2. x \in Seq(Argument) /\ Len(x) = IF 1 <= cpidx THEN cpidx - 1 + 1 ELSE 0
    BY <1>1, <1>5, <2>1, SubSeqProperties
  <2>. QED
    BY <1>1, <2>2
<1>9. x \o y \in Seq(Argument) /\ Len(x \o y) = Len(x) + Len(y)
  BY <1>7, <1>8, ConcatProperties
<1>10. Len(argv') <= Len(input) + 1
  <2>1. Len(argv') = cpidx + (Len(input) + 2 - l)
    BY <1>4, <1>5, <1>6, <1>7, <1>8, <1>9
  <2>. QED
    BY <1>1, <1>3, <2>1
<1>. QED
  BY <1>2, <1>3, <1>4, <1>5, <1>6, <1>7, <1>9, <1>10

LEMMA OperandTypes ==
  ASSUME TypeOK, ArrayBehind, Operand
  PROVE  TypeOK' /\ ArrayBehind'
<1>1. /\ Len(input) \in Nat /\ Len(argv) = Len(input) + 1 /\ pos \in 2 .. Len(input) + 1
      /\ cpidx \in Nat /\ cpidx + 2 <= pos /\ status # "done" /\ argv \in Seq(Argument)
      /\ arg \in Argument
  BY ArgIs DEF Operand, ArrayBehind
<1>2. /\ argv' = [argv EXCEPT ![cpidx + 1] = arg] /\ cpidx' = cpidx + 1 /\ pos' = pos + 1
      /\ UNCHANGED <<flags, input, optvalue, values, status>> /\ status = "next"
  BY DEF Operand, Place
<1>3. /\ argv' \in Seq(Argument) /\ Len(argv') = Len(argv)
      /\ \A i \in 1 .. Len(argv) : argv'[i] = IF i = cpidx + 1 THEN arg ELSE argv[i]
  <2>1. cpidx + 1 \in 1 .. Len(argv)
    BY <1>1
  <2>. QED
    BY <1>1, <1>2, <2>1, ExceptSeq
<1>4. cpidx' \in 0 .. Len(input) /\ pos' \in 2 .. Len(input) + 2 /\ cpidx' + 2 <= pos'
  BY <1>1, <1>2
<1>5. \A o : TakesValue(o)' <=> TakesValue(o)
  BY DEF TakesValue
<1>6. TypeOK'
  BY <1>1, <1>2, <1>3, <1>4, <1>5 DEF TypeOK
<1>7. \A p \in pos' .. Len(argv') : argv'[p] = input[p - 1]
  <2>1. \A p \in pos' .. Len(argv') : p \in 1 .. Len(argv) /\ p # cpidx + 1 /\ p \in pos .. Len(argv)
    BY <1>1, <1>2, <1>3
  <2>. QED
    BY <1>1, <1>3, <2>1 DEF ArrayBehind
<1>8. cpidx' <= pos' - 2
  BY <1>1, <1>2
<1>9. ArrayBehind'
  BY <1>1, <1>2, <1>3, <1>7, <1>8 DEF ArrayBehind, Text
<1>. QED
  BY <1>6, <1>9

LEMMA FinishTypes ==
  ASSUME TypeOK, ArrayBehind, Finish
  PROVE  TypeOK' /\ ArrayBehind'
<1>1. PICK l \in pos .. Len(input) + 2 :
        argv' \in Seq(Argument) /\ Len(argv') <= Len(input) + 1 /\ pos' = l
  BY FinishIs
<1>2. UNCHANGED <<flags, input, cpidx, optvalue, values>> /\ status' = "done"
  BY DEF Finish
<1>3. pos' \in 2 .. Len(input) + 2
  BY <1>1, ArgIs DEF Finish
<1>4. \A o : TakesValue(o)' <=> TakesValue(o)
  BY DEF TakesValue
<1>5. TypeOK'
  BY <1>1, <1>2, <1>3, <1>4 DEF TypeOK
<1>6. ArrayBehind'
  BY <1>1, <1>2 DEF ArrayBehind, Text
<1>. QED
  BY <1>5, <1>6

LEMMA ClusterTypes ==
  ASSUME TypeOK, ArrayBehind, ShortCluster
  PROVE  TypeOK' /\ ArrayBehind'
<1>1. /\ pos \in pos .. Len(input) + 2 /\ pos <= Len(input) + 1 /\ arg.text \in Seq(Symbols)
      /\ status # "done"
  BY ArgIs, ArgumentParts DEF ShortCluster
<1>2. IsRest(Text(arg.text))
  BY <1>1, TextIs DEF IsRest
<1>3. /\ optvalue' = Text(arg.text) /\ status' = "short"
      /\ UNCHANGED <<flags, input, argv, pos, cpidx, values>>
  BY DEF ShortCluster
<1>4. DOMAIN values' = Options /\ \A o \in Options : ~TakesValue(o) => values'[o] \in Nat
  BY <1>3 DEF TypeOK
<1>. QED
  BY <1>1, <1>2, <1>3, <1>4, TypesStay

LEMMA ShortOptionTypes ==
  ASSUME TypeOK, ArrayBehind, NEW o \in Options, ShortOption(o)
  PROVE  TypeOK' /\ ArrayBehind'
<1>1. /\ status = "short" /\ optvalue # NULL /\ optvalue.text \in Seq(Symbols)
      /\ pos <= Len(input) + 1
  BY DEF ShortOption, ArrayBehind
<1>2. IsRest(Rest(optvalue.text))
  BY <1>1, RestIs
<1>3. Get(o, FALSE, Rest(optvalue.text), "short")
  BY DEF ShortOption
<1>. QED
  BY <1>1, <1>2, <1>3, GetTypes

LEMMA LongOptionTypes ==
  ASSUME TypeOK, ArrayBehind, NEW o \in Options, LongOption(o)
  PROVE  TypeOK' /\ ArrayBehind'
<1>1. status = "next" /\ pos <= Len(input) + 1 /\ arg \in Argument
  BY ArgIs DEF LongOption
<1>2. IsRest(LongRest)
  BY <1>1, LongRestIs
<1>3. Get(o, IsNegated(o, arg), LongRest, "long") /\ IsNegated(o, arg) \in BOOLEAN
  BY DEF LongOption, IsNegated
<1>. QED
  BY <1>1, <1>2, <1>3, GetTypes

\* What the steps have in common that only change the status and go on.
LEMMA StatusTypes ==
  ASSUME TypeOK, ArrayBehind,
         ShortUnknown \/ ShortEnd \/ LongUnknown \/ LongEnd \/ Unknown
  PROVE  TypeOK' /\ ArrayBehind'
<1>1. /\ UNCHANGED <<flags, input, argv, cpidx, optvalue, values>> /\ status # "done"
      /\ pos' = pos \/ (pos' = pos + 1 /\ status \in {"short", "long", "unknown"})
      /\ status' \in {"next", "unknown", "error"}
      /\ status' = "unknown" => pos' = pos /\ (status = "short" \/ argc > 0)
  BY DEF ShortUnknown, ShortEnd, LongUnknown, LongEnd, Unknown, Advance
<1>2. /\ pos' \in pos .. Len(input) + 2
      /\ status' \in {"short", "long", "unknown"} => pos' <= Len(input) + 1
  BY <1>1, ArgIs DEF ArrayBehind
<1>3. IsRest(optvalue')
  BY <1>1 DEF ArrayBehind, IsRest
<1>4. DOMAIN values' = Options /\ \A o \in Options : ~TakesValue(o) => values'[o] \in Nat
  BY <1>1 DEF TypeOK
<1>. QED
  BY <1>1, <1>2, <1>3, <1>4, TypesStay

LEMMA TypesStep ==
  ASSUME TypeOK, ArrayBehind, [Next]_vars
  PROVE  TypeOK' /\ ArrayBehind'
<1>1. CASE UNCHANGED vars
  <2>1. UNCHANGED <<flags, input, argv, pos, cpidx, optvalue, values, status>>
    BY <1>1 DEF vars
  <2>. QED
    BY <2>1 DEF TypeOK, ArrayBehind, TakesValue, Text
<1>2. CASE ShortUnknown \/ ShortEnd \/ LongUnknown \/ LongEnd \/ Unknown
  BY <1>2, StatusTypes
<1>3. CASE Operand
  BY <1>3, OperandTypes
<1>4. CASE ShortCluster
  BY <1>4, ClusterTypes
<1>5. CASE Finish
  BY <1>5, FinishTypes
<1>6. CASE \E o \in Options : ShortOption(o) \/ LongOption(o)
  BY <1>6, ShortOptionTypes, LongOptionTypes
<1>. QED
  BY <1>1, <1>2, <1>3, <1>4, <1>5, <1>6 DEF Next

LEMMA TypesInit == Init => TypeOK /\ ArrayBehind
<1>. SUFFICES ASSUME Init PROVE TypeOK /\ ArrayBehind
  OBVIOUS
<1>. DEFINE a == Text(<<"program">>)
<1>1. a \in Argument
  <2>1. <<"program">> \in Seq(Symbols)
    BY ArgparseAssumption
  <2>. QED
    BY <2>1, TextIs
<1>2. /\ input \in Inputs /\ input \in Seq(Argument) /\ Len(input) \in Nat
      /\ argv = <<a>> \o input
  BY InputIs DEF Init
<1>3. <<a>> \in Seq(Argument) /\ Len(<<a>>) = 1
  BY <1>1
<1>4. /\ argv \in Seq(Argument) /\ Len(argv) = 1 + Len(input)
      /\ \A i \in 1 .. 1 + Len(input) : argv[i] = IF i <= 1 THEN <<a>>[i] ELSE input[i - 1]
  <2>. HIDE DEF a
  <2>. QED
    BY <1>2, <1>3, ConcatProperties
<1>5. \A p \in 2 .. 1 + Len(input) : argv[p] = input[p - 1]
  BY <1>2, <1>4
<1>6. TypeOK
  BY <1>2, <1>4 DEF Init, TypeOK
<1>7. ArrayBehind
  BY <1>2, <1>4, <1>5 DEF Init, ArrayBehind
<1>. QED
  BY <1>6, <1>7

\* Every variable has its type, whatever the arguments are; in particular the
\* flags that count do not fall below zero, and the pointer stays within the array
\* (argparse.c:57-66, 226-286).
THEOREM ArgparseTypes == Spec => []TypeOK
<1>1. Init => TypeOK /\ ArrayBehind
  BY TypesInit
<1>2. TypeOK /\ ArrayBehind /\ [Next]_vars => TypeOK' /\ ArrayBehind'
  BY TypesStep
<1>. QED
  BY <1>1, <1>2, PTL DEF Spec

-----------------------------------------------------------------------------
(* The parser follows the reading.                                          *)

LEMMA TaintedStays ==
  ASSUME input \in Inputs, input' = input, flags' = flags, NEW m \in Int, NEW n \in Int, m <= n,
         Tainted(m)
  PROVE  Tainted(n)'
<1>1. Tainted(n)
  BY ReadPlaces DEF Tainted
<1>. QED
  BY <1>1, ReadingStays

LEMMA OperandFollows ==
  ASSUME TypeOK, ArrayBehind, FollowsReading, Operand
  PROVE  FollowsReading'
<1>0. /\ input' = input /\ flags' = flags /\ values' = values /\ optvalue' = optvalue
      /\ status = "next" /\ status' = "next" /\ pos' = pos + 1
  BY DEF Operand
<1>1. /\ input \in Inputs /\ pos \in Nat /\ pos - 1 \in 1 .. Len(input) /\ arg = input[pos - 1]
      /\ arg \in Argument /\ argv \in Seq(Argument) /\ cpidx \in Nat /\ cpidx < Len(argv)
  BY ArgIs DEF Operand, ArrayBehind
<1>2. PICK k : k = pos - 1
  OBVIOUS
<1>3. PICK m : m = pos
  OBVIOUS
<1>4. k \in 1 .. Len(input) /\ arg = input[k] /\ m = pos' - 1 /\ m = k + 1
  BY <1>0, <1>1, <1>2, <1>3
<1>5. IsOperand(input[k]) /\ ~Stops(input[k]) /\ Given(input[k]) = {}
  BY <1>1, <1>4, OperandGivesNothing DEF Operand, Stops
<1>6. m = After(k)
  BY <1>4, <1>5 DEF After
<1>7. CASE Tainted(k)
  <2>1. k \in Int /\ m \in Int /\ k <= m
    BY <1>1, <1>2, <1>3
  <2>2. Tainted(m)'
    BY <1>0, <1>1, <1>7, <2>1, TaintedStays
  <2>. QED
    BY <1>0, <1>4, <2>2 DEF FollowsReading
<1>8. CASE Passed(k)
  <2>1. ComesTo(m)'
    <3>1. ComesTo(m)
      BY <1>1, <1>4, <1>5, <1>6, <1>8, ComesOn DEF Passed, ReadUpTo
    <3>. QED
      BY <1>0, <3>1, ReadingStays
  <2>2. OperandsUpTo(m)'
    <3>1. argv' = [argv EXCEPT ![cpidx + 1] = input[k]] /\ cpidx' = cpidx + 1
      BY <1>4 DEF Operand, Place
    <3>2. OperandsUpTo(k)
      BY <1>8 DEF Passed, ReadUpTo
    <3>. QED
      BY <1>0, <1>1, <1>4, <1>5, <1>6, <3>1, <3>2, OperandMoves
  <2>3. ValuesUpTo(m)'
    <3>1. ComesTo(k) /\ ValuesUpTo(k)
      BY <1>8 DEF Passed, ReadUpTo
    <3>. QED
      BY <1>0, <1>1, <1>4, <1>5, <1>6, <3>1, ValuesGoOn
  <2>4. Passed(m)'
    BY <1>0, <1>8, <2>1, <2>2, <2>3 DEF Passed, ReadUpTo
  <2>. QED
    BY <1>0, <1>4, <2>4 DEF FollowsReading
<1>. QED
  BY <1>0, <1>2, <1>7, <1>8 DEF FollowsReading

LEMMA ClusterFollows ==
  ASSUME TypeOK, ArrayBehind, FollowsReading, ShortCluster
  PROVE  FollowsReading'
<1>0. /\ UNCHANGED <<flags, input, argv, pos, cpidx, values>>
      /\ status = "next" /\ status' = "short" /\ optvalue' = Text(arg.text)
  BY DEF ShortCluster
<1>1. /\ input \in Inputs /\ pos \in Nat /\ pos - 1 \in 1 .. Len(input) /\ arg = input[pos - 1]
      /\ arg \in Argument
  BY ArgIs DEF ShortCluster
<1>2. PICK k : k = pos - 1
  OBVIOUS
<1>3. PICK a : a = arg
  OBVIOUS
<1>4. CASE Tainted(k)
  <2>1. Tainted(k)'
    BY <1>0, <1>1, <1>2, <1>4, TaintedStays
  <2>. QED
    BY <1>0, <1>2, <2>1 DEF FollowsReading
<1>5. CASE Passed(k)
  <2>1. ReadUpTo(k)'
    BY <1>0, <1>5, ReadUpToStays DEF Passed
  <2>2. IsCluster(a) /\ a \in Argument
    BY <1>1, <1>3 DEF ShortCluster, IsCluster
  <2>3. 1 \in 1 .. LastLetter(a)
    BY <2>2, LastLetterIs, ArgumentParts
  <2>4. SubSeq(a.text, 1, Len(a.text)) = a.text
    BY <2>2, ArgumentParts, SubSeqFull
  <2>5. a = input'[pos' - 1] /\ optvalue' = Text(SubSeq(a.text, 1, Len(a.text)))
    BY <1>0, <1>1, <1>3, <2>4
  <2>6. InCluster'
    BY <1>0, <1>2, <2>1, <2>2, <2>3, <2>5 DEF InCluster
  <2>. QED
    BY <1>0, <2>6 DEF FollowsReading
<1>. QED
  BY <1>0, <1>2, <1>4, <1>5 DEF FollowsReading

\* A value that is taken is the one the reading gives, and the parser is where
\* the reading goes on.
LEMMA GetValueReads ==
  ASSUME TypeOK, ArrayBehind, status # "done", NEW k, k = pos - 1, k \in 1 .. Len(input),
         IsCluster(input[k]) \/ IsLong(input[k]), ReadUpTo(k),
         NEW o \in Options, Given(input[k]) = {o},
         NEW rest, HasValue(input[k]) <=> rest # NULL, rest # NULL => rest = ValueIn(k),
         NEW after, GetValue(o, rest, after), UNCHANGED <<flags, input, cpidx>>,
         NEW m, m = pos'
  PROVE  ReadUpTo(m)' /\ optvalue' = NULL
<1>1. /\ input \in Inputs /\ Len(input) \in Nat /\ input[k] \in Argument
      /\ pos \in Nat
      /\ argc > 1 <=> pos <= Len(input)
      /\ pos <= Len(input) => argv[pos + 1] = input[pos]
  BY ArgIs, InputIs
<1>2. ~Stops(input[k]) /\ ~IsOperand(input[k])
  BY <1>1, OptionsAreRead
<1>3. /\ argv' = argv /\ optvalue' = NULL
      /\ pos' = IF rest # NULL THEN pos ELSE pos + 1
      /\ rest # NULL \/ argc > 1
      /\ values' = [values EXCEPT ![o] = IF rest # NULL THEN rest ELSE argv[pos + 1]]
  BY DEF GetValue, UsedUp
<1>4. m = After(k)
  <2>1. pos = k + 1 /\ pos + 1 = k + 2
    BY <1>1
  <2>2. After(k) = IF rest # NULL THEN k + 1 ELSE k + 2
    BY DEF After
  <2>. QED
    BY <1>3, <2>1, <2>2
<1>5. (IF rest # NULL THEN rest ELSE argv[pos + 1]) = ValueIn(k)
  <2>1. CASE rest # NULL
    BY <2>1
  <2>2. CASE rest = NULL
    <3>1. k + 1 = pos /\ pos <= Len(input) /\ k < Len(input)
      BY <1>1, <1>3, <2>2
    <3>2. argv[pos + 1] = input[k + 1]
      BY <1>1, <3>1
    <3>. QED
      BY <2>2, <3>1, <3>2 DEF ValueIn
  <2>. QED
    BY <2>1, <2>2
<1>6. \A p \in Options :
        TakesValue(p) => values'[p] = IF p \in Given(input[k]) THEN ValueIn(k) ELSE values[p]
  <2>1. DOMAIN values = Options /\ values' = [values EXCEPT ![o] = ValueIn(k)]
    BY <1>3, <1>5 DEF TypeOK
  <2>. QED
    BY <2>1
<1>7. ReadUpTo(m)'
  BY <1>1, <1>2, <1>3, <1>4, <1>6, ReadUpToGoesOn
<1>. QED
  BY <1>3, <1>7

\* An argument that gives no option a value leaves those values alone.
LEMMA NothingGiven ==
  ASSUME TypeOK, NEW k, k = pos - 1, k \in 1 .. Len(input),
         IsCluster(input[k]) \/ IsLong(input[k]), ReadUpTo(k), Given(input[k]) = {},
         UNCHANGED <<flags, input, argv, cpidx, pos>>,
         \A o \in Options : TakesValue(o) => values'[o] = values[o],
         NEW m, m = pos'
  PROVE  ReadUpTo(m)'
<1>1. /\ input \in Inputs /\ input[k] \in Argument /\ pos \in Nat
  BY InputIs DEF TypeOK
<1>2. ~Stops(input[k]) /\ ~IsOperand(input[k])
  BY <1>1, OptionsAreRead
<1>3. m = After(k)
  BY <1>1 DEF After
<1>4. \A o \in Options :
        TakesValue(o) => values'[o] = IF o \in Given(input[k]) THEN ValueIn(k) ELSE values[o]
  OBVIOUS
<1>. QED
  BY <1>1, <1>2, <1>3, <1>4, ReadUpToGoesOn

\* What a flag does to the values of other options.
LEMMA FlagIs ==
  ASSUME TypeOK, NEW o \in Options, NEW unset \in BOOLEAN, NEW rest, NEW after,
         GetFlag(o, unset, rest, after)
  PROVE  /\ UNCHANGED <<argv, pos>> /\ optvalue' = rest /\ status' \in {"help", after}
         /\ ~TakesValue(o) /\ \A p \in Options : TakesValue(p) => values'[p] = values[p]
BY DEF GetFlag, TypeOK

\* The letters of a cluster from the next one on.
LEMMA NextLetters ==
  ASSUME NEW a \in Argument, NEW n \in 1 .. Len(a.text), NEW t, t = SubSeq(a.text, n, Len(a.text))
  PROVE  /\ t \in Seq(Symbols) /\ t[1] = a.text[n]
         /\ n < Len(a.text) =>
              Rest(t) # NULL /\ Rest(t) = Text(SubSeq(a.text, n + 1, Len(a.text)))
         /\ n = Len(a.text) => Rest(t) = NULL
<1>. DEFINE L == Len(a.text)
<1>1. a.text \in Seq(Symbols) /\ L \in Nat /\ \A i \in n .. L : a.text[i] \in Symbols
  BY ArgumentParts
<1>2. /\ t \in Seq(Symbols) /\ Len(t) = L - n + 1
      /\ \A i \in 1 .. L - n + 1 : t[i] = a.text[n + i - 1]
  <2>1. /\ t \in Seq(Symbols) /\ Len(t) = IF n <= L THEN L - n + 1 ELSE 0
        /\ \A i \in 1 .. L - n + 1 : t[i] = a.text[n + i - 1]
    BY <1>1, SubSeqProperties
  <2>. QED
    BY <1>1, <2>1
<1>3. t[1] = a.text[n]
  BY <1>1, <1>2
<1>4. n < L => SubSeq(t, 2, Len(t)) = SubSeq(a.text, n + 1, L)
  <2>. SUFFICES ASSUME n < L PROVE SubSeq(t, 2, Len(t)) = SubSeq(a.text, n + 1, L)
    OBVIOUS
  <2>1. /\ 2 \in 1 .. L - n + 1 /\ L - n + 1 \in 1 .. L - n + 1
        /\ n \in 1 .. L /\ L \in 1 .. L /\ n + 2 - 1 = n + 1 /\ n + (L - n + 1) - 1 = L
    BY <1>1
  <2>2. SubSeq(SubSeq(a.text, n, L), 2, L - n + 1)
        = SubSeq(a.text, n + 2 - 1, n + (L - n + 1) - 1)
    BY <1>1, <2>1, SubSeqOfSubSeq
  <2>. QED
    BY <1>2, <2>1, <2>2
<1>5. /\ Rest(t) = IF Len(t) > 1 THEN Text(SubSeq(t, 2, Len(t))) ELSE NULL
      /\ Len(t) > 1 => Rest(t) # NULL
  BY <1>2, RestIs
<1>6. n < L => Rest(t) # NULL /\ Rest(t) = Text(SubSeq(a.text, n + 1, L))
  <2>1. n < L => Len(t) > 1
    BY <1>1, <1>2
  <2>. QED
    BY <1>4, <1>5, <2>1
<1>7. n = L => Rest(t) = NULL
  BY <1>1, <1>2, <1>5
<1>. QED
  BY <1>2, <1>3, <1>6, <1>7

LEMMA ShortOptionFollows ==
  ASSUME TypeOK, ArrayBehind, FollowsReading, NEW o \in Options, ShortOption(o)
  PROVE  FollowsReading'
<1>0. /\ status = "short" /\ optvalue # NULL /\ o.short_name = optvalue.text[1]
      /\ UNCHANGED <<flags, input, cpidx>> /\ pos <= Len(input) + 1
      /\ \/ GetFlag(o, FALSE, Rest(optvalue.text), "short")
         \/ GetValue(o, Rest(optvalue.text), "short")
         \/ GetNothing(o, Rest(optvalue.text))
  BY DEF ShortOption, Get, ArrayBehind
<1>1. /\ input \in Inputs /\ pos \in Nat /\ pos - 1 \in 1 .. Len(input)
      /\ input[pos - 1] \in Argument
  BY <1>0, ArgIs
<1>2. PICK k : k = pos - 1
  OBVIOUS
<1>3. PICK a : a = input[k]
  OBVIOUS
<1>4. CASE GetNothing(o, Rest(optvalue.text))
  BY <1>4 DEF GetNothing, FollowsReading
<1>5. CASE Tainted(k) /\ ~GetNothing(o, Rest(optvalue.text))
  <2>1. PICK l : l = pos' - 1
    OBVIOUS
  <2>2. pos' \in {pos, pos + 1} /\ status' \in {"short", "help", "error"}
    BY <1>0, <1>5 DEF GetFlag, GetValue
  <2>3. k \in Int /\ l \in Int /\ k <= l
    <3>1. pos \in Nat /\ (pos' = pos \/ pos' = pos + 1)
      BY <1>1, <2>2
    <3>. QED
      BY <1>2, <2>1, <3>1
  <2>4. Tainted(l)'
    BY <1>0, <1>1, <1>5, <2>3, TaintedStays
  <2>. QED
    BY <2>1, <2>2, <2>4 DEF FollowsReading
<1>6. CASE InCluster /\ ~GetNothing(o, Rest(optvalue.text))
  <2>1. /\ IsCluster(a) /\ ReadUpTo(k) /\ a \in Argument /\ k \in 1 .. Len(input)
        /\ \E n \in 1 .. LastLetter(a) : optvalue = Text(SubSeq(a.text, n, Len(a.text)))
    BY <1>1, <1>2, <1>3, <1>6 DEF InCluster
  <2>2. PICK n \in 1 .. LastLetter(a) : optvalue = Text(SubSeq(a.text, n, Len(a.text)))
    BY <2>1
  <2>3. PICK t : t = SubSeq(a.text, n, Len(a.text))
    OBVIOUS
  <2>4. LastLetter(a) \in 1 .. Len(a.text) /\ Len(a.text) \in Nat /\ n \in 1 .. Len(a.text)
    BY <2>1, LastLetterIs, ArgumentParts
  <2>5. /\ t[1] = a.text[n]
        /\ n < Len(a.text) =>
             Rest(t) # NULL /\ Rest(t) = Text(SubSeq(a.text, n + 1, Len(a.text)))
        /\ n = Len(a.text) => Rest(t) = NULL
    BY <2>1, <2>3, <2>4, NextLetters
  <2>6. optvalue.text = t /\ o.short_name = a.text[n]
    BY <1>0, <2>2, <2>3, <2>5 DEF Text
  <2>7. /\ TakesValue(o) => /\ LastLetter(a) = n /\ Given(a) = {o}
                            /\ HasValue(a) <=> n < Len(a.text)
        /\ ~TakesValue(o) => \/ n < LastLetter(a)
                             \/ n = Len(a.text) /\ Given(a) = {}
    BY <2>1, <2>6, ClusterLetter
  <2>8. PICK m : m = pos'
    OBVIOUS
  <2>9. CASE GetFlag(o, FALSE, Rest(t), "short")
    <3>1. /\ UNCHANGED <<argv, pos>> /\ optvalue' = Rest(t) /\ status' \in {"help", "short"}
          /\ ~TakesValue(o) /\ \A p \in Options : TakesValue(p) => values'[p] = values[p]
      BY <2>9, FlagIs
    <3>2. CASE n < LastLetter(a)
      <4>1. ReadUpTo(k)'
        BY <1>0, <2>1, <3>1, ReadUpToStays
      <4>2. n + 1 \in 1 .. LastLetter(a) /\ n < Len(a.text)
        BY <2>4, <3>2
      <4>3. optvalue' = Text(SubSeq(a.text, n + 1, Len(a.text)))
        BY <2>5, <3>1, <4>2
      <4>4. a = input'[pos' - 1] /\ k = pos' - 1
        BY <1>0, <1>2, <1>3, <3>1
      <4>5. InCluster'
        BY <2>1, <4>1, <4>2, <4>3, <4>4 DEF InCluster
      <4>. QED
        BY <3>1, <4>5 DEF FollowsReading
    <3>3. CASE n = Len(a.text) /\ Given(a) = {}
      <4>1. ReadUpTo(m)'
        BY <1>0, <1>2, <1>3, <2>1, <2>8, <3>1, <3>3, NothingGiven
      <4>2. optvalue' = NULL
        BY <2>5, <3>1, <3>3
      <4>. QED
        BY <2>8, <3>1, <4>1, <4>2 DEF FollowsReading, Passed
    <3>. QED
      BY <2>7, <3>1, <3>2, <3>3
  <2>10. CASE GetValue(o, Rest(t), "short")
    <3>1. TakesValue(o) /\ status' \in {"error", "short"}
      BY <2>10 DEF GetValue
    <3>2. HasValue(a) <=> Rest(t) # NULL
      BY <2>4, <2>5, <2>7, <3>1
    <3>3. Rest(t) # NULL => Rest(t) = ValueIn(k)
      <4>. SUFFICES ASSUME Rest(t) # NULL PROVE Rest(t) = ValueIn(k)
        OBVIOUS
      <4>1. n < Len(a.text) /\ HasValue(a) /\ LastLetter(a) = n
        BY <2>4, <2>5, <2>7, <3>1
      <4>2. Rest(t) = Text(SubSeq(a.text, n + 1, Len(a.text)))
        BY <2>5, <4>1
      <4>3. ValueIn(k) = Text(SubSeq(a.text, LastLetter(a) + 1, Len(a.text)))
        BY <1>3, <2>1, <4>1 DEF ValueIn
      <4>. QED
        BY <4>1, <4>2, <4>3
    <3>4. ReadUpTo(m)' /\ optvalue' = NULL
      BY <1>0, <1>2, <1>3, <2>1, <2>7, <2>8, <2>10, <3>1, <3>2, <3>3, GetValueReads
    <3>. QED
      BY <2>8, <3>1, <3>4 DEF FollowsReading, Passed
  <2>. QED
    BY <1>0, <1>6, <2>6, <2>9, <2>10
<1>7. ~Passed(pos)
  BY <1>0 DEF Passed
<1>. QED
  BY <1>0, <1>2, <1>4, <1>5, <1>6, <1>7 DEF FollowsReading

LEMMA LongOptionFollows ==
  ASSUME TypeOK, ArrayBehind, FollowsReading, NEW o \in Options, LongOption(o)
  PROVE  FollowsReading'
<1>0. /\ status = "next" /\ argc > 0 /\ arg.dashes = 2 /\ ~IsEnd(arg)
      /\ IsNamed(o, arg) \/ IsNegated(o, arg)
      /\ UNCHANGED <<flags, input, cpidx>>
      /\ \/ GetFlag(o, IsNegated(o, arg), LongRest, "long")
         \/ GetValue(o, LongRest, "long")
         \/ GetNothing(o, LongRest)
  BY DEF LongOption, Get
<1>1. /\ input \in Inputs /\ pos \in Nat /\ pos - 1 \in 1 .. Len(input) /\ arg = input[pos - 1]
      /\ arg \in Argument
  BY <1>0, ArgIs
<1>2. PICK k : k = pos - 1
  OBVIOUS
<1>3. PICK a : a = input[k]
  OBVIOUS
<1>4. /\ a = arg /\ IsLong(a) /\ a \in Argument /\ k \in 1 .. Len(input)
      /\ IsNamed(o, a) \/ IsNegated(o, a)
  BY <1>0, <1>1, <1>2, <1>3 DEF IsLong
<1>5. /\ TakesValue(o) => Given(a) = {o} /\ ~IsNegated(o, a)
      /\ ~TakesValue(o) => Given(a) = {}
      /\ HasValue(a) <=> a.value # NULL
  BY <1>4, LongName
<1>6. PICK m : m = pos'
  OBVIOUS
<1>7. CASE GetNothing(o, LongRest)
  BY <1>7 DEF GetNothing, FollowsReading
<1>8. CASE Tainted(k) /\ ~GetNothing(o, LongRest)
  <2>1. pos' \in {pos, pos + 1} /\ status' \in {"long", "help", "error"}
    BY <1>0, <1>8 DEF GetFlag, GetValue
  <2>2. k \in Int /\ m \in Int /\ k <= m
    <3>1. pos \in Nat /\ (pos' = pos \/ pos' = pos + 1)
      BY <1>1, <2>1
    <3>. QED
      BY <1>2, <1>6, <3>1
  <2>3. Tainted(m)'
    BY <1>0, <1>1, <1>8, <2>2, TaintedStays
  <2>. QED
    BY <1>6, <2>1, <2>3 DEF FollowsReading
<1>9. CASE Passed(k) /\ GetFlag(o, IsNegated(o, arg), LongRest, "long")
  <2>1. /\ UNCHANGED <<argv, pos>> /\ optvalue' = LongRest /\ status' \in {"help", "long"}
        /\ ~TakesValue(o) /\ \A p \in Options : TakesValue(p) => values'[p] = values[p]
    <3>1. IsNegated(o, arg) \in BOOLEAN
      BY DEF IsNegated
    <3>. QED
      BY <1>9, <3>1, FlagIs
  <2>2. Given(a) = {} /\ ReadUpTo(k) /\ optvalue = NULL
    BY <1>5, <1>9, <2>1 DEF Passed
  <2>3. CASE a.value = NULL
    <3>1. ReadUpTo(m)'
      BY <1>0, <1>2, <1>3, <1>4, <1>6, <2>1, <2>2, NothingGiven
    <3>2. optvalue' = NULL
      BY <1>4, <2>1, <2>2, <2>3 DEF LongRest
    <3>. QED
      BY <1>6, <2>1, <3>1, <3>2 DEF FollowsReading, Passed
  <2>4. CASE a.value # NULL
    <3>1. LeavesRest(input[k])
      BY <1>3, <1>4, <2>2, <2>4 DEF LeavesRest
    <3>2. k \in ReadFrom[1]
      <4>1. PICK n : n = After(k)
        OBVIOUS
      <4>2. ~Stops(input[k]) /\ ComesTo(k)
        BY <1>3, <1>4, <2>2, OptionsAreRead DEF ReadUpTo
      <4>. QED
        BY <1>1, <1>4, <4>1, <4>2, ComesOn
    <3>3. Tainted(pos)
      BY <1>1, <1>2, <3>1, <3>2 DEF Tainted
    <3>4. Tainted(m)'
      <4>1. m = pos
        BY <1>6, <2>1
      <4>. QED
        BY <1>0, <3>3, <4>1, ReadingStays
    <3>. QED
      BY <1>6, <2>1, <3>4 DEF FollowsReading
  <2>. QED
    BY <2>3, <2>4
<1>10. CASE Passed(k) /\ GetValue(o, LongRest, "long")
  <2>1. TakesValue(o) /\ status' \in {"error", "long"} /\ ReadUpTo(k) /\ optvalue = NULL
    BY <1>10 DEF GetValue, Passed
  <2>2. Given(input[k]) = {o} /\ (IsCluster(input[k]) \/ IsLong(input[k]))
    BY <1>3, <1>4, <1>5, <2>1
  <2>3. /\ a.value # NULL => LongRest = Text(a.value) /\ LongRest # NULL
        /\ a.value = NULL => LongRest = NULL
    BY <1>1, <1>4, <2>1, LongRestIs
  <2>4. HasValue(input[k]) <=> LongRest # NULL
    BY <1>3, <1>5, <2>3
  <2>5. LongRest # NULL => LongRest = ValueIn(k)
    <3>1. ~IsCluster(a)
      BY <1>4 DEF IsLong, IsCluster
    <3>. QED
      BY <1>3, <1>5, <2>3, <3>1 DEF ValueIn
  <2>6. status # "done"
    BY <1>0
  <2>7. ReadUpTo(m)' /\ optvalue' = NULL
    BY <1>0, <1>2, <1>4, <1>6, <1>10, <2>1, <2>2, <2>4, <2>5, <2>6, GetValueReads
  <2>. QED
    BY <1>6, <2>1, <2>7 DEF FollowsReading, Passed
<1>11. Tainted(k) \/ Passed(k)
  BY <1>0, <1>2 DEF FollowsReading
<1>. QED
  BY <1>0, <1>7, <1>8, <1>9, <1>10, <1>11

\* A letter that no option has leaves the rest of the cluster behind.
LEMMA ShortUnknownFollows ==
  ASSUME TypeOK, ArrayBehind, FollowsReading, ShortUnknown
  PROVE  FollowsReading'
<1>0. /\ status = "short" /\ status' = "unknown" /\ optvalue # NULL
      /\ \A o \in Options : o.short_name # optvalue.text[1]
      /\ UNCHANGED <<flags, input, argv, pos, cpidx, optvalue, values>>
  BY DEF ShortUnknown
<1>1. /\ input \in Inputs /\ pos \in Nat /\ pos - 1 \in 1 .. Len(input)
      /\ input[pos - 1] \in Argument
  BY <1>0, ArgIs DEF ArrayBehind
<1>2. PICK k : k = pos - 1
  OBVIOUS
<1>3. PICK a : a = input[k]
  OBVIOUS
<1>4. Tainted(pos)
  <2>1. CASE Tainted(k)
    BY <1>1, <1>2, <2>1, ReadPlaces DEF Tainted
  <2>2. CASE InCluster
    <3>1. /\ IsCluster(a) /\ ReadUpTo(k) /\ a \in Argument /\ k \in 1 .. Len(input)
          /\ \E n \in 1 .. LastLetter(a) : optvalue = Text(SubSeq(a.text, n, Len(a.text)))
      BY <1>1, <1>2, <1>3, <2>2 DEF InCluster
    <3>2. PICK n \in 1 .. LastLetter(a) : optvalue = Text(SubSeq(a.text, n, Len(a.text)))
      BY <3>1
    <3>3. PICK t : t = SubSeq(a.text, n, Len(a.text))
      OBVIOUS
    <3>4. n \in 1 .. Len(a.text)
      BY <3>1, LastLetterIs, ArgumentParts
    <3>5. t[1] = a.text[n]
      BY <3>1, <3>3, <3>4, NextLetters
    <3>6. optvalue.text[1] = a.text[n]
      BY <3>2, <3>3, <3>5 DEF Text
    <3>7. LeavesRest(input[k])
      BY <1>0, <1>3, <3>1, <3>6 DEF LeavesRest, ByLetter
    <3>8. k \in ReadFrom[1]
      <4>1. PICK m : m = After(k)
        OBVIOUS
      <4>2. ~Stops(input[k]) /\ ComesTo(k)
        BY <1>3, <3>1, OptionsAreRead DEF ReadUpTo
      <4>. QED
        BY <1>1, <3>1, <4>1, <4>2, ComesOn
    <3>. QED
      BY <1>1, <1>2, <3>7, <3>8 DEF Tainted
  <2>3. ~Passed(pos)
    BY <1>0 DEF Passed
  <2>. QED
    BY <1>0, <1>2, <2>1, <2>2, <2>3 DEF FollowsReading
<1>5. PICK m : m = pos
  OBVIOUS
<1>6. Tainted(m)'
  BY <1>0, <1>4, <1>5, ReadingStays
<1>. QED
  BY <1>0, <1>5, <1>6 DEF FollowsReading

LEMMA LongUnknownFollows ==
  ASSUME TypeOK, ArrayBehind, FollowsReading, LongUnknown
  PROVE  FollowsReading'
<1>0. /\ status = "next" /\ status' = "unknown" /\ argc > 0
      /\ arg.dashes = 2 /\ ~IsEnd(arg)
      /\ \A o \in Options : ~IsNamed(o, arg)
      /\ UNCHANGED <<flags, input, argv, pos, cpidx, optvalue, values>>
  BY DEF LongUnknown
<1>1. /\ input \in Inputs /\ pos \in Nat /\ pos - 1 \in 1 .. Len(input) /\ arg = input[pos - 1]
      /\ arg \in Argument
  BY <1>0, ArgIs
<1>2. PICK k : k = pos - 1
  OBVIOUS
<1>3. PICK m : m = pos'
  OBVIOUS
<1>4. CASE Tainted(k)
  <2>1. k \in Int /\ m \in Int /\ k <= m
    BY <1>0, <1>1, <1>2, <1>3
  <2>2. Tainted(m)'
    BY <1>0, <1>1, <1>4, <2>1, TaintedStays
  <2>. QED
    BY <1>0, <1>3, <2>2 DEF FollowsReading
<1>5. CASE Passed(k)
  <2>1. IsLong(arg) /\ ~IsCluster(arg)
    BY <1>0 DEF IsLong, IsCluster
  <2>2. Given(arg) = {}
    <3>1. CASE Len(arg.text) = 1
      <4>1. arg.text = <<arg.text[1]>>
        BY <1>1, <3>1, ArgumentParts
      <4>2. ByName(arg.text[1]) = {}
        BY <1>0, <4>1 DEF ByName, IsNamed
      <4>. QED
        BY <2>1, <4>2 DEF Given
    <3>2. CASE Len(arg.text) # 1
      BY <2>1, <3>2 DEF Given
    <3>. QED
      BY <3>1, <3>2
  <2>3. /\ Given(input[k]) = {} /\ IsLong(input[k]) /\ k \in 1 .. Len(input)
        /\ ReadUpTo(k) /\ optvalue = NULL
    BY <1>1, <1>2, <1>5, <2>1, <2>2 DEF Passed
  <2>4. ReadUpTo(m)'
    BY <1>0, <1>2, <1>3, <2>3, NothingGiven
  <2>. QED
    BY <1>0, <1>3, <2>3, <2>4 DEF FollowsReading, Passed
<1>. QED
  BY <1>0, <1>2, <1>4, <1>5 DEF FollowsReading

\* On to the next argument: the reading is already there.
LEMMA AdvanceFollows ==
  ASSUME TypeOK, ArrayBehind, FollowsReading, ShortEnd \/ LongEnd \/ Unknown
  PROVE  FollowsReading'
<1>0. UNCHANGED <<flags, input, argv, cpidx, optvalue, values>>
  BY DEF ShortEnd, LongEnd, Unknown, Advance
<1>1. CASE status' = "error"
  BY <1>1 DEF FollowsReading
<1>2. CASE status' # "error"
  <2>1. /\ pos' = pos + 1 /\ status' = "next"
        /\ (status = "short" /\ optvalue = NULL) \/ status \in {"long", "unknown"}
    BY <1>2 DEF ShortEnd, LongEnd, Unknown, Advance
  <2>2. PICK m : m = pos
    OBVIOUS
  <2>3. input \in Inputs /\ pos \in Nat
    BY DEF TypeOK
  <2>4. m = pos' - 1
    BY <2>1, <2>2, <2>3
  <2>5. CASE Tainted(pos - 1) \/ Tainted(pos)
    <3>1. Tainted(m)
      BY <2>2, <2>3, <2>5, ReadPlaces DEF Tainted
    <3>2. Tainted(m)'
      BY <1>0, <3>1, ReadingStays
    <3>. QED
      BY <2>1, <2>4, <3>2 DEF FollowsReading
  <2>6. CASE Passed(pos)
    <3>1. ReadUpTo(m) /\ optvalue' = NULL
      BY <1>0, <2>2, <2>6 DEF Passed
    <3>2. ReadUpTo(m)'
      BY <1>0, <3>1, ReadUpToStays
    <3>. QED
      BY <2>1, <2>4, <3>1, <3>2 DEF FollowsReading, Passed
  <2>7. status = "short" => ~InCluster
    <3>. SUFFICES ASSUME status = "short", InCluster PROVE FALSE
      OBVIOUS
    <3>1. pos - 1 \in 1 .. Len(input) /\ input[pos - 1] \in Argument
      BY ArgIs DEF ArrayBehind
    <3>2. PICK a : a = input[pos - 1]
      OBVIOUS
    <3>3. IsCluster(a) /\ a \in Argument
      BY <3>1, <3>2 DEF InCluster
    <3>4. PICK n \in 1 .. LastLetter(a) : optvalue = Text(SubSeq(a.text, n, Len(a.text)))
      BY <3>2 DEF InCluster
    <3>5. n \in 1 .. Len(a.text)
      BY <3>3, LastLetterIs, ArgumentParts
    <3>6. SubSeq(a.text, n, Len(a.text)) \in Seq(Symbols)
      BY <3>3, <3>5, NextLetters
    <3>7. optvalue # NULL
      BY <3>4, <3>6, TextIs
    <3>. QED
      BY <2>1, <3>7
  <2>. QED
    BY <2>1, <2>5, <2>6, <2>7 DEF FollowsReading
<1>. QED
  BY <1>1, <1>2

\* All arguments that are read lie before k, and so the values up to k are right.
AllBefore(k) == input \in Inputs /\ ValuesUpTo(k) /\ \A l \in ReadFrom[1] : l < k

AllBeforeIsRight == \A k : AllBefore(k) => ValuesRight

LEMMA ValuesComplete == AllBeforeIsRight
<1>. SUFFICES ASSUME NEW k, AllBefore(k), NEW o \in Options, TakesValue(o), NEW givers,
                     givers = {l \in ReadFrom[1] : o \in Given(input[l])}
              PROVE  values[o] = IF givers = {} THEN NULL ELSE ValueIn(Max(givers))
  BY DEF AllBeforeIsRight, ValuesRight
<1>1. givers = Givers(o, k)
  BY DEF Givers, AllBefore
<1>2. \/ givers = {} /\ values[o] = NULL
      \/ \E i \in givers : values[o] = ValueIn(i) /\ \A n \in givers : n <= i
  BY <1>1 DEF ValuesUpTo, AllBefore
<1>3. CASE givers = {}
  BY <1>2, <1>3
<1>4. CASE givers # {}
  <2>1. PICK i \in givers : values[o] = ValueIn(i) /\ \A n \in givers : n <= i
    BY <1>2, <1>4
  <2>2. givers \in SUBSET Nat
    BY ReadPlaces DEF AllBefore
  <2>3. Max(givers) = i
    BY <2>1, <2>2, MaxIs
  <2>. QED
    BY <1>4, <2>1, <2>3
<1>. QED
  BY <1>3, <1>4

\* At the end the array holds the operands and the options their values.
LEMMA FinishReads ==
  ASSUME TypeOK, ArrayBehind, FollowsReading, Finish
  PROVE  FollowsReading' /\ OperandsKept' /\ ValuesRight'
<1>0. /\ status = "next" /\ status' = "done"
      /\ UNCHANGED <<flags, input, cpidx, optvalue, values>>
      /\ \/ argc = 0
         \/ argc > 0 /\ IsEnd(arg)
         \/ argc > 0 /\ IsOperand(arg) /\ "stop" \in flags
  BY DEF Finish
<1>1. /\ input \in Inputs /\ Len(input) \in Nat /\ pos \in 2 .. Len(input) + 2
      /\ argc > 0 <=> pos <= Len(input) + 1
      /\ argc = 0 <=> pos = Len(input) + 2
      /\ pos <= Len(input) + 1 => arg = input[pos - 1] /\ arg \in Argument
  BY <1>0, ArgIs
<1>2. PICK k : k = pos - 1
  OBVIOUS
<1>3. k \in 1 .. Len(input) + 1 /\ (k <= Len(input) <=> argc > 0)
  BY <1>1, <1>2
<1>4. PICK l \in pos .. Len(input) + 2 :
        /\ l = (IF argc > 0 /\ IsEnd(arg) THEN pos + 1 ELSE pos)
        /\ argv' = SubSeq(argv, 1, cpidx) \o SubSeq(input, l - 1, Len(input))
  BY FinishIs
<1>5. k <= Len(input) => arg = input[k] /\ Stops(input[k])
  BY <1>0, <1>1, <1>2, <1>3 DEF Stops
<1>6. OperandsFrom[k] = SubSeq(input, l - 1, Len(input))
  <2>1. OperandsFrom[k] = OperandStep(OperandsFrom, k)
    BY <1>1, <1>3, OperandsFromSteps
  <2>2. CASE argc = 0
    <3>1. k > Len(input) /\ l - 1 \in Int /\ Len(input) \in Int /\ Len(input) < l - 1
      BY <1>1, <1>2, <1>3, <1>4, <2>2
    <3>2. SubSeq(input, l - 1, Len(input)) = <<>>
      BY <3>1, SubSeqEmpty
    <3>. QED
      BY <2>1, <3>1, <3>2 DEF OperandStep
  <2>3. CASE argc > 0 /\ IsEnd(arg)
    <3>1. l - 1 = k + 1 /\ ~(k > Len(input)) /\ arg = input[k]
      BY <1>1, <1>2, <1>3, <1>4, <1>5, <2>3
    <3>. QED
      BY <2>1, <2>3, <3>1 DEF OperandStep
  <2>4. CASE argc > 0 /\ ~IsEnd(arg)
    <3>1. l - 1 = k /\ ~(k > Len(input)) /\ arg = input[k] /\ Stops(input[k])
      BY <1>1, <1>2, <1>3, <1>4, <1>5, <2>4
    <3>. QED
      BY <2>1, <2>4, <3>1 DEF OperandStep
  <2>. QED
    BY <1>0, <2>2, <2>3, <2>4
<1>7. CASE Tainted(k)
  <2>1. ~Clean
    BY <1>7 DEF Clean, Tainted
  <2>2. ~Clean'
    <3>1. ReadFrom' = ReadFrom
      BY <1>0, ReadingStays
    <3>. QED
      BY <1>0, <2>1, <3>1 DEF Clean
  <2>. QED
    BY <1>0, <2>2 DEF FollowsReading, OperandsKept, ValuesRight
<1>8. CASE Passed(k)
  <2>1. ComesTo(k) /\ OperandsUpTo(k) /\ ValuesUpTo(k)
    BY <1>8 DEF Passed, ReadUpTo
  <2>2. OperandsKept'
    <3>1. OperandsFrom' = OperandsFrom
      BY <1>0, ReadingStays
    <3>2. argv' = OperandsFrom[1]
      BY <1>4, <1>6, <2>1 DEF OperandsUpTo
    <3>. QED
      BY <3>1, <3>2 DEF OperandsKept
  <2>3. \A i \in ReadFrom[1] : i < k
    BY <1>1, <1>3, <1>5, <2>1, ComesToEnd
  <2>4. ValuesUpTo(k)'
    <3>1. \A o : Givers(o, k)' = Givers(o, k)
      BY <1>0, ReadingStays
    <3>2. \A i : ValueIn(i)' = ValueIn(i)
      BY <1>0, ReadingStays
    <3>. QED
      BY <1>0, <2>1, <3>1, <3>2 DEF ValuesUpTo
  <2>5. ValuesRight'
    <3>1. AllBeforeIsRight'
      BY ValuesComplete, PTL
    <3>2. ReadFrom' = ReadFrom
      BY <1>0, ReadingStays
    <3>3. AllBefore(k)'
      BY <1>0, <1>1, <2>3, <2>4, <3>2 DEF AllBefore
    <3>. QED
      BY <3>1, <3>3 DEF AllBeforeIsRight
  <2>. QED
    BY <1>0, <2>2, <2>5 DEF FollowsReading
<1>. QED
  BY <1>0, <1>2, <1>7, <1>8 DEF FollowsReading

LEMMA FollowsInit == Init => FollowsReading /\ OperandsKept /\ ValuesRight
<1>. SUFFICES ASSUME Init PROVE FollowsReading /\ OperandsKept /\ ValuesRight
  OBVIOUS
<1>1. /\ input \in Inputs /\ pos = 2 /\ cpidx = 0 /\ optvalue = NULL /\ status = "next"
      /\ \A o \in Options : TakesValue(o) => values[o] = NULL
  BY DEF Init
<1>2. \A k \in ReadFrom[1] : k \in Nat /\ k >= 1 /\ ~(k < 1)
  BY <1>1, ReadPlaces
<1>3. ComesTo(1)
  BY <1>2 DEF ComesTo
<1>4. OperandsUpTo(1)
  <2>1. OperandsFrom[1] \in Seq(Argument)
    BY <1>1, InputIs, OperandsFromType
  <2>2. SubSeq(argv, 1, 0) = <<>>
    BY SubSeqEmpty
  <2>3. <<>> \o OperandsFrom[1] = OperandsFrom[1]
    BY <2>1, ConcatEmptySeq
  <2>. QED
    BY <1>1, <2>2, <2>3 DEF OperandsUpTo
<1>5. ValuesUpTo(1)
  <2>1. \A o : Givers(o, 1) = {}
    BY <1>2 DEF Givers
  <2>. QED
    BY <1>1, <2>1 DEF ValuesUpTo
<1>6. pos - 1 = 1
  BY <1>1
<1>7. Passed(pos - 1)
  BY <1>1, <1>3, <1>4, <1>5, <1>6 DEF Passed, ReadUpTo
<1>. QED
  BY <1>1, <1>7 DEF FollowsReading, OperandsKept, ValuesRight

\* A step that leaves everything as it is.
LEMMA FollowsStays ==
  ASSUME FollowsReading, OperandsKept, ValuesRight, UNCHANGED vars
  PROVE  FollowsReading' /\ OperandsKept' /\ ValuesRight'
<1>1. UNCHANGED <<flags, input, argv, pos, cpidx, optvalue, values, status>>
  BY DEF vars
<1>2. /\ ReadFrom' = ReadFrom /\ OperandsFrom' = OperandsFrom
      /\ \A k : ValueIn(k)' = ValueIn(k)
      /\ \A m : (Tainted(m)' <=> Tainted(m))
  BY <1>1, ReadingStays
<1>3. \A m : ReadUpTo(m) => ReadUpTo(m)'
  BY <1>1, ReadUpToStays
<1>4. Clean' <=> Clean
  BY <1>1, <1>2 DEF Clean
<1>5. OperandsKept'
  BY <1>1, <1>2, <1>4 DEF OperandsKept
<1>6. PICK k, l : k = pos - 1 /\ l = pos
  OBVIOUS
<1>7. Tainted(k)' <=> Tainted(k)
  BY <1>2
<1>8. Tainted(l)' <=> Tainted(l)
  BY <1>2
<1>9. (Passed(k) => Passed(k)') /\ (Passed(l) => Passed(l)')
  BY <1>1, <1>3 DEF Passed
<1>10. InCluster => InCluster'
  BY <1>1, <1>3, <1>6 DEF InCluster
<1>11. FollowsReading'
  BY <1>1, <1>6, <1>7, <1>8, <1>9, <1>10 DEF FollowsReading
<1>12. ValuesRight'
  BY <1>1, <1>2, <1>4 DEF ValuesRight, TakesValue
<1>. QED
  BY <1>5, <1>11, <1>12

LEMMA FollowsStep ==
  ASSUME ParseInv, [Next]_vars
  PROVE  FollowsReading' /\ OperandsKept' /\ ValuesRight'
<1>. USE DEF ParseInv
<1>1. CASE UNCHANGED vars
  BY <1>1, FollowsStays
<1>2. CASE Finish
  BY <1>2, FinishReads
<1>3. ASSUME FollowsReading', status' # "done"
      PROVE  FollowsReading' /\ OperandsKept' /\ ValuesRight'
  BY <1>3 DEF OperandsKept, ValuesRight
<1>4. CASE Operand
  BY <1>3, <1>4, OperandFollows DEF Operand
<1>5. CASE ShortCluster
  BY <1>3, <1>5, ClusterFollows DEF ShortCluster
<1>6. CASE ShortUnknown
  BY <1>3, <1>6, ShortUnknownFollows DEF ShortUnknown
<1>7. CASE LongUnknown
  BY <1>3, <1>7, LongUnknownFollows DEF LongUnknown
<1>8. CASE ShortEnd \/ LongEnd \/ Unknown
  <2>1. status' # "done"
    BY <1>8 DEF ShortEnd, LongEnd, Unknown, Advance
  <2>. QED
    BY <1>3, <1>8, <2>1, AdvanceFollows
<1>9. ASSUME NEW o \in Options, ShortOption(o)
      PROVE  FollowsReading' /\ OperandsKept' /\ ValuesRight'
  <2>1. status' # "done"
    BY <1>9 DEF ShortOption, Get, GetFlag, GetValue, GetNothing
  <2>. QED
    BY <1>3, <1>9, <2>1, ShortOptionFollows
<1>10. ASSUME NEW o \in Options, LongOption(o)
       PROVE  FollowsReading' /\ OperandsKept' /\ ValuesRight'
  <2>1. status' # "done"
    BY <1>10 DEF LongOption, Get, GetFlag, GetValue, GetNothing
  <2>. QED
    BY <1>3, <1>10, <2>1, LongOptionFollows
<1>. QED
  BY <1>1, <1>2, <1>4, <1>5, <1>6, <1>7, <1>8, <1>9, <1>10 DEF Next

\* The inductive invariant: the array from the pointer on is what the program was
\* started with, and unless an argument left a rest, the parser is where the
\* reading is and has the reading's operands and values so far
\* (argparse.c:46-126, 148-197, 226-286).
THEOREM ParseInvariance == Spec => []ParseInv
<1>1. Init => ParseInv
  BY TypesInit, FollowsInit DEF ParseInv
<1>2. ParseInv /\ [Next]_vars => ParseInv'
  BY TypesStep, FollowsStep DEF ParseInv
<1>. QED
  BY <1>1, <1>2, PTL DEF Spec

LEMMA RestsOfEarlierArguments == ParseInv => RestsUsedUp
<1>. SUFFICES ASSUME ParseInv, status = "next", optvalue # NULL
              PROVE  \E k \in ReadFrom[1] : k < pos - 1 /\ LeavesRest(input[k])
  BY DEF RestsUsedUp
<1>1. Tainted(pos - 1)
  BY DEF ParseInv, FollowsReading, Passed
<1>. QED
  BY <1>1 DEF Tainted

\* For any options and any command line: between two arguments the parser holds
\* a rest only if an earlier argument gave a flag a value or had a letter that
\* no option has (argparse.c:75-77, 87-89, 153, 192).
THEOREM NoRestLeftOver == Spec => []RestsUsedUp
BY ParseInvariance, RestsOfEarlierArguments, PTL

\* Unless an argument left a rest, the parser returns the operands in their order,
\* each once, although it moves them within the array it reads
\* (argparse.c:231-237, 259-263, 281-286).
THEOREM OperandsReturned == Spec => []OperandsKept
<1>1. ParseInv => OperandsKept
  BY DEF ParseInv
<1>. QED
  BY <1>1, ParseInvariance, PTL

\* Unless an argument left a rest, each option has the last value it was given,
\* however the values are written and whatever stands between them
\* (argparse.c:74-116, 149-197).
THEOREM OptionsHaveTheirValues == Spec => []ValuesRight
<1>1. ParseInv => ValuesRight
  BY DEF ParseInv
<1>. QED
  BY <1>1, ParseInvariance, PTL

=============================================================================
