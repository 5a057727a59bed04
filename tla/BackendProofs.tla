---------------------------- MODULE BackendProofs ----------------------------
(***************************************************************************)
(* Proofs about Backend, Parser and GraphDataProcessor: for any time       *)
(* stamps, CO2 values, dates, size of a batch and number of rows, what the *)
(* dashboard accepts is a reading of the sensor, the value shown is the    *)
(* average of the last of them, and no row is lost between the stream, the *)
(* file and the graph, but for a batch in a crash or a failed write.       *)
(***************************************************************************)
EXTENDS Backend, SequenceLemmas

-----------------------------------------------------------------------------
(***************************************************************************)
(* Texts and numbers.                                                      *)
(***************************************************************************)

\* The number that std::to_string takes apart.
LEMMA TenParts ==
    ASSUME NEW n \in Nat
    PROVE  /\ n \div 10 \in Nat /\ n % 10 \in 0 .. 9 /\ n = 10 * (n \div 10) + (n % 10)
           /\ n >= 10 => n \div 10 \in 1 .. n - 1
           /\ n < 10 => n \div 10 = 0 /\ n % 10 = n
<1>1. n \div 10 \in Nat
  OBVIOUS
<1>2. n % 10 \in 0 .. 9
  OBVIOUS
<1>3. n = 10 * (n \div 10) + (n % 10)
  OBVIOUS
<1> DEFINE d == n \div 10
           r == n % 10
<1> HIDE DEF d, r
<1>4. d \in Nat /\ r \in 0 .. 9 /\ n = 10 * d + r
  BY <1>1, <1>2, <1>3 DEF d, r
<1>5. n >= 10 => d \in 1 .. n - 1
  BY <1>4
<1>6. n < 10 => d = 0 /\ r = n
  BY <1>4
<1>7. QED
  BY <1>4, <1>5, <1>6 DEF d, r

\* The characters of a line.
Chars == {"0", "1", "2", "3", "4", "5", "6", "7", "8", "9", "S", "R", "D", "H", ":", ",", "."}

\* What the digit c stands for.
DigitValue(c) == CHOOSE n \in 0 .. 9 : Digits[n + 1] = c

\* Ten different characters, none of them punctuation or in a tag.
LEMMA DigitFacts ==
    /\ \A v \in 0 .. 9 : /\ Digits[v + 1] \in Chars /\ IsDigit(Digits[v + 1])
                         /\ DigitValue(Digits[v + 1]) = v
    /\ \A c : IsDigit(c) => DigitValue(c) \in 0 .. 9 /\ Digits[DigitValue(c) + 1] = c
    /\ \A c \in {":", ",", ".", "S", "R", "D", "H"} : c \in Chars /\ ~IsDigit(c)
<1>1. /\ Digits[1] = "0" /\ Digits[2] = "1" /\ Digits[3] = "2" /\ Digits[4] = "3" /\ Digits[5] = "4"
      /\ Digits[6] = "5" /\ Digits[7] = "6" /\ Digits[8] = "7" /\ Digits[9] = "8" /\ Digits[10] = "9"
  BY DEF Digits
<1>2. \A i \in 1 .. 10 : i = 1 \/ i = 2 \/ i = 3 \/ i = 4 \/ i = 5 \/ i = 6 \/ i = 7 \/ i = 8
                         \/ i = 9 \/ i = 10
  OBVIOUS
<1>3. \A i, j \in 1 .. 10 : Digits[i] = Digits[j] => i = j
  <2>1. \A i \in 1 .. 10 : /\ Digits[i] = "0" => i = 1
                           /\ Digits[i] = "1" => i = 2
                           /\ Digits[i] = "2" => i = 3
                           /\ Digits[i] = "3" => i = 4
                           /\ Digits[i] = "4" => i = 5
                           /\ Digits[i] = "5" => i = 6
                           /\ Digits[i] = "6" => i = 7
                           /\ Digits[i] = "7" => i = 8
                           /\ Digits[i] = "8" => i = 9
                           /\ Digits[i] = "9" => i = 10
    BY <1>1, <1>2
  <2>2. \A i \in 1 .. 10 : Digits[i] \in {"0", "1", "2", "3", "4", "5", "6", "7", "8", "9"}
    BY <1>1, <1>2
  <2>3. ASSUME NEW i \in 1 .. 10, NEW j \in 1 .. 10, Digits[i] = Digits[j] PROVE i = j
    <3> DEFINE c == Digits[i]
    <3>1. c \in {"0", "1", "2", "3", "4", "5", "6", "7", "8", "9"} /\ Digits[j] = c
      BY <2>2, <2>3
    <3> HIDE DEF c
    <3>2. QED
      BY <2>1, <3>1 DEF c
  <2>4. QED
    BY <2>3
<1>4. \A i \in 1 .. 10 : Digits[i] \in Chars
  BY <1>1, <1>2 DEF Chars
<1>5. \A v \in 0 .. 9 : v + 1 \in 1 .. 10
  OBVIOUS
<1>6. ASSUME NEW v \in 0 .. 9 PROVE DigitValue(Digits[v + 1]) = v
  <2>1. DigitValue(Digits[v + 1]) \in 0 .. 9 /\ Digits[DigitValue(Digits[v + 1]) + 1] = Digits[v + 1]
    BY DEF DigitValue
  <2>2. DigitValue(Digits[v + 1]) + 1 = v + 1
    BY <1>3, <1>5, <2>1
  <2>3. QED
    BY <2>1, <2>2
<1>7. ASSUME NEW c, IsDigit(c) PROVE DigitValue(c) \in 0 .. 9 /\ Digits[DigitValue(c) + 1] = c
  <2>1. PICK i \in 1 .. 10 : Digits[i] = c
    BY <1>7 DEF IsDigit
  <2>2. i - 1 \in 0 .. 9 /\ (i - 1) + 1 = i
    OBVIOUS
  <2>3. QED
    BY <2>1, <2>2 DEF DigitValue
<1>8. \A c \in {":", ",", ".", "S", "R", "D", "H"} : c \in Chars /\ ~IsDigit(c)
  <2>1. ASSUME NEW c \in {":", ",", ".", "S", "R", "D", "H"}, NEW i \in 1 .. 10 PROVE Digits[i] # c
    <3>1. Digits[i] \in {"0", "1", "2", "3", "4", "5", "6", "7", "8", "9"}
      BY <1>1, <1>2
    <3>2. QED
      BY <3>1
  <2>2. \A c \in {":", ",", ".", "S", "R", "D", "H"} : c \in Chars
    BY DEF Chars
  <2>3. QED
    BY <2>1, <2>2 DEF IsDigit
<1>9. QED
  BY <1>4, <1>5, <1>6, <1>7, <1>8 DEF IsDigit

-----------------------------------------------------------------------------
(***************************************************************************)
(* Decimal is what it is defined to be: the equation has a solution, found *)
(* by induction on the numbers up to which it holds.                       *)
(***************************************************************************)

\* f is a solution up to k.
Writes(f, k) ==
    /\ f \in [0 .. k -> Seq(Chars)]
    /\ \A n \in 0 .. k : f[n] = IF n < 10 THEN <<Digits[n + 1]>>
                                ELSE Append(f[n \div 10], Digits[(n % 10) + 1])

LEMMA OneElement ==
    ASSUME NEW S, NEW c \in S
    PROVE  <<c>> \in Seq(S) /\ Len(<<c>>) = 1 /\ <<c>>[1] = c
OBVIOUS

LEMMA OneDigitText == \A v \in 0 .. 9 : <<Digits[v + 1]>> \in Seq(Chars)
<1> SUFFICES ASSUME NEW v \in 0 .. 9 PROVE <<Digits[v + 1]>> \in Seq(Chars)
  OBVIOUS
<1> DEFINE c == Digits[v + 1]
<1>1. c \in Chars
  BY DigitFacts
<1> HIDE DEF c
<1>2. <<c>> \in Seq(Chars)
  BY <1>1, OneElement
<1>3. QED
  BY <1>2 DEF c

LEMMA WritesExists ==
    ASSUME NEW n \in Nat
    PROVE  \E f : Writes(f, n)
<1> DEFINE T == {k \in Nat : \E f : Writes(f, k)}
<1>1. 0 \in T
  <2> DEFINE f == [n0 \in 0 .. 0 |-> <<Digits[n0 + 1]>>]
  <2>1. 0 \in 0 .. 9 /\ \A k \in 0 .. 0 : k = 0 /\ k < 10
    OBVIOUS
  <2>2. f \in [0 .. 0 -> Seq(Chars)]
    BY <2>1, OneDigitText
  <2>3. Writes(f, 0)
    BY <2>1, <2>2 DEF Writes
  <2>4. QED
    BY <2>3
<1>2. ASSUME NEW k \in Nat, k \in T PROVE k + 1 \in T
  <2>1. PICK f : Writes(f, k)
    BY <1>2
  <2> DEFINE next == IF k + 1 < 10 THEN <<Digits[(k + 1) + 1]>>
                     ELSE Append(f[(k + 1) \div 10], Digits[((k + 1) % 10) + 1])
             g == [n0 \in 0 .. k + 1 |-> IF n0 = k + 1 THEN next ELSE f[n0]]
  <2>2. next \in Seq(Chars)
    <3>1. CASE k + 1 < 10
      <4>1. k + 1 \in 0 .. 9
        BY <3>1
      <4>2. <<Digits[(k + 1) + 1]>> \in Seq(Chars)
        BY <4>1, OneDigitText
      <4>3. QED
        BY <3>1, <4>2
    <3>2. CASE ~(k + 1 < 10)
      <4>1. (k + 1) \div 10 \in 0 .. k /\ (k + 1) % 10 \in 0 .. 9
        BY <3>2, TenParts
      <4>2. f[(k + 1) \div 10] \in Seq(Chars)
        BY <2>1, <4>1 DEF Writes
      <4>3. Digits[((k + 1) % 10) + 1] \in Chars
        BY <4>1, DigitFacts
      <4>4. QED
        BY <3>2, <4>2, <4>3, AppendProperties
    <3>3. QED
      BY <3>1, <3>2
  <2>3. \A n0 \in 0 .. k : f[n0] \in Seq(Chars)
    BY <2>1 DEF Writes
  <2>4. \A n0 \in 0 .. k + 1 : n0 # k + 1 => n0 \in 0 .. k
    OBVIOUS
  <2>5. \A n0 \in 0 .. k + 1 : n0 >= 10 => n0 \div 10 \in 0 .. k
    <3>1. ASSUME NEW n0 \in 0 .. k + 1, n0 >= 10 PROVE n0 \div 10 \in 0 .. k
      <4>1. n0 \div 10 \in 1 .. n0 - 1
        BY <3>1, TenParts
      <4>2. QED
        BY <4>1
    <3>2. QED
      BY <3>1
  <2> HIDE DEF next
  <2>6. g \in [0 .. k + 1 -> Seq(Chars)]
    BY <2>2, <2>3, <2>4
  <2>7. \A n0 \in 0 .. k : n0 # k + 1 /\ n0 \in 0 .. k + 1 /\ g[n0] = f[n0]
    OBVIOUS
  <2>8. k + 1 \in 0 .. k + 1 /\ g[k + 1] = next
    OBVIOUS
  <2> HIDE DEF g
  <2>9. ASSUME NEW n0 \in 0 .. k + 1
        PROVE  g[n0] = IF n0 < 10 THEN <<Digits[n0 + 1]>>
                       ELSE Append(g[n0 \div 10], Digits[(n0 % 10) + 1])
    <3>1. ~(n0 < 10) => g[n0 \div 10] = f[n0 \div 10]
      BY <2>5, <2>7
    <3>2. CASE n0 = k + 1
      BY <2>8, <3>1, <3>2 DEF next
    <3>3. CASE n0 # k + 1
      <4>1. n0 \in 0 .. k
        BY <2>4, <3>3
      <4>2. f[n0] = IF n0 < 10 THEN <<Digits[n0 + 1]>>
                    ELSE Append(f[n0 \div 10], Digits[(n0 % 10) + 1])
        BY <2>1, <4>1 DEF Writes
      <4>3. QED
        BY <2>7, <3>1, <4>1, <4>2
    <3>4. QED
      BY <3>2, <3>3
  <2>10. Writes(g, k + 1)
    BY <2>6, <2>9 DEF Writes
  <2>11. QED
    BY <2>10
<1>3. Nat \subseteq T
  <2> HIDE DEF T
  <2>1. QED
    BY <1>1, <1>2, SetInduction
<1>4. QED
  BY <1>3

\* Solutions agree as far as both go.
LEMMA WritesAgree ==
    ASSUME NEW f, NEW g, NEW k \in Nat, NEW m \in Nat, Writes(f, k), Writes(g, m)
    PROVE  \A n \in Nat : n <= k /\ n <= m => f[n] = g[n]
<1> DEFINE T == {i \in Nat : \A n \in 0 .. i : n <= k /\ n <= m => f[n] = g[n]}
<1>1. 0 \in T
  <2>1. f[0] = <<Digits[0 + 1]>> /\ g[0] = <<Digits[0 + 1]>>
    <3>1. 0 \in 0 .. k /\ 0 \in 0 .. m /\ 0 < 10
      OBVIOUS
    <3>2. QED
      BY <3>1 DEF Writes
  <2>2. \A n \in 0 .. 0 : n = 0
    OBVIOUS
  <2>3. QED
    BY <2>1, <2>2
<1>2. ASSUME NEW i \in Nat, i \in T PROVE i + 1 \in T
  <2>1. ASSUME i + 1 <= k, i + 1 <= m PROVE f[i + 1] = g[i + 1]
    <3>1. i + 1 \in 0 .. k /\ i + 1 \in 0 .. m
      BY <2>1
    <3>2. /\ f[i + 1] = IF i + 1 < 10 THEN <<Digits[(i + 1) + 1]>>
                        ELSE Append(f[(i + 1) \div 10], Digits[((i + 1) % 10) + 1])
          /\ g[i + 1] = IF i + 1 < 10 THEN <<Digits[(i + 1) + 1]>>
                        ELSE Append(g[(i + 1) \div 10], Digits[((i + 1) % 10) + 1])
      BY <3>1 DEF Writes
    <3>3. ~(i + 1 < 10) => f[(i + 1) \div 10] = g[(i + 1) \div 10]
      <4>1. ~(i + 1 < 10) => (i + 1) \div 10 \in 1 .. (i + 1) - 1
        BY TenParts
      <4>2. ~(i + 1 < 10) => /\ (i + 1) \div 10 \in 0 .. i
                             /\ (i + 1) \div 10 <= k /\ (i + 1) \div 10 <= m
        BY <2>1, <4>1
      <4>3. QED
        BY <1>2, <4>2
    <3>4. QED
      BY <3>2, <3>3
  <2>2. \A n \in 0 .. i + 1 : n = i + 1 \/ n \in 0 .. i
    OBVIOUS
  <2>3. QED
    BY <1>2, <2>1, <2>2
<1>3. Nat \subseteq T
  <2> HIDE DEF T
  <2>1. QED
    BY <1>1, <1>2, SetInduction
<1>4. ASSUME NEW n \in Nat, n <= k, n <= m PROVE f[n] = g[n]
  <2>1. n \in T /\ n \in 0 .. n
    BY <1>3
  <2>2. QED
    BY <1>4, <2>1
<1>5. QED
  BY <1>4

LEMMA DecimalDef ==
    ASSUME NEW n \in Nat
    PROVE  /\ Decimal[n] = IF n < 10 THEN <<Digits[n + 1]>>
                           ELSE Append(Decimal[n \div 10], Digits[(n % 10) + 1])
           /\ Decimal[n] \in Seq(Chars)
<1> DEFINE Solves(f) == f = [k \in Nat |-> IF k < 10 THEN <<Digits[k + 1]>>
                                           ELSE Append(f[k \div 10], Digits[(k % 10) + 1])]
           upTo(k) == CHOOSE f : Writes(f, k)
           all == [k \in Nat |-> upTo(k)[k]]
<1>1. \A k \in Nat : Writes(upTo(k), k)
  BY WritesExists
<1> HIDE DEF upTo
<1>2. ASSUME NEW k \in Nat
      PROVE  /\ all[k] = IF k < 10 THEN <<Digits[k + 1]>>
                         ELSE Append(all[k \div 10], Digits[(k % 10) + 1])
             /\ all[k] \in Seq(Chars)
  <2>1. /\ upTo(k) \in [0 .. k -> Seq(Chars)] /\ k \in 0 .. k
        /\ upTo(k)[k] = IF k < 10 THEN <<Digits[k + 1]>>
                        ELSE Append(upTo(k)[k \div 10], Digits[(k % 10) + 1])
    <3> DEFINE f == upTo(k)
    <3>1. Writes(f, k) /\ k \in 0 .. k
      BY <1>1
    <3> HIDE DEF f
    <3>2. /\ f \in [0 .. k -> Seq(Chars)]
          /\ f[k] = IF k < 10 THEN <<Digits[k + 1]>> ELSE Append(f[k \div 10], Digits[(k % 10) + 1])
      BY <3>1 DEF Writes
    <3>3. QED
      BY <3>1, <3>2 DEF f
  <2>2. ASSUME ~(k < 10) PROVE upTo(k)[k \div 10] = all[k \div 10]
    <3>1. k \div 10 \in Nat /\ k \div 10 <= k
      BY <2>2, TenParts
    <3> DEFINE j == k \div 10
    <3>2. j \in Nat /\ j <= k /\ j <= j
      BY <3>1
    <3> HIDE DEF j
    <3>3. upTo(k)[j] = upTo(j)[j]
      BY <1>1, <3>2, WritesAgree
    <3>4. QED
      BY <3>2, <3>3 DEF j
  <2>3. QED
    BY <2>1, <2>2
<1>3. Solves(all)
  <2>1. all = [k \in Nat |-> all[k]]
    OBVIOUS
  <2> HIDE DEF all
  <2>2. QED
    BY <1>2, <2>1
<1>4. Solves(Decimal)
  BY <1>3 DEF Decimal
<1>5. \A k \in Nat : Decimal[k] = IF k < 10 THEN <<Digits[k + 1]>>
                                  ELSE Append(Decimal[k \div 10], Digits[(k % 10) + 1])
  BY <1>4
<1> DEFINE T == {i \in Nat : \A k \in 0 .. i : Decimal[k] \in Seq(Chars)}
<1> HIDE DEF Solves, all
<1>6. 0 \in T
  <2>1. Decimal[0] = <<Digits[0 + 1]>> /\ 0 \in 0 .. 9
    <3>1. \A k \in Nat : k < 10 => Decimal[k] = <<Digits[k + 1]>>
      BY <1>5
    <3>2. 0 \in Nat /\ 0 < 10
      OBVIOUS
    <3>3. QED
      BY <3>1, <3>2
  <2>2. Decimal[0] \in Seq(Chars)
    BY <2>1, OneDigitText
  <2>3. \A k \in 0 .. 0 : k = 0
    OBVIOUS
  <2>4. QED
    BY <2>2, <2>3
<1>7. ASSUME NEW i \in Nat, i \in T PROVE i + 1 \in T
  <2>1. Decimal[i + 1] \in Seq(Chars)
    <3>1. CASE i + 1 < 10
      <4>1. i + 1 \in 0 .. 9 /\ Decimal[i + 1] = <<Digits[(i + 1) + 1]>>
        <5>1. \A k \in Nat : k < 10 => Decimal[k] = <<Digits[k + 1]>>
          BY <1>5
        <5>2. i + 1 \in Nat
          OBVIOUS
        <5>3. QED
          BY <3>1, <5>1, <5>2
      <4>2. QED
        BY <4>1, OneDigitText
    <3>2. CASE ~(i + 1 < 10)
      <4>1. (i + 1) \div 10 \in 0 .. i /\ (i + 1) % 10 \in 0 .. 9
        BY <3>2, TenParts
      <4>2. Decimal[(i + 1) \div 10] \in Seq(Chars)
        BY <1>7, <4>1
      <4>3. Digits[((i + 1) % 10) + 1] \in Chars
        BY <4>1, DigitFacts
      <4>4. Decimal[i + 1] = Append(Decimal[(i + 1) \div 10], Digits[((i + 1) % 10) + 1])
        <5>1. i + 1 \in Nat
          OBVIOUS
        <5>2. QED
          BY <1>5, <3>2, <5>1
      <4>5. QED
        BY <4>2, <4>3, <4>4, AppendProperties
    <3>3. QED
      BY <3>1, <3>2
  <2>2. \A k \in 0 .. i + 1 : k = i + 1 \/ k \in 0 .. i
    OBVIOUS
  <2>3. QED
    BY <1>7, <2>1, <2>2
<1>8. Nat \subseteq T
  <2> HIDE DEF T
  <2>1. QED
    BY <1>6, <1>7, SetInduction
<1>9. n \in T /\ n \in 0 .. n
  BY <1>8
<1>10. QED
  BY <1>5, <1>9

-----------------------------------------------------------------------------
(***************************************************************************)
(* What std::stoul makes of digits, digit by digit.                        *)
(***************************************************************************)

ValueOf(s) == FoldLeft(LAMBDA n, character : 10 * n + DigitValue(character), 0, s)

\* A text of digits.
AreDigits(s) == s \in Seq(Chars) /\ \A i \in 1 .. Len(s) : IsDigit(s[i])

\* What std::stoul does with the digit at a position, to the value so far.
Steps(s) == [vp \in Nat \X (1 .. Len(s)) |-> 10 * vp[1] + DigitValue(s[vp[2]])]

\* What FoldLeft computes on the way to the value of s.
Reads(fold, s) ==
    fold = [d \in SUBSET DOMAIN s |->
                IF d = {} THEN 0 ELSE 10 * fold[d \ {Max(d)}] + DigitValue(s[Max(d)])]

\* Each digit takes a number to a number.
LEMMA StepsType ==
    ASSUME NEW s, AreDigits(s)
    PROVE  /\ Len(s) \in Nat /\ DOMAIN s = 1 .. Len(s)
           /\ Steps(s) \in [Nat \X (1 .. Len(s)) -> Nat]
           /\ \A v \in Nat, i \in 1 .. Len(s) : /\ DigitValue(s[i]) \in 0 .. 9
                                                /\ Steps(s)[<<v, i>>] = 10 * v + DigitValue(s[i])
<1> DEFINE n == Len(s)
<1>1. n \in Nat /\ DOMAIN s = 1 .. n
  BY LenProperties DEF AreDigits
<1>2. \A i \in 1 .. n : DigitValue(s[i]) \in 0 .. 9
  BY DigitFacts DEF AreDigits
<1> DEFINE D == [i \in 1 .. n |-> DigitValue(s[i])]
<1> HIDE DEF n
<1>3. \A v \in Nat, i \in 1 .. n : D[i] \in 0 .. 9 /\ 10 * v + D[i] \in Nat /\ D[i] = DigitValue(s[i])
  <2>1. ASSUME NEW v \in Nat, NEW i \in 1 .. n
        PROVE  D[i] \in 0 .. 9 /\ 10 * v + D[i] \in Nat /\ D[i] = DigitValue(s[i])
    <3>1. D[i] \in 0 .. 9 /\ D[i] = DigitValue(s[i])
      BY <1>2
    <3> HIDE DEF D
    <3>2. QED
      BY <3>1
  <2>2. QED
    BY <2>1
<1>4. \A v \in Nat, i \in 1 .. n : 10 * v + DigitValue(s[i]) \in Nat
  BY <1>3
<1>5. Steps(s) = [vp \in Nat \X (1 .. n) |-> 10 * vp[1] + DigitValue(s[vp[2]])]
  BY DEF Steps, n
<1>6. Steps(s) \in [Nat \X (1 .. n) -> Nat]
  BY <1>4, <1>5
<1>7. \A v \in Nat, i \in 1 .. n : Steps(s)[<<v, i>>] = 10 * v + DigitValue(s[i])
  BY <1>5
<1>8. QED
  BY <1>1, <1>2, <1>6, <1>7 DEF n

\* The value of a text is the fold of its steps over all positions.
LEMMA ValueDef ==
    ASSUME NEW s, AreDigits(s)
    PROVE  \E fold : FoldsAll(fold, Len(s), Nat, 0, Steps(s)) /\ ValueOf(s) = fold[1 .. Len(s)]
<1> DEFINE n == Len(s)
           F == Steps(s)
<1>1. /\ n \in Nat /\ DOMAIN s = 1 .. n /\ F \in [Nat \X (1 .. n) -> Nat]
      /\ \A v \in Nat, i \in 1 .. n : F[<<v, i>>] = 10 * v + DigitValue(s[i])
  BY StepsType
<1> HIDE DEF n, F
<1>2. PICK fold : FoldsAll(fold, n, Nat, 0, F)
  BY <1>1, FoldExists
<1>3. Reads(fold, s)
  <2>1. ASSUME NEW d \in SUBSET (1 .. n), d # {}
        PROVE  fold[d] = 10 * fold[d \ {Max(d)}] + DigitValue(s[Max(d)])
    <3>1. Max(d) \in 1 .. n /\ d \ {Max(d)} \in SUBSET (1 .. n)
      BY <1>1, <2>1, MaxIsLast
    <3>2. fold[d \ {Max(d)}] \in Nat
      BY <1>2, <3>1 DEF FoldsAll
    <3>3. fold[d] = F[<<fold[d \ {Max(d)}], Max(d)>>]
      BY <1>2, <2>1 DEF FoldsAll
    <3>4. QED
      BY <1>1, <3>1, <3>2, <3>3
  <2>2. \A d \in SUBSET (1 .. n) :
            fold[d] = IF d = {} THEN 0 ELSE 10 * fold[d \ {Max(d)}] + DigitValue(s[Max(d)])
    BY <1>2, <2>1 DEF FoldsAll
  <2>3. fold = [d \in SUBSET (1 .. n) |->
                    IF d = {} THEN 0 ELSE 10 * fold[d \ {Max(d)}] + DigitValue(s[Max(d)])]
    BY <1>2, <2>2 DEF FoldsAll
  <2>4. QED
    BY <1>1, <2>3 DEF Reads
<1> DEFINE it == CHOOSE f : Reads(f, s)
<1>4. Reads(it, s)
  BY <1>3
<1>5. ValueOf(s) = it[DOMAIN s]
  BY DEF ValueOf, FoldLeft, MapThenFoldSet, Reads
<1> HIDE DEF it
<1>6. \A d \in SUBSET (1 .. n) :
          it[d] = IF d = {} THEN 0 ELSE 10 * it[d \ {Max(d)}] + DigitValue(s[Max(d)])
  BY <1>1, <1>4 DEF Reads
<1>6a. it[{}] \in Nat
  <2>1. {} \in SUBSET (1 .. n) /\ \A d \in SUBSET (1 .. n) : d = {} => it[d] = 0
    BY <1>6
  <2>2. QED
    BY <2>1
<1> DEFINE T == {k \in Nat : \A d \in SUBSET (1 .. k) : d \in SUBSET (1 .. n) => it[d] \in Nat}
<1>7. 0 \in T
  <2>1. \A d \in SUBSET (1 .. 0) : d = {}
    OBVIOUS
  <2>2. QED
    BY <1>6a, <2>1
<1>8. ASSUME NEW k \in Nat, k \in T PROVE k + 1 \in T
  <2> SUFFICES ASSUME NEW d \in SUBSET (1 .. k + 1), d \in SUBSET (1 .. n) PROVE it[d] \in Nat
    OBVIOUS
  <2>1. CASE d = {}
    BY <1>6a, <2>1
  <2>2. CASE d # {}
    <3>1. Max(d) \in d /\ \A j \in d : j <= Max(d)
      BY <1>1, <2>2, MaxIsLast
    <3> DEFINE x == Max(d)
               rest == d \ {x}
    <3> HIDE DEF x
    <3>2. x \in 1 .. n /\ x \in 1 .. k + 1 /\ \A j \in d : j <= x
      BY <3>1 DEF x
    <3>3. rest \in SUBSET (1 .. n) /\ rest \in SUBSET (1 .. k)
      BY <3>2
    <3>4. it[rest] \in Nat
      BY <1>8, <3>3
    <3>5. DigitValue(s[x]) \in 0 .. 9
      BY <3>2, StepsType DEF n
    <3>6. it[d] = 10 * it[rest] + DigitValue(s[x])
      BY <1>6, <2>2 DEF x
    <3> HIDE DEF rest
    <3> DEFINE v == it[rest]
               w == DigitValue(s[x])
    <3>7. v \in Nat /\ w \in 0 .. 9 /\ it[d] = 10 * v + w
      BY <3>4, <3>5, <3>6
    <3> HIDE DEF v, w
    <3>8. QED
      BY <3>7
  <2>3. QED
    BY <2>1, <2>2
<1>9. Nat \subseteq T
  <2> HIDE DEF T
  <2>1. QED
    BY <1>7, <1>8, SetInduction
<1>10. \A d \in SUBSET (1 .. n) : it[d] \in Nat
  BY <1>1, <1>9
<1>11. it = [d \in SUBSET (1 .. n) |-> it[d]]
  BY <1>1, <1>4 DEF Reads
<1>12. it \in [SUBSET (1 .. n) -> Nat]
  BY <1>10, <1>11
<1>13. ASSUME NEW d \in SUBSET (1 .. n)
       PROVE  it[d] = IF d = {} THEN 0 ELSE F[<<it[d \ {Max(d)}], Max(d)>>]
  <2>1. CASE d = {}
    BY <1>6, <2>1
  <2>2. CASE d # {}
    <3>1. Max(d) \in 1 .. n /\ d \ {Max(d)} \in SUBSET (1 .. n)
      BY <1>1, <2>2, MaxIsLast
    <3>2. it[d \ {Max(d)}] \in Nat
      BY <1>10, <3>1
    <3>3. it[d] = 10 * it[d \ {Max(d)}] + DigitValue(s[Max(d)])
      BY <1>6, <2>2
    <3>4. QED
      BY <1>1, <2>2, <3>1, <3>2, <3>3
  <2>3. QED
    BY <2>1, <2>2
<1>14. FoldsAll(it, n, Nat, 0, F)
  BY <1>12, <1>13 DEF FoldsAll
<1>15. QED
  BY <1>1, <1>5, <1>14 DEF n, F

LEMMA ValueOfEmpty == ValueOf(<<>>) = 0
<1> DEFINE s == <<>>
<1>1. AreDigits(s) /\ Len(s) = 0
  BY EmptySeq DEF AreDigits
<1> HIDE DEF s
<1>2. PICK fold : FoldsAll(fold, Len(s), Nat, 0, Steps(s)) /\ ValueOf(s) = fold[1 .. Len(s)]
  BY <1>1, ValueDef
<1>3. fold[1 .. 0] = 0
  <2>1. 1 .. 0 = {} /\ 1 .. 0 \in SUBSET (1 .. Len(s))
    OBVIOUS
  <2>2. QED
    BY <1>2, <2>1 DEF FoldsAll
<1>4. QED
  BY <1>1, <1>2, <1>3 DEF s

\* One more digit at the end.
LEMMA ValueOfAppend ==
    ASSUME NEW s, AreDigits(s), NEW c, IsDigit(c), c \in Chars
    PROVE  AreDigits(Append(s, c)) /\ ValueOf(Append(s, c)) = 10 * ValueOf(s) + DigitValue(c)
           /\ ValueOf(s) \in Nat
<1> DEFINE n == Len(s)
           t == Append(s, c)
<1>1. /\ n \in Nat /\ t \in Seq(Chars) /\ Len(t) = n + 1
      /\ \A i \in 1 .. n : t[i] = s[i]
      /\ t[n + 1] = c
  BY AppendProperties, LenProperties DEF AreDigits
<1> HIDE DEF t
<1>2. AreDigits(t)
  <2>1. \A i \in 1 .. n : IsDigit(s[i])
    BY DEF AreDigits
  <2> HIDE DEF n
  <2>2. \A i \in 1 .. n + 1 : i \in 1 .. n \/ i = n + 1
    BY <1>1
  <2>3. QED
    BY <1>1, <2>1, <2>2 DEF AreDigits
<1>3. PICK f : FoldsAll(f, n, Nat, 0, Steps(s)) /\ ValueOf(s) = f[1 .. n]
  BY ValueDef
<1>4. PICK g : FoldsAll(g, n + 1, Nat, 0, Steps(t)) /\ ValueOf(t) = g[1 .. n + 1]
  BY <1>1, <1>2, ValueDef
<1>5. /\ Steps(s) \in [Nat \X (1 .. n) -> Nat]
      /\ \A v \in Nat, i \in 1 .. n : Steps(s)[<<v, i>>] = 10 * v + DigitValue(s[i])
  BY StepsType
<1>6. /\ Steps(t) \in [Nat \X (1 .. n + 1) -> Nat]
      /\ \A v \in Nat, i \in 1 .. n + 1 : Steps(t)[<<v, i>>] = 10 * v + DigitValue(t[i])
  BY <1>1, <1>2, StepsType
<1> HIDE DEF n
<1>7. \A v \in Nat, i \in 1 .. n : Steps(s)[<<v, i>>] = Steps(t)[<<v, i>>]
  <2>1. \A i \in 1 .. n : i \in 1 .. n + 1
    BY <1>1
  <2>2. QED
    BY <1>1, <1>5, <1>6, <2>1
<1>8. f[1 .. n] = g[1 .. n]
  <2>0. n + 1 \in Nat /\ n <= n /\ n <= n + 1 /\ 0 \in Nat
    BY <1>1
  <2>1. /\ Steps(s) \in [Nat \X (1 .. n) -> Nat] /\ FoldsAll(f, n, Nat, 0, Steps(s))
        /\ Steps(t) \in [Nat \X (1 .. n + 1) -> Nat] /\ FoldsAll(g, n + 1, Nat, 0, Steps(t))
        /\ \A v \in Nat, i \in 1 .. n : Steps(s)[<<v, i>>] = Steps(t)[<<v, i>>]
    BY <1>3, <1>4, <1>5, <1>6, <1>7
  <2> DEFINE m == n + 1
             F == Steps(s)
             G == Steps(t)
  <2>1a. /\ m \in Nat /\ n <= m /\ F \in [Nat \X (1 .. n) -> Nat] /\ FoldsAll(f, n, Nat, 0, F)
         /\ G \in [Nat \X (1 .. m) -> Nat] /\ FoldsAll(g, m, Nat, 0, G)
         /\ SameSteps(F, G, n, Nat)
    BY <2>0, <2>1 DEF SameSteps
  <2> HIDE DEF m, F, G
  <2>2. SameUpTo(f, g, n)
    BY ONLY <1>1, <2>0, <2>1a, PrefixFoldsAgree
  <2>3. QED
    BY <2>2 DEF SameUpTo
<1>9. g[1 .. n + 1] = Steps(t)[<<g[1 .. n], n + 1>>] /\ f[1 .. n] \in Nat
  <2>1. n \in 0 .. (n + 1) - 1 /\ n \in 0 .. n /\ n + 1 \in Nat /\ 0 \in Nat
    BY <1>1
  <2>2. FoldsAll(g, n + 1, Nat, 0, Steps(t)) /\ FoldsAll(f, n, Nat, 0, Steps(s))
    BY <1>3, <1>4
  <2>3. ByPrefix(g, n + 1, Nat, 0, Steps(t))
    BY ONLY <1>6, <2>1, <2>2, PrefixFolds
  <2>4. ByPrefix(f, n, Nat, 0, Steps(s))
    BY ONLY <1>1, <1>5, <2>1, <2>2, PrefixFolds
  <2>5. QED
    BY <2>1, <2>3, <2>4 DEF ByPrefix
<1>10. Steps(t)[<<f[1 .. n], n + 1>>] = 10 * f[1 .. n] + DigitValue(c)
  <2>1. n + 1 \in 1 .. n + 1
    BY <1>1
  <2>2. QED
    BY <1>1, <1>6, <1>9, <2>1
<1>11. QED
  BY <1>2, <1>3, <1>4, <1>8, <1>9, <1>10 DEF t

-----------------------------------------------------------------------------
(***************************************************************************)
(* Concatenations, parts, and the number a text begins with.               *)
(***************************************************************************)

\* Texts one behind the other, ...
LEMMA Joins ==
    ASSUME NEW s \in Seq(Chars), NEW t \in Seq(Chars)
    PROVE  /\ s \o t \in Seq(Chars) /\ Len(s) \in Nat /\ Len(t) \in Nat
           /\ Len(s \o t) = Len(s) + Len(t)
           /\ \A i \in 1 .. Len(s) : (s \o t)[i] = s[i]
           /\ \A i \in 1 .. Len(t) : (s \o t)[Len(s) + i] = t[i]
<1> DEFINE both == s \o t
           n == Len(s)
           m == Len(t)
<1>1. /\ both \in Seq(Chars) /\ n \in Nat /\ m \in Nat /\ Len(both) = n + m
      /\ \A i \in 1 .. n + m : both[i] = IF i <= n THEN s[i] ELSE t[i - n]
  BY ConcatProperties, LenProperties
<1> HIDE DEF both, n, m
<1>2. \A i \in 1 .. n : i \in 1 .. n + m /\ i <= n
  BY <1>1
<1>3. \A i \in 1 .. m : n + i \in 1 .. n + m /\ ~(n + i <= n) /\ (n + i) - n = i
  BY <1>1
<1>4. \A i \in 1 .. n : both[i] = s[i]
  BY <1>1, <1>2
<1>5. \A i \in 1 .. m : both[n + i] = t[i]
  BY <1>1, <1>3
<1>6. QED
  BY <1>1, <1>4, <1>5 DEF both, n, m

\* ... and a part of one.
LEMMA Parts ==
    ASSUME NEW s \in Seq(Chars), NEW i \in Nat, NEW j \in Nat, 1 <= i, i <= j + 1, j <= Len(s)
    PROVE  /\ SubSeq(s, i, j) \in Seq(Chars) /\ Len(SubSeq(s, i, j)) = (j - i) + 1
           /\ \A k \in 1 .. (j - i) + 1 : SubSeq(s, i, j)[k] = s[(i + k) - 1]
<1>1. Len(s) \in Nat /\ \A k \in 1 .. Len(s) : s[k] \in Chars
  BY LenProperties, ElementOfSeq
<1> DEFINE n == Len(s)
<1>2. n \in Nat /\ j <= n /\ \A k \in 1 .. n : s[k] \in Chars
  BY <1>1
<1> HIDE DEF n
<1>3. i \in Int /\ j \in Int /\ \A k \in i .. j : k \in 1 .. n
  BY <1>2
<1>4. \A k \in i .. j : s[k] \in Chars
  BY <1>2, <1>3
<1>5. /\ SubSeq(s, i, j) \in Seq(Chars)
      /\ Len(SubSeq(s, i, j)) = IF i <= j THEN j - i + 1 ELSE 0
      /\ \A k \in 1 .. j - i + 1 : SubSeq(s, i, j)[k] = s[i + k - 1]
  BY <1>3, <1>4, SubSeqProperties
<1>6. (IF i <= j THEN j - i + 1 ELSE 0) = (j - i) + 1
  OBVIOUS
<1>7. QED
  BY <1>5, <1>6

\* A number ends where its digits do.
LEMMA NumberReads ==
    ASSUME NEW digits, AreDigits(digits), NEW rest \in Seq(Chars),
           rest = <<>> \/ ~IsDigit(rest[1])
    PROVE  Number(digits \o rest) = ValueOf(digits)
<1> DEFINE text == digits \o rest
           n == Len(digits)
           m == Len(rest)
           stops == {i \in 1 .. Len(text) : ~IsDigit(text[i])}
           ends == stops \cup {Len(text) + 1}
<1>1. /\ text \in Seq(Chars) /\ n \in Nat /\ m \in Nat /\ Len(text) = n + m
      /\ \A i \in 1 .. n : text[i] = digits[i]
      /\ \A i \in 1 .. m : text[n + i] = rest[i]
      /\ digits \in Seq(Chars)
  BY Joins DEF AreDigits
<1>2. \A i \in 1 .. n : IsDigit(digits[i])
  BY DEF AreDigits
<1>3. m = 0 \/ (m >= 1 /\ ~IsDigit(rest[1]))
  <2>1. rest = <<>> => m = 0
    BY EmptySeq
  <2> HIDE DEF m
  <2>2. QED
    BY <1>1, <2>1
<1> DEFINE c == rest[1]
<1> HIDE DEF n, m, text
<1>4. \A i \in stops : n + 1 <= i
  <2>1. ASSUME NEW i \in stops PROVE n + 1 <= i
    <3>1. i \in 1 .. n + m /\ ~IsDigit(text[i])
      BY <1>1
    <3>2. i \notin 1 .. n
      BY <1>1, <1>2, <3>1
    <3>3. QED
      BY <1>1, <3>1, <3>2
  <2>2. QED
    BY <2>1
<1>5. n + 1 \in ends
  <2>1. CASE m = 0
    BY <1>1, <2>1
  <2>2. CASE m >= 1 /\ ~IsDigit(rest[1])
    <3>1. 1 \in 1 .. m /\ n + 1 \in 1 .. n + m
      BY <1>1, <2>2
    <3>2. QED
      BY <1>1, <2>2, <3>1
  <2>3. QED
    BY <1>3, <2>1, <2>2
<1>6. \A e \in ends : (\A i \in stops : e <= i) => e = n + 1
  <2>1. ASSUME NEW e \in ends, \A i \in stops : e <= i PROVE e = n + 1
    <3>1. CASE n + 1 \in stops
      <4>1. e <= n + 1 /\ n + 1 <= e /\ e \in Nat
        <5>1. e \in stops \/ e = n + m + 1
          BY <1>1
        <5>2. n + 1 <= n + m + 1 /\ n + m + 1 \in Nat
          BY <1>1
        <5>3. stops \subseteq Nat
          OBVIOUS
        <5>4. QED
          BY <1>4, <2>1, <3>1, <5>1, <5>2, <5>3
      <4>2. QED
        BY <1>1, <4>1
    <3>2. CASE n + 1 \notin stops
      <4>1. n + 1 = n + m + 1 /\ m = 0
        BY <1>1, <1>5, <3>2
      <4>2. \A i \in stops : FALSE
        BY <1>1, <1>4, <4>1
      <4>3. QED
        BY <1>1, <4>1, <4>2
    <3>3. QED
      BY <3>1, <3>2
  <2>2. QED
    BY <2>1
<1> DEFINE end == CHOOSE e \in ends : \A i \in stops : e <= i
<1>7. end = n + 1
  <2> HIDE DEF stops, ends
  <2>1. end \in ends /\ \A i \in stops : end <= i
    BY <1>4, <1>5
  <2> HIDE DEF end
  <2>2. QED
    BY <1>6, <2>1
<1>8. SubSeq(text, 1, end - 1) = digits
  <2> HIDE DEF end
  <2>1. end - 1 = n
    BY <1>1, <1>7
  <2>2. 1 \in Nat /\ 1 <= 1 /\ 1 <= n + 1 /\ n <= n + m /\ (n - 1) + 1 = n
        /\ \A k \in 1 .. n : (1 + k) - 1 = k
    BY <1>1
  <2>3. /\ SubSeq(text, 1, n) \in Seq(Chars) /\ Len(SubSeq(text, 1, n)) = n
        /\ \A k \in 1 .. n : SubSeq(text, 1, n)[k] = text[k]
    BY <1>1, <2>2, Parts
  <2>4. SubSeq(text, 1, n) = digits
    BY <1>1, <2>3, SeqEqual DEF n
  <2>5. QED
    BY <2>1, <2>4
<1>9. Number(text) = FoldLeft(LAMBDA v, character : 10 * v + DigitValue(character), 0,
                              SubSeq(text, 1, end - 1))
  BY DEF Number, DigitValue
<1>10. Number(text) = ValueOf(digits)
  BY <1>8, <1>9 DEF ValueOf
<1>11. QED
  BY <1>10 DEF text

-----------------------------------------------------------------------------
(***************************************************************************)
(* std::to_string and std::stoul.                                          *)
(***************************************************************************)

\* The digits of n, of which each beginning is a number's digits too.
WellWritten(n) ==
    /\ AreDigits(Decimal[n]) /\ ValueOf(Decimal[n]) = n
    /\ Len(Decimal[n]) \in Nat \ {0}
    /\ \A j \in 1 .. Len(Decimal[n]) : \E p \in Nat : SubSeq(Decimal[n], 1, j) = Decimal[p]

LEMMA OneDigitWritten == \A n \in 0 .. 9 : WellWritten(n)
<1> SUFFICES ASSUME NEW n \in 0 .. 9 PROVE WellWritten(n)
  OBVIOUS
<1> DEFINE c == Digits[n + 1]
<1>1. Decimal[n] = <<c>>
  <2>1. n \in Nat /\ n < 10
    OBVIOUS
  <2>2. QED
    BY <2>1, DecimalDef
<1>2. c \in Chars /\ IsDigit(c) /\ DigitValue(c) = n
  BY DigitFacts
<1> HIDE DEF c
<1> DEFINE e == <<>>
<1>3. AreDigits(e) /\ Append(e, c) = <<c>> /\ ValueOf(e) = 0
  <2>1. AreDigits(<<>>)
    BY EmptySeq DEF AreDigits
  <2>2. Append(<<>>, c) = <<c>>
    OBVIOUS
  <2>3. QED
    BY <2>1, <2>2, ValueOfEmpty
<1> HIDE DEF e
<1>4. AreDigits(Append(e, c)) /\ ValueOf(Append(e, c)) = 10 * ValueOf(e) + DigitValue(c)
  BY <1>2, <1>3, ValueOfAppend
<1>5. AreDigits(<<c>>) /\ ValueOf(<<c>>) = n
  BY <1>2, <1>3, <1>4
<1>6. /\ AreDigits(Decimal[n]) /\ ValueOf(Decimal[n]) = n /\ Len(Decimal[n]) = 1
      /\ Decimal[n] \in Seq(Chars)
  <2>1. Len(<<c>>) = 1
    OBVIOUS
  <2>2. QED
    BY <1>1, <1>5, <2>1 DEF AreDigits
<1>7. SubSeq(Decimal[n], 1, 1) = Decimal[n]
  BY <1>6, SubSeqFull
<1>8. \A j \in 1 .. 1 : j = 1
  OBVIOUS
<1>9. QED
  BY <1>6, <1>7, <1>8 DEF WellWritten

\* A number of several digits is that of all but the last, and the last.
LEMMA LongerWritten ==
    ASSUME NEW n \in Nat, n >= 10, WellWritten(n \div 10)
    PROVE  WellWritten(n)
<1> DEFINE d == n \div 10
           r == n % 10
           s == Decimal[d]
           c == Digits[r + 1]
           t == Decimal[n]
<1>1. d \in Nat /\ r \in 0 .. 9 /\ n = 10 * d + r
  BY TenParts
<1>2. t = Append(s, c)
  <2>1. ~(n < 10)
    OBVIOUS
  <2>2. Decimal[n] = IF n < 10 THEN <<Digits[n + 1]>>
                     ELSE Append(Decimal[n \div 10], Digits[(n % 10) + 1])
    BY DecimalDef
  <2>3. QED
    BY <2>1, <2>2
<1>3. /\ AreDigits(s) /\ ValueOf(s) = d /\ Len(s) \in Nat \ {0}
      /\ \A j \in 1 .. Len(s) : \E p \in Nat : SubSeq(s, 1, j) = Decimal[p]
  BY DEF WellWritten
<1> HIDE DEF d, r
<1>4. c \in Chars /\ IsDigit(c) /\ DigitValue(c) = r
  BY <1>1, DigitFacts
<1> HIDE DEF s, c, t
<1>5. AreDigits(t) /\ ValueOf(t) = 10 * ValueOf(s) + DigitValue(c)
  BY <1>2, <1>3, <1>4, ValueOfAppend
<1>6. ValueOf(t) = n
  BY <1>1, <1>3, <1>4, <1>5
<1>7. s \in Seq(Chars) /\ t \in Seq(Chars)
  BY <1>3, <1>5 DEF AreDigits
<1>8. Len(t) = Len(s) + 1 /\ \A i \in 1 .. Len(s) : t[i] = s[i]
  BY <1>2, <1>4, <1>7, AppendProperties
<1> DEFINE m == Len(s)
<1>9. m \in Nat \ {0} /\ Len(t) = m + 1 /\ \A i \in 1 .. m : t[i] = s[i]
  BY <1>3, <1>8
<1>10. ASSUME NEW j \in 1 .. Len(t) PROVE \E p \in Nat : SubSeq(t, 1, j) = Decimal[p]
  <2>1. CASE j = Len(t)
    <3>1. SubSeq(t, 1, j) = Decimal[n]
      BY <1>7, <2>1, SubSeqFull DEF t
    <3>2. QED
      BY <3>1
  <2>2. CASE j # Len(t)
    <3> HIDE DEF m
    <3>1. j \in 1 .. m /\ j \in Nat
      BY <1>9, <2>2
    <3>2. /\ 1 \in Nat /\ 1 <= 1 /\ 1 <= j + 1 /\ j <= m /\ j <= Len(t) /\ (j - 1) + 1 = j
          /\ \A k \in 1 .. j : (1 + k) - 1 = k /\ k \in 1 .. m
      BY <1>9, <3>1
    <3> DEFINE u == SubSeq(t, 1, j)
               v == SubSeq(s, 1, j)
    <3>3. u \in Seq(Chars) /\ Len(u) = j /\ \A k \in 1 .. j : u[k] = t[k]
      BY <1>7, <3>1, <3>2, Parts
    <3>4. v \in Seq(Chars) /\ Len(v) = j /\ \A k \in 1 .. j : v[k] = s[k]
      BY <1>7, <3>1, <3>2, Parts DEF m
    <3> HIDE DEF u, v
    <3>5. u = v
      BY <1>9, <3>2, <3>3, <3>4, SeqEqual
    <3>6. QED
      BY <1>3, <3>1, <3>5 DEF u, v, m
  <2>3. QED
    BY <2>1, <2>2
<1>11. Len(t) \in Nat \ {0}
  <2> HIDE DEF m
  <2>1. QED
    BY <1>9
<1>12. QED
  BY <1>5, <1>6, <1>10, <1>11 DEF WellWritten, t

\* std::to_string and std::stoul agree.
LEMMA DecimalWritten == \A n \in Nat : WellWritten(n)
<1> DEFINE T == {i \in Nat : \A k \in 0 .. i : WellWritten(k)}
<1>1. 0 \in T
  <2>1. \A k \in 0 .. 0 : k \in 0 .. 9
    OBVIOUS
  <2>2. QED
    BY <2>1, OneDigitWritten
<1>2. ASSUME NEW i \in Nat, i \in T PROVE i + 1 \in T
  <2>1. WellWritten(i + 1)
    <3>1. CASE i + 1 < 10
      <4>1. i + 1 \in 0 .. 9
        BY <3>1
      <4>2. QED
        BY <4>1, OneDigitWritten
    <3>2. CASE ~(i + 1 < 10)
      <4> DEFINE k == i + 1
      <4>1. k \in Nat /\ k >= 10
        BY <3>2
      <4> HIDE DEF k
      <4>2. k \div 10 \in 1 .. k - 1
        BY <4>1, TenParts
      <4>3. k \div 10 \in 0 .. i
        BY <4>2 DEF k
      <4>4. WellWritten(k \div 10)
        BY <1>2, <4>3
      <4>5. WellWritten(k)
        BY <4>1, <4>4, LongerWritten
      <4>6. QED
        BY <4>5 DEF k
    <3>3. QED
      BY <3>1, <3>2
  <2>2. \A k \in 0 .. i + 1 : k = i + 1 \/ k \in 0 .. i
    OBVIOUS
  <2>3. QED
    BY <1>2, <2>1, <2>2
<1>3. Nat \subseteq T
  <2> HIDE DEF T
  <2>1. QED
    BY <1>1, <1>2, SetInduction
<1>4. \A n \in Nat : n \in 0 .. n
  OBVIOUS
<1>5. QED
  BY <1>3, <1>4

-----------------------------------------------------------------------------
(***************************************************************************)
(* SplitString.                                                            *)
(***************************************************************************)

\* The positions of the delimiter c in s.
CutsOf(s, c) == {i \in DOMAIN s : s[i] = c}

\* SplitString gives the texts between one cut and the next.
LEMMA SplitFacts ==
    ASSUME NEW s \in Seq(Chars), NEW c
    PROVE  /\ Len(s) \in Nat /\ CutsOf(s, c) \in SUBSET (1 .. Len(s))
           /\ Cardinality(CutsOf(s, c)) \in Nat
           /\ Len(SplitString(s, c)) = Cardinality(CutsOf(s, c)) + 1
           /\ \A k \in 1 .. Cardinality(CutsOf(s, c)) + 1 :
                  SplitString(s, c)[k] =
                      SubSeq(s, Nth(CutsOf(s, c), k - 1) + 1,
                             IF k = Cardinality(CutsOf(s, c)) + 1 THEN Len(s)
                             ELSE Nth(CutsOf(s, c), k) - 1)
<1> DEFINE cuts == CutsOf(s, c)
           m == Cardinality(cuts)
           part(k) == SubSeq(s, Nth(cuts, k - 1) + 1,
                             IF k = m + 1 THEN Len(s) ELSE Nth(cuts, k) - 1)
<1>1. Len(s) \in Nat /\ cuts \in SUBSET (1 .. Len(s))
  BY LenProperties DEF CutsOf
<1>2. m \in Nat
  BY <1>1, NthProperties
<1>3. SplitString(s, c) = [k \in 1 .. m + 1 |-> part(k)]
  BY DEF SplitString, CutsOf
<1> HIDE DEF part, m, cuts
<1>4. Len(SplitString(s, c)) = m + 1 /\ \A k \in 1 .. m + 1 : SplitString(s, c)[k] = part(k)
  BY <1>2, <1>3
<1>5. QED
  BY <1>1, <1>2, <1>4 DEF part, m, cuts

\* The first text ends at the first delimiter, ...
LEMMA FirstField ==
    ASSUME NEW s \in Seq(Chars), NEW c, NEW p \in 1 .. Len(s), s[p] = c,
           \A i \in 1 .. p - 1 : s[i] # c
    PROVE  SplitString(s, c)[1] = SubSeq(s, 1, p - 1)
<1> DEFINE cuts == CutsOf(s, c)
           m == Cardinality(cuts)
           n == Len(s)
<1>1. n \in Nat /\ cuts \in SUBSET (1 .. n) /\ m \in Nat
      /\ \A k \in 1 .. m + 1 :
             SplitString(s, c)[k] = SubSeq(s, Nth(cuts, k - 1) + 1,
                                           IF k = m + 1 THEN Len(s) ELSE Nth(cuts, k) - 1)
  BY SplitFacts
<1>2. p \in cuts /\ \A j \in cuts : j \in 1 .. n /\ ~(j < p)
  <2>1. DOMAIN s = 1 .. n /\ n \in Nat
    BY LenProperties
  <2>2. p \in 1 .. n
    OBVIOUS
  <2> HIDE DEF n
  <2>3. \A j \in 1 .. n : j < p => j \in 1 .. p - 1
    BY <2>1, <2>2
  <2>4. QED
    BY <2>1, <2>2, <2>3 DEF CutsOf
<1> HIDE DEF cuts, m, n
<1>3. /\ Nth(cuts, 0) = 0
      /\ \A k \in 1 .. m : /\ Nth(cuts, k) \in cuts
                           /\ \A j \in cuts : ~(Nth(cuts, k - 1) < j /\ j < Nth(cuts, k))
      /\ \A j \in cuts : j <= Nth(cuts, m)
  BY <1>1, NthProperties DEF m
<1>4. m # 0
  <2>1. p <= Nth(cuts, m) /\ p \in 1 .. n
    BY <1>2, <1>3
  <2>2. QED
    BY <1>1, <1>3, <2>1
<1>5. Nth(cuts, 1) = p
  <2> DEFINE q == Nth(cuts, 1)
  <2>1. 1 \in 1 .. m /\ 1 - 1 = 0
    BY <1>1, <1>4
  <2>2. q \in cuts /\ ~(Nth(cuts, 0) < p /\ p < q)
    BY <1>2, <1>3, <2>1
  <2> HIDE DEF q
  <2>3. q \in 1 .. n /\ p \in 1 .. n /\ ~(q < p) /\ ~(0 < p /\ p < q)
    BY <1>2, <1>3, <2>2
  <2>4. q = p
    BY <1>1, <2>3
  <2>5. QED
    BY <2>4 DEF q
<1>6. 1 \in 1 .. m + 1 /\ 1 # m + 1 /\ 1 - 1 = 0 /\ 0 + 1 = 1
  BY <1>1, <1>4
<1>7. SplitString(s, c)[1] = SubSeq(s, Nth(cuts, 1 - 1) + 1,
                                    IF 1 = m + 1 THEN Len(s) ELSE Nth(cuts, 1) - 1)
  BY <1>1, <1>6
<1>8. QED
  BY <1>3, <1>5, <1>6, <1>7

\* ... the last one begins behind the last delimiter.
LEMMA LastField ==
    ASSUME NEW s \in Seq(Chars), NEW c, NEW p \in 1 .. Len(s), s[p] = c,
           \A i \in p + 1 .. Len(s) : s[i] # c
    PROVE  SplitString(s, c)[Len(SplitString(s, c))] = SubSeq(s, p + 1, Len(s))
<1> DEFINE cuts == CutsOf(s, c)
           m == Cardinality(cuts)
           n == Len(s)
<1>1. n \in Nat /\ cuts \in SUBSET (1 .. n) /\ m \in Nat /\ Len(SplitString(s, c)) = m + 1
      /\ \A k \in 1 .. m + 1 :
             SplitString(s, c)[k] = SubSeq(s, Nth(cuts, k - 1) + 1,
                                           IF k = m + 1 THEN Len(s) ELSE Nth(cuts, k) - 1)
  BY SplitFacts
<1>2. p \in cuts /\ \A j \in cuts : j \in 1 .. n /\ ~(p < j)
  <2>1. DOMAIN s = 1 .. n /\ n \in Nat
    BY LenProperties
  <2>2. p \in 1 .. n
    OBVIOUS
  <2>3. \A i \in p + 1 .. n : s[i] # c
    OBVIOUS
  <2> HIDE DEF n
  <2>4. \A j \in 1 .. n : p < j => j \in p + 1 .. n
    BY <2>1, <2>2
  <2>5. QED
    BY <2>1, <2>2, <2>3, <2>4 DEF CutsOf
<1> HIDE DEF cuts, m, n
<1>3. /\ Nth(cuts, 0) = 0
      /\ \A k \in 1 .. m : Nth(cuts, k) \in cuts
      /\ \A j \in cuts : j <= Nth(cuts, m)
  BY <1>1, NthProperties DEF m
<1>4. m # 0
  <2>1. p <= Nth(cuts, m) /\ p \in 1 .. n
    BY <1>2, <1>3
  <2>2. QED
    BY <1>1, <1>3, <2>1
<1>5. Nth(cuts, m) = p
  <2> DEFINE q == Nth(cuts, m)
  <2>1. m \in 1 .. m
    BY <1>1, <1>4
  <2>2. q \in cuts /\ p <= q
    BY <1>2, <1>3, <2>1
  <2> HIDE DEF q
  <2>3. q \in 1 .. n /\ p \in 1 .. n /\ p <= q /\ ~(p < q)
    BY <1>2, <2>2
  <2>4. q = p
    BY <1>1, <2>3
  <2>5. QED
    BY <2>4 DEF q
<1>6. m + 1 \in 1 .. m + 1 /\ (m + 1) - 1 = m
  BY <1>1
<1>7. SplitString(s, c)[m + 1] = SubSeq(s, Nth(cuts, (m + 1) - 1) + 1, Len(s))
  BY <1>1, <1>6
<1>8. QED
  BY <1>1, <1>5, <1>6, <1>7

\* Two texts: one cut.
LEMMA OneCut ==
    ASSUME NEW s \in Seq(Chars), NEW c, NEW p \in 1 .. Len(s), s[p] = c,
           Len(SplitString(s, c)) = 2
    PROVE  \A i \in 1 .. Len(s) : i # p => s[i] # c
<1> DEFINE cuts == CutsOf(s, c)
           m == Cardinality(cuts)
           n == Len(s)
<1>1. n \in Nat /\ cuts \in SUBSET (1 .. n) /\ m \in Nat /\ Len(SplitString(s, c)) = m + 1
  BY SplitFacts
<1>2. \A j \in 1 .. n : s[j] = c => j \in cuts
  BY LenProperties DEF CutsOf
<1>3. p \in 1 .. n /\ p \in cuts
  BY <1>2
<1> HIDE DEF cuts, m, n
<1>4. m = 1
  <2>1. m + 1 = 2 /\ m \in Nat
    BY <1>1
  <2>2. QED
    BY ONLY <2>1
<1>5. /\ Nth(cuts, 0) = 0
      /\ \A k \in 1 .. m : /\ Nth(cuts, k) \in cuts
                           /\ \A j \in cuts : ~(Nth(cuts, k - 1) < j /\ j < Nth(cuts, k))
      /\ \A j \in cuts : j <= Nth(cuts, m)
  BY <1>1, NthProperties DEF m
<1> DEFINE q == Nth(cuts, 1)
<1>6. q \in cuts /\ \A j \in cuts : j <= q /\ ~(0 < j /\ j < q)
  <2>1. 1 \in 1 .. m /\ 1 - 1 = 0
    BY <1>4
  <2>2. QED
    BY <1>4, <1>5, <2>1
<1> HIDE DEF q
<1>7. \A j \in cuts : j = q
  BY <1>1, <1>6
<1>8. QED
  BY <1>2, <1>3, <1>7 DEF n

-----------------------------------------------------------------------------
(***************************************************************************)
(* The lines of the sensor.                                                *)
(***************************************************************************)

\* Where the characters of two texts are in their concatenation.
Joined(s, t) ==
    /\ s \o t \in Seq(Chars) /\ Len(s) \in Nat /\ Len(t) \in Nat
    /\ Len(s \o t) = Len(s) + Len(t)
    /\ \A i \in 1 .. Len(s) : (s \o t)[i] = s[i]
    /\ \A i \in 1 .. Len(t) : (s \o t)[Len(s) + i] = t[i]

LEMMA JoinsWell == \A s, t \in Seq(Chars) : Joined(s, t)
BY Joins DEF Joined

\* c is not in s.
Free(s, c) == s \in Seq(Chars) /\ \A i \in 1 .. Len(s) : s[i] # c

LEMMA FreeJoins ==
    ASSUME NEW c, NEW s, NEW t, Free(s, c), Free(t, c)
    PROVE  Free(s \o t, c)
<1> DEFINE n == Len(s)
           m == Len(t)
           both == s \o t
<1>1. /\ both \in Seq(Chars) /\ n \in Nat /\ m \in Nat /\ Len(both) = n + m
      /\ \A i \in 1 .. n : both[i] = s[i]
      /\ \A i \in 1 .. m : both[n + i] = t[i]
  BY Joins DEF Free
<1>2. (\A i \in 1 .. n : s[i] # c) /\ (\A i \in 1 .. m : t[i] # c)
  BY DEF Free
<1> HIDE DEF n, m, both
<1>3. ASSUME NEW i \in 1 .. n + m PROVE both[i] # c
  <2>1. CASE i <= n
    <3>1. i \in 1 .. n
      BY <1>1, <2>1
    <3>2. QED
      BY <1>1, <1>2, <3>1
  <2>2. CASE ~(i <= n)
    <3> DEFINE k == i - n
    <3>1. k \in 1 .. m /\ n + k = i
      BY <1>1, <2>2
    <3> HIDE DEF k
    <3>2. QED
      BY <1>1, <1>2, <3>1
  <2>3. QED
    BY <2>1, <2>2
<1>4. Free(both, c)
  BY <1>1, <1>3 DEF Free
<1>5. QED
  BY <1>4 DEF both

LEMMA DigitsFree ==
    ASSUME NEW n \in Nat, NEW c \in {":", ",", ".", "S", "R", "D", "H"}
    PROVE  Free(Decimal[n], c)
<1>1. AreDigits(Decimal[n]) /\ ~IsDigit(c)
  BY DecimalWritten, DigitFacts DEF WellWritten
<1>2. QED
  BY <1>1 DEF AreDigits, Free

LEMMA PunctuationFacts ==
    /\ <<",">> \in Seq(Chars) /\ Len(<<",">>) = 1 /\ <<",">>[1] = "," /\ Free(<<",">>, ":")
    /\ <<":">> \in Seq(Chars) /\ Len(<<":">>) = 1 /\ <<":">>[1] = ":"
    /\ SomeFloat \in Seq(Chars) /\ Len(SomeFloat) = 4 /\ Free(SomeFloat, ":")
<1>1. "," \in Chars /\ ":" \in Chars
  BY DEF Chars
<1>2. <<",">> \in Seq(Chars) /\ Len(<<",">>) = 1 /\ <<",">>[1] = ","
  <2> DEFINE c == ","
  <2>1. c \in Chars
    BY <1>1
  <2> HIDE DEF c
  <2>2. <<c>> \in Seq(Chars) /\ Len(<<c>>) = 1 /\ <<c>>[1] = c
    BY <2>1, OneElement
  <2>3. QED
    BY <2>2 DEF c
<1>3. <<":">> \in Seq(Chars) /\ Len(<<":">>) = 1 /\ <<":">>[1] = ":"
  <2> DEFINE c == ":"
  <2>1. c \in Chars
    BY <1>1
  <2> HIDE DEF c
  <2>2. <<c>> \in Seq(Chars) /\ Len(<<c>>) = 1 /\ <<c>>[1] = c
    BY <2>1, OneElement
  <2>3. QED
    BY <2>2 DEF c
<1>4. /\ SomeFloat[1] = "2" /\ SomeFloat[2] = "." /\ SomeFloat[3] = "5" /\ SomeFloat[4] = "0"
      /\ Len(SomeFloat) = 4 /\ SomeFloat \in Seq({"2", ".", "5", "0"})
  BY DEF SomeFloat
<1>5. {"2", ".", "5", "0"} \subseteq Chars
  BY DEF Chars
<1>6. SomeFloat \in Seq(Chars)
  BY <1>4, <1>5, SeqMonotonic
<1>7. \A i \in 1 .. 4 : i = 1 \/ i = 2 \/ i = 3 \/ i = 4
  OBVIOUS
<1>8. \A i \in 1 .. 4 : SomeFloat[i] # ":"
  BY <1>4, <1>7
<1>9. \A i \in 1 .. 1 : i = 1
  OBVIOUS
<1> HIDE DEF SomeFloat
<1>10. Free(SomeFloat, ":")
  BY <1>4, <1>6, <1>8 DEF Free
<1>11. Free(<<",">>, ":")
  BY <1>2, <1>9 DEF Free
<1>12. QED
  BY <1>2, <1>3, <1>4, <1>6, <1>10, <1>11

\* The two tags.
LEMMA TagFacts ==
    /\ DOMAIN Tags = {"new", "old"}
    /\ \A tag \in DOMAIN Tags : /\ Tags[tag] \in Seq(Chars) /\ Len(Tags[tag]) = 3
                                /\ Tags[tag][1] = "S" /\ Tags[tag][2] = "R"
                                /\ Tags[tag][3] # "S" /\ Tags[tag][3] # ":"
    /\ Tags["new"] # Tags["old"]
<1>1. DOMAIN Tags = {"new", "old"} /\ Tags["new"] = <<"S", "R", "D">>
      /\ Tags["old"] = <<"S", "R", "H">>
  BY DEF Tags
<1>2. "S" \in Chars /\ "R" \in Chars /\ "D" \in Chars /\ "H" \in Chars
  BY DEF Chars
<1>3. <<"S", "R", "D">> \in Seq(Chars) /\ <<"S", "R", "H">> \in Seq(Chars)
  BY <1>2
<1>4. /\ <<"S", "R", "D">>[1] = "S" /\ <<"S", "R", "D">>[2] = "R" /\ <<"S", "R", "D">>[3] = "D"
      /\ <<"S", "R", "H">>[1] = "S" /\ <<"S", "R", "H">>[2] = "R" /\ <<"S", "R", "H">>[3] = "H"
      /\ Len(<<"S", "R", "D">>) = 3 /\ Len(<<"S", "R", "H">>) = 3
  OBVIOUS
<1>5. <<"S", "R", "D">> # <<"S", "R", "H">>
  BY <1>4
<1>6. ASSUME NEW tag \in DOMAIN Tags
      PROVE  /\ Tags[tag] \in Seq(Chars) /\ Len(Tags[tag]) = 3
             /\ Tags[tag][1] = "S" /\ Tags[tag][2] = "R"
             /\ Tags[tag][3] # "S" /\ Tags[tag][3] # ":"
  <2>1. CASE tag = "new"
    <3>1. Tags[tag] = <<"S", "R", "D">>
      BY <1>1, <2>1
    <3> DEFINE t == <<"S", "R", "D">>
    <3>2. /\ t \in Seq(Chars) /\ Len(t) = 3 /\ t[1] = "S" /\ t[2] = "R" /\ t[3] # "S"
          /\ t[3] # ":"
      BY <1>3, <1>4
    <3>3. QED
      BY <3>1, <3>2
  <2>2. CASE tag = "old"
    <3>1. Tags[tag] = <<"S", "R", "H">>
      BY <1>1, <2>2
    <3> DEFINE t == <<"S", "R", "H">>
    <3>2. /\ t \in Seq(Chars) /\ Len(t) = 3 /\ t[1] = "S" /\ t[2] = "R" /\ t[3] # "S"
          /\ t[3] # ":"
      BY <1>3, <1>4
    <3>3. QED
      BY <3>1, <3>2
  <2>3. QED
    BY <1>1, <2>1, <2>2
<1>7. QED
  BY <1>1, <1>5, <1>6

\* What a data text is made of: where the first and the last comma are.
Shape(data, x, y) ==
    /\ data \in Seq(Chars) /\ Len(data) = Len(x) + 11 + Len(y) /\ Free(data, ":")
    /\ \A i \in 1 .. Len(x) : data[i] = x[i]
    /\ data[Len(x) + 1] = ","
    /\ data[Len(x) + 11] = ","
    /\ \A i \in 1 .. Len(y) : data[Len(x) + 11 + i] = y[i]

\* What a line is written from.
IsReading(r) == r.stamp \in Nat /\ r.co2 \in Nat

\* The data of a line.
LEMMA DataShape ==
    ASSUME NEW r, IsReading(r)
    PROVE  Shape(DataText(r), Decimal[r.stamp], Decimal[r.co2])
<1> DEFINE x == Decimal[r.stamp]
           y == Decimal[r.co2]
           comma == <<",">>
           s1 == x \o comma
           s2 == s1 \o SomeFloat
           s3 == s2 \o comma
           s4 == s3 \o SomeFloat
           s5 == s4 \o comma
           s6 == s5 \o y
<1>1. s6 = DataText(r)
  BY DEF DataText
<1>2. Free(x, ":") /\ Free(y, ":")
  BY DigitsFree DEF IsReading
<1>3. /\ comma \in Seq(Chars) /\ Len(comma) = 1 /\ comma[1] = "," /\ Free(comma, ":")
      /\ SomeFloat \in Seq(Chars) /\ Len(SomeFloat) = 4 /\ Free(SomeFloat, ":")
  BY PunctuationFacts
<1> HIDE DEF x, y, comma, s1, s2, s3, s4, s5, s6
<1>4. Free(s1, ":")
  BY <1>2, <1>3, FreeJoins DEF s1
<1>5. Free(s2, ":")
  BY <1>3, <1>4, FreeJoins DEF s2
<1>6. Free(s3, ":")
  BY <1>3, <1>5, FreeJoins DEF s3
<1>7. Free(s4, ":")
  BY <1>3, <1>6, FreeJoins DEF s4
<1>8. Free(s5, ":")
  BY <1>3, <1>7, FreeJoins DEF s5
<1>9. Free(s6, ":")
  BY <1>2, <1>8, FreeJoins DEF s6
<1>10. /\ x \in Seq(Chars) /\ y \in Seq(Chars) /\ s1 \in Seq(Chars) /\ s2 \in Seq(Chars)
       /\ s3 \in Seq(Chars) /\ s4 \in Seq(Chars) /\ s5 \in Seq(Chars) /\ s6 \in Seq(Chars)
  BY <1>2, <1>4, <1>5, <1>6, <1>7, <1>8, <1>9 DEF Free
<1>10j. /\ Joined(x, comma) /\ Joined(s1, SomeFloat) /\ Joined(s2, comma)
        /\ Joined(s3, SomeFloat) /\ Joined(s4, comma) /\ Joined(s5, y)
  BY <1>3, <1>10, JoinsWell
<1> DEFINE a == Len(x)
           b == Len(y)
<1>11. /\ a \in Nat /\ Len(s1) = a + 1
       /\ \A i \in 1 .. a : s1[i] = x[i]
       /\ \A i \in 1 .. 1 : s1[a + i] = comma[i]
  BY <1>3, <1>10j DEF s1, Joined
<1>12. Len(s2) = Len(s1) + 4 /\ \A i \in 1 .. Len(s1) : s2[i] = s1[i]
  BY <1>3, <1>10j DEF s2, Joined
<1>13. Len(s3) = Len(s2) + 1 /\ \A i \in 1 .. Len(s2) : s3[i] = s2[i]
  BY <1>3, <1>10j DEF s3, Joined
<1>14. Len(s4) = Len(s3) + 4 /\ \A i \in 1 .. Len(s3) : s4[i] = s3[i]
  BY <1>3, <1>10j DEF s4, Joined
<1>15. /\ Len(s5) = Len(s4) + 1
       /\ \A i \in 1 .. Len(s4) : s5[i] = s4[i]
       /\ \A i \in 1 .. 1 : s5[Len(s4) + i] = comma[i]
  BY <1>3, <1>10j DEF s5, Joined
<1>16. /\ b \in Nat /\ Len(s6) = Len(s5) + b
       /\ \A i \in 1 .. Len(s5) : s6[i] = s5[i]
       /\ \A i \in 1 .. b : s6[Len(s5) + i] = y[i]
  BY <1>10j DEF s6, Joined
<1> HIDE DEF a, b
<1>17. /\ Len(s1) = a + 1 /\ Len(s2) = a + 5 /\ Len(s3) = a + 6 /\ Len(s4) = a + 10
       /\ Len(s5) = a + 11 /\ Len(s6) = a + 11 + b
  <2>1. /\ a \in Nat /\ b \in Nat /\ Len(s1) = a + 1 /\ Len(s2) = Len(s1) + 4
        /\ Len(s3) = Len(s2) + 1 /\ Len(s4) = Len(s3) + 4 /\ Len(s5) = Len(s4) + 1
        /\ Len(s6) = Len(s5) + b
    BY <1>11, <1>12, <1>13, <1>14, <1>15, <1>16
  <2>2. QED
    BY ONLY <2>1
<1>18. \A i \in 1 .. a + 1 : /\ i \in 1 .. a + 5 /\ i \in 1 .. a + 6 /\ i \in 1 .. a + 10
                             /\ i \in 1 .. a + 11
  BY <1>11
<1>19. \A i \in 1 .. a + 1 : s6[i] = s1[i]
  BY <1>12, <1>13, <1>14, <1>15, <1>16, <1>17, <1>18
<1>20. 1 \in 1 .. 1 /\ a + 1 \in 1 .. a + 1 /\ a + 11 \in 1 .. a + 11 /\ (a + 10) + 1 = a + 11
       /\ \A i \in 1 .. a : i \in 1 .. a + 1
  BY <1>11
<1>21. s6[a + 1] = ","
  BY <1>3, <1>11, <1>19, <1>20
<1>22. s6[a + 11] = ","
  <2>1. s5[Len(s4) + 1] = ","
    BY <1>3, <1>15, <1>20
  <2>2. s5[a + 11] = ","
    BY <1>17, <1>20, <2>1
  <2>3. QED
    BY <1>16, <1>17, <1>20, <2>2
<1>23. \A i \in 1 .. a : s6[i] = x[i]
  BY <1>11, <1>19, <1>20
<1>24. \A i \in 1 .. b : s6[a + 11 + i] = y[i]
  BY <1>16, <1>17
<1>25. Shape(s6, x, y)
  BY <1>9, <1>10, <1>17, <1>21, <1>22, <1>23, <1>24 DEF Shape, a, b
<1>26. QED
  BY <1>1, <1>25 DEF x, y

\* A number that std::to_string has written, and nothing behind it.
LEMMA NumberOfDecimal ==
    ASSUME NEW n \in Nat
    PROVE  Number(Decimal[n]) = n /\ Decimal[n] \in Seq(Chars) /\ Len(Decimal[n]) \in Nat \ {0}
<1> DEFINE x == Decimal[n]
           none == <<>>
<1>1. AreDigits(x) /\ ValueOf(x) = n /\ Len(x) \in Nat \ {0}
  BY DecimalWritten DEF WellWritten
<1> HIDE DEF x
<1>2. x \in Seq(Chars)
  BY <1>1 DEF AreDigits
<1>3. none \in Seq(Chars) /\ x \o none = x
  BY <1>2, EmptySeq, ConcatEmptySeq
<1>4. none = <<>>
  OBVIOUS
<1> HIDE DEF none
<1>5. Number(x \o none) = ValueOf(x)
  BY <1>1, <1>3, <1>4, NumberReads
<1>6. QED
  BY <1>1, <1>2, <1>3, <1>5 DEF x

\* SplitString makes n texts of s.
Parted(s, c, n) == Len(SplitString(s, c)) = n

\* The first and the last of the fields are what they were written from.
LEMMA FieldsRead ==
    ASSUME NEW r, IsReading(r), Parted(DataText(r), ",", 4)
    PROVE  /\ Number(SplitString(DataText(r), ",")[1]) = r.stamp
           /\ Number(SplitString(DataText(r), ",")[4]) = r.co2
<1> DEFINE x == Decimal[r.stamp]
           y == Decimal[r.co2]
           data == DataText(r)
           c == ","
<1>1. /\ x \in Seq(Chars) /\ Number(x) = r.stamp /\ y \in Seq(Chars) /\ Number(y) = r.co2
      /\ Len(x) \in Nat \ {0} /\ Len(y) \in Nat \ {0}
  BY NumberOfDecimal DEF IsReading
<1>2. Free(x, c) /\ Free(y, c)
  BY DigitsFree DEF IsReading
<1>3. Shape(data, x, y) /\ Parted(data, c, 4)
  BY DataShape
<1>4. c = ","
  OBVIOUS
<1> HIDE DEF x, y, data, c
<1> DEFINE a == Len(x)
           b == Len(y)
<1>5. /\ data \in Seq(Chars) /\ Len(data) = a + 11 + b
      /\ \A i \in 1 .. a : data[i] = x[i]
      /\ data[a + 1] = c /\ data[a + 11] = c
      /\ \A i \in 1 .. b : data[a + 11 + i] = y[i]
  BY <1>3, <1>4 DEF Shape
<1>6. (\A i \in 1 .. a : x[i] # c) /\ (\A i \in 1 .. b : y[i] # c)
  BY <1>2 DEF Free
<1>7. a \in Nat \ {0} /\ b \in Nat \ {0}
  BY <1>1
<1> HIDE DEF a, b
<1> DEFINE n == Len(data)
<1>8. n = a + 11 + b /\ n \in Nat
  <2>1. n = a + 11 + b
    BY <1>5
  <2> HIDE DEF n
  <2>2. QED
    BY ONLY <1>7, <2>1
<1> HIDE DEF n
<1>9. SplitString(data, c)[1] = x
  <2> DEFINE p == a + 1
             f == SubSeq(data, 1, p - 1)
  <2>1. p \in 1 .. n /\ p - 1 = a /\ p \in Nat
    BY ONLY <1>7, <1>8
  <2>2. data[p] = c /\ \A i \in 1 .. p - 1 : data[i] # c
    BY <1>5, <1>6, <2>1
  <2>3. f \in Seq(Chars) /\ Len(f) = a /\ \A k \in 1 .. a : f[k] = data[k]
    <3>1. /\ 1 \in Nat /\ a \in Nat /\ 1 <= 1 /\ 1 <= a + 1 /\ a <= n /\ (a - 1) + 1 = a
          /\ \A k \in 1 .. a : (1 + k) - 1 = k
      BY ONLY <1>7, <1>8
    <3>2. /\ SubSeq(data, 1, a) \in Seq(Chars) /\ Len(SubSeq(data, 1, a)) = (a - 1) + 1
          /\ \A k \in 1 .. (a - 1) + 1 : SubSeq(data, 1, a)[k] = data[(1 + k) - 1]
      BY <1>5, <3>1, Parts DEF n
    <3>3. QED
      BY <2>1, <3>1, <3>2
  <2> HIDE DEF p, f
  <2>4. f = x
    BY <1>1, <1>5, <2>3, SeqEqual DEF a
  <2>5. SplitString(data, c)[1] = SubSeq(data, 1, p - 1)
    <3>1. data \in Seq(Chars)
      BY <1>5
    <3>2. p \in 1 .. Len(data)
      BY <2>1 DEF n
    <3>3. data[p] = c
      BY <2>2
    <3>4. \A i \in 1 .. p - 1 : data[i] # c
      BY <2>2
    <3>5. QED
      BY ONLY <3>1, <3>2, <3>3, <3>4, FirstField
  <2>6. QED
    BY <2>4, <2>5 DEF f
<1>10. SplitString(data, c)[4] = y
  <2> DEFINE p == a + 11
             f == SubSeq(data, p + 1, n)
  <2>1. p \in 1 .. n /\ p \in Nat /\ n = p + b
    BY ONLY <1>7, <1>8
  <2>2. data[p] = c /\ \A i \in p + 1 .. n : data[i] # c
    <3>1. ASSUME NEW i \in p + 1 .. n PROVE data[i] # c
      <4> DEFINE k == i - p
      <4>1. k \in 1 .. b /\ a + 11 + k = i
        BY ONLY <1>7, <1>8, <2>1
      <4> HIDE DEF k
      <4>2. data[a + 11 + k] = y[k] /\ y[k] # c
        BY <1>5, <1>6, <4>1
      <4>3. QED
        BY <4>1, <4>2
    <3>2. QED
      BY <1>5, <3>1
  <2>3. f \in Seq(Chars) /\ Len(f) = b /\ \A k \in 1 .. b : f[k] = data[p + k]
    <3> HIDE DEF p
    <3>1. /\ p + 1 \in Nat /\ n \in Nat /\ 1 <= p + 1 /\ p + 1 <= n + 1 /\ n <= n
          /\ (n - (p + 1)) + 1 = b
          /\ \A k \in 1 .. b : ((p + 1) + k) - 1 = p + k
      BY ONLY <1>7, <1>8, <2>1
    <3>2. /\ f \in Seq(Chars) /\ Len(f) = (n - (p + 1)) + 1
          /\ \A k \in 1 .. (n - (p + 1)) + 1 : f[k] = data[((p + 1) + k) - 1]
      BY <1>5, <3>1, Parts DEF n
    <3>3. QED
      BY <3>1, <3>2
  <2>4. \A k \in 1 .. b : data[p + k] = y[k]
    BY <1>5
  <2> HIDE DEF p, f
  <2>5. f = y
    BY <1>1, <2>3, <2>4, SeqEqual DEF b
  <2>6. SplitString(data, c)[4] = SubSeq(data, p + 1, n)
    <3>1. SplitString(data, c)[Len(SplitString(data, c))] = SubSeq(data, p + 1, n)
      <4>1. data \in Seq(Chars)
        BY <1>5
      <4>2. p \in 1 .. Len(data)
        BY <2>1 DEF n
      <4>3. data[p] = c
        BY <2>2
      <4>4. \A i \in p + 1 .. Len(data) : data[i] # c
        BY <2>2 DEF n
      <4>5. SplitString(data, c)[Len(SplitString(data, c))] = SubSeq(data, p + 1, Len(data))
        BY ONLY <4>1, <4>2, <4>3, <4>4, LastField
      <4>6. QED
        BY <4>5 DEF n
    <3>2. QED
      BY <1>3, <3>1 DEF Parted
  <2>7. QED
    BY <2>5, <2>6 DEF f
<1>11. QED
  BY <1>1, <1>9, <1>10 DEF data, c

\* Its header: a tag of three characters, and the length of the data.
LEMMA HeaderShape ==
    ASSUME NEW tag \in DOMAIN Tags, NEW r, IsReading(r)
    PROVE  /\ Header(tag, r) = Tags[tag] \o Decimal[Len(DataText(r))]
           /\ Len(DataText(r)) \in Nat /\ DataText(r) \in Seq(Chars)
           /\ Header(tag, r) \in Seq(Chars)
           /\ Len(Header(tag, r)) = 3 + Len(Decimal[Len(DataText(r))])
           /\ \A i \in 1 .. 3 : Header(tag, r)[i] = Tags[tag][i]
           /\ \A i \in 1 .. Len(Decimal[Len(DataText(r))]) :
                  Header(tag, r)[3 + i] = Decimal[Len(DataText(r))][i]
<1> DEFINE n == Len(DataText(r))
           x == Decimal[n]
           t == Tags[tag]
<1>1. DataText(r) \in Seq(Chars) /\ n \in Nat
  BY DataShape, LenProperties DEF Shape
<1>2. x \in Seq(Chars)
  BY <1>1, NumberOfDecimal
<1>3. t \in Seq(Chars) /\ Len(t) = 3
  BY TagFacts
<1>4. Header(tag, r) = t \o x
  BY DEF Header
<1> HIDE DEF n, x, t
<1>5. Joined(t, x)
  BY <1>2, <1>3, JoinsWell
<1>6. QED
  BY <1>1, <1>3, <1>4, <1>5 DEF Joined, n, x, t

\* A line: header, colon, data.
LineShape(text, h, d) ==
    /\ h \in Seq(Chars) /\ d \in Seq(Chars) /\ text \in Seq(Chars)
    /\ Len(h) \in Nat /\ Len(d) \in Nat
    /\ Len(text) = Len(h) + 1 + Len(d)
    /\ \A i \in 1 .. Len(h) : text[i] = h[i]
    /\ text[Len(h) + 1] = ":"
    /\ \A i \in 1 .. Len(d) : text[Len(h) + 1 + i] = d[i]

\* What the sensor sends.
LEMMA FormatShape ==
    ASSUME NEW tag \in DOMAIN Tags, NEW r, IsReading(r)
    PROVE  LineShape(FormatDataString(tag, r), Header(tag, r), DataText(r))
<1> DEFINE h == Header(tag, r)
           d == DataText(r)
           colon == <<":">>
           hc == h \o colon
           text == hc \o d
<1>1. h \in Seq(Chars) /\ d \in Seq(Chars) /\ Len(d) \in Nat
  BY HeaderShape
<1>2. colon \in Seq(Chars) /\ Len(colon) = 1 /\ colon[1] = ":"
  BY PunctuationFacts
<1>3. FormatDataString(tag, r) = text
  BY DEF FormatDataString
<1> HIDE DEF h, d, colon
<1>4. Joined(h, colon)
  BY <1>1, <1>2, JoinsWell
<1> HIDE DEF text
<1>5. /\ hc \in Seq(Chars) /\ Len(h) \in Nat /\ Len(hc) = Len(h) + 1
      /\ \A i \in 1 .. Len(h) : hc[i] = h[i]
      /\ \A i \in 1 .. 1 : hc[Len(h) + i] = colon[i]
  BY <1>2, <1>4 DEF Joined
<1> HIDE DEF hc
<1>6. Joined(hc, d)
  BY <1>1, <1>5, JoinsWell
<1>7. /\ text \in Seq(Chars) /\ Len(text) = Len(h) + 1 + Len(d)
      /\ \A i \in 1 .. Len(h) + 1 : text[i] = hc[i]
      /\ \A i \in 1 .. Len(d) : text[Len(h) + 1 + i] = d[i]
  BY <1>5, <1>6 DEF Joined, text
<1>8. 1 \in 1 .. 1 /\ Len(h) + 1 \in 1 .. Len(h) + 1 /\ \A i \in 1 .. Len(h) : i \in 1 .. Len(h) + 1
  BY <1>5
<1>9. text[Len(h) + 1] = ":"
  BY <1>2, <1>5, <1>7, <1>8
<1>10. \A i \in 1 .. Len(h) : text[i] = h[i]
  BY <1>5, <1>7, <1>8
<1>11. LineShape(text, h, d)
  BY <1>1, <1>5, <1>7, <1>9, <1>10 DEF LineShape
<1>12. QED
  BY <1>3, <1>11 DEF h, d

-----------------------------------------------------------------------------
(***************************************************************************)
(* Parse.                                                                  *)
(***************************************************************************)

\* What Parse has found out of a text with a colon at p when it does not fail.
ParsedAt(text, p, h, d) ==
    /\ \A i \in 1 .. Len(text) : i # p => text[i] # ":"
    /\ VerifyTag(h)
    /\ LengthMatches(h, d)
    /\ Len(SplitString(d, ",")) = 4
    /\ Parse(text).tag = CHOOSE tag \in DOMAIN Tags : SubSeq(h, 1, 3) = Tags[tag]
    /\ Parse(text).reading = [stamp |-> Number(SplitString(d, ",")[1]),
                              co2 |-> Number(SplitString(d, ",")[4])]

\* If Parse does not fail, the colon at p is the only one, and every check holds of
\* what is left and right of it.
LEMMA ParseFinds ==
    ASSUME NEW text \in Seq(Chars), NEW p \in 1 .. Len(text), text[p] = ":",
           ~Parse(text).error
    PROVE  ParsedAt(text, p, SubSeq(text, 1, p - 1), SubSeq(text, p + 1, Len(text)))
<1> DEFINE c == ":"
           tokens == SplitString(text, ":")
           h == tokens[1]
           d == tokens[2]
           fields == SplitString(d, ",")
           sound == /\ Len(tokens) = 2
                    /\ VerifyTag(h)
                    /\ LengthMatches(h, d)
                    /\ Len(fields) = 4
                    /\ \A i \in 1 .. 4 : StartsWithDigit(fields[i])
           got == [error |-> FALSE,
                   tag |-> CHOOSE tag \in DOMAIN Tags : SubSeq(h, 1, 3) = Tags[tag],
                   reading |-> [stamp |-> Number(fields[1]), co2 |-> Number(fields[4])]]
<1>1. Parse(text) = IF sound THEN got ELSE ParsingError
  BY DEF Parse
<1>2. ParsingError.error = TRUE
  BY DEF ParsingError
<1>3. sound /\ Parse(text) = got
  <2> HIDE DEF sound, got
  <2>1. QED
    BY <1>1, <1>2
<1>4. Len(SplitString(text, c)) = 2 /\ text[p] = c
  BY <1>3
<1> DEFINE n == Len(text)
<1>5. n \in Nat /\ p \in 1 .. n
  BY LenProperties
<1> HIDE DEF c
<1>6. \A i \in 1 .. n : i # p => text[i] # c
  BY <1>4, OneCut
<1> HIDE DEF n
<1>7. (\A i \in 1 .. p - 1 : text[i] # c) /\ (\A i \in p + 1 .. n : text[i] # c)
  <2>1. \A i \in 1 .. p - 1 : i \in 1 .. n /\ i # p
    BY <1>5
  <2>2. \A i \in p + 1 .. n : i \in 1 .. n /\ i # p
    BY <1>5
  <2>3. QED
    BY <1>6, <2>1, <2>2
<1>8. SplitString(text, c)[1] = SubSeq(text, 1, p - 1)
  BY <1>4, <1>7, FirstField
<1>9. SplitString(text, c)[2] = SubSeq(text, p + 1, Len(text))
  <2>1. SplitString(text, c)[Len(SplitString(text, c))] = SubSeq(text, p + 1, Len(text))
    BY <1>4, <1>7, LastField DEF n
  <2>2. QED
    BY <1>4, <2>1
<1>10. h = SubSeq(text, 1, p - 1) /\ d = SubSeq(text, p + 1, Len(text))
  BY <1>8, <1>9 DEF c
<1>11. ParsedAt(text, p, h, d)
  <2>1. Parse(text).tag = got.tag /\ Parse(text).reading = got.reading
    BY <1>3
  <2>2. \A i \in 1 .. Len(text) : i # p => text[i] # ":"
    BY <1>6 DEF c, n
  <2>3. VerifyTag(h) /\ LengthMatches(h, d) /\ Len(fields) = 4
    BY <1>3
  <2> HIDE DEF h, d, tokens
  <2>4. QED
    BY <2>1, <2>2, <2>3 DEF ParsedAt
<1>12. QED
  BY <1>10, <1>11

-----------------------------------------------------------------------------
(***************************************************************************)
(* A line behind a leftover.                                               *)
(***************************************************************************)

\* left is a beginning of whole.
Begins(left, whole) ==
    /\ left \in Seq(Chars) /\ Len(left) \in 0 .. Len(whole)
    /\ \A i \in 1 .. Len(left) : left[i] = whole[i]

LEMMA BeginsWell ==
    ASSUME NEW whole \in Seq(Chars), NEW n \in 0 .. Len(whole)
    PROVE  Begins(SubSeq(whole, 1, n), whole)
<1> DEFINE left == SubSeq(whole, 1, n)
           m == Len(whole)
<1>1. m \in Nat /\ n \in 0 .. m
  BY LenProperties
<1> HIDE DEF m
<1>2. /\ 1 \in Nat /\ n \in Nat /\ 1 <= 1 /\ 1 <= n + 1 /\ n <= m /\ (n - 1) + 1 = n
      /\ \A k \in 1 .. n : (1 + k) - 1 = k
  BY <1>1
<1>3. left \in Seq(Chars) /\ Len(left) = n /\ \A k \in 1 .. n : left[k] = whole[k]
  <2>1. /\ left \in Seq(Chars) /\ Len(left) = (n - 1) + 1
        /\ \A k \in 1 .. (n - 1) + 1 : left[k] = whole[(1 + k) - 1]
    BY <1>2, Parts DEF m
  <2> HIDE DEF left
  <2>2. QED
    BY <1>2, <2>1
<1> HIDE DEF left
<1>4. Begins(left, whole)
  BY <1>1, <1>3 DEF Begins, m
<1>5. QED
  BY <1>4 DEF left

\* A leftover without a colon is the beginning of a header.
LEMMA LeftInHeader ==
    ASSUME NEW left, NEW text, NEW h, NEW d, Begins(left, text), LineShape(text, h, d),
           Free(left, ":")
    PROVE  Begins(left, h)
<1> DEFINE n == Len(left)
           l == Len(h)
           k == Len(d)
<1>1. /\ left \in Seq(Chars) /\ n \in 0 .. l + 1 + k /\ l \in Nat /\ k \in Nat
      /\ \A i \in 1 .. n : left[i] = text[i]
      /\ \A i \in 1 .. n : left[i] # ":"
      /\ \A i \in 1 .. l : text[i] = h[i]
      /\ text[l + 1] = ":"
  BY DEF Begins, LineShape, Free
<1> HIDE DEF n, l, k
<1>2. n \in 0 .. l
  <2>1. l + 1 \notin 1 .. n
    BY <1>1
  <2>2. QED
    BY <1>1, <2>1
<1>3. \A i \in 1 .. n : i \in 1 .. l
  BY <1>1, <1>2
<1>4. \A i \in 1 .. n : left[i] = h[i]
  BY <1>1, <1>3
<1>5. QED
  BY <1>1, <1>2, <1>4 DEF Begins, n, l

\* Header hd of the text left \o line, the line with header h.
Behind(hd, left, h) ==
    /\ hd \in Seq(Chars) /\ Len(hd) = Len(left) + Len(h)
    /\ \A i \in 1 .. Len(left) : hd[i] = left[i]
    /\ \A i \in 1 .. Len(h) : hd[Len(left) + i] = h[i]

\* A text that passes VerifyTag.
LEMMA TagOf ==
    ASSUME NEW hd \in Seq(Chars), Len(hd) >= 3, VerifyTag(hd)
    PROVE  hd[1] = "S" /\ hd[2] = "R" /\ hd[3] # "S"
<1> DEFINE n == Len(hd)
           t == SubSeq(hd, 1, 3)
<1>1. n \in Nat /\ 3 <= n
  BY LenProperties
<1>2. PICK tag \in DOMAIN Tags : t = Tags[tag]
  BY DEF VerifyTag
<1>3. t[1] = "S" /\ t[2] = "R" /\ t[3] # "S"
  BY <1>2, TagFacts
<1> HIDE DEF n
<1>4. /\ 1 \in Nat /\ 3 \in Nat /\ 1 <= 1 /\ 1 <= 3 + 1 /\ 3 <= n /\ (3 - 1) + 1 = 3
      /\ \A k \in 1 .. 3 : (1 + k) - 1 = k
      /\ 1 \in 1 .. 3 /\ 2 \in 1 .. 3 /\ 3 \in 1 .. 3
  BY <1>1
<1>5. \A k \in 1 .. 3 : t[k] = hd[k]
  <2>1. \A k \in 1 .. (3 - 1) + 1 : t[k] = hd[(1 + k) - 1]
    BY <1>4, Parts DEF n
  <2> HIDE DEF t
  <2>2. QED
    BY <1>4, <2>1
<1> HIDE DEF t
<1>6. QED
  BY <1>3, <1>4, <1>5

\* What comes behind a leftover: a header, or other leftovers and a header.
StartsWithS(h) == h \in Seq(Chars) /\ Len(h) >= 3 /\ h[1] = "S"

\* A header that starts with a shorter leftover has no tag or no length.
LEMMA ShortLeftover ==
    ASSUME NEW hd, NEW left, NEW h, NEW g, Behind(hd, left, h), StartsWithS(h),
           NEW tag1 \in DOMAIN Tags, NEW r1, IsReading(r1), g = Header(tag1, r1), Begins(left, g),
           VerifyTag(hd), NEW d, LengthMatches(hd, d)
    PROVE  Len(left) = 0 \/ Len(left) > 3
<1> DEFINE n == Len(left)
           l == Len(h)
           k == Len(g)
<1>1. /\ l \in Nat /\ l >= 3 /\ k \in Nat /\ h[1] = "S"
      /\ g[1] = "S" /\ g[2] = "R" /\ g[3] # "S"
  <2>1. 1 \in 1 .. 3 /\ 2 \in 1 .. 3 /\ 3 \in 1 .. 3
    OBVIOUS
  <2>2. g[1] = "S" /\ g[2] = "R" /\ g[3] # "S"
    BY <2>1, HeaderShape, TagFacts
  <2>3. k \in Nat
    BY HeaderShape, LenProperties
  <2>4. l \in Nat /\ l >= 3 /\ h[1] = "S"
    BY LenProperties DEF StartsWithS
  <2>5. QED
    BY <2>2, <2>3, <2>4
<1>2. /\ hd \in Seq(Chars) /\ Len(hd) = n + l /\ n \in 0 .. k
      /\ \A i \in 1 .. n : hd[i] = g[i]
      /\ \A i \in 1 .. l : hd[n + i] = h[i]
  BY DEF Behind, Begins
<1> HIDE DEF n, l, k
<1>3. Len(hd) >= 3
  BY ONLY <1>1, <1>2
<1>4. hd[1] = "S" /\ hd[2] = "R" /\ hd[3] # "S"
  BY <1>2, <1>3, TagOf
<1>5. 1 \in 1 .. l /\ 2 \in 1 .. l
  BY ONLY <1>1
<1>6. n # 1
  <2>1. n = 1 => hd[1 + 1] = h[1]
    BY <1>2, <1>5
  <2>2. QED
    BY <1>1, <1>4, <2>1
<1>7. n # 2
  <2>1. n = 2 => hd[2 + 1] = h[1]
    BY <1>2, <1>5
  <2>2. QED
    BY <1>1, <1>4, <2>1
<1>8. n # 3
  <2> SUFFICES ASSUME n = 3 PROVE FALSE
    OBVIOUS
  <2> DEFINE length == SubSeq(hd, 4, Len(hd))
             m == Len(hd)
  <2>1. IsDigit(length[1])
    BY DEF LengthMatches, StartsWithDigit
  <2>2. m = 3 + l
    BY <1>2
  <2> HIDE DEF m
  <2>3. /\ 4 \in Nat /\ m \in Nat /\ 1 <= 4 /\ 4 <= m + 1 /\ m <= m /\ 1 \in 1 .. (m - 4) + 1
        /\ (4 + 1) - 1 = 3 + 1
    BY ONLY <1>1, <2>2
  <2>4. length[1] = hd[(4 + 1) - 1]
    BY <1>2, <2>3, Parts DEF m
  <2>5. hd[3 + 1] = h[1]
    BY <1>2, <1>5
  <2> HIDE DEF length
  <2>6. IsDigit("S")
    BY <1>1, <2>1, <2>3, <2>4, <2>5
  <2>7. QED
    BY <2>6, DigitFacts
<1>9. QED
  <2>1. n \in Nat
    BY <1>1, <1>2
  <2>2. n = 0 \/ n > 3
    BY ONLY <1>6, <1>7, <1>8, <2>1
  <2>3. QED
    BY <2>2 DEF n

\* s is a text and then another one.
LEMMA IsJoin ==
    ASSUME NEW s \in Seq(Chars), NEW x \in Seq(Chars), NEW y \in Seq(Chars),
           Len(s) = Len(x) + Len(y),
           \A i \in 1 .. Len(x) : s[i] = x[i],
           \A i \in 1 .. Len(y) : s[Len(x) + i] = y[i]
    PROVE  s = x \o y
<1> DEFINE both == x \o y
           n == Len(x)
           m == Len(y)
<1>1. /\ both \in Seq(Chars) /\ Len(both) = n + m /\ n \in Nat /\ m \in Nat
      /\ \A i \in 1 .. n : both[i] = x[i]
      /\ \A i \in 1 .. m : both[n + i] = y[i]
  BY Joins
<1>2. Len(s) = n + m /\ (\A i \in 1 .. n : s[i] = x[i]) /\ (\A i \in 1 .. m : s[n + i] = y[i])
  OBVIOUS
<1> HIDE DEF both, n, m
<1>3. ASSUME NEW i \in 1 .. n + m PROVE s[i] = both[i]
  <2>1. CASE i <= n
    <3>1. i \in 1 .. n
      BY ONLY <1>1, <2>1, i \in 1 .. n + m
    <3>2. QED
      BY <1>1, <1>2, <3>1
  <2>2. CASE ~(i <= n)
    <3> DEFINE k == i - n
    <3>1. k \in 1 .. m /\ n + k = i
      BY ONLY <1>1, <2>2, i \in 1 .. n + m
    <3> HIDE DEF k
    <3>2. s[n + k] = both[n + k]
      BY <1>1, <1>2, <3>1
    <3>3. QED
      BY <3>1, <3>2
  <2>3. QED
    BY <2>1, <2>2
<1>4. s = both
  BY <1>1, <1>2, <1>3, SeqEqual
<1>5. QED
  BY <1>4 DEF both

\* Of a longer leftover the length is read, up to the tag that follows: it is
\* the length of the line's data only if the whole header would have been the
\* same.
LEMMA LongLeftover ==
    ASSUME NEW hd, NEW left, NEW h, NEW g, NEW r, IsReading(r),
           Behind(hd, left, h), StartsWithS(h),
           NEW tag1 \in DOMAIN Tags, NEW r1, IsReading(r1), g = Header(tag1, r1), Begins(left, g),
           Len(left) > 3, LengthMatches(hd, DataText(r))
    PROVE  left = Header(tag1, r)
<1> DEFINE n == Len(left)
           l == Len(h)
           x == Decimal[Len(DataText(r1))]
           k == Len(x)
           t == Tags[tag1]
           d == DataText(r)
           length == SubSeq(hd, 4, Len(hd))
           m == Len(hd)
<1>1. /\ h \in Seq(Chars) /\ h[1] = "S" /\ d \in Seq(Chars)
      /\ Len(d) \in Nat /\ t \in Seq(Chars) /\ Len(t) = 3
  BY HeaderShape, TagFacts DEF StartsWithS
<1>2. l \in Nat /\ l >= 1
  <2>1. l \in Nat /\ l >= 3
    BY LenProperties DEF StartsWithS
  <2> HIDE DEF l
  <2>2. QED
    BY ONLY <2>1
<1>3. /\ k \in Nat /\ Len(g) = 3 + k /\ x \in Seq(Chars)
      /\ \A i \in 1 .. 3 : g[i] = t[i]
      /\ \A i \in 1 .. k : g[3 + i] = x[i]
      /\ WellWritten(Len(DataText(r1)))
  <2>1. Len(DataText(r1)) \in Nat
    BY HeaderShape
  <2>2. k \in Nat /\ x \in Seq(Chars) /\ WellWritten(Len(DataText(r1)))
    BY <2>1, NumberOfDecimal, DecimalWritten
  <2>3. /\ Len(g) = 3 + k /\ \A i \in 1 .. 3 : g[i] = t[i]
        /\ \A i \in 1 .. k : g[3 + i] = x[i]
    BY HeaderShape
  <2>4. QED
    BY <2>2, <2>3
<1>4. /\ left \in Seq(Chars) /\ hd \in Seq(Chars) /\ m = n + l /\ n \in 0 .. Len(g) /\ n > 3
      /\ \A i \in 1 .. n : left[i] = g[i]
      /\ \A i \in 1 .. n : hd[i] = left[i]
      /\ \A i \in 1 .. l : hd[n + i] = h[i]
  BY DEF Behind, Begins
<1>5. Number(length) = Len(d) /\ length = SubSeq(hd, 4, m)
  BY DEF LengthMatches
<1> HIDE DEF n, l, k, t, d, length, m
<1> DEFINE j == n - 3
<1>6. /\ j \in 1 .. k /\ j \in Nat /\ n = 3 + j /\ m = 3 + j + l /\ m \in Nat
      /\ \A i \in 1 .. 3 : i \in 1 .. n
      /\ \A i \in 1 .. j : 3 + i \in 1 .. n /\ i \in 1 .. k
  <2>1. n \in 0 .. 3 + k /\ n > 3 /\ m = n + l
    BY <1>3, <1>4
  <2>2. k \in Nat /\ l \in Nat
    BY <1>2, <1>3
  <2>3. QED
    BY ONLY <2>1, <2>2
<1> HIDE DEF j
<1>7. PICK p \in Nat : SubSeq(x, 1, j) = Decimal[p]
  BY <1>3, <1>6 DEF WellWritten, k
<1> HIDE DEF x
<1> DEFINE e == Decimal[p]
<1>8. e \in Seq(Chars) /\ Len(e) = j /\ \A i \in 1 .. j : e[i] = x[i]
  <2>1. /\ 1 \in Nat /\ j \in Nat /\ 1 <= 1 /\ 1 <= j + 1 /\ j <= k /\ (j - 1) + 1 = j
        /\ \A i \in 1 .. j : (1 + i) - 1 = i
    BY ONLY <1>3, <1>6
  <2> DEFINE part == SubSeq(x, 1, j)
  <2>2. /\ part \in Seq(Chars) /\ Len(part) = (j - 1) + 1
        /\ \A i \in 1 .. (j - 1) + 1 : part[i] = x[(1 + i) - 1]
    BY <1>3, <2>1, Parts DEF k
  <2>3. part = e
    BY <1>7
  <2> HIDE DEF part, e
  <2>4. part \in Seq(Chars) /\ Len(part) = j /\ \A i \in 1 .. j : part[i] = x[i]
    BY <2>1, <2>2
  <2>5. QED
    BY <2>3, <2>4
<1>9. AreDigits(e) /\ ValueOf(e) = p
  BY DecimalWritten DEF WellWritten
<1> HIDE DEF e
<1>10. length = e \o h
  <2>1. /\ 4 \in Nat /\ 1 <= 4 /\ 4 <= m + 1 /\ m <= m /\ (m - 4) + 1 = j + l
        /\ \A i \in 1 .. j + l : (4 + i) - 1 = 3 + i
        /\ \A i \in 1 .. j : i \in 1 .. j + l
        /\ \A i \in 1 .. l : j + i \in 1 .. j + l /\ 3 + (j + i) = n + i
    BY ONLY <1>2, <1>6
  <2>2. /\ length \in Seq(Chars) /\ Len(length) = (m - 4) + 1
        /\ \A i \in 1 .. (m - 4) + 1 : length[i] = hd[(4 + i) - 1]
    BY <1>4, <1>5, <1>6, <2>1, Parts DEF m
  <2>3. Len(length) = j + l /\ \A i \in 1 .. j + l : length[i] = hd[3 + i]
    BY <2>1, <2>2
  <2>4. ASSUME NEW i \in 1 .. j PROVE length[i] = e[i]
    <3>1. i \in 1 .. j + l /\ 3 + i \in 1 .. n /\ i \in 1 .. k
      BY <1>6, <2>1
    <3>2. length[i] = hd[3 + i] /\ hd[3 + i] = left[3 + i] /\ left[3 + i] = g[3 + i]
      BY <1>4, <2>3, <3>1
    <3>3. g[3 + i] = x[i] /\ e[i] = x[i]
      BY <1>3, <1>8, <3>1
    <3>4. QED
      BY <3>2, <3>3
  <2>5. \A i \in 1 .. l : length[j + i] = h[i]
    BY <1>4, <2>1, <2>3
  <2>6. QED
    BY <1>1, <1>8, <2>2, <2>3, <2>4, <2>5, IsJoin DEF l
<1>11. Number(e \o h) = ValueOf(e)
  <2>1. ~IsDigit("S")
    BY DigitFacts
  <2>2. QED
    BY <1>1, <1>9, <2>1, NumberReads
<1>12. p = Len(d)
  BY <1>5, <1>9, <1>10, <1>11
<1>13. left = t \o e
  <2>1. Len(left) = Len(t) + Len(e)
    BY <1>1, <1>6, <1>8 DEF n
  <2>2. \A i \in 1 .. 3 : left[i] = t[i]
    BY <1>3, <1>4, <1>6
  <2>3. \A i \in 1 .. j : left[3 + i] = e[i]
    BY <1>3, <1>4, <1>6, <1>8
  <2>4. /\ \A i \in 1 .. Len(t) : left[i] = t[i]
        /\ \A i \in 1 .. Len(e) : left[Len(t) + i] = e[i]
    BY <1>1, <1>8, <2>2, <2>3
  <2>5. QED
    BY <1>1, <1>4, <1>8, <2>1, <2>4, IsJoin
<1>14. t \o e = Header(tag1, r)
  BY <1>12 DEF Header, e, t, d
<1>15. QED
  BY <1>13, <1>14

\* What may come of a line with header h behind the beginning of another one.
Harmless(got, left, tag1, h, r) ==
    /\ got.reading = [stamp |-> r.stamp, co2 |-> r.co2]
    /\ left = <<>> \/ left = Header(tag1, r)
    /\ \A tag \in DOMAIN Tags : left = <<>> /\ h = Header(tag, r) => got.tag = tag

\* The beginning of a line, and what ends with a line: if the two parse, it is to
\* the reading of the latter, and nothing or a header was in front.
LEMMA PieceHarmless ==
    ASSUME NEW tag1 \in DOMAIN Tags, NEW r1, IsReading(r1), NEW r, IsReading(r),
           NEW left, Begins(left, FormatDataString(tag1, r1)),
           NEW line, NEW h, LineShape(line, h, DataText(r)), StartsWithS(h),
           ~Parse(left \o line).error
    PROVE  Harmless(Parse(left \o line), left, tag1, h, r)
<1> DEFINE whole == FormatDataString(tag1, r1)
           d == DataText(r)
           g == Header(tag1, r1)
           text == left \o line
<1>1. LineShape(whole, g, DataText(r1)) /\ LineShape(line, h, d)
  BY FormatShape
<1>2. Begins(left, whole)
  OBVIOUS
<1>3. ~Parse(text).error
  OBVIOUS
<1> HIDE DEF whole, d, g
<1>4. Joined(left, line)
  BY <1>1, <1>2, JoinsWell DEF LineShape, Begins
<1> HIDE DEF text
<1> DEFINE a == Len(left)
           l == Len(h)
           k == Len(d)
           p == a + l + 1
           hd == SubSeq(text, 1, p - 1)
           dt == SubSeq(text, p + 1, Len(text))
           m == Len(text)
<1>5. /\ text \in Seq(Chars) /\ a \in Nat /\ l \in Nat /\ k \in Nat /\ m = a + (l + 1 + k)
      /\ left \in Seq(Chars) /\ h \in Seq(Chars) /\ d \in Seq(Chars)
      /\ \A i \in 1 .. a : text[i] = left[i]
      /\ \A i \in 1 .. l + 1 + k : text[a + i] = line[i]
      /\ \A i \in 1 .. l : line[i] = h[i]
      /\ line[l + 1] = ":"
      /\ \A i \in 1 .. k : line[l + 1 + i] = d[i]
  BY <1>1, <1>2, <1>4 DEF LineShape, Joined, text, Begins
<1> HIDE DEF a, l, k, p, m
<1>6. /\ p \in 1 .. m /\ p \in Nat /\ m \in Nat /\ p - 1 = a + l /\ m = p + k /\ p = a + (l + 1)
      /\ l + 1 \in 1 .. l + 1 + k
      /\ \A i \in 1 .. l : i \in 1 .. l + 1 + k
      /\ \A i \in 1 .. k : l + 1 + i \in 1 .. l + 1 + k /\ a + (l + 1 + i) = p + i
      /\ \A i \in 1 .. a : i \in 1 .. m /\ i # p
  <2>1. a \in Nat /\ l \in Nat /\ k \in Nat /\ m = a + (l + 1 + k)
    BY <1>5
  <2>2. QED
    BY ONLY <2>1 DEF p
<1>7. text[p] = ":"
  <2>1. text[a + (l + 1)] = line[l + 1]
    BY <1>5, <1>6
  <2>2. QED
    BY <1>5, <1>6, <2>1
<1>8. ParsedAt(text, p, hd, dt)
  BY <1>3, <1>5, <1>6, <1>7, ParseFinds DEF m
<1>9. Behind(hd, left, h)
  <2>1. /\ 1 \in Nat /\ p - 1 \in Nat /\ 1 <= 1 /\ 1 <= (p - 1) + 1 /\ p - 1 <= m
        /\ ((p - 1) - 1) + 1 = a + l
        /\ \A i \in 1 .. a + l : (1 + i) - 1 = i
        /\ \A i \in 1 .. a : i \in 1 .. a + l
        /\ \A i \in 1 .. l : a + i \in 1 .. a + l
    <3>1. a \in Nat /\ l \in Nat /\ p \in Nat /\ p - 1 = a + l /\ p \in 1 .. m /\ m \in Nat
      BY <1>5, <1>6
    <3>2. QED
      BY ONLY <3>1
  <2> DEFINE q == p - 1
  <2> HIDE DEF q
  <2>1a. q \in Nat /\ 1 <= q + 1 /\ q <= m /\ hd = SubSeq(text, 1, q) /\ 1 \in Nat /\ 1 <= 1
    BY <2>1 DEF q
  <2> HIDE DEF hd
  <2>1b. /\ SubSeq(text, 1, q) \in Seq(Chars) /\ Len(SubSeq(text, 1, q)) = (q - 1) + 1
         /\ \A i \in 1 .. (q - 1) + 1 : SubSeq(text, 1, q)[i] = text[(1 + i) - 1]
    BY <1>5, <2>1a, Parts DEF m
  <2>2. /\ hd \in Seq(Chars) /\ Len(hd) = ((p - 1) - 1) + 1
        /\ \A i \in 1 .. ((p - 1) - 1) + 1 : hd[i] = text[(1 + i) - 1]
    BY <2>1a, <2>1b DEF q
  <2>3. Len(hd) = a + l /\ \A i \in 1 .. a + l : hd[i] = text[i]
    BY <2>1, <2>2
  <2>4. \A i \in 1 .. a : hd[i] = left[i]
    BY <1>5, <2>1, <2>3
  <2>5. \A i \in 1 .. l : hd[a + i] = h[i]
    BY <1>5, <1>6, <2>1, <2>3
  <2>6. QED
    BY <2>2, <2>3, <2>4, <2>5 DEF Behind, a, l
<1>10. dt = d
  <2>1. /\ p + 1 \in Nat /\ 1 <= p + 1 /\ p + 1 <= m + 1 /\ m <= m /\ (m - (p + 1)) + 1 = k
        /\ \A i \in 1 .. k : ((p + 1) + i) - 1 = p + i
    <3>1. k \in Nat /\ m = p + k /\ p \in Nat /\ m \in Nat
      BY <1>5, <1>6
    <3>2. QED
      BY ONLY <3>1
  <2>2. /\ dt \in Seq(Chars) /\ Len(dt) = (m - (p + 1)) + 1
        /\ \A i \in 1 .. (m - (p + 1)) + 1 : dt[i] = text[((p + 1) + i) - 1]
    BY <1>5, <1>6, <2>1, Parts DEF m
  <2> HIDE DEF dt
  <2>3. Len(dt) = k /\ \A i \in 1 .. k : dt[i] = text[p + i]
    BY <2>1, <2>2
  <2>4. \A i \in 1 .. k : text[p + i] = d[i]
    BY <1>5, <1>6
  <2>5. QED
    BY <1>5, <2>2, <2>3, <2>4, SeqEqual DEF k
<1>11. Free(left, ":")
  <2>1. \A i \in 1 .. m : i # p => text[i] # ":"
    BY <1>8 DEF ParsedAt, m
  <2>2. \A i \in 1 .. a : left[i] # ":"
    BY <1>5, <1>6, <2>1
  <2>3. QED
    BY <1>5, <2>2 DEF Free, a
<1>12. Begins(left, g)
  BY <1>1, <1>2, <1>11, LeftInHeader
<1> HIDE DEF hd, dt
<1>13. /\ VerifyTag(hd) /\ LengthMatches(hd, d) /\ Parted(d, ",", 4)
       /\ Parse(text).tag = CHOOSE t \in DOMAIN Tags : SubSeq(hd, 1, 3) = Tags[t]
       /\ Parse(text).reading = [stamp |-> Number(SplitString(d, ",")[1]),
                                 co2 |-> Number(SplitString(d, ",")[4])]
  BY <1>8, <1>10 DEF ParsedAt, Parted
<1>14. Parse(text).reading = [stamp |-> r.stamp, co2 |-> r.co2]
  <2>1. Number(SplitString(d, ",")[1]) = r.stamp /\ Number(SplitString(d, ",")[4]) = r.co2
    BY <1>13, FieldsRead DEF d
  <2>2. QED
    BY <1>13, <2>1
<1>15. a = 0 \/ a > 3
  BY <1>9, <1>12, <1>13, ShortLeftover DEF a, g
<1>16. \A tag \in DOMAIN Tags : left = <<>> /\ h = Header(tag, r) => Parse(text).tag = tag
  <2> SUFFICES ASSUME NEW tag \in DOMAIN Tags, left = <<>>, h = Header(tag, r)
               PROVE  Parse(text).tag = tag
    OBVIOUS
  <2>1. a = 0
    BY EmptySeq DEF a
  <2> DEFINE s == SubSeq(hd, 1, 3)
             w == Tags[tag]
             q == Len(hd)
  <2>2. w \in Seq(Chars) /\ Len(w) = 3 /\ \A i \in 1 .. 3 : h[i] = w[i]
    BY HeaderShape, TagFacts
  <2>3. hd \in Seq(Chars) /\ q = a + l /\ \A i \in 1 .. l : hd[a + i] = h[i]
    BY <1>9 DEF Behind, a, l
  <2>4. l \in Nat /\ 3 <= l
    BY LenProperties DEF StartsWithS, l
  <2> HIDE DEF q
  <2>5. /\ 1 \in Nat /\ 3 \in Nat /\ 1 <= 1 /\ 1 <= 3 + 1 /\ 3 <= q /\ (3 - 1) + 1 = 3
        /\ \A i \in 1 .. 3 : (1 + i) - 1 = i /\ i \in 1 .. l /\ a + i = i
    <3>1. a = 0 /\ q = a + l /\ l \in Nat /\ 3 <= l
      BY <2>1, <2>3, <2>4
    <3>2. QED
      BY ONLY <3>1
  <2>6. /\ s \in Seq(Chars) /\ Len(s) = (3 - 1) + 1
        /\ \A i \in 1 .. (3 - 1) + 1 : s[i] = hd[(1 + i) - 1]
    BY <2>3, <2>5, Parts DEF q
  <2> HIDE DEF s, w
  <2>7. Len(s) = 3 /\ \A i \in 1 .. 3 : s[i] = hd[i]
    BY <2>5, <2>6
  <2>8. \A i \in 1 .. 3 : s[i] = w[i]
    BY <2>2, <2>3, <2>5, <2>7
  <2>9. s = w
    BY <2>2, <2>6, <2>7, <2>8, SeqEqual
  <2>10. \A t \in DOMAIN Tags : Tags[t] = Tags[tag] => t = tag
    BY TagFacts
  <2>11. Parse(text).tag = CHOOSE t \in DOMAIN Tags : s = Tags[t]
    BY <1>13 DEF s
  <2>12. s = Tags[tag]
    BY <2>9 DEF w
  <2>13. QED
    BY <2>10, <2>11, <2>12
<1>17. left = <<>> \/ left = Header(tag1, r)
  <2>1. CASE a = 0
    <3>1. left = <<>>
      BY <1>5, <2>1, EmptySeq DEF a
    <3>2. QED
      BY <3>1
  <2>2. CASE a > 3
    <3>1. left = Header(tag1, r)
      <4>1. Len(left) > 3
        BY <2>2 DEF a
      <4>2. LengthMatches(hd, DataText(r)) /\ g = Header(tag1, r1)
        BY <1>13 DEF g, d
      <4>3. QED
        BY <1>9, <1>12, <4>1, <4>2, LongLeftover
    <3>2. QED
      BY <3>1
  <2>3. QED
    BY <1>15, <2>1, <2>2
<1>18. Harmless(Parse(text), left, tag1, h, r)
  BY <1>14, <1>16, <1>17 DEF Harmless
<1>19. QED
  BY <1>18 DEF text

-----------------------------------------------------------------------------
(***************************************************************************)
(* The pile of unfinished lines in front of a line.  Of its first piece    *)
(* PieceHarmless tells; the others and the line come behind it, and start  *)
(* with a tag's first letter as a line does.                               *)
(***************************************************************************)

\* A piece, and what other pieces make up.
IsPiece(p) == p # <<>> /\ p[1] = "S" /\ \E m \in Messages : Begins(p, TextOf(m))
Rest(rest) == rest \in Seq(Chars) /\ (rest = <<>> \/ rest[1] = "S")
IsPile(left) == \E p, rest : IsPiece(p) /\ Rest(rest) /\ left = p \o rest

\* A line, as the lemmas above take it.
Sent(m) ==
    /\ m.tag \in DOMAIN Tags /\ IsReading(m.reading)
    /\ m.reading = [stamp |-> m.reading.stamp, co2 |-> m.reading.co2]
    /\ TextOf(m) = FormatDataString(m.tag, m.reading)
    /\ LineShape(TextOf(m), Header(m.tag, m.reading), DataText(m.reading))
    /\ StartsWithS(Header(m.tag, m.reading))

LEMMA MessageIsSent == \A m \in Messages : Sent(m)
<1> SUFFICES ASSUME NEW m \in Messages PROVE Sent(m)
  OBVIOUS
<1> DEFINE tag == m.tag
           r == m.reading
<1>1. tag \in DOMAIN Tags /\ r \in Readings
  BY DEF Messages
<1>2. IsReading(r) /\ r = [stamp |-> r.stamp, co2 |-> r.co2]
  BY <1>1, ReadingsAssumption DEF Readings, IsReading
<1>3. TextOf(m) = FormatDataString(tag, r)
  BY DEF TextOf
<1> HIDE DEF tag, r
<1>4. LineShape(TextOf(m), Header(tag, r), DataText(r))
  BY <1>1, <1>2, <1>3, FormatShape
<1>5. StartsWithS(Header(tag, r))
  <2> DEFINE h == Header(tag, r)
             x == Len(Decimal[Len(DataText(r))])
  <2>1. h \in Seq(Chars) /\ Len(h) = 3 + x /\ h[1] = Tags[tag][1]
    <3>1. 1 \in 1 .. 3
      OBVIOUS
    <3>2. QED
      BY <1>1, <1>2, <3>1, HeaderShape
  <2>2. x \in Nat
    <3>1. Decimal[Len(DataText(r))] \in Seq(Chars)
      BY <1>1, <1>2, HeaderShape, NumberOfDecimal
    <3>2. QED
      BY <3>1, LenProperties
  <2> HIDE DEF h, x
  <2>3. Len(h) >= 3 /\ h[1] = "S"
    BY <1>1, <2>1, <2>2, TagFacts
  <2>4. QED
    BY <2>1, <2>3 DEF StartsWithS, h
<1>6. QED
  BY <1>1, <1>2, <1>3, <1>4, <1>5 DEF Sent, tag, r

LEMMA PiecesAre == \A p \in Pieces : IsPiece(p) /\ p \in Seq(Chars)
<1> SUFFICES ASSUME NEW p \in Pieces PROVE IsPiece(p) /\ p \in Seq(Chars)
  OBVIOUS
<1>1. PICK m \in Messages : p \in {SubSeq(TextOf(m), 1, n) : n \in 1 .. Len(TextOf(m))}
  BY DEF Pieces
<1>2. PICK n \in 1 .. Len(TextOf(m)) : p = SubSeq(TextOf(m), 1, n)
  BY <1>1
<1> DEFINE whole == TextOf(m)
           h == Header(m.tag, m.reading)
           k == Len(whole)
<1>3. LineShape(whole, h, DataText(m.reading)) /\ StartsWithS(h)
  BY MessageIsSent DEF Sent
<1> HIDE DEF whole, h
<1>4. whole \in Seq(Chars) /\ h[1] = "S" /\ Len(h) >= 3 /\ Len(h) \in Nat
      /\ \A i \in 1 .. Len(h) : whole[i] = h[i]
  BY <1>3 DEF LineShape, StartsWithS
<1>5. whole[1] = "S"
  <2>1. 1 \in 1 .. Len(h)
    BY <1>4
  <2>2. QED
    BY <1>4, <2>1
<1>6. n \in 1 .. k /\ k \in Nat /\ p = SubSeq(whole, 1, n)
  BY <1>2, <1>4, LenProperties DEF whole
<1> HIDE DEF k
<1>7. /\ 1 \in Nat /\ n \in Nat /\ 1 <= 1 /\ 1 <= n + 1 /\ n <= k /\ (n - 1) + 1 = n
      /\ n \in 0 .. k /\ 1 \in 1 .. n /\ (1 + 1) - 1 = 1
  BY <1>6
<1>8. p \in Seq(Chars) /\ Len(p) = (n - 1) + 1 /\ \A i \in 1 .. (n - 1) + 1 : p[i] = whole[(1 + i) - 1]
  BY <1>4, <1>6, <1>7, Parts DEF k
<1>9. Begins(p, whole)
  BY <1>4, <1>6, <1>7, BeginsWell DEF k
<1>10. p # <<>> /\ p[1] = "S"
  BY <1>5, <1>7, <1>8, EmptySeq
<1>11. QED
  BY <1>8, <1>9, <1>10 DEF IsPiece, whole

\* Pieces behind pieces.
LEMMA RestGrows ==
    ASSUME NEW rest, Rest(rest), NEW p \in Seq(Chars), p[1] = "S"
    PROVE  Rest(rest \o p)
<1>1. rest \in Seq(Chars)
  BY DEF Rest
<1>2. CASE rest = <<>>
  <2>1. rest \o p = p
    BY <1>2, ConcatEmptySeq
  <2>2. QED
    BY <2>1 DEF Rest
<1>3. CASE rest # <<>>
  <2> DEFINE both == rest \o p
  <2>1. both \in Seq(Chars) /\ Len(rest) \in Nat /\ \A i \in 1 .. Len(rest) : both[i] = rest[i]
    BY <1>1, Joins
  <2>2. Len(rest) # 0 /\ rest[1] = "S"
    BY <1>1, <1>3, EmptySeq DEF Rest
  <2> HIDE DEF both
  <2>3. 1 \in 1 .. Len(rest)
    BY <2>1, <2>2
  <2>4. both \in Seq(Chars) /\ both[1] = "S"
    BY <2>1, <2>2, <2>3
  <2>5. QED
    BY <2>4 DEF Rest, both
<1>4. QED
  BY <1>2, <1>3

\* A line behind pieces: they lengthen its header.
LEMMA PileShape ==
    ASSUME NEW rest, Rest(rest), NEW line, NEW h, NEW d, LineShape(line, h, d), StartsWithS(h)
    PROVE  LineShape(rest \o line, rest \o h, d) /\ StartsWithS(rest \o h)
<1> DEFINE a == Len(rest)
           l == Len(h)
           k == Len(d)
           text == rest \o line
           hd == rest \o h
<1>1. /\ rest \in Seq(Chars) /\ line \in Seq(Chars) /\ h \in Seq(Chars) /\ d \in Seq(Chars)
      /\ l \in Nat /\ k \in Nat /\ Len(line) = (l + 1) + k /\ l >= 3 /\ h[1] = "S"
      /\ \A i \in 1 .. l : line[i] = h[i]
      /\ line[l + 1] = ":"
      /\ \A i \in 1 .. k : line[l + 1 + i] = d[i]
  BY DEF Rest, LineShape, StartsWithS
<1>2. /\ text \in Seq(Chars) /\ a \in Nat /\ Len(text) = a + Len(line)
      /\ \A i \in 1 .. a : text[i] = rest[i]
      /\ \A i \in 1 .. Len(line) : text[a + i] = line[i]
  BY <1>1, Joins
<1>3. /\ hd \in Seq(Chars) /\ Len(hd) = a + l
      /\ \A i \in 1 .. a : hd[i] = rest[i]
      /\ \A i \in 1 .. l : hd[a + i] = h[i]
  BY <1>1, Joins
<1> HIDE DEF a, l, k, text, hd
<1>4. /\ a + l \in Nat /\ a + ((l + 1) + k) = ((a + l) + 1) + k
      /\ l + 1 \in 1 .. (l + 1) + k /\ a + (l + 1) = (a + l) + 1
      /\ \A i \in 1 .. l : i \in 1 .. (l + 1) + k
      /\ \A i \in 1 .. k : (l + 1) + i \in 1 .. (l + 1) + k /\ a + ((l + 1) + i) = ((a + l) + 1) + i
      /\ \A i \in 1 .. a + l : i \in 1 .. a \/ (i - a \in 1 .. l /\ a + (i - a) = i)
      /\ a + l >= 3 /\ 1 \in 1 .. l
      /\ a # 0 => 1 \in 1 .. a
      /\ a = 0 => a + 1 = 1
  <2>1. a \in Nat /\ l \in Nat /\ k \in Nat /\ l >= 3
    BY <1>1, <1>2
  <2>2. QED
    BY ONLY <2>1
<1>5. ASSUME NEW i \in 1 .. a + l PROVE text[i] = hd[i]
  <2>1. CASE i \in 1 .. a
    BY <1>2, <1>3, <2>1
  <2>2. CASE i \notin 1 .. a
    <3> DEFINE j == i - a
    <3>1. j \in 1 .. l /\ a + j = i /\ j \in 1 .. (l + 1) + k
      BY <1>4, <2>2
    <3> HIDE DEF j
    <3>2. text[a + j] = line[j] /\ line[j] = h[j] /\ hd[a + j] = h[j]
      BY <1>1, <1>2, <1>3, <3>1
    <3>3. QED
      BY <3>1, <3>2
  <2>3. QED
    BY <2>1, <2>2
<1>6. text[(a + l) + 1] = ":"
  <2>1. text[a + (l + 1)] = line[l + 1]
    BY <1>1, <1>2, <1>4
  <2>2. QED
    BY <1>1, <1>4, <2>1
<1>7. ASSUME NEW i \in 1 .. k PROVE text[((a + l) + 1) + i] = d[i]
  <2>1. text[a + ((l + 1) + i)] = line[(l + 1) + i]
    BY <1>1, <1>2, <1>4
  <2>2. QED
    BY <1>1, <1>4, <2>1
<1>8. LineShape(text, hd, d)
  <2>1. Len(text) = ((a + l) + 1) + k /\ Len(d) = k
    BY <1>1, <1>2, <1>4 DEF k
  <2>2. QED
    BY <1>1, <1>2, <1>3, <1>4, <1>5, <1>6, <1>7, <2>1 DEF LineShape
<1>9. hd[1] = "S"
  <2>1. CASE a = 0
    <3>1. hd[a + 1] = h[1]
      BY <1>3, <1>4
    <3>2. QED
      BY <1>1, <1>4, <2>1, <3>1
  <2>2. CASE a # 0
    <3>1. rest # <<>>
      BY <2>2, EmptySeq DEF a
    <3>2. rest[1] = "S"
      BY <3>1 DEF Rest
    <3>3. QED
      BY <1>3, <1>4, <2>2, <3>2
  <2>3. QED
    BY <2>1, <2>2
<1>10. StartsWithS(hd)
  BY <1>3, <1>4, <1>9 DEF StartsWithS
<1>11. QED
  BY <1>8, <1>10 DEF text, hd

\* The pieces one behind the other: FlattenSeq builds them up like this.
Flattens(f, pieces) ==
    f = [i \in 1 .. Len(pieces) |-> IF i = 1 THEN pieces[i] ELSE f[i - 1] \o pieces[i]]

LEMMA FlattenExists ==
    ASSUME NEW n \in Nat, NEW pieces \in Seq(Seq(Chars)), Len(pieces) = n
    PROVE  \E f : Flattens(f, pieces)
<1> DEFINE V == Seq(Chars)
           F == [vp \in V \X (1 .. n) |-> vp[1] \o pieces[vp[2]]]
<1>1. \A i \in 1 .. n : pieces[i] \in V
  BY ElementOfSeq
<1>2. F \in [V \X (1 .. n) -> V]
  <2>1. ASSUME NEW v \in V, NEW i \in 1 .. n PROVE v \o pieces[i] \in V
    BY <1>1, ConcatProperties
  <2>2. QED
    BY <2>1
<1>3. <<>> \in V
  OBVIOUS
<1>3a. \A v \in V, i \in 1 .. n : F[<<v, i>>] = v \o pieces[i]
  OBVIOUS
<1> HIDE DEF V, F
<1>4. PICK fold : FoldsAll(fold, n, V, <<>>, F)
  BY <1>2, <1>3, FoldExists
<1>5. ByPrefix(fold, n, V, <<>>, F)
  BY <1>2, <1>3, <1>4, PrefixFolds
<1> DEFINE f == [i \in 1 .. n |-> fold[1 .. i]]
<1>6. ASSUME NEW i \in 1 .. n
      PROVE  fold[1 .. i] = IF i = 1 THEN pieces[i] ELSE f[i - 1] \o pieces[i]
  <2> DEFINE j == i - 1
  <2>1. j \in 0 .. n - 1 /\ j \in 0 .. n /\ j + 1 = i /\ j + 1 \in 1 .. n
        /\ (i # 1 => j \in 1 .. n) /\ (i = 1 => j = 0)
    OBVIOUS
  <2> HIDE DEF j
  <2>2. fold[1 .. j + 1] = F[<<fold[1 .. j], j + 1>>] /\ fold[1 .. j] \in V
    BY <1>5, <2>1 DEF ByPrefix
  <2>3. fold[1 .. i] = fold[1 .. j] \o pieces[i]
    BY <1>3a, <2>1, <2>2
  <2>4. CASE i = 1
    <3>1. fold[1 .. j] = <<>>
      BY <1>5, <2>1, <2>4 DEF ByPrefix
    <3>2. <<>> \o pieces[i] = pieces[i]
      BY <1>1, ConcatEmptySeq DEF V
    <3>3. QED
      BY <2>3, <2>4, <3>1, <3>2
  <2>5. CASE i # 1
    <3>1. f[i - 1] = fold[1 .. j]
      BY <2>1, <2>5 DEF j
    <3>2. QED
      BY <2>3, <2>5, <3>1
  <2>6. QED
    BY <2>4, <2>5
<1>7. Flattens(f, pieces)
  BY <1>6 DEF Flattens
<1>8. QED
  BY <1>7

LEMMA FlattenIsPile ==
    ASSUME NEW n \in Nat \ {0}, NEW pieces \in [1 .. n -> Pieces]
    PROVE  IsPile(FlattenSeq(pieces))
<1>1. pieces \in Seq(Seq(Chars)) /\ Len(pieces) = n
  <2>1. \A i \in 1 .. n : pieces[i] \in Seq(Chars)
    BY PiecesAre
  <2>2. QED
    BY <2>1
<1> DEFINE f == CHOOSE g : Flattens(g, pieces)
<1>2. Flattens(f, pieces)
  BY <1>1, FlattenExists
<1>3. FlattenSeq(pieces) = f[n]
  BY <1>1 DEF FlattenSeq, Flattens
<1> HIDE DEF f
<1>4. \A i \in 1 .. n : f[i] = IF i = 1 THEN pieces[i] ELSE f[i - 1] \o pieces[i]
  BY <1>1, <1>2 DEF Flattens
<1> DEFINE From(i) == \E rest : Rest(rest) /\ f[i] = pieces[1] \o rest
           T == {i \in Nat : i \in 1 .. n => From(i)}
<1>5. \A i \in 1 .. n : IsPiece(pieces[i]) /\ pieces[i] \in Seq(Chars)
  BY PiecesAre
<1>6. 0 \in T
  <2> HIDE DEF From
  <2>1. 0 \notin 1 .. n
    OBVIOUS
  <2>2. QED
    BY <2>1
<1>7. ASSUME NEW i \in Nat, i \in T PROVE i + 1 \in T
  <2> SUFFICES ASSUME i + 1 \in 1 .. n PROVE From(i + 1)
    <3> HIDE DEF From
    <3>1. QED
      OBVIOUS
  <2>1. CASE i = 0
    <3>1. i + 1 = 1 /\ 1 \in 1 .. n
      BY <2>1
    <3>2. f[i + 1] = pieces[1]
      BY <1>4, <3>1
    <3>3. pieces[1] \o <<>> = pieces[1] /\ Rest(<<>>)
      <4>1. pieces[1] \in Seq(Chars)
        BY <1>5, <3>1
      <4>2. QED
        BY <4>1, ConcatEmptySeq DEF Rest
    <3>4. QED
      BY <3>2, <3>3
  <2>2. CASE i # 0
    <3>1. i \in 1 .. n /\ i + 1 # 1 /\ (i + 1) - 1 = i /\ 1 \in 1 .. n
      BY <2>2
    <3>2. From(i)
      <4> HIDE DEF From
      <4>1. QED
        BY <1>7, <3>1
    <3>3. PICK rest : Rest(rest) /\ f[i] = pieces[1] \o rest
      BY <3>2
    <3> DEFINE p == pieces[i + 1]
               q == pieces[1]
    <3>4. f[i + 1] = (q \o rest) \o p
      BY <1>4, <3>1, <3>3
    <3>5. q \in Seq(Chars) /\ p \in Seq(Chars) /\ p[1] = "S" /\ rest \in Seq(Chars)
      BY <1>5, <3>1, <3>3 DEF IsPiece, Rest
    <3> HIDE DEF p, q
    <3>6. (q \o rest) \o p = q \o (rest \o p)
      BY ONLY <3>5, ConcatAssociative
    <3>7. Rest(rest \o p)
      BY <3>3, <3>5, RestGrows
    <3>8. f[i + 1] = pieces[1] \o (rest \o p)
      BY <3>4, <3>6 DEF q
    <3>9. QED
      BY <3>7, <3>8
  <2>3. QED
    BY <2>1, <2>2
<1>8. Nat \subseteq T
  <2> HIDE DEF T
  <2>1. QED
    BY <1>6, <1>7, SetInduction
<1>9. From(n)
  <2> HIDE DEF From
  <2>1. n \in Nat /\ n \in 1 .. n
    OBVIOUS
  <2>2. QED
    BY <1>8, <2>1
<1>10. 1 \in 1 .. n
  OBVIOUS
<1>11. QED
  BY <1>3, <1>5, <1>9, <1>10 DEF IsPile

LEMMA LeftoverPiles == \A left \in Leftovers : left = <<>> \/ IsPile(left)
<1> SUFFICES ASSUME NEW left \in Leftovers PROVE left = <<>> \/ IsPile(left)
  OBVIOUS
<1>1. PICK pieces \in BoundedSeq(Pieces, MaxPieces) : left = FlattenSeq(pieces)
  BY DEF Leftovers
<1>2. PICK n \in 0 .. MaxPieces : pieces \in [1 .. n -> Pieces]
  BY MaxPiecesAssumption DEF BoundedSeq, SeqOf
<1>3. CASE n = 0
  <2>1. pieces = <<>>
    BY <1>2, <1>3
  <2>2. Len(<<>>) = 0
    OBVIOUS
  <2>3. FlattenSeq(pieces) = <<>>
    BY <2>1, <2>2 DEF FlattenSeq
  <2>4. QED
    BY <1>1, <2>3
<1>4. CASE n # 0
  <2>1. n \in Nat \ {0}
    BY <1>4, MaxPiecesAssumption
  <2>2. IsPile(FlattenSeq(pieces))
    BY <1>2, <2>1, FlattenIsPile
  <2>3. QED
    BY <1>1, <2>2
<1>5. QED
  BY <1>3, <1>4

LEMMA PrefixJoins ==
    ASSUME NEW x \in Seq(Chars), NEW y \in Seq(Chars)
    PROVE  IsPrefix(x, x \o y)
<1> DEFINE a == Len(x)
           both == x \o y
           part == SubSeq(both, 1, a)
<1>1. /\ both \in Seq(Chars) /\ a \in Nat /\ Len(y) \in Nat /\ Len(both) = a + Len(y)
      /\ \A i \in 1 .. a : both[i] = x[i]
  BY Joins
<1>1a. a = Len(x)
  OBVIOUS
<1> HIDE DEF both, a
<1>2. a <= Len(both)
  BY <1>1
<1>3. /\ 1 \in Nat /\ 1 <= 1 /\ 1 <= a + 1 /\ (a - 1) + 1 = a
      /\ \A i \in 1 .. a : (1 + i) - 1 = i
      /\ a <= a
  BY <1>1
<1>4. part \in Seq(Chars) /\ Len(part) = (a - 1) + 1
      /\ \A i \in 1 .. (a - 1) + 1 : part[i] = both[(1 + i) - 1]
  BY <1>1, <1>2, <1>3, Parts
<1> DEFINE same == SubSeq(x, 1, a)
<1>5. same \in Seq(Chars) /\ Len(same) = (a - 1) + 1
      /\ \A i \in 1 .. (a - 1) + 1 : same[i] = x[(1 + i) - 1]
  BY <1>1, <1>1a, <1>3, Parts
<1> HIDE DEF part, same
<1>6. \A i \in 1 .. a : part[i] = same[i]
  BY <1>1, <1>3, <1>4, <1>5
<1>7. part = same
  BY <1>3, <1>4, <1>5, <1>6, SeqEqual
<1>8. QED
  BY <1>1a, <1>2, <1>7 DEF IsPrefix, part, same, both

-----------------------------------------------------------------------------
(***************************************************************************)
(* The readings' files (GraphDataProcessor).                               *)
(***************************************************************************)

Rows(n) == IF n = NoFile THEN 0 ELSE n

\* The rows of date d that are still in the stream.
InStream(d) == IF d = save.date /\ FileOpen THEN unflushed ELSE 0

\* The stream is of a date that has a file, and it holds what the file lacks:
\* never more than the rows counted since the last batch, unless a flush failed.
StreamInv ==
    /\ FileOpen => save.date \in Dates /\ files[save.date] # NoFile
    /\ ~FileOpen => unflushed = 0
    /\ save.file = "good" => unflushed <= save.count
    /\ \A d \in Dates : accepted[d] = Rows(files[d]) + InStream(d)

GraphInv == TypeOK /\ StreamInv

SaveType == [date : Dates \cup {NoDate}, file : {"closed", "good", "bad"}, count : 0 .. FlushCount - 1]

USE DatesAssumption, FlushCountAssumption, MaxRowsAssumption

-----------------------------------------------------------------------------

LEMMA NothingIsSaved == NothingSaved \in SaveType /\ NothingSaved.file = "closed"
<1>1. 0 \in 0 .. FlushCount - 1
  OBVIOUS
<1>2. QED
  BY <1>1 DEF NothingSaved, SaveType

LEMMA GraphInitInv == Init => GraphInv
<1> SUFFICES ASSUME Init PROVE GraphInv
  OBVIOUS
<1>1. save \in SaveType /\ save.file = "closed"
  BY NothingIsSaved DEF Init
<1>2. TypeOK
  <2>1. 0 \in 0 .. FlushCount /\ 0 \in 0 .. MaxRows /\ NoFile \in 0 .. NoFile
    BY DEF NoFile
  <2>2. QED
    BY <1>1, <2>1 DEF Init, TypeOK, SaveType
<1>3. \A d \in Dates : accepted[d] = 0 /\ files[d] = NoFile
  BY DEF Init
<1>4. StreamInv
  BY <1>1, <1>3 DEF Init, StreamInv, Rows, InStream, FileOpen
<1>5. QED
  BY <1>2, <1>4 DEF GraphInv

\* A flush brings every row that was accepted to its file.
LEMMA FlushedHasAll ==
    ASSUME GraphInv
    PROVE  /\ Flushed \in [Dates -> 0 .. NoFile]
           /\ \A d \in Dates : Rows(Flushed[d]) = accepted[d]
           /\ \A d \in Dates : d # save.date \/ ~FileOpen => Flushed[d] = files[d]
           /\ FileOpen => Flushed[save.date] = accepted[save.date]
<1>1. CASE FileOpen
  <2>1. save.date \in Dates /\ files[save.date] # NoFile
        /\ accepted[save.date] = files[save.date] + unflushed
    BY <1>1 DEF GraphInv, StreamInv, Rows, InStream
  <2>2. accepted[save.date] \in 0 .. MaxRows
    BY <2>1 DEF GraphInv, TypeOK
  <2>3. Flushed = [files EXCEPT ![save.date] = accepted[save.date]]
    BY <1>1, <2>1 DEF Flushed, FileRows
  <2>4. files \in [Dates -> 0 .. NoFile] /\ accepted[save.date] # NoFile
        /\ accepted[save.date] \in 0 .. NoFile
    BY <2>2 DEF GraphInv, TypeOK, NoFile
  <2>5. \A d \in Dates : d # save.date => accepted[d] = Rows(files[d]) + 0
    BY DEF GraphInv, StreamInv, InStream
  <2>6. \A d \in Dates : d # save.date => accepted[d] = Rows(files[d])
    BY <2>4, <2>5 DEF Rows, NoFile
  <2>7. QED
    BY <1>1, <2>1, <2>3, <2>4, <2>6 DEF Rows
<1>2. CASE ~FileOpen
  <2>1. Flushed = files /\ files \in [Dates -> 0 .. NoFile]
    BY <1>2 DEF Flushed, GraphInv, TypeOK
  <2>2. ASSUME NEW d \in Dates PROVE accepted[d] = Rows(files[d])
    <3>1. accepted[d] = Rows(files[d]) + 0
      BY <1>2 DEF GraphInv, StreamInv, InStream
    <3>2. Rows(files[d]) \in Nat
      BY <2>1 DEF Rows, NoFile
    <3>3. QED
      BY <3>1, <3>2
  <2>3. QED
    BY <1>2, <2>1, <2>2
<1>3. QED
  BY <1>1, <1>2

\* A close leaves each row in its file, or takes it along.
LEMMA ClosedHasAll ==
    ASSUME GraphInv, NEW written \in BOOLEAN
    PROVE  /\ FilesClosed(written) \in [Dates -> 0 .. NoFile]
           /\ RowsClosed(written) \in [Dates -> 0 .. MaxRows]
           /\ \A d \in Dates : RowsClosed(written)[d] = Rows(FilesClosed(written)[d])
           /\ \A d \in Dates : d # save.date =>
                  RowsClosed(written)[d] = Rows(files[d]) /\ FilesClosed(written)[d] = files[d]
<1>0. files \in [Dates -> 0 .. NoFile] /\ accepted \in [Dates -> 0 .. MaxRows]
      /\ \A d \in Dates : Rows(files[d]) \in 0 .. MaxRows
  BY DEF GraphInv, TypeOK, Rows, NoFile
<1>1. CASE written \/ ~FileOpen
  <2>1. RowsClosed(written) = accepted /\ FilesClosed(written) = Flushed
    BY <1>1 DEF RowsClosed, FilesClosed, Flushed
  <2>2. QED
    BY <1>0, <2>1, FlushedHasAll
<1>2. CASE ~written /\ FileOpen
  <2>1. FilesClosed(written) = files
        /\ RowsClosed(written) = [accepted EXCEPT ![save.date] = accepted[save.date] - unflushed]
    BY <1>2 DEF RowsClosed, FilesClosed
  <2>2. save.date \in Dates /\ accepted[save.date] = Rows(files[save.date]) + unflushed
    BY <1>2 DEF GraphInv, StreamInv, InStream
  <2>3. accepted[save.date] - unflushed = Rows(files[save.date])
    <3> DEFINE a == accepted[save.date]
               f == Rows(files[save.date])
    <3>1. a = f + unflushed
      BY <2>2
    <3>2. f \in Nat /\ unflushed \in Nat
      <4>1. f \in 0 .. MaxRows
        BY <1>0, <2>2, Zenon
      <4> HIDE DEF f
      <4>2. QED
        BY <4>1 DEF GraphInv, TypeOK
    <3> HIDE DEF a, f
    <3>3. a - unflushed = f
      BY ONLY <3>1, <3>2
    <3>4. QED
      BY <3>3 DEF a, f
  <2>4. \A d \in Dates : d # save.date => accepted[d] = Rows(files[d])
    BY FlushedHasAll
  <2>5. RowsClosed(written) = [accepted EXCEPT ![save.date] = Rows(files[save.date])]
    BY <2>1, <2>3
  <2>6. RowsClosed(written) \in [Dates -> 0 .. MaxRows]
        /\ \A d \in Dates : RowsClosed(written)[d] = Rows(files[d])
    BY <1>0, <2>2, <2>4, <2>5
  <2>7. QED
    BY <1>0, <2>1, <2>6
<1>3. QED
  BY <1>1, <1>2

\* A row goes to a file that has all rows but "pending" of its own date.
LEMMA RowIsWritten ==
    ASSUME TypeOK,
           NEW d \in Dates, NEW onDisk \in [Dates -> 0 .. NoFile], NEW rows \in [Dates -> 0 .. MaxRows],
           NEW count \in 0 .. FlushCount - 1, NEW pending \in 0 .. count,
           onDisk[d] # NoFile, rows[d] = onDisk[d] + pending,
           \A e \in Dates : e # d => rows[e] = Rows(onDisk[e]),
           WritesRow(d, onDisk, rows, pending, count)
    PROVE  GraphInv'
<1>1. rows[d] \in 0 .. MaxRows - 1 /\ accepted' = [rows EXCEPT ![d] = @ + 1]
  BY DEF WritesRow
<1>2. accepted' \in [Dates -> 0 .. MaxRows] /\ accepted'[d] = onDisk[d] + pending + 1
      /\ \A e \in Dates : e # d => accepted'[e] = Rows(onDisk[e])
  BY <1>1
<1>3. storage' \in 0 .. MaxRows /\ selected' \in Dates /\ folder' \in BOOLEAN /\ loaded' \in BOOLEAN
      /\ app' \in {"off", "running", "crashed"}
  BY DEF TypeOK, WritesRow, SaveUnchanged
<1>4. PICK written \in (IF Flushes(count + 1) THEN BOOLEAN ELSE {FALSE}) :
           /\ save' = [date |-> d,
                       file |-> IF Flushes(count + 1) /\ ~written THEN "bad" ELSE "good",
                       count |-> CountAfter(count + 1)]
           /\ files' = IF written THEN [onDisk EXCEPT ![d] = @ + pending + 1] ELSE onDisk
           /\ unflushed' = IF written THEN 0 ELSE pending + 1
  BY DEF WritesRow
<1>5. /\ CountAfter(count + 1) \in 0 .. FlushCount - 1
      /\ ~Flushes(count + 1) => CountAfter(count + 1) = count + 1
  BY DEF CountAfter, Flushes
<1>6. CASE written
  <2>1. save' = [date |-> d, file |-> "good", count |-> CountAfter(count + 1)] /\ unflushed' = 0
        /\ files' = [onDisk EXCEPT ![d] = onDisk[d] + pending + 1]
    BY <1>4, <1>6
  <2>2. onDisk[d] + pending + 1 \in 0 .. MaxRows
    BY <1>2
  <2>3. files' \in [Dates -> 0 .. NoFile] /\ files'[d] # NoFile
        /\ files'[d] = accepted'[d]
        /\ \A e \in Dates : e # d => files'[e] = onDisk[e]
    BY <1>2, <2>1, <2>2 DEF NoFile
  <2>4. TypeOK'
    BY <1>2, <1>3, <1>5, <2>1, <2>3 DEF TypeOK
  <2>5. \A e \in Dates : accepted'[e] = Rows(files'[e]) + 0
    BY <1>2, <2>3 DEF Rows, NoFile
  <2>6. StreamInv'
    BY <1>5, <2>1, <2>3, <2>5 DEF StreamInv, InStream, Rows, NoFile, FileOpen
  <2>7. QED
    BY <2>4, <2>6 DEF GraphInv
<1>7. CASE ~written
  <2>1. /\ save'.date = d /\ save'.file \in {"good", "bad"} /\ save' \in SaveType
        /\ save'.file = "good" => save'.count = count + 1
        /\ unflushed' = pending + 1 /\ files' = onDisk
    BY <1>4, <1>5, <1>7 DEF SaveType
  <2>2. pending + 1 \in 0 .. FlushCount /\ pending + 1 <= count + 1
    OBVIOUS
  <2>3. TypeOK'
    BY <1>2, <1>3, <2>1, <2>2 DEF TypeOK, SaveType
  <2>4. \A e \in Dates : accepted'[e] = Rows(onDisk[e]) + (IF e = d THEN pending + 1 ELSE 0)
    BY <1>2 DEF Rows, NoFile
  <2>5. StreamInv'
    BY <2>1, <2>2, <2>4 DEF StreamInv, InStream, Rows, NoFile, FileOpen
  <2>6. QED
    BY <2>3, <2>5 DEF GraphInv
<1>8. QED
  BY <1>6, <1>7

\* A load that does not fail leaves no accepted row of its date behind, but for
\* what could not be flushed.
LEMMA LoadedHasAll ==
    ASSUME GraphInv, NEW d \in Dates, Loads(d)
    PROVE  /\ storage' = IF loaded' THEN accepted[d] - Stuck(d)' ELSE 0
           /\ storage' \in 0 .. MaxRows /\ loaded' \in BOOLEAN
           /\ accepted' = accepted /\ folder' = folder /\ save' \in SaveType
           /\ files' \in [Dates -> 0 .. NoFile] /\ unflushed' \in 0 .. FlushCount
           /\ StreamInv'
<1>0. /\ files \in [Dates -> 0 .. NoFile] /\ accepted \in [Dates -> 0 .. MaxRows]
      /\ save \in SaveType /\ unflushed \in 0 .. FlushCount /\ StreamInv
  BY DEF GraphInv, TypeOK, SaveType
<1>1. /\ accepted' = accepted /\ folder' = folder /\ loaded' \in BOOLEAN
      /\ storage' = IF loaded' THEN Rows(files'[d]) ELSE 0
  BY DEF Loads, Rows
<1>2. /\ files' \in [Dates -> 0 .. NoFile] /\ save' \in SaveType /\ unflushed' \in 0 .. FlushCount
      /\ StreamInv' /\ Rows(files'[d]) = accepted[d] - Stuck(d)'
  <2>1. CASE FlushedToLoad(d) /\ files' = Flushed /\ unflushed' = 0 /\ UNCHANGED save
    <3>1. d = save.date /\ save.file = "good" /\ FileOpen
      BY <2>1 DEF FlushedToLoad, FileOpen
    <3>2. files' \in [Dates -> 0 .. NoFile] /\ files'[d] = accepted[d]
          /\ \A e \in Dates : Rows(files'[e]) = accepted[e]
      BY <2>1, <3>1, FlushedHasAll
    <3>3. accepted[d] \in 0 .. MaxRows /\ accepted[d] # NoFile
          /\ \A e \in Dates : accepted[e] = Rows(files'[e]) + 0
      BY <1>0, <3>2 DEF NoFile
    <3>4. save.count \in Nat
      BY <1>0 DEF SaveType
    <3>5. StreamInv'
      BY <1>1, <2>1, <3>1, <3>2, <3>3, <3>4 DEF StreamInv, InStream, Rows, NoFile, FileOpen
    <3>6. Stuck(d)' = 0
      BY <2>1, <3>1 DEF Stuck
    <3>7. QED
      BY <1>0, <2>1, <3>2, <3>3, <3>5, <3>6
  <2>2. CASE FlushedToLoad(d) /\ save' = [save EXCEPT !.file = "bad"] /\ UNCHANGED <<files, unflushed>>
    <3>1. d = save.date /\ save.file = "good" /\ FileOpen
      BY <2>2 DEF FlushedToLoad, FileOpen
    <3>2. save' \in SaveType /\ save'.date = d /\ save'.file = "bad"
      BY <1>0, <2>2, <3>1 DEF SaveType
    <3>3. accepted[d] = Rows(files[d]) + unflushed
      BY <1>0, <3>1 DEF StreamInv, InStream
    <3>3a. Rows(files[d]) \in Nat
      BY <1>0 DEF Rows, NoFile
    <3>4. Stuck(d)' = unflushed
      BY <2>2, <3>2 DEF Stuck
    <3>5. Rows(files'[d]) = accepted[d] - Stuck(d)'
      BY <1>0, <2>2, <3>3, <3>3a, <3>4
    <3>6. StreamInv'
      BY <1>0, <1>1, <2>2, <3>1, <3>2 DEF StreamInv, InStream, Rows, NoFile, FileOpen
    <3>7. QED
      BY <1>0, <2>2, <3>2, <3>5, <3>6
  <2>3. CASE ~FlushedToLoad(d) /\ UNCHANGED <<files, save, unflushed>>
    <3>1. StreamInv'
      BY <1>0, <1>1, <2>3 DEF StreamInv, InStream, Rows, NoFile, FileOpen
    <3>2. Stuck(d)' = InStream(d) /\ InStream(d) \in Nat
      BY <1>0, <2>3 DEF Stuck, InStream, FlushedToLoad, FileOpen, SaveType
    <3>3. accepted[d] = Rows(files[d]) + InStream(d)
      BY <1>0 DEF StreamInv
    <3>4. Rows(files[d]) \in Nat
      BY <1>0 DEF Rows, NoFile
    <3>5. Rows(files'[d]) = accepted[d] - Stuck(d)'
      BY <2>3, <3>2, <3>3, <3>4
    <3>6. QED
      BY <1>0, <2>3, <3>1, <3>5
  <2>4. QED
    BY <2>1, <2>2, <2>3 DEF Loads, FlushesForLoad
<1>3. storage' \in 0 .. MaxRows
  BY <1>1, <1>2 DEF Rows, NoFile
<1>4. QED
  BY <1>1, <1>2, <1>3

\* What a handler of the main thread does once the readings are loaded.
LEMMA LoadKeepsInv ==
    ASSUME GraphInv, NEW d \in Dates, Loads(d), app' \in {"off", "running", "crashed"},
           selected' \in Dates
    PROVE  GraphInv'
<1>1. folder \in BOOLEAN /\ accepted \in [Dates -> 0 .. MaxRows]
  BY DEF GraphInv, TypeOK
<1>2. TypeOK'
  BY <1>1, LoadedHasAll DEF TypeOK, SaveType
<1>3. QED
  BY <1>2, LoadedHasAll DEF GraphInv

\* Each load is LoadDateReadings of the date that is then selected, or the data
\* directory is missing.
LEMMA LoadOrThrow ==
    ASSUME TypeOK, Load
    PROVE  /\ selected' \in Dates /\ app' \in {"off", "running", "crashed"}
           /\ \/ Loads(selected')
              \/ app = "off" /\ UNCHANGED <<folder, files, save, unflushed, storage, loaded, accepted>>
<1>1. CASE \E d \in Dates : Start(d)
  BY <1>1 DEF Start, UpdateGraphPoints, PropertiesThrow
<1>2. CASE onUpdateGraphButtonClicked
  BY <1>2 DEF TypeOK, onUpdateGraphButtonClicked, UpdateGraphPoints, PropertiesThrow
<1>3. CASE \E d \in Dates : onSelectedDateChanged(d)
  BY <1>3 DEF TypeOK, onSelectedDateChanged, UpdateGraphPoints
<1>4. QED
  BY <1>1, <1>2, <1>3 DEF Load

\* All files are closed: the process is over, or the folder is made or cleared.
LEMMA NothingInStream ==
    ASSUME GraphInv, ~FileOpen', unflushed' = 0, files' \in [Dates -> 0 .. NoFile],
           accepted' \in [Dates -> 0 .. MaxRows],
           \A d \in Dates : accepted'[d] = Rows(files'[d])
    PROVE  StreamInv'
<1>1. \A d \in Dates : accepted'[d] = Rows(files'[d]) + 0
  BY DEF Rows, NoFile
<1>2. QED
  BY <1>1 DEF StreamInv, InStream, Rows, NoFile, FileOpen

LEMMA EndsClosed ==
    ASSUME GraphInv, Ends, files' \in [Dates -> 0 .. NoFile],
           accepted' \in [Dates -> 0 .. MaxRows],
           \A d \in Dates : accepted'[d] = Rows(files'[d])
    PROVE  GraphInv'
<1>1. TypeOK'
  <2>1. save' \in SaveType
    BY NothingIsSaved DEF Ends
  <2>2. 0 \in 0 .. FlushCount /\ 0 \in 0 .. MaxRows
    OBVIOUS
  <2>3. folder \in BOOLEAN /\ selected \in Dates
    BY DEF GraphInv, TypeOK
  <2>4. QED
    BY <2>1, <2>2, <2>3 DEF TypeOK, Ends, SaveType
<1>2. ~FileOpen' /\ unflushed' = 0
  BY DEF FileOpen, Ends, NothingSaved
<1>3. StreamInv'
  BY <1>2, NothingInStream
<1>4. QED
  BY <1>1, <1>3 DEF GraphInv

\* One step per action.
LEMMA GraphNextInv == GraphInv /\ [Next]_vars => GraphInv'
<1> SUFFICES ASSUME GraphInv, [Next]_vars PROVE GraphInv'
  OBVIOUS
<1>0. /\ files \in [Dates -> 0 .. NoFile] /\ accepted \in [Dates -> 0 .. MaxRows]
      /\ save \in SaveType /\ unflushed \in 0 .. FlushCount
      /\ selected \in Dates /\ folder \in BOOLEAN /\ loaded \in BOOLEAN /\ TypeOK
  BY DEF GraphInv, TypeOK, SaveType
<1>1. ASSUME NEW d \in Dates, SaveCannotOpen(d) PROVE GraphInv'
  <2>1. PICK written \in BOOLEAN :
            files' = FilesClosed(written) /\ accepted' = RowsClosed(written)
    BY <1>1 DEF SaveCannotOpen
  <2>2. save' = [save EXCEPT !.file = "closed", !.count = 0] /\ unflushed' = 0
        /\ UNCHANGED <<folder, storage, loaded, selected, app>>
    BY <1>1 DEF SaveCannotOpen, SaveUnchanged
  <2>3. save' \in SaveType /\ save'.file = "closed"
    <3>1. 0 \in 0 .. FlushCount - 1
      OBVIOUS
    <3>2. QED
      BY <1>0, <2>2, <3>1 DEF SaveType
  <2>4. /\ files' \in [Dates -> 0 .. NoFile] /\ accepted' \in [Dates -> 0 .. MaxRows]
        /\ \A e \in Dates : accepted'[e] = Rows(files'[e])
    BY <2>1, ClosedHasAll
  <2>5. TypeOK'
    BY <1>0, <2>2, <2>3, <2>4 DEF TypeOK, SaveType
  <2>6. StreamInv'
    BY <2>2, <2>3, <2>4, NothingInStream DEF FileOpen
  <2>7. QED
    BY <2>5, <2>6 DEF GraphInv
<1>2. ASSUME NEW d \in Dates, SaveOpens(d) PROVE GraphInv'
  <2>1. PICK written \in BOOLEAN :
            WritesRow(d, [FilesClosed(written) EXCEPT ![d] = FileRows(d)], RowsClosed(written), 0, 0)
    BY <1>2 DEF SaveOpens
  <2> DEFINE onDisk == [FilesClosed(written) EXCEPT ![d] = FileRows(d)]
             rows == RowsClosed(written)
  <2>2. d # save.date /\ WritesRow(d, onDisk, rows, 0, 0)
    BY <1>2, <2>1 DEF SaveOpens
  <2>3. FileRows(d) = Rows(files[d]) /\ FileRows(d) \in 0 .. MaxRows
    BY <1>0 DEF FileRows, Rows, NoFile
  <2>4. rows \in [Dates -> 0 .. MaxRows] /\ rows[d] = FileRows(d)
        /\ FilesClosed(written) \in [Dates -> 0 .. NoFile]
        /\ \A e \in Dates : rows[e] = Rows(FilesClosed(written)[e])
    BY <2>2, <2>3, ClosedHasAll
  <2> HIDE DEF rows
  <2>5. onDisk \in [Dates -> 0 .. NoFile] /\ onDisk[d] = rows[d] /\ onDisk[d] # NoFile
        /\ \A e \in Dates : e # d => rows[e] = Rows(onDisk[e])
    BY <2>3, <2>4 DEF NoFile
  <2> HIDE DEF onDisk
  <2>6. rows[d] = onDisk[d] + 0 /\ 0 \in 0 .. FlushCount - 1 /\ 0 \in 0 .. 0
    BY <2>4, <2>5
  <2>7. QED
    BY <1>0, <2>2, <2>4, <2>5, <2>6, RowIsWritten
<1>3. ASSUME NEW d \in Dates, SaveAppends(d) PROVE GraphInv'
  <2>1. d = save.date /\ save.file = "good" /\ WritesRow(d, files, accepted, unflushed, save.count)
    BY <1>3 DEF SaveAppends
  <2>2. files[d] # NoFile /\ accepted[d] = files[d] + unflushed
        /\ save.count \in 0 .. FlushCount - 1 /\ unflushed \in 0 .. save.count
    BY <1>0, <2>1 DEF GraphInv, StreamInv, InStream, Rows, SaveType, FileOpen
  <2>3. \A e \in Dates : e # d => accepted[e] = Rows(files[e])
    BY <2>1, FlushedHasAll
  <2>4. QED
    BY <1>0, <2>1, <2>2, <2>3, RowIsWritten
<1>4. ASSUME NEW d \in Dates, SaveGoesNowhere(d) PROVE GraphInv'
  <2>1. save.file # "good" /\ save' = [save EXCEPT !.count = CountAfter(save.count + 1)]
        /\ UNCHANGED <<folder, files, unflushed, accepted, storage, loaded, selected, app>>
    BY <1>4 DEF SaveGoesNowhere, SaveUnchanged
  <2>2. CountAfter(save.count + 1) \in 0 .. FlushCount - 1
    BY <1>0 DEF CountAfter, Flushes, SaveType
  <2>3. save' \in SaveType /\ save'.file = save.file /\ save'.date = save.date
    BY <1>0, <2>1, <2>2 DEF SaveType
  <2>4. TypeOK'
    BY <1>0, <2>1, <2>3 DEF TypeOK, SaveType
  <2>5. StreamInv'
    BY <2>1, <2>3 DEF GraphInv, StreamInv, InStream, Rows, NoFile, FileOpen
  <2>6. QED
    BY <2>4, <2>5 DEF GraphInv
<1>5. CASE Load
  <2>1. selected' \in Dates /\ app' \in {"off", "running", "crashed"}
    BY <1>0, <1>5, LoadOrThrow
  <2>2. CASE Loads(selected')
    <3>1. PICK d \in Dates : d = selected'
      BY <2>1
    <3>2. QED
      BY <2>1, <2>2, <3>1, LoadKeepsInv
  <2>3. CASE UNCHANGED <<folder, files, save, unflushed, storage, loaded, accepted>>
    BY <2>1, <2>3 DEF GraphInv, TypeOK, StreamInv, InStream, Rows, NoFile, FileOpen
  <2>4. QED
    BY <1>0, <1>5, <2>2, <2>3, LoadOrThrow
<1>6. CASE onSelectionRadioButtonClicked
  BY <1>6 DEF onSelectionRadioButtonClicked, UpdateGraphPoints, GraphInv, TypeOK, StreamInv,
              InStream, Rows, NoFile, FileOpen
<1>7. CASE Exit
  <2>1. PICK written \in BOOLEAN :
            files' = FilesClosed(written) /\ accepted' = RowsClosed(written)
    BY <1>7 DEF Exit
  <2>2. Ends
    BY <1>7 DEF Exit
  <2>3. QED
    BY <2>1, <2>2, ClosedHasAll, EndsClosed
<1>8. CASE Kill
  <2>1. Ends /\ files' = files /\ accepted' = [d \in Dates |-> FileRows(d)]
    BY <1>8 DEF Kill
  <2>2. \A d \in Dates : FileRows(d) = Rows(files[d]) /\ FileRows(d) \in 0 .. MaxRows
    BY <1>0 DEF FileRows, Rows, NoFile
  <2>3. QED
    BY <1>0, <2>1, <2>2, EndsClosed
<1>9. CASE MakeOrClearFolder
  <2>1. /\ ~FileOpen /\ folder' = ~folder
        /\ files' = [d \in Dates |-> NoFile] /\ accepted' = [d \in Dates |-> 0]
        /\ UNCHANGED <<save, unflushed, storage, loaded, selected, app>>
    BY <1>9 DEF MakeOrClearFolder
  <2>2. /\ files' \in [Dates -> 0 .. NoFile] /\ accepted' \in [Dates -> 0 .. MaxRows]
        /\ \A d \in Dates : accepted'[d] = Rows(files'[d])
    BY <2>1 DEF Rows, NoFile
  <2>3. TypeOK'
    BY <1>0, <2>1, <2>2 DEF TypeOK
  <2>4. ~FileOpen' /\ unflushed' = 0
    BY <2>1 DEF FileOpen, GraphInv, StreamInv
  <2>5. QED
    BY <2>2, <2>3, <2>4, NothingInStream DEF GraphInv
<1>10. CASE UNCHANGED vars
  BY <1>10 DEF vars, GraphInv, TypeOK, StreamInv, InStream, Rows, NoFile, FileOpen
<1>11. QED
  BY <1>1, <1>2, <1>3, <1>4, <1>5, <1>6, <1>7, <1>8, <1>9, <1>10 DEF Next

LEMMA GraphInvariant == Spec => []GraphInv
BY GraphInitInv, GraphNextInv, PTL DEF Spec

\* The readings' files and the stream keep their types: in particular m_Count
\* stays below a batch.
THEOREM GraphTypeCorrect == Spec => []TypeOK
<1>1. GraphInv => TypeOK
  BY DEF GraphInv
<1>2. QED
  BY <1>1, GraphInvariant, PTL

\* Of the rows that a stream took, fewer than a batch are lost in a crash, a whole
\* one if a flush failed, and only of the date being saved.
THEOREM FewAlwaysAtRisk == Spec => []FewAtRisk
<1>1. GraphInv => FewAtRisk
  <2> SUFFICES ASSUME GraphInv, NEW d \in Dates
               PROVE  accepted[d] - FileRows(d) <=
                          IF d # save.date THEN 0
                          ELSE CASE save.file = "closed" -> 0
                                 [] save.file = "good" -> FlushCount - 1
                                 [] save.file = "bad" -> FlushCount
    BY DEF FewAtRisk
  <2>1. accepted[d] = Rows(files[d]) + InStream(d) /\ FileRows(d) = Rows(files[d])
    BY DEF GraphInv, StreamInv, FileRows, Rows
  <2>2. Rows(files[d]) \in Nat /\ unflushed \in 0 .. FlushCount /\ save \in SaveType
    BY DEF GraphInv, TypeOK, Rows, NoFile, SaveType
  <2>3. accepted[d] - FileRows(d) = InStream(d)
    BY <2>1, <2>2 DEF InStream
  <2>4. save.file = "good" => unflushed <= FlushCount - 1
    BY <2>2 DEF GraphInv, StreamInv, SaveType
  <2>5. save.file \in {"closed", "good", "bad"}
    BY <2>2 DEF SaveType
  <2>6. QED
    BY <2>2, <2>3, <2>4, <2>5 DEF InStream, FileOpen
<1>2. QED
  BY <1>1, GraphInvariant, PTL

\* A process that does not run has loaded nothing.
OffInv == app = "off" => storage = 0 /\ loaded = FALSE

LEMMA OffInvariant == Spec => []OffInv
<1>1. Init => OffInv
  BY DEF Init, OffInv
<1>2. OffInv /\ [Next]_vars => OffInv'
  <2> SUFFICES ASSUME OffInv, [Next]_vars PROVE OffInv'
    OBVIOUS
  <2>1. ASSUME NEW d \in Dates, SaveCannotOpen(d) \/ SaveOpens(d) \/ SaveAppends(d) \/ SaveGoesNowhere(d)
        PROVE  app' # "off"
    BY <2>1 DEF SaveCannotOpen, SaveOpens, SaveAppends, SaveGoesNowhere, WritesRow, SaveUnchanged
  <2>2. Load \/ onSelectionRadioButtonClicked => app' # "off"
    BY DEF Load, Start, onUpdateGraphButtonClicked, onSelectedDateChanged,
           onSelectionRadioButtonClicked, UpdateGraphPoints, PropertiesThrow
  <2>3. Exit \/ Kill \/ MakeOrClearFolder \/ UNCHANGED vars => OffInv'
    BY DEF OffInv, Exit, Kill, Ends, MakeOrClearFolder, vars
  <2>4. QED
    BY <2>1, <2>2, <2>3 DEF Next, OffInv
<1>3. QED
  BY <1>1, <1>2, PTL DEF Spec

\* Whatever date is loaded at whatever time, the graph gets all of its rows but
\* those that could not be written, or none.
THEOREM LoadAlwaysShowsAll == Spec => LoadShowsAll
<1>1. GraphInv /\ OffInv /\ [Next]_vars =>
          [Load => storage' = IF loaded' THEN (accepted[selected] - Stuck(selected))' ELSE 0]_vars
  <2> SUFFICES ASSUME GraphInv, OffInv, Load
               PROVE  storage' = IF loaded' THEN (accepted[selected] - Stuck(selected))' ELSE 0
    OBVIOUS
  <2>1. selected' \in Dates
    BY LoadOrThrow DEF GraphInv
  <2>2. CASE Loads(selected')
    <3>1. PICK d \in Dates : d = selected'
      BY <2>1
    <3>2. storage' = (IF loaded' THEN accepted[d] - Stuck(d)' ELSE 0) /\ accepted' = accepted
      BY <2>2, <3>1, LoadedHasAll
    <3>3. QED
      BY <3>1, <3>2 DEF Stuck
  <2>3. CASE app = "off" /\ UNCHANGED <<folder, files, save, unflushed, storage, loaded, accepted>>
    BY <2>3 DEF OffInv
  <2>4. QED
    BY <2>2, <2>3, LoadOrThrow DEF GraphInv
<1>2. QED
  BY <1>1, GraphInvariant, OffInvariant, PTL DEF Spec, LoadShowsAll

-----------------------------------------------------------------------------
(***************************************************************************)
(* A line that the dashboard accepts is the sensor's reading.              *)
(***************************************************************************)

\* What SplicesRejected says of a line.
Unharmed(line) ==
    /\ line.sent \in Messages
    /\ line.got.reading = line.sent.reading
    /\ line.front # "other"
    /\ line.front = "nothing" => line.got.tag = line.sent.tag

\* A line alone, and one behind a pile.
LEMMA AloneUnharmed ==
    ASSUME NEW m \in Messages, ~Parse(<<>> \o TextOf(m)).error
    PROVE  /\ Parse(<<>> \o TextOf(m)).reading = m.reading
           /\ Parse(<<>> \o TextOf(m)).tag = m.tag
<1> DEFINE left == <<>>
           h == Header(m.tag, m.reading)
           r == m.reading
           got == Parse(left \o TextOf(m))
<1>1. Sent(m)
  BY MessageIsSent
<1>2. Begins(left, FormatDataString(m.tag, r))
  <2>1. FormatDataString(m.tag, r) \in Seq(Chars)
    BY <1>1 DEF Sent, LineShape
  <2>2. Len(FormatDataString(m.tag, r)) \in Nat
    BY <2>1, LenProperties
  <2>3. left \in Seq(Chars) /\ Len(left) = 0
    OBVIOUS
  <2> HIDE DEF left
  <2>4. QED
    BY <2>2, <2>3 DEF Begins
<1> HIDE DEF left
<1>3. /\ LineShape(TextOf(m), h, DataText(r)) /\ StartsWithS(h)
      /\ m.tag \in DOMAIN Tags /\ IsReading(r)
  BY <1>1 DEF Sent
<1>3a. ~Parse(left \o TextOf(m)).error
  BY DEF left
<1>4. Harmless(Parse(left \o TextOf(m)), left, m.tag, h, r)
  BY <1>2, <1>3, <1>3a, PieceHarmless
<1>5. got.reading = r /\ got.tag = m.tag
  BY <1>1, <1>3, <1>4 DEF Harmless, Sent, left
<1>6. QED
  BY <1>5 DEF left

LEMMA PiledUnharmed ==
    ASSUME NEW left, IsPile(left), NEW m \in Messages, ~Parse(left \o TextOf(m)).error
    PROVE  /\ Parse(left \o TextOf(m)).reading = m.reading
           /\ InFront(left, m.reading) = "its header"
<1>1. PICK p, rest : IsPiece(p) /\ Rest(rest) /\ left = p \o rest
  BY DEF IsPile
<1>2. PICK m1 \in Messages : Begins(p, TextOf(m1))
  BY <1>1 DEF IsPiece
<1> DEFINE text == TextOf(m)
           line == rest \o text
           h == Header(m.tag, m.reading)
           hd == rest \o h
           r == m.reading
<1>3. Sent(m) /\ Sent(m1)
  BY MessageIsSent
<1>4. /\ LineShape(text, h, DataText(r)) /\ StartsWithS(h) /\ IsReading(r)
      /\ m1.tag \in DOMAIN Tags /\ IsReading(m1.reading)
      /\ Begins(p, FormatDataString(m1.tag, m1.reading))
  BY <1>2, <1>3 DEF Sent
<1>5. p \in Seq(Chars) /\ rest \in Seq(Chars) /\ text \in Seq(Chars) /\ p # <<>>
  BY <1>1, <1>2, <1>4 DEF Begins, Rest, LineShape, IsPiece
<1>5a. r = [stamp |-> r.stamp, co2 |-> r.co2] /\ ~Parse(left \o text).error
  BY <1>3 DEF Sent
<1> HIDE DEF text, h, r
<1>6. LineShape(line, hd, DataText(r)) /\ StartsWithS(hd)
  BY <1>1, <1>4, PileShape
<1>7. left \o text = p \o line
  BY <1>1, <1>5, ConcatAssociative
<1> HIDE DEF line, hd
<1>8. ~Parse(p \o line).error
  BY <1>5a, <1>7
<1>9. Harmless(Parse(p \o line), p, m1.tag, hd, r)
  BY <1>4, <1>6, <1>8, PieceHarmless
<1>10. Parse(p \o line).reading = r /\ p = Header(m1.tag, r)
  BY <1>5, <1>5a, <1>9 DEF Harmless
<1>11. InFront(left, r) = "its header"
  <2>1. IsPrefix(Header(m1.tag, r), left)
    BY <1>1, <1>5, <1>10, PrefixJoins
  <2>2. left # <<>>
    <3>1. Len(left) = Len(p) + Len(rest) /\ Len(p) \in Nat /\ Len(rest) \in Nat /\ left \in Seq(Chars)
      BY <1>1, <1>5, Joins
    <3>2. Len(p) # 0
      BY <1>5, EmptySeq
    <3>3. Len(left) # 0
      BY <3>1, <3>2
    <3>4. QED
      BY <3>3
  <2>3. QED
    BY <1>4, <2>1, <2>2 DEF InFront
<1>12. QED
  BY <1>7, <1>10, <1>11 DEF text, r

\* ... which is what Backend gets to see.
LEMMA SoundIsUnharmed == \A line \in Sound : Unharmed(line)
<1> SUFFICES ASSUME NEW line \in Sound PROVE Unharmed(line)
  OBVIOUS
<1>1. PICK left \in Leftovers, m \in Messages :
          line = [front |-> InFront(left, m.reading), sent |-> m, got |-> Parse(left \o TextOf(m))]
  BY DEF Sound, Heard
<1> DEFINE got == Parse(left \o TextOf(m))
           front == InFront(left, m.reading)
<1>2. ~Parse(left \o TextOf(m)).error
  BY <1>1 DEF Sound
<1>3. got.reading = m.reading /\ front # "other" /\ (front = "nothing" => got.tag = m.tag)
  <2>1. CASE left = <<>>
    <3>1. front = "nothing"
      BY <2>1 DEF InFront
    <3>2. got.reading = m.reading /\ got.tag = m.tag
      BY <1>2, <2>1, AloneUnharmed
    <3>3. QED
      BY <3>1, <3>2
  <2>2. CASE IsPile(left)
    <3>1. got.reading = m.reading /\ front = "its header"
      BY <1>2, <2>2, PiledUnharmed
    <3>2. QED
      BY <3>1
  <2>3. QED
    BY <2>1, <2>2, LeftoverPiles
<1> HIDE DEF got, front
<1>4. line = [front |-> front, sent |-> m, got |-> got]
  BY <1>1 DEF got, front
<1>5. line.front = front /\ line.sent = m /\ line.got = got
  BY <1>4
<1>6. QED
  BY <1>3, <1>5 DEF Unharmed

\* The values and the date that go into the average and the files.
LEMMA SoundReading ==
    ASSUME NEW line \in Sound
    PROVE  /\ line.got.reading.co2 = line.sent.reading.co2
           /\ line.sent.reading.co2 \in Ppms /\ line.sent.reading.co2 \in Nat
           /\ DateOf(line.got.reading.stamp) \in Dates
<1>1. line.sent.reading \in Readings /\ line.got.reading = line.sent.reading
  BY SoundIsUnharmed DEF Unharmed, Messages
<1>2. QED
  BY <1>1, ReadingsAssumption DEF Readings, DateOf

\* However many clients left a line unfinished, no reading but one the sensor sent
\* is shown or saved.
THEOREM SplicesAlwaysRejected == BackendSpec => []SplicesRejected
<1> DEFINE Inv == heard = Nothing \/ heard \in Sound
<1>1. BackendInit => Inv
  BY DEF BackendInit
<1>2. Inv /\ [BackendNext]_backendVars => Inv'
  BY DEF BackendNext, OnNewMessageReceived, MainThread, ProcessEnds, backendVars
<1>3. Inv => SplicesRejected
  <2>1. ASSUME heard \in Sound PROVE SplicesRejected
    <3>1. Unharmed(heard)
      BY <2>1, SoundIsUnharmed
    <3>2. QED
      BY <3>1 DEF Unharmed, SplicesRejected
  <2>2. QED
    BY <2>1 DEF SplicesRejected
<1> HIDE DEF Inv
<1>4. QED
  BY <1>1, <1>2, <1>3, PTL DEF BackendSpec

-----------------------------------------------------------------------------
(***************************************************************************)
(* The dashboard saves readings as GraphDataProcessor has them saved: with *)
(* dates that it knows, one call at a time.                                *)
(***************************************************************************)

\* Each step of the dashboard is one of GraphDataProcessor, or none.
THEOREM DashboardSavesReadings == BackendSpec => Spec
<1>1. BackendInit => Init
  BY DEF BackendInit
<1>2. [BackendNext]_backendVars => [Next]_vars
  <2> SUFFICES ASSUME [BackendNext]_backendVars PROVE [Next]_vars
    OBVIOUS
  <2>1. ASSUME NEW line \in Sound, OnNewMessageReceived(line) PROVE Next
    <3>1. DateOf(line.got.reading.stamp) \in Dates
      BY SoundReading
    <3>2. QED
      BY <2>1, <3>1 DEF OnNewMessageReceived, SaveReading, Next
  <2>2. CASE MainThread
    BY <2>2 DEF MainThread, Next
  <2>3. CASE ProcessEnds
    BY <2>3 DEF ProcessEnds, Next
  <2>4. CASE UNCHANGED backendVars
    BY <2>4 DEF backendVars, vars
  <2>5. QED
    BY <2>1, <2>2, <2>3, <2>4 DEF BackendNext
<1>3. QED
  BY <1>1, <1>2, PTL DEF BackendSpec, Spec

\* So a crash of the dashboard costs fewer rows than a batch, ...
THEOREM DashboardFewAtRisk == BackendSpec => []FewAtRisk
BY DashboardSavesReadings, FewAlwaysAtRisk, PTL

\* ... and a date that is loaded is shown with all of its readings.
THEOREM DashboardShowsAll == BackendSpec => LoadShowsAll
BY DashboardSavesReadings, LoadAlwaysShowsAll, PTL

-----------------------------------------------------------------------------
(***************************************************************************)
(* The average shown.                                                      *)
(***************************************************************************)

\* m_Values are the readings that the sensor sent last, m_Sum is their sum, and
\* the value shown was computed from the two.
AverageInv ==
    /\ told \in Seq(Ppms) /\ told \in Seq(Nat) /\ Len(told) <= MaxValues
    /\ average = [values |-> told, sum |-> Total(told)]
    /\ current \in Nat
    /\ told # <<>> => current = Total(told) \div Len(told)

\* No readings, no average.
LEMMA AverageInit == BackendInit => AverageInv
<1>1. <<>> \in Seq(Ppms) /\ <<>> \in Seq(Nat) /\ Len(<<>>) = 0
  OBVIOUS
<1>2. 0 <= MaxValues /\ 0 \in Nat
  BY MaxValuesAssumption
<1>3. QED
  BY <1>1, <1>2, TotalOfEmpty DEF BackendInit, AverageInv

\* The readings of which the average is, with one more.
LEMMA LastOfTypes ==
    ASSUME NEW S, NEW s \in Seq(S), NEW value \in S, Len(s) <= MaxValues
    PROVE  /\ LastOf(s, value) \in Seq(S) /\ Len(LastOf(s, value)) \in 1 .. MaxValues
           /\ Len(s) = MaxValues => s # <<>>
<1> DEFINE n == Len(s)
<1>1. n \in Nat /\ n <= MaxValues /\ MaxValues \in Nat \ {0}
  BY LenProperties, MaxValuesAssumption
<1>2. n = MaxValues => s # <<>>
  <2>1. s = <<>> => n = 0
    BY EmptySeq
  <2>2. QED
    BY <1>1, <2>1
<1>3. CASE n = MaxValues
  <2> DEFINE t == Tail(s)
  <2>1. t \in Seq(S) /\ Len(t) = n - 1
    BY <1>2, <1>3, HeadTailProperties
  <2>2. LastOf(s, value) = Append(t, value)
    BY <1>3 DEF LastOf
  <2> HIDE DEF t
  <2>3. Append(t, value) \in Seq(S) /\ Len(Append(t, value)) = Len(t) + 1
    BY <2>1, AppendProperties
  <2> HIDE DEF n
  <2> DEFINE k == Len(Append(t, value))
  <2>4. k = (n - 1) + 1
    BY <2>1, <2>3
  <2> HIDE DEF k
  <2>5. k \in 1 .. MaxValues
    BY <1>1, <1>3, <2>4
  <2>6. QED
    BY <1>2, <2>2, <2>3, <2>5 DEF k, n
<1>4. CASE n # MaxValues
  <2>1. LastOf(s, value) = Append(s, value)
    BY <1>4 DEF LastOf
  <2>2. Append(s, value) \in Seq(S) /\ Len(Append(s, value)) = n + 1
    BY AppendProperties
  <2> HIDE DEF n
  <2>3. n + 1 \in 1 .. MaxValues
    BY <1>1, <1>4
  <2>4. QED
    BY <1>2, <2>1, <2>2, <2>3 DEF n
<1>5. QED
  BY <1>3, <1>4

\* Push takes out what it has to.
LEMMA PushKeepsTotal ==
    ASSUME AverageInv, NEW value \in Nat, Push(value)
    PROVE  average' = [values |-> LastOf(told, value), sum |-> Total(LastOf(told, value))]
<1> DEFINE n == Len(told)
           s == told
<1>1. /\ s \in Seq(Nat) /\ n \in Nat /\ n <= MaxValues /\ MaxValues \in Nat \ {0}
      /\ average.values = s /\ average.sum = Total(s)
      /\ n = MaxValues => s # <<>>
  BY LenProperties, MaxValuesAssumption, LastOfTypes DEF AverageInv
<1>2. CASE n = MaxValues
  <2>1. Len(s) + 1 > MaxValues
    <3> HIDE DEF n
    <3>1. n + 1 > MaxValues
      BY <1>1, <1>2
    <3>2. QED
      BY <3>1 DEF n
  <2>2. average' = [values |-> Append(Tail(s), value), sum |-> Total(s) - Head(s) + value]
    BY <1>1, <2>1 DEF Push
  <2>3. /\ Total(s) = Head(s) + Total(Tail(s)) /\ Tail(s) \in Seq(Nat) /\ Head(s) \in Nat
    BY <1>1, <1>2, TotalOfTail, HeadTailProperties
  <2>4. Total(Append(Tail(s), value)) = Total(Tail(s)) + value /\ Total(Tail(s)) \in Nat
    BY <2>3, TotalOfAppend, TotalType
  <2> DEFINE a == Total(Tail(s))
             b == Head(s)
             c == Total(s)
             e == Total(Append(Tail(s), value))
  <2>5. c = b + a /\ a \in Nat /\ b \in Nat /\ e = a + value
    BY <2>3, <2>4
  <2> HIDE DEF a, b, c, e
  <2>6. c - b + value = e
    BY <2>5
  <2>7. LastOf(s, value) = Append(Tail(s), value)
    BY <1>2 DEF LastOf
  <2>8. QED
    BY <2>2, <2>6, <2>7 DEF b, c, e
<1>3. CASE n # MaxValues
  <2>1. ~(Len(s) + 1 > MaxValues)
    <3> HIDE DEF n
    <3>1. ~(n + 1 > MaxValues)
      BY <1>1, <1>3
    <3>2. QED
      BY <3>1 DEF n
  <2>2. average' = [values |-> Append(s, value), sum |-> Total(s) + value]
    BY <1>1, <2>1 DEF Push
  <2>3. Total(Append(s, value)) = Total(s) + value
    BY <1>1, TotalOfAppend
  <2>4. QED
    BY <1>3, <2>2, <2>3 DEF LastOf
<1>4. QED
  BY <1>2, <1>3

\* GetAvg of the readings' sum is their average.
LEMMA GetAvgIsAverage ==
    ASSUME NEW s \in Seq(Nat), Len(s) \in 1 .. MaxValues
    PROVE  /\ GetAvg([values |-> s, sum |-> Total(s)]) = Total(s) \div Len(s)
           /\ Total(s) \div Len(s) \in Nat
<1> DEFINE n == Len(s)
           t == Total(s)
<1>1. t \in Nat /\ n \in 1 .. MaxValues /\ MaxValues \in Nat
  BY TotalType, MaxValuesAssumption
<1>2. s # <<>>
  <2>1. s = <<>> => n = 0
    BY EmptySeq
  <2> HIDE DEF n
  <2>2. QED
    BY <1>1, <2>1
<1>3. GetAvg([values |-> s, sum |-> t]) = IF t = 0 THEN 0 ELSE t \div n
  BY <1>2 DEF GetAvg
<1> HIDE DEF n, t
<1>4. n \in Nat \ {0}
  BY <1>1
<1>5. t \div n \in Nat /\ (t = 0 => t \div n = 0)
  <2>1. t \div n \in Nat
    BY <1>1, <1>4
  <2>2. 0 \div n = 0
    BY <1>4
  <2>3. QED
    BY <2>1, <2>2
<1>6. QED
  BY <1>3, <1>5 DEF n, t

\* One step per action.
LEMMA AverageNext == AverageInv /\ [BackendNext]_backendVars => AverageInv'
<1> SUFFICES ASSUME AverageInv, [BackendNext]_backendVars PROVE AverageInv'
  OBVIOUS
<1>1. ASSUME NEW line \in Sound, OnNewMessageReceived(line) PROVE AverageInv'
  <2> DEFINE value == line.got.reading.co2
             next == LastOf(told, value)
  <2>1. value \in Ppms /\ value \in Nat /\ value = line.sent.reading.co2
    BY SoundReading
  <2> HIDE DEF value
  <2>2. CASE line.got.tag = "new"
    <3>1. Push(value) /\ current' = GetAvg(average') /\ told' = next
      BY <1>1, <2>1, <2>2 DEF OnNewMessageReceived, value
    <3>2. average' = [values |-> next, sum |-> Total(next)]
      BY <2>1, <3>1, PushKeepsTotal
    <3>3. told \in Seq(Ppms) /\ told \in Seq(Nat) /\ Len(told) <= MaxValues
      BY DEF AverageInv
    <3>4. next \in Seq(Ppms) /\ next \in Seq(Nat) /\ Len(next) \in 1 .. MaxValues
      BY <2>1, <3>3, LastOfTypes
    <3> HIDE DEF next
    <3>5. /\ GetAvg([values |-> next, sum |-> Total(next)]) = Total(next) \div Len(next)
          /\ Total(next) \div Len(next) \in Nat
      BY <3>4, GetAvgIsAverage
    <3>6. current' = Total(next) \div Len(next) /\ current' \in Nat
      BY <3>1, <3>2, <3>5
    <3> DEFINE m == Len(next)
    <3>7. m <= MaxValues
      <4>1. m \in 1 .. MaxValues
        BY <3>4
      <4> HIDE DEF m
      <4>2. QED
        BY <4>1, MaxValuesAssumption
    <3>8. QED
      BY <3>1, <3>2, <3>4, <3>6, <3>7 DEF AverageInv
  <2>3. CASE line.got.tag # "new"
    BY <1>1, <2>3 DEF OnNewMessageReceived, AverageInv
  <2>4. QED
    BY <2>2, <2>3
<1>2. CASE MainThread
  BY <1>2 DEF MainThread, AverageInv
<1>3. CASE ProcessEnds
  <2>1. <<>> \in Seq(Ppms) /\ <<>> \in Seq(Nat) /\ Len(<<>>) = 0
    OBVIOUS
  <2>2. 0 <= MaxValues /\ 0 \in Nat
    BY MaxValuesAssumption
  <2>3. QED
    BY <1>3, <2>1, <2>2, TotalOfEmpty DEF ProcessEnds, AverageInv
<1>4. CASE UNCHANGED backendVars
  BY <1>4 DEF backendVars, AverageInv
<1>5. QED
  BY <1>1, <1>2, <1>3, <1>4 DEF BackendNext

LEMMA AverageInvariant == BackendSpec => []AverageInv
BY AverageInit, AverageNext, PTL DEF BackendSpec

\* The CO2 value shown is the average of the last MaxValues readings of the
\* sensor, whichever of its lines were damaged.
THEOREM CurrentIsAlwaysAverage == BackendSpec => []CurrentIsAverage
<1>1. AverageInv => CurrentIsAverage
  BY DEF AverageInv, CurrentIsAverage, Total
<1>2. QED
  BY <1>1, AverageInvariant, PTL

\* The dashboard's data keep their types, and no more than MaxValues readings are
\* held for the average.
THEOREM BackendTypeCorrect == BackendSpec => []BackendTypeOK
<1>1. AverageInv /\ TypeOK => BackendTypeOK
  <2> SUFFICES ASSUME AverageInv, TypeOK PROVE BackendTypeOK
    OBVIOUS
  <2>1. Total(told) \in Nat
    BY TotalType DEF AverageInv
  <2>2. QED
    BY <2>1 DEF AverageInv, BackendTypeOK
<1>2. QED
  BY <1>1, AverageInvariant, DashboardSavesReadings, GraphTypeCorrect, PTL
=============================================================================
