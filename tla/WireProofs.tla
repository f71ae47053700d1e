----------------------------- MODULE WireProofs -----------------------------
(***************************************************************************)
(* Theorems about what is on the wire, for packets and LSAs of any length: *)
(* the arithmetic of the two checksums; the sums over the bytes and words  *)
(* of a packet; what is where in a packet, and what the receiver reads     *)
(* there.  The sums and the list of links are functions defined by         *)
(* recursion: the lemma Recursion says that there are such functions, and  *)
(* Induction, about sets of numbers, what holds of all their values.       *)
(***************************************************************************)
EXTENDS Wire, WellFoundedInduction, TLAPS

\* Quotient and remainder.
LEMMA Division ==
  ASSUME NEW n \in Int
  PROVE  \E q \in Int : n = 255 * q + (n % 255) /\ n % 255 \in 0..254
<1>1. n \div 255 \in Int /\ n = 255 * (n \div 255) + (n % 255) /\ n % 255 \in 0..254
  OBVIOUS
<1>. QED
  BY <1>1

\* A multiple of m leaves nothing.
LEMMA Multiple ==
  ASSUME NEW k \in Int
  PROVE  (255 * k) % 255 = 0
  OBVIOUS

\* A number that is not negative is fitted modulo 255.
LEMMA FittedPositive ==
  ASSUME NEW n \in Nat
  PROVE  \E k \in Int : Fitted(n) = n + 255 * k
<1> DEFINE r == n % 255
<1>1. PICK q \in Int : n = 255 * q + r /\ r \in 0..254
  BY Division
<1>2. CRem(n, 255) = r
  BY DEF CRem
<1>3. CASE r = 0
  <2>1. Fitted(n) = 255
    BY <1>2, <1>3 DEF Fitted
  <2>2. 255 = n + 255 * (1 - q) /\ 1 - q \in Int
    BY <1>1, <1>3
  <2> WITNESS 1 - q \in Int
  <2>. QED
    BY <2>1, <2>2
<1>4. CASE r # 0
  <2>1. Fitted(n) = r
    <3>1. r % 256 = r
      BY <1>1
    <3>. QED
      BY <1>2, <1>4, <3>1 DEF Fitted
  <2>2. r = n + 255 * (-q) /\ -q \in Int
    BY <1>1
  <2> WITNESS -q \in Int
  <2>. QED
    BY <2>1, <2>2
<1>. QED
  BY <1>3, <1>4

\* A negative number is fitted to one more than itself modulo 255, unless it is
\* a multiple of 255.
LEMMA FittedNegative ==
  ASSUME NEW n \in Int, n < 0, n % 255 # 0
  PROVE  \E k \in Int : Fitted(n) = n + 1 + 255 * k
<1> DEFINE r == (-n) % 255
<1>1. PICK q \in Int : -n = 255 * q + r /\ r \in 0..254
  BY Division
<1>2. CRem(n, 255) = -r
  BY DEF CRem
<1>3. r # 0
  <2> SUFFICES ASSUME r = 0 PROVE FALSE
    OBVIOUS
  <2>1. n = 255 * (-q) /\ -q \in Int
    BY <1>1
  <2>. QED
    BY <2>1, Multiple
<1>4. Fitted(n) = 256 - r
  <2>1. (-r) % 256 = 256 - r
    BY <1>1, <1>3
  <2>. QED
    BY <1>1, <1>2, <1>3, <2>1 DEF Fitted
<1>5. 256 - r = n + 1 + 255 * (q + 1) /\ q + 1 \in Int
  BY <1>1
<1> WITNESS q + 1 \in Int
<1>. QED
  BY <1>4, <1>5

\* A negative multiple of 255 is fitted like any other multiple.
LEMMA FittedMultiple ==
  ASSUME NEW n \in Int, n < 0, n % 255 = 0
  PROVE  \E k \in Int : Fitted(n) = n + 255 * k
<1>1. PICK q \in Int : n = 255 * q + (n % 255)
  BY Division
<1>2. -n = 255 * (-q) /\ -q \in Int
  BY <1>1
<1>3. CRem(n, 255) = 0
  BY <1>2, Multiple DEF CRem
<1>4. Fitted(n) = n + 255 * (1 - q) /\ 1 - q \in Int
  BY <1>1, <1>3 DEF Fitted
<1>. QED
  BY <1>4

\* What a check byte is short of.
ShortX(left, c0, c1) == IF SlipsX(left, c0, c1) THEN 1 ELSE 0
ShortY(left, c0, c1) == IF SlipsY(left, c0, c1) THEN 1 ELSE 0

\* The first check byte is the number it is made from, or one less.
LEMMA CheckXValue ==
  ASSUME NEW left \in Nat, NEW c0 \in Nat, NEW c1 \in Nat
  PROVE  \E k \in Int :
           CheckX(left, c0, c1) = RawX(left, c0, c1) - ShortX(left, c0, c1) + 255 * k
<1>. PICK x \in Int : x = RawX(left, c0, c1)
  BY DEF RawX
<1>1. CASE x >= 0
  <2>1. CheckX(left, c0, c1) = Fitted(x) /\ ShortX(left, c0, c1) = 0
    BY <1>1 DEF CheckX, SlipsX, ShortX
  <2>2. PICK k \in Int : Fitted(x) = x + 255 * k
    BY <1>1, FittedPositive
  <2>. QED
    BY <2>1, <2>2
<1>2. CASE x < 0 /\ (x - 1) % 255 # 0
  <2>1. CheckX(left, c0, c1) = Fitted(x - 1) /\ ShortX(left, c0, c1) = 0
    BY <1>2 DEF CheckX, SlipsX, ShortX
  <2>2. PICK k \in Int : Fitted(x - 1) = (x - 1) + 1 + 255 * k
    BY <1>2, FittedNegative
  <2>. QED
    BY <2>1, <2>2
<1>3. CASE x < 0 /\ (x - 1) % 255 = 0
  <2>1. CheckX(left, c0, c1) = Fitted(x - 1) /\ ShortX(left, c0, c1) = 1
    BY <1>3 DEF CheckX, SlipsX, ShortX
  <2>2. PICK k \in Int : Fitted(x - 1) = (x - 1) + 255 * k
    BY <1>3, FittedMultiple
  <2>. QED
    BY <2>1, <2>2
<1>. QED
  BY <1>1, <1>2, <1>3

\* The second check byte is one more than the number it is made from, or that
\* number.
LEMMA CheckYValue ==
  ASSUME NEW left \in Nat, NEW c0 \in Nat, NEW c1 \in Nat
  PROVE  \E k \in Int :
           CheckY(left, c0, c1) = RawY(left, c0, c1) + 1 - ShortY(left, c0, c1) + 255 * k
<1>. PICK y \in Int : y = RawY(left, c0, c1)
  BY DEF RawY
<1>1. CASE y >= 0
  <2>1. CheckY(left, c0, c1) = Fitted(y + 1) /\ ShortY(left, c0, c1) = 0 /\ y + 1 \in Nat
    BY <1>1 DEF CheckY, SlipsY, ShortY
  <2>2. PICK k \in Int : Fitted(y + 1) = (y + 1) + 255 * k
    BY <2>1, FittedPositive
  <2>. QED
    BY <2>1, <2>2
<1>2. CASE y < 0 /\ y % 255 # 0
  <2>1. CheckY(left, c0, c1) = Fitted(y) /\ ShortY(left, c0, c1) = 0
    BY <1>2 DEF CheckY, SlipsY, ShortY
  <2>2. PICK k \in Int : Fitted(y) = y + 1 + 255 * k
    BY <1>2, FittedNegative
  <2>. QED
    BY <2>1, <2>2
<1>3. CASE y < 0 /\ y % 255 = 0
  <2>1. CheckY(left, c0, c1) = Fitted(y) /\ ShortY(left, c0, c1) = 1
    BY <1>3 DEF CheckY, SlipsY, ShortY
  <2>2. PICK k \in Int : Fitted(y) = y + 255 * k
    BY <1>3, FittedMultiple
  <2>. QED
    BY <2>1, <2>2
<1>. QED
  BY <1>1, <1>2, <1>3

\* The check bytes of create_osi_cksum make both sums of the LSA multiples of
\* 255, for every length, unless one of them slips; then the first sum is none
\* (Common.h:38-62).
THEOREM CheckBytes ==
  ASSUME NEW left \in Nat, NEW c0 \in Nat, NEW c1 \in Nat
  PROVE  LET X == CheckX(left, c0, c1)
             Y == CheckY(left, c0, c1)
             slips == SlipsX(left, c0, c1) \/ SlipsY(left, c0, c1)
         IN  /\ (c0 + X + Y) % 255 = 0 <=> ~slips
             /\ ~slips => (c1 + left * X + (left - 1) * Y) % 255 = 0
<1> DEFINE X == CheckX(left, c0, c1)
           Y == CheckY(left, c0, c1)
           x == left * c0 - c0 - c1
           y == c1 - left * c0 - 1
           sx == ShortX(left, c0, c1)
           sy == ShortY(left, c0, c1)
<1>1. x \in Int /\ y \in Int /\ left * c0 \in Int
  OBVIOUS
<1>2. PICK a \in Int : X = x - sx + 255 * a
  <2>1. x = RawX(left, c0, c1)
    BY DEF RawX
  <2>2. PICK k \in Int : X = RawX(left, c0, c1) - sx + 255 * k
    BY CheckXValue
  <2> HIDE DEF X, x, sx
  <2>. QED
    BY <2>1, <2>2
<1>3. PICK b \in Int : Y = y + 1 - sy + 255 * b
  <2>1. y = RawY(left, c0, c1)
    BY DEF RawY
  <2>2. PICK k \in Int : Y = RawY(left, c0, c1) + 1 - sy + 255 * k
    BY CheckYValue
  <2> HIDE DEF Y, y, sy
  <2>. QED
    BY <2>1, <2>2
<1>. sx \in {0, 1} /\ sy \in {0, 1}
  BY DEF ShortX, ShortY
<1>4. c0 + X + Y = 255 * (a + b) - (sx + sy) /\ a + b \in Int /\ sx + sy \in 0..2
  BY <1>1, <1>2, <1>3
<1>5. ASSUME sx + sy = 0
      PROVE  c1 + left * X + (left - 1) * Y = 255 * (left * a + (left - 1) * b)
             /\ left * a + (left - 1) * b \in Int
  <2>1. sx = 0 /\ sy = 0
    BY <1>5
  <2>2. X = x + 255 * a /\ Y = y + 1 + 255 * b
    BY <1>2, <1>3, <2>1
  <2>3. left * X = left * x + 255 * (left * a)
    BY <1>1, <2>2
  <2>4. (left - 1) * Y = (left - 1) * (y + 1) + 255 * ((left - 1) * b)
    BY <1>1, <2>2
  <2>5. c1 + left * x + (left - 1) * (y + 1) = 0
    OBVIOUS
  <2>. QED
    BY <1>1, <2>3, <2>4, <2>5
<1>6. sx + sy = 0 <=> ~(SlipsX(left, c0, c1) \/ SlipsY(left, c0, c1))
  BY DEF ShortX, ShortY
<1>7. ASSUME NEW k \in Int, NEW s \in 0..2 PROVE (255 * k - s) % 255 = 0 <=> s = 0
  OBVIOUS
<1>8. (c0 + X + Y) % 255 = 0 <=> sx + sy = 0
  <2> HIDE DEF X, Y, sx, sy
  <2>. QED
    BY <1>4, <1>7
<1>9. sx + sy = 0 => (c1 + left * X + (left - 1) * Y) % 255 = 0
  <2> HIDE DEF X, Y, sx, sy
  <2>. QED
    BY <1>5, Multiple
<1>. QED
  BY <1>6, <1>8, <1>9

\* The two halves of a sum.
LEMMA Halves ==
  ASSUME NEW n \in Nat, NEW m \in Nat, m > 1
  PROVE  n = m * (n \div m) + (n % m) /\ n % m \in 0..(m - 1) /\ n \div m \in Nat
  BY Z3

\* What the two additions make of the halves.
LEMMA Carry ==
  ASSUME NEW m \in Nat, m > 1, NEW high \in Nat, 2 * high < m, NEW low \in 0..(m - 1)
  PROVE  LET once == high + low IN
           (once + (once \div m)) % m = IF once < m THEN once ELSE once - (m - 1)
<1> DEFINE once == high + low
<1>1. CASE once < m
  <2>1. once \div m = 0
    BY <1>1, Z3
  <2>2. once % m = once
    BY <1>1, Z3
  <2>. QED
    BY <1>1, <2>1, <2>2
<1>2. CASE once >= m
  <2>1. once \div m = 1
    BY <1>2, Z3
  <2>2. once + 1 = m + (once - (m - 1)) /\ once - (m - 1) \in 0..(m - 1)
    BY <1>2
  <2>3. (once + 1) % m = once - (m - 1)
    BY <2>2, Z3
  <2>. QED
    BY <1>2, <2>1, <2>3
<1>. QED
  BY <1>1, <1>2

\* A multiple of a number leaves nothing when it is divided by it.
LEMMA MultipleOf ==
  ASSUME NEW m \in Nat, m > 0, NEW k \in Nat
  PROVE  (m * k) % m = 0
  BY Z3

\* The checksum of inet_cksum makes the sum of a packet's words, checksum
\* included, a multiple of 65535, for every packet that IP can carry: two
\* additions of the carry are enough (PacketManager.cpp:19-43).
THEOREM WordSumComplement ==
  ASSUME NEW sum \in Nat, 2 * (sum \div Words) < Words
  PROVE  (sum + Complement(sum)) % (Words - 1) = 0 /\ Complement(sum) \in 0..(Words - 1)
<1> DEFINE high == sum \div Words
           low == sum % Words
<1>0. Words \in Nat /\ Words > 1
  BY DEF Words
<1>1. sum = Words * high + low /\ high \in Nat /\ low \in 0..(Words - 1)
  BY <1>0, Halves
<1>2. Carried(sum) = IF high + low < Words THEN high + low ELSE high + low - (Words - 1)
  <2>1. Carried(sum) = ((high + low) + ((high + low) \div Words)) % Words
    BY DEF Carried
  <2>2. 2 * high < Words
    OBVIOUS
  <2> HIDE DEF high, low
  <2>. QED
    BY <1>0, <1>1, <2>1, <2>2, Carry
<1>3. 2 * high < Words
  OBVIOUS
<1> HIDE DEF high, low
<1>4. Complement(sum) = Words - 1 - Carried(sum)
  BY DEF Complement
<1>5. Complement(sum) \in 0..(Words - 1)
  BY <1>0, <1>1, <1>2, <1>3, <1>4
<1>6. PICK k \in {1, 2} : sum + Complement(sum) = (Words - 1) * (high + k)
  BY <1>0, <1>1, <1>2, <1>4
<1>7. high + k \in Nat /\ Words - 1 \in Nat /\ Words - 1 > 0
  BY <1>0, <1>1
<1>8. ((Words - 1) * (high + k)) % (Words - 1) = 0
  BY <1>7, MultipleOf
<1>. QED
  BY <1>5, <1>6, <1>8

-----------------------------------------------------------------------------
(* Induction over a set of numbers, and functions defined by recursion. *)

\* The order of the numbers is well-founded.
LEMMA NatWellFounded == IsWellFoundedOn({ss \in Nat \X Nat : ss[1] < ss[2]}, Nat)
  BY NatLessThanWellFounded, Zenon DEF OpToRel

\* A set of natural numbers that holds 0 and every successor holds all.
LEMMA Induction ==
  ASSUME NEW S, 0 \in S, \A k \in Nat : k \in S => k + 1 \in S
  PROVE  \A k \in Nat : k \in S
<1>. DEFINE T == Nat \ S
            R == {ss \in Nat \X Nat : ss[1] < ss[2]}
<1>1. CASE T # {}
  <2>1. PICK x \in T : \A y \in T : <<y, x>> \notin R
    <3>1. IsWellFoundedOn(R, Nat) /\ T \subseteq Nat
      BY NatWellFounded
    <3>. HIDE DEF T, R
    <3>. QED
      BY <1>1, <3>1, WFMin, Zenon
  <2>2. x # 0 /\ x - 1 \in Nat /\ x - 1 + 1 = x
    OBVIOUS
  <2>3. x - 1 \in T
    BY <2>2
  <2>4. <<x - 1, x>> \in R
    BY <2>2
  <2>. QED
    BY <2>1, <2>3, <2>4
<1>. QED
  BY <1>1

\* f is the function on 0..n into S that starts with base and follows step.
Follows(f, S, n, base, step) ==
  f \in [0..n -> S] /\ f[0] = base /\ \A k \in 1..n : f[k] = step[<<f[k - 1], k>>]

\* There is a function for every rule that gives its next value.
LEMMA Recursion ==
  ASSUME NEW n \in Nat, NEW S, NEW base \in S, NEW step \in [S \X (1..n) -> S]
  PROVE  \E f : Follows(f, S, n, base, step)
<1>. DEFINE Upto(f, m) == f \in [0..m -> S] /\ f[0] = base /\ \A k \in 1..m : f[k] = step[<<f[k - 1], k>>]
            T == {m \in Nat : m <= n => \E f : Upto(f, m)}
<1>1. 0 \in T
  <2>1. Upto([k \in 0..0 |-> base], 0)
    OBVIOUS
  <2>. QED
    BY <2>1
<1>2. ASSUME NEW m \in Nat, m \in T PROVE m + 1 \in T
  <2>. SUFFICES ASSUME m + 1 <= n PROVE \E f : Upto(f, m + 1)
    OBVIOUS
  <2>1. PICK f : Upto(f, m)
    BY <1>2
  <2>. DEFINE g == [k \in 0..m + 1 |-> IF k = m + 1 THEN step[<<f[m], m + 1>>] ELSE f[k]]
  <2>2. <<f[m], m + 1>> \in S \X (1..n)
    BY <2>1
  <2>3. step[<<f[m], m + 1>>] \in S
    BY <2>2
  <2>4. g \in [0..m + 1 -> S]
    BY <2>1, <2>3
  <2>5. g[0] = base
    BY <2>1
  <2>6. \A k \in 1..m + 1 : g[k] = step[<<g[k - 1], k>>]
    <3>. SUFFICES ASSUME NEW k \in 1..m + 1 PROVE g[k] = step[<<g[k - 1], k>>]
      OBVIOUS
    <3>1. CASE k = m + 1
      <4>1. g[k - 1] = f[m] /\ g[k] = step[<<f[m], k>>]
        BY <3>1
      <4>. QED
        BY <4>1
    <3>2. CASE k \in 1..m
      <4>1. g[k] = f[k] /\ g[k - 1] = f[k - 1]
        BY <3>2
      <4>. QED
        BY <2>1, <3>2, <4>1
    <3>. QED
      BY <3>1, <3>2
  <2>. QED
    BY <2>4, <2>5, <2>6
<1>3. n \in T
  <2>. HIDE DEF T
  <2>. QED
    BY <1>1, <1>2, Induction
<1>. QED
  BY <1>3 DEF Follows

-----------------------------------------------------------------------------
(* The sum of a packet's words. *)

\* The sum of the first k words of d.
IsWordSum(s, d) ==
  /\ s \in [0..(Len(d) \div 2) -> Nat]
  /\ s[0] = 0
  /\ \A k \in 1..(Len(d) \div 2) : s[k] = s[k - 1] + Host16(d, 2 * k - 2)

\* The words of a packet.
LEMMA HostWords ==
  ASSUME NEW d \in Seq(Byte), NEW k \in 1..(Len(d) \div 2)
  PROVE  /\ 2 * k - 1 \in 1..Len(d) /\ 2 * k \in 1..Len(d)
         /\ Host16(d, 2 * k - 2) = 256 * d[2 * k - 1] + d[2 * k]
         /\ Host16(d, 2 * k - 2) \in Word16
<1>1. Len(d) \in Nat /\ k \in Nat /\ 2 * k <= Len(d) /\ k >= 1
  OBVIOUS
<1>2. 2 * k - 1 \in 1..Len(d) /\ 2 * k \in 1..Len(d) /\ 2 * k - 2 + 1 = 2 * k - 1 /\ 2 * k - 2 + 2 = 2 * k
  BY <1>1
<1>3. \A i \in 1..Len(d) : d[i] \in Byte
  OBVIOUS
<1>4. d[2 * k - 1] \in 0..255 /\ d[2 * k] \in 0..255
  BY <1>2, <1>3 DEF Byte
<1>5. Host16(d, 2 * k - 2) = 256 * d[2 * k - 1] + d[2 * k]
  BY <1>2, Zenon DEF Host16
<1>6. ASSUME NEW x \in 0..255, NEW y \in 0..255 PROVE 256 * x + y \in Word16
  BY DEF Word16
<1>7. Host16(d, 2 * k - 2) \in Word16
  <2>. DEFINE x == d[2 * k - 1]
              y == d[2 * k]
  <2>1. x \in 0..255 /\ y \in 0..255 /\ Host16(d, 2 * k - 2) = 256 * x + y
    BY <1>4, <1>5
  <2>. HIDE DEF x, y
  <2>2. 256 * x + y \in Word16
    BY <2>1, <1>6, Zenon
  <2>. QED
    BY <2>1, <2>2, Zenon
<1>. QED
  BY <1>2, <1>5, <1>7

\* WordSum is what its definition says.
LEMMA WordSums ==
  ASSUME NEW d \in Seq(Byte)
  PROVE  \E s : IsWordSum(s, d) /\ WordSum(d) = s[Len(d) \div 2]
<1>. DEFINE n == Len(d) \div 2
            Rule(s) == [k \in 0..n |-> IF k = 0 THEN 0 ELSE s[k - 1] + Host16(d, 2 * k - 2)]
            c == CHOOSE s : s = Rule(s)
            step == [x \in Nat \X (1..n) |-> x[1] + Host16(d, 2 * x[2] - 2)]
<1>1. n \in Nat /\ Len(d) \in Nat
  OBVIOUS
<1>2. ASSUME NEW k \in 1..n PROVE Host16(d, 2 * k - 2) \in Nat
  <2>1. Host16(d, 2 * k - 2) \in Word16
    BY HostWords
  <2>. QED
    BY <2>1 DEF Word16
<1>3. PICK f \in [0..n -> Nat] : f[0] = 0 /\ \A k \in 1..n : f[k] = step[<<f[k - 1], k>>]
  <2>1. step \in [Nat \X (1..n) -> Nat]
    BY <1>2
  <2>2. 0 \in Nat
    OBVIOUS
  <2>. HIDE DEF step, n
  <2>3. \E f : Follows(f, Nat, n, 0, step)
    BY <1>1, <2>1, <2>2, Recursion, Zenon
  <2>. QED
    BY <2>3 DEF Follows
<1>4. f = Rule(f)
  <2>1. ASSUME NEW k \in 1..n PROVE f[k] = f[k - 1] + Host16(d, 2 * k - 2)
    <3>1. f[k - 1] \in Nat
      BY <1>1, <1>3
    <3>. QED
      BY <1>3, <3>1
  <2>. QED
    BY <1>1, <1>3, <2>1
<1>5. c = Rule(c)
  <2>. HIDE DEF Rule
  <2>. QED
    BY <1>4
<1>6. c[0] = 0 /\ \A k \in 1..n : c[k] = c[k - 1] + Host16(d, 2 * k - 2)
  <2>. HIDE DEF c
  <2>. QED
    BY <1>1, <1>5
<1>7. \A k \in Nat : k \in {j \in Nat : j <= n => c[j] \in Nat}
  <2>. DEFINE S == {k \in Nat : k <= n => c[k] \in Nat}
  <2>. HIDE DEF c, n
  <2>1. 0 \in S
    BY <1>6
  <2>2. ASSUME NEW k \in Nat, k \in S PROVE k + 1 \in S
    <3>. SUFFICES ASSUME k + 1 <= n PROVE c[k + 1] \in Nat
      OBVIOUS
    <3>1. k + 1 \in 1..n /\ k + 1 - 1 = k /\ c[k] \in Nat
      BY <1>1, <2>2
    <3>. QED
      BY <1>2, <1>6, <3>1
  <2>. HIDE DEF S
  <2>3. \A k \in Nat : k \in S
    BY <2>1, <2>2, Induction
  <2>. QED
    BY <2>3 DEF S
<1>8. c \in [0..n -> Nat]
  <2>. HIDE DEF c, n
  <2>1. \A k \in 0..n : c[k] \in Nat
    BY <1>1, <1>7
  <2>. QED
    BY <1>5, <2>1
<1>9. IsWordSum(c, d)
  BY <1>6, <1>8 DEF IsWordSum
<1>10. WordSum(d) = c[n]
  BY DEF WordSum
<1>. QED
  BY <1>9, <1>10

\* A packet that IP can carry has a sum whose carries are few.
LEMMA WordSumBound ==
  ASSUME NEW d \in Seq(Byte), Len(d) \in Word16
  PROVE  WordSum(d) \in Nat /\ 2 * (WordSum(d) \div Words) < Words
<1>. DEFINE n == Len(d) \div 2
<1>1. PICK s : IsWordSum(s, d) /\ WordSum(d) = s[n]
  BY WordSums
<1>2. n \in Nat /\ n < 128 * 256
  <2>1. Len(d) \in Nat /\ Len(d) < 256 * 256
    BY DEF Word16
  <2>. QED
    BY <2>1
<1>. HIDE DEF n
<1>3. ASSUME NEW k \in 1..n PROVE s[k] = s[k - 1] + Host16(d, 2 * k - 2) /\ Host16(d, 2 * k - 2) \in Word16
  <2>1. k \in 1..(Len(d) \div 2)
    BY DEF n
  <2>2. Host16(d, 2 * k - 2) \in Word16
    BY <2>1, HostWords
  <2>. QED
    BY <1>1, <2>1, <2>2 DEF IsWordSum
<1>4. s \in [0..n -> Nat] /\ s[0] = 0
  BY <1>1 DEF IsWordSum, n
<1>. DEFINE S == {k \in Nat : k <= n => s[k] <= (256 * 256) * k}
<1>5. 0 \in S
  BY <1>4
<1>6. ASSUME NEW k \in Nat, k \in S PROVE k + 1 \in S
  <2>. SUFFICES ASSUME k + 1 <= n PROVE s[k + 1] <= (256 * 256) * (k + 1)
    OBVIOUS
  <2>1. k + 1 \in 1..n /\ k + 1 - 1 = k /\ k \in 0..n
    BY <1>2
  <2>2. s[k] \in Nat /\ s[k] <= (256 * 256) * k
    BY <1>4, <1>6, <2>1
  <2>. DEFINE w == Host16(d, 2 * (k + 1) - 2)
  <2>3. s[k + 1] = s[k] + w /\ w \in Word16
    BY <1>3, <2>1
  <2>. HIDE DEF w
  <2>4. w \in Nat /\ w < 256 * 256
    BY <2>3 DEF Word16
  <2>. QED
    BY <2>2, <2>3, <2>4
<1>7. n \in S
  <2>. HIDE DEF S
  <2>. QED
    BY <1>2, <1>5, <1>6, Induction
<1>8. WordSum(d) \in Nat /\ WordSum(d) < (256 * 256) * (128 * 256)
  <2>1. WordSum(d) \in Nat /\ WordSum(d) <= (256 * 256) * n
    BY <1>1, <1>2, <1>4, <1>7
  <2>. QED
    BY <1>2, <2>1
<1>9. Words = 256 * 256
  BY DEF Words
<1>. DEFINE m == WordSum(d)
            h == m \div (256 * 256)
<1>10. h < 128 * 256
  <2>1. m \in Nat /\ m < (256 * 256) * (128 * 256)
    BY <1>8
  <2>. HIDE DEF m
  <2>. QED
    BY <2>1
<1>11. h \in Nat
  BY <1>8
<1>. HIDE DEF h
<1>12. 2 * h < 256 * 256
  BY <1>10, <1>11
<1>. QED
  BY <1>8, <1>9, <1>12 DEF h

\* What a patch does to a packet (the word is zero before).
LEMMA PatchedPacket ==
  ASSUME NEW d \in Seq(Byte), NEW p \in Nat, p + 2 <= Len(d), NEW n \in Word16
  PROVE  /\ Patched(d, p, n) \in Seq(Byte) /\ Len(Patched(d, p, n)) = Len(d)
         /\ Patched(d, p, n)[p + 1] = n \div 256 /\ Patched(d, p, n)[p + 2] = n % 256
         /\ \A k \in 1..Len(d) : k # p + 1 /\ k # p + 2 => Patched(d, p, n)[k] = d[k]
<1>1. n \div 256 \in Byte /\ n % 256 \in Byte
  <2>1. n = 256 * (n \div 256) + (n % 256) /\ n % 256 \in 0..255 /\ n \div 256 \in Int
    BY DEF Word16
  <2>. DEFINE q == n \div 256
              r == n % 256
  <2>. HIDE DEF q, r
  <2>3. n \in Int /\ n >= 0 /\ n < 256 * 256
    BY DEF Word16
  <2>4. q \in Int /\ r \in 0..255 /\ n = 256 * q + r
    BY <2>1 DEF q, r
  <2>5. q \in 0..255
    BY <2>3, <2>4
  <2>2. n \div 256 \in 0..255
    BY <2>5 DEF q
  <2>. QED
    BY <2>1, <2>2 DEF Byte
<1>2. p + 1 \in 1..Len(d) /\ p + 2 \in 1..Len(d) /\ p + 1 # p + 2
  OBVIOUS
<1>. DEFINE e == [d EXCEPT ![p + 1] = n \div 256]
<1>3. e \in Seq(Byte) /\ Len(e) = Len(d) /\ e[p + 1] = n \div 256
      /\ \A k \in 1..Len(d) : k # p + 1 => e[k] = d[k]
  BY <1>1, <1>2
<1>4. Patched(d, p, n) = [e EXCEPT ![p + 2] = n % 256]
  BY DEF Patched
<1>. HIDE DEF e
<1>. DEFINE v == n % 256
<1>. HIDE DEF v
<1>5. /\ [e EXCEPT ![p + 2] = v] \in Seq(Byte) /\ Len([e EXCEPT ![p + 2] = v]) = Len(d)
      /\ [e EXCEPT ![p + 2] = v][p + 2] = v
      /\ \A k \in 1..Len(d) : k # p + 2 => [e EXCEPT ![p + 2] = v][k] = e[k]
  <2>1. v \in Byte
    BY <1>1 DEF v
  <2>. QED
    BY <1>2, <1>3, <2>1
<1>6. /\ Patched(d, p, n) \in Seq(Byte) /\ Len(Patched(d, p, n)) = Len(d)
      /\ Patched(d, p, n)[p + 2] = v
      /\ \A k \in 1..Len(d) : k # p + 2 => Patched(d, p, n)[k] = e[k]
  BY <1>4, <1>5, Zenon DEF v
<1>. QED
  BY <1>2, <1>3, <1>6 DEF v

\* e is d with the word n at the offset p.
IsPatched(e, d, p, n) ==
  /\ e \in Seq(Byte) /\ Len(e) = Len(d)
  /\ e[p + 1] = n \div 256 /\ e[p + 2] = n % 256
  /\ \A k \in 1..Len(d) : k # p + 1 /\ k # p + 2 => e[k] = d[k]

\* What it is to be patched, as one predicate.
LEMMA PatchedIs ==
  ASSUME NEW d \in Seq(Byte), NEW p \in Nat, p + 2 <= Len(d), NEW n \in Word16
  PROVE  IsPatched(Patched(d, p, n), d, p, n)
  BY PatchedPacket DEF IsPatched

\* The two bytes of a 16-bit word.
LEMMA Bytes16 ==
  ASSUME NEW n \in Word16
  PROVE  /\ n \div 256 \in Byte /\ n % 256 \in Byte
         /\ 256 * (n \div 256) + (n % 256) = n
<1>1. n \in Nat /\ n < 256 * 256
  BY DEF Word16
<1>2. n = 256 * (n \div 256) + (n % 256) /\ n % 256 \in 0..255 /\ n \div 256 \in Nat
  BY <1>1
<1>. DEFINE q == n \div 256
            r == n % 256
<1>3. q \in Nat /\ r \in 0..255 /\ n = 256 * q + r
  BY <1>2
<1>. HIDE DEF q, r
<1>4. q \in 0..255
  BY <1>1, <1>3
<1>5. q \in Byte /\ r \in Byte /\ 256 * q + r = n
  BY <1>3, <1>4 DEF Byte
<1>. QED
  BY <1>5 DEF q, r

\* A word that is put where there was none adds itself to the sum.
LEMMA WordSumPatched ==
  ASSUME NEW d \in Seq(Byte), NEW q \in Nat, 2 * q + 2 <= Len(d), NEW n \in Word16,
         d[2 * q + 1] = 0, d[2 * q + 2] = 0
  PROVE  WordSum(Patched(d, 2 * q, n)) = WordSum(d) + n
<1>. DEFINE p == 2 * q
            e == Patched(d, p, n)
            m == Len(d) \div 2
<1>1. /\ e \in Seq(Byte) /\ Len(e) = Len(d)
      /\ e[p + 1] = n \div 256 /\ e[p + 2] = n % 256
      /\ \A k \in 1..Len(d) : k # p + 1 /\ k # p + 2 => e[k] = d[k]
  <2>1. p \in Nat /\ p + 2 <= Len(d)
    OBVIOUS
  <2>. HIDE DEF p
  <2>2. IsPatched(e, d, p, n)
    BY <2>1, PatchedIs, Zenon
  <2>. QED
    BY <2>2, Zenon DEF IsPatched
<1>2. m \in Nat /\ Len(d) \in Nat /\ q + 1 <= m
  OBVIOUS
<1>. HIDE DEF e
<1>3. PICK s : IsWordSum(s, d) /\ WordSum(d) = s[m]
  BY WordSums
<1>4. PICK t : IsWordSum(t, e) /\ WordSum(e) = t[m]
  <2>1. \E t : IsWordSum(t, e) /\ WordSum(e) = t[Len(e) \div 2]
    BY <1>1, WordSums
  <2>. QED
    BY <1>1, <2>1
<1>5. ASSUME NEW k \in 0..(m - 1)
      PROVE  /\ s[k + 1] = s[k] + Host16(d, 2 * k) /\ s[k] \in Nat
             /\ t[k + 1] = t[k] + Host16(e, 2 * k) /\ t[k] \in Nat
             /\ Host16(d, 2 * k) \in Nat /\ Host16(e, 2 * k) \in Nat
  <2>. DEFINE k1 == k + 1
  <2>1. k1 \in 1..(Len(d) \div 2) /\ k1 - 1 = k /\ 2 * k1 - 2 = 2 * k /\ k \in 0..m
    BY <1>2
  <2>. HIDE DEF k1, m
  <2>2. Host16(d, 2 * k1 - 2) \in Word16 /\ Host16(e, 2 * k1 - 2) \in Word16
    BY <1>1, <2>1, HostWords
  <2>3. /\ s[k1] = s[k1 - 1] + Host16(d, 2 * k1 - 2) /\ s[k] \in Nat
        /\ t[k1] = t[k1 - 1] + Host16(e, 2 * k1 - 2) /\ t[k] \in Nat
    BY <1>1, <1>3, <1>4, <2>1 DEF IsWordSum, m
  <2>. QED
    BY <2>1, <2>2, <2>3 DEF Word16, k1
<1>6. Host16(d, p) = 0 /\ Host16(e, p) = n
  <2>1. n \div 256 \in Byte /\ n % 256 \in Byte /\ 256 * (n \div 256) + (n % 256) = n
    BY Bytes16
  <2>2. Host16(e, p) = 256 * (n \div 256) + (n % 256)
    BY <1>1, Zenon DEF Host16
  <2>3. Host16(d, p) = 0
    BY DEF Host16
  <2>. QED
    BY <2>1, <2>2, <2>3
<1>7. ASSUME NEW k \in 0..(m - 1), k # q PROVE Host16(e, 2 * k) = Host16(d, 2 * k)
  <2>1. /\ 2 * k + 1 \in 1..Len(d) /\ 2 * k + 2 \in 1..Len(d)
        /\ 2 * k + 1 # p + 1 /\ 2 * k + 1 # p + 2 /\ 2 * k + 2 # p + 1 /\ 2 * k + 2 # p + 2
    BY <1>2, <1>7
  <2>2. e[2 * k + 1] = d[2 * k + 1] /\ e[2 * k + 2] = d[2 * k + 2]
    BY <1>1, <2>1
  <2>. QED
    BY <2>2 DEF Host16
<1>. DEFINE S == {k \in Nat : k <= m => t[k] = s[k] + (IF k > q THEN n ELSE 0)}
<1>8. 0 \in S
  BY <1>3, <1>4 DEF IsWordSum
<1>9. ASSUME NEW k \in Nat, k \in S PROVE k + 1 \in S
  <2>. SUFFICES ASSUME k + 1 <= m PROVE t[k + 1] = s[k + 1] + (IF k + 1 > q THEN n ELSE 0)
    OBVIOUS
  <2>. n \in Nat
    BY DEF Word16
  <2>1. k \in 0..(m - 1) /\ t[k] = s[k] + (IF k > q THEN n ELSE 0)
    BY <1>2, <1>9
  <2>2. /\ s[k + 1] = s[k] + Host16(d, 2 * k) /\ s[k] \in Nat
        /\ t[k + 1] = t[k] + Host16(e, 2 * k) /\ t[k] \in Nat
        /\ Host16(d, 2 * k) \in Nat /\ Host16(e, 2 * k) \in Nat
    BY <1>5, <2>1
  <2>. HIDE DEF m
  <2>3. CASE k = q
    <3>1. Host16(d, 2 * k) = 0 /\ Host16(e, 2 * k) = n
      BY <1>6, <2>3
    <3>. QED
      BY <2>1, <2>2, <2>3, <3>1
  <2>4. CASE k # q
    <3>1. Host16(e, 2 * k) = Host16(d, 2 * k)
      BY <1>7, <2>1, <2>4
    <3>. QED
      BY <2>1, <2>2, <2>4, <3>1
  <2>. QED
    BY <2>3, <2>4
<1>10. m \in S
  <2>. HIDE DEF S, m
  <2>. QED
    BY <1>2, <1>8, <1>9, Induction
<1>11. t[m] = s[m] + n
  <2>. HIDE DEF m
  <2>. QED
    BY <1>2, <1>10
<1>. QED
  BY <1>3, <1>4, <1>11 DEF e

\* The checksum that a packet is given makes it verify, wherever in it the field
\* for it is, when the field is empty and IP can carry the packet.
LEMMA ChecksumVerifies ==
  ASSUME NEW d \in Seq(Byte), Len(d) \in Word16, NEW q \in Nat, 2 * q + 2 <= Len(d),
         d[2 * q + 1] = 0, d[2 * q + 2] = 0
  PROVE  /\ inet_cksum(d) \in Word16
         /\ InetVerifies(Patched(d, 2 * q, inet_cksum(d)))
<1>. DEFINE c == inet_cksum(d)
<1>1. WordSum(d) \in Nat /\ 2 * (WordSum(d) \div Words) < Words
  BY WordSumBound
<1>2. (WordSum(d) + c) % (Words - 1) = 0 /\ c \in 0..(Words - 1)
  BY <1>1, WordSumComplement DEF inet_cksum
<1>3. c \in Word16
  <2>1. Words = 256 * 256
    BY DEF Words
  <2>2. c \in Nat /\ c < Words
    <3>1. Words \in Nat
      BY <2>1
    <3>. HIDE DEF c
    <3>. QED
      BY <1>2, <3>1
  <2>. QED
    BY <2>1, <2>2 DEF Word16
<1>. HIDE DEF c
<1>4. WordSum(Patched(d, 2 * q, c)) = WordSum(d) + c
  BY <1>3, WordSumPatched
<1>. QED
  BY <1>2, <1>3, <1>4 DEF InetVerifies, c

-----------------------------------------------------------------------------
(* The two sums of an LSA's bytes. *)

Sum2 == [c0 : Nat, c1 : Nat]

\* A byte is a number.
LEMMA BytesAreNumbers == Byte \subseteq Nat
  BY DEF Byte

\* The sums over the first k bytes of d.
IsSums(s, d) ==
  /\ s \in [0..Len(d) -> Sum2]
  /\ s[0] = [c0 |-> 0, c1 |-> 0]
  /\ \A k \in 1..Len(d) :
       s[k] = [c0 |-> s[k - 1].c0 + d[k], c1 |-> s[k - 1].c1 + s[k - 1].c0 + d[k]]

\* Sums is what its definition says.
LEMMA SumsOf ==
  ASSUME NEW d \in Seq(Byte)
  PROVE  \E s : IsSums(s, d) /\ Sums(d) = s[Len(d)]
<1>. DEFINE n == Len(d)
            zero == [c0 |-> 0, c1 |-> 0]
            Grown(r, k) == [c0 |-> r.c0 + d[k], c1 |-> r.c1 + r.c0 + d[k]]
            Rule(s) == [k \in 0..n |-> IF k = 0 THEN zero ELSE Grown(s[k - 1], k)]
            c == CHOOSE s : s = Rule(s)
            step == [x \in Sum2 \X (1..n) |-> Grown(x[1], x[2])]
<1>1. n \in Nat
  OBVIOUS
<1>2. ASSUME NEW r \in Sum2, NEW k \in 1..n PROVE Grown(r, k) \in Sum2
  <2>0. d[k] \in Byte
    OBVIOUS
  <2>1. d[k] \in Nat /\ r.c0 \in Nat /\ r.c1 \in Nat
    BY <2>0, BytesAreNumbers DEF Sum2
  <2>. QED
    BY <2>1 DEF Sum2
<1>3. PICK f \in [0..n -> Sum2] : f[0] = zero /\ \A k \in 1..n : f[k] = step[<<f[k - 1], k>>]
  <2>1. step \in [Sum2 \X (1..n) -> Sum2]
    <3>. HIDE DEF Grown
    <3>. QED
      BY <1>2
  <2>2. zero \in Sum2
    BY DEF Sum2
  <2>. HIDE DEF step, n, zero
  <2>3. \E f : Follows(f, Sum2, n, zero, step)
    BY <1>1, <2>1, <2>2, Recursion, Zenon
  <2>. QED
    BY <2>3 DEF Follows
<1>4. f = Rule(f)
  <2>1. ASSUME NEW k \in 1..n PROVE f[k] = Grown(f[k - 1], k)
    <3>1. f[k - 1] \in Sum2
      BY <1>1, <1>3
    <3>. HIDE DEF Grown
    <3>. QED
      BY <1>3, <3>1
  <2>. HIDE DEF Grown, zero
  <2>2. DOMAIN f = 0..n /\ f[0] = zero
    BY <1>3
  <2>. QED
    BY <1>1, <1>3, <2>1, <2>2
<1>5. c = Rule(c)
  <2>. HIDE DEF Rule
  <2>. QED
    BY <1>4
<1>6. c[0] = zero /\ \A k \in 1..n : c[k] = Grown(c[k - 1], k)
  <2>. HIDE DEF c, Grown, zero
  <2>1. \A k \in 0..n : c[k] = IF k = 0 THEN zero ELSE Grown(c[k - 1], k)
    BY <1>5
  <2>2. 0 \in 0..n /\ \A k \in 1..n : k \in 0..n /\ k # 0
    BY <1>1
  <2>. HIDE DEF n
  <2>. QED
    BY <2>1, <2>2
<1>. DEFINE S == {k \in Nat : k <= n => c[k] \in Sum2}
<1>7. \A k \in Nat : k \in S
  <2>. HIDE DEF c, n, Grown
  <2>1. 0 \in S
    BY <1>6 DEF Sum2
  <2>2. ASSUME NEW k \in Nat, k \in S PROVE k + 1 \in S
    <3>. SUFFICES ASSUME k + 1 <= n PROVE c[k + 1] \in Sum2
      OBVIOUS
    <3>1. k + 1 \in 1..n /\ k + 1 - 1 = k /\ c[k] \in Sum2
      BY <1>1, <2>2
    <3>. QED
      BY <1>2, <1>6, <3>1
  <2>. HIDE DEF S
  <2>. QED
    BY <2>1, <2>2, Induction
<1>8. c \in [0..n -> Sum2]
  <2>. HIDE DEF c, n
  <2>1. \A k \in 0..n : c[k] \in Sum2
    BY <1>1, <1>7
  <2>. QED
    BY <1>5, <2>1
<1>9. IsSums(c, d)
  BY <1>6, <1>8 DEF IsSums
<1>10. Sums(d) = c[n]
  BY DEF Sums
<1>. QED
  BY <1>9, <1>10

\* What is in the two bytes that are patched.
LEMMA PatchedSums ==
  ASSUME NEW d \in Seq(Byte), NEW p \in Nat, p + 2 <= Len(d), NEW X \in Byte, NEW Y \in Byte,
         NEW e \in Seq(Byte), Len(e) = Len(d), e[p + 1] = X, e[p + 2] = Y,
         d[p + 1] = 0, d[p + 2] = 0,
         \A k \in 1..Len(d) : k # p + 1 /\ k # p + 2 => e[k] = d[k]
  PROVE  /\ Sums(d) \in Sum2 /\ Sums(e) \in Sum2
         /\ Sums(e).c0 = Sums(d).c0 + X + Y
         /\ Sums(e).c1 = Sums(d).c1 + (Len(d) - p) * X + (Len(d) - p - 1) * Y
<1>. DEFINE n == Len(d)
<1>1. n \in Nat /\ p + 2 <= n
  OBVIOUS
<1>2. PICK s : IsSums(s, d) /\ Sums(d) = s[n]
  BY SumsOf
<1>3. PICK t : IsSums(t, e) /\ Sums(e) = t[n]
  <2>1. \E t : IsSums(t, e) /\ Sums(e) = t[Len(e)]
    BY SumsOf
  <2>. QED
    BY <2>1
<1>. HIDE DEF n
<1>4. ASSUME NEW k \in 0..(n - 1)
      PROVE  /\ s[k] \in Sum2 /\ s[k + 1].c0 = s[k].c0 + d[k + 1]
             /\ s[k + 1].c1 = s[k].c1 + s[k].c0 + d[k + 1]
             /\ t[k] \in Sum2 /\ t[k + 1].c0 = t[k].c0 + e[k + 1]
             /\ t[k + 1].c1 = t[k].c1 + t[k].c0 + e[k + 1]
  <2>. DEFINE k1 == k + 1
  <2>1. k1 \in 1..n /\ k1 - 1 = k /\ k \in 0..n
    BY <1>1
  <2>. HIDE DEF k1
  <2>2. s[k] \in Sum2 /\ s[k1] = [c0 |-> s[k].c0 + d[k1], c1 |-> s[k].c1 + s[k].c0 + d[k1]]
    BY <1>2, <2>1 DEF IsSums, n
  <2>3. t[k] \in Sum2 /\ t[k1] = [c0 |-> t[k].c0 + e[k1], c1 |-> t[k].c1 + t[k].c0 + e[k1]]
    BY <1>3, <2>1 DEF IsSums, n
  <2>. QED
    BY <2>2, <2>3 DEF k1
<1>. DEFINE Plus0(k) == (IF k > p THEN X ELSE 0) + (IF k > p + 1 THEN Y ELSE 0)
            Plus1(k) == (IF k > p THEN (k - p) * X ELSE 0) + (IF k > p + 1 THEN (k - p - 1) * Y ELSE 0)
            S == {k \in Nat : k <= n => t[k].c0 = s[k].c0 + Plus0(k) /\ t[k].c1 = s[k].c1 + Plus1(k)}
<1>5. 0 \in S
  <2>1. s[0] = [c0 |-> 0, c1 |-> 0] /\ t[0] = [c0 |-> 0, c1 |-> 0]
    BY <1>2, <1>3 DEF IsSums
  <2>. QED
    BY <2>1
<1>6. ASSUME NEW k \in Nat, k \in S PROVE k + 1 \in S
  <2>. SUFFICES ASSUME k + 1 <= n
                PROVE  /\ t[k + 1].c0 = s[k + 1].c0 + Plus0(k + 1)
                       /\ t[k + 1].c1 = s[k + 1].c1 + Plus1(k + 1)
    OBVIOUS
  <2>1. k \in 0..(n - 1) /\ k + 1 \in 1..Len(d)
    BY <1>1 DEF n
  <2>2. t[k].c0 = s[k].c0 + Plus0(k) /\ t[k].c1 = s[k].c1 + Plus1(k)
    BY <1>1, <1>6, <2>1
  <2>3. /\ s[k] \in Sum2 /\ s[k + 1].c0 = s[k].c0 + d[k + 1]
        /\ s[k + 1].c1 = s[k].c1 + s[k].c0 + d[k + 1]
        /\ t[k] \in Sum2 /\ t[k + 1].c0 = t[k].c0 + e[k + 1]
        /\ t[k + 1].c1 = t[k].c1 + t[k].c0 + e[k + 1]
    BY <1>4, <2>1
  <2>. DEFINE At == IF k = p THEN X ELSE IF k = p + 1 THEN Y ELSE 0
  <2>0. d[k + 1] \in Byte
    BY <2>1
  <2>. X \in Nat /\ Y \in Nat /\ d[k + 1] \in Nat /\ p \in Nat
    BY <2>0, BytesAreNumbers
  <2>4. e[k + 1] = d[k + 1] + At
    <3>1. k = p => d[k + 1] = 0 /\ e[k + 1] = X
      OBVIOUS
    <3>2. k = p + 1 => d[k + 1] = 0 /\ e[k + 1] = Y
      BY SMT
    <3>3. k # p /\ k # p + 1 => e[k + 1] = d[k + 1]
      BY <2>1
    <3>. QED
      BY <3>1, <3>2, <3>3
  <2>5. Plus0(k + 1) = Plus0(k) + At
    OBVIOUS
  <2>6. Plus1(k + 1) = Plus1(k) + Plus0(k) + At
    <3>1. CASE k < p
      BY <3>1
    <3>2. CASE k = p
      BY <3>2
    <3>3. CASE k = p + 1
      <4>1. (k + 1 - p) * X = 2 * X /\ (k - p) * X = X /\ (k + 1 - p - 1) * Y = Y
        BY <3>3
      <4>. QED
        BY <3>3, <4>1
    <3>4. CASE k > p + 1
      <4>1. (k + 1 - p) * X = (k - p) * X + X
        BY <3>4
      <4>2. (k + 1 - p - 1) * Y = (k - p - 1) * Y + Y
        BY <3>4
      <4>. QED
        BY <3>4, <4>1, <4>2
    <3>. QED
      BY <3>1, <3>2, <3>3, <3>4
  <2>7. Plus0(k) \in Int /\ Plus1(k) \in Int /\ At \in Int
    OBVIOUS
  <2>8. s[k].c0 \in Nat /\ s[k].c1 \in Nat /\ t[k].c0 \in Nat /\ t[k].c1 \in Nat
    BY <2>3 DEF Sum2
  <2>9. /\ t[k].c0 + (d[k + 1] + At) = (s[k].c0 + d[k + 1]) + (Plus0(k) + At)
        /\ t[k].c1 + t[k].c0 + (d[k + 1] + At) = (s[k].c1 + s[k].c0 + d[k + 1]) + (Plus1(k) + Plus0(k) + At)
    <3>. DEFINE a0 == s[k].c0
                a1 == s[k].c1
                b0 == t[k].c0
                b1 == t[k].c1
                byte == d[k + 1]
                P0 == Plus0(k)
                P1 == Plus1(k)
    <3>1. /\ a0 \in Int /\ a1 \in Int /\ b0 \in Int /\ b1 \in Int /\ byte \in Int
          /\ P0 \in Int /\ P1 \in Int /\ At \in Int
      BY <2>7, <2>8
    <3>2. b0 = a0 + P0 /\ b1 = a1 + P1
      BY <2>2
    <3>. HIDE DEF a0, a1, b0, b1, byte, P0, P1, At
    <3>3. /\ b0 + (byte + At) = (a0 + byte) + (P0 + At)
          /\ b1 + b0 + (byte + At) = (a1 + a0 + byte) + (P1 + P0 + At)
      BY <3>1, <3>2, SMT
    <3>. QED
      BY <3>3, Zenon DEF a0, a1, b0, b1, byte, P0, P1
  <2>10. t[k + 1].c0 = t[k].c0 + (d[k + 1] + At) /\ t[k + 1].c1 = t[k].c1 + t[k].c0 + (d[k + 1] + At)
    BY <2>3, <2>4, Zenon
  <2>. HIDE DEF Plus0, Plus1, At
  <2>. QED
    BY <2>3, <2>5, <2>6, <2>9, <2>10, Zenon
<1>7. n \in S
  <2>. HIDE DEF S
  <2>. QED
    BY <1>1, <1>5, <1>6, Induction
<1>8. Plus0(n) = X + Y /\ Plus1(n) = (n - p) * X + (n - p - 1) * Y
  <2>. X \in Nat /\ Y \in Nat
    BY DEF Byte
  <2>. QED
    BY <1>1
<1>9. s[n] \in Sum2 /\ t[n] \in Sum2
  BY <1>1, <1>2, <1>3 DEF IsSums, n
<1>10. t[n].c0 = s[n].c0 + Plus0(n) /\ t[n].c1 = s[n].c1 + Plus1(n)
  BY <1>1, <1>7
<1>. X \in Nat /\ Y \in Nat /\ s[n].c0 \in Nat /\ s[n].c1 \in Nat
  BY <1>9 DEF Sum2, Byte
<1>. HIDE DEF Plus0, Plus1
<1>11. s[n].c0 + Plus0(n) = s[n].c0 + X + Y
  BY <1>8
<1>12. s[n].c1 + Plus1(n) = s[n].c1 + (n - p) * X + (n - p - 1) * Y
  <2>. DEFINE a == (n - p) * X
              b == (n - p - 1) * Y
  <2>1. a \in Int /\ b \in Int
    BY <1>1
  <2>. HIDE DEF a, b
  <2>2. Plus1(n) = a + b
    BY <1>8 DEF a, b
  <2>3. s[n].c1 + Plus1(n) = s[n].c1 + a + b
    BY <2>1, <2>2
  <2>. QED
    BY <2>3 DEF a, b
<1>. QED
  BY <1>2, <1>3, <1>9, <1>10, <1>11, <1>12 DEF n

-----------------------------------------------------------------------------
(* The LSA's checksum. *)

\* Numbers that differ by a multiple of 255 leave the same.
LEMMA SameRest ==
  ASSUME NEW a \in Int, NEW b \in Int, NEW q \in Int, a = b + 255 * q
  PROVE  a % 255 = b % 255
<1>1. PICK r \in Int : b = 255 * r + (b % 255) /\ b % 255 \in 0..254
  BY Division
<1>2. PICK s \in Int : a = 255 * s + (a % 255) /\ a % 255 \in 0..254
  BY Division
<1>. DEFINE x == a % 255
            y == b % 255
<1>3. x \in 0..254 /\ y \in 0..254 /\ b = 255 * r + y /\ a = 255 * s + x
  BY <1>1, <1>2
<1>. HIDE DEF x, y
<1>4. x = y
  BY <1>3
<1>. QED
  BY <1>4 DEF x, y

\* A check byte is a byte.
LEMMA FittedByte == ASSUME NEW n \in Int PROVE Fitted(n) \in Byte
<1>. DEFINE m == IF CRem(n, 255) = 0 THEN 255 ELSE CRem(n, 255)
<1>1. CRem(n, 255) \in Int
  BY DEF CRem
<1>2. m \in Int
  BY <1>1
<1>3. Fitted(n) = m % 256
  BY DEF Fitted
<1>. HIDE DEF m
<1>. QED
  BY <1>2, <1>3 DEF Byte

\* The check bytes are bytes.
LEMMA CheckedBytes ==
  ASSUME NEW left \in Int, NEW c0 \in Int, NEW c1 \in Int
  PROVE  CheckX(left, c0, c1) \in Byte /\ CheckY(left, c0, c1) \in Byte
<1>1. RawX(left, c0, c1) \in Int /\ RawY(left, c0, c1) \in Int
  BY DEF RawX, RawY
<1>. QED
  BY <1>1, FittedByte DEF CheckX, CheckY

\* Two bytes as a word.
LEMMA WordOf ==
  ASSUME NEW X \in Byte, NEW Y \in Byte
  PROVE  /\ 256 * X + Y \in Word16
         /\ (256 * X + Y) \div 256 = X /\ (256 * X + Y) % 256 = Y
<1>1. X \in 0..255 /\ Y \in 0..255
  BY DEF Byte
<1>2. 256 * X + Y \in Nat /\ 256 * X + Y < 256 * 256
  BY <1>1
<1>. DEFINE n == 256 * X + Y
<1>3. 256 * X + Y \in Word16
  <2>. n \in Nat /\ n < 256 * 256
    BY <1>2
  <2>. HIDE DEF n
  <2>1. n \in Word16
    BY DEF Word16
  <2>. QED
    BY <2>1 DEF n
<1>4. n \div 256 = X /\ n % 256 = Y
  BY <1>1, Z3
<1>. QED
  BY <1>3, <1>4

\* Zeroes that are patched into zeroes.
LEMMA PatchedZero ==
  ASSUME NEW d \in Seq(Byte), NEW p \in Nat, p + 2 <= Len(d), d[p + 1] = 0, d[p + 2] = 0
  PROVE  Patched(d, p, 0) = d
<1>. DEFINE e == Patched(d, p, 0)
<1>1. 0 \in Word16 /\ 0 \div 256 = 0 /\ 0 % 256 = 0
  BY DEF Word16
<1>2. /\ e \in Seq(Byte) /\ Len(e) = Len(d) /\ e[p + 1] = 0 /\ e[p + 2] = 0
      /\ \A k \in 1..Len(d) : k # p + 1 /\ k # p + 2 => e[k] = d[k]
  BY <1>1, PatchedPacket
<1>. HIDE DEF e
<1>3. \A k \in 1..Len(d) : e[k] = d[k]
  BY <1>2
<1>4. e = d
  BY <1>2, <1>3
<1>. QED
  BY <1>4 DEF e

\* The bytes of create_osi_cksum make both sums of an LSA multiples of 255,
\* wherever the field for them is and whatever the LSA holds, unless one of them
\* slips; then it does not verify (Common.h:21-63).
THEOREM LsaChecksumVerifies ==
  ASSUME NEW d \in Seq(Byte), NEW p \in Nat, p + 2 <= Len(d), d[p + 1] = 0, d[p + 2] = 0
  PROVE  /\ create_osi_cksum(d, p) \in Word16
         /\ OsiVerifies(Patched(d, p, create_osi_cksum(d, p))) <=> ~Slips(d, p)
<1>. DEFINE s0 == Sums(d).c0
            s1 == Sums(d).c1
            c0 == s0 % 255
            c1 == s1 % 255
            left == Len(d) - p
            X == CheckX(left, c0, c1)
            Y == CheckY(left, c0, c1)
            n == 256 * X + Y
            e == Patched(d, p, n)
            slips == SlipsX(left, c0, c1) \/ SlipsY(left, c0, c1)
<1>1. SumsBefore(d, p) = Sums(d)
  BY PatchedZero, Zenon DEF SumsBefore
<1>2. /\ create_osi_cksum(d, p) = n
      /\ Slips(d, p) <=> slips
  <2>1. create_osi_cksum(d, p) = n
    BY <1>1, Zenon DEF create_osi_cksum
  <2>2. Slips(d, p) <=> slips
    BY <1>1, Zenon DEF Slips
  <2>. QED
    BY <2>1, <2>2
<1>3. left \in Nat /\ left >= 2
  OBVIOUS
<1>4. Sums(d) \in Sum2
  <2>1. PICK s : IsSums(s, d) /\ Sums(d) = s[Len(d)]
    BY SumsOf
  <2>. QED
    BY <2>1 DEF IsSums
<1>5. s0 \in Nat /\ s1 \in Nat
  BY <1>4 DEF Sum2
<1>. HIDE DEF s0, s1, left
<1>6. c0 \in Nat /\ c1 \in Nat
  BY <1>5
<1>7. X \in Byte /\ Y \in Byte
  <2>. HIDE DEF c0, c1
  <2>. QED
    BY <1>3, <1>6, CheckedBytes
<1>. HIDE DEF X, Y
<1>8. n \in Word16 /\ n \div 256 = X /\ n % 256 = Y
  BY <1>7, WordOf
<1>. HIDE DEF n
<1>9. /\ e \in Seq(Byte) /\ Len(e) = Len(d) /\ e[p + 1] = X /\ e[p + 2] = Y
      /\ \A k \in 1..Len(d) : k # p + 1 /\ k # p + 2 => e[k] = d[k]
  BY <1>8, PatchedPacket
<1>. HIDE DEF e
<1>10. Sums(e).c0 = s0 + X + Y /\ Sums(e).c1 = s1 + left * X + (left - 1) * Y
  <2>1. /\ Sums(e).c0 = Sums(d).c0 + X + Y
        /\ Sums(e).c1 = Sums(d).c1 + (Len(d) - p) * X + (Len(d) - p - 1) * Y
    BY <1>7, <1>9, PatchedSums
  <2>. QED
    BY <2>1 DEF s0, s1, left
<1>11. /\ (c0 + X + Y) % 255 = 0 <=> ~slips
       /\ ~slips => (c1 + left * X + (left - 1) * Y) % 255 = 0
  <2>. HIDE DEF c0, c1
  <2>. QED
    BY <1>3, <1>6, CheckBytes DEF X, Y
<1>12. (s0 + X + Y) % 255 = (c0 + X + Y) % 255
  <2>0. s0 \in Int
    BY <1>5
  <2>1. PICK q \in Int : s0 = 255 * q + c0
    BY <2>0, Division, Zenon
  <2>. X \in Int /\ Y \in Int
    BY <1>7, BytesAreNumbers
  <2>. HIDE DEF c0
  <2>2. s0 + X + Y = (c0 + X + Y) + 255 * q /\ s0 + X + Y \in Int /\ c0 + X + Y \in Int
    BY <1>5, <1>6, <2>1
  <2>. QED
    BY <2>2, SameRest
<1>13. (s1 + left * X + (left - 1) * Y) % 255 = (c1 + left * X + (left - 1) * Y) % 255
  <2>0. s1 \in Int
    BY <1>5
  <2>1. PICK q \in Int : s1 = 255 * q + c1
    BY <2>0, Division, Zenon
  <2>. X \in Int /\ Y \in Int
    BY <1>7, BytesAreNumbers
  <2>. DEFINE a == left * X
              b == (left - 1) * Y
  <2>. a \in Int /\ b \in Int
    BY <1>3
  <2>. HIDE DEF c1, a, b
  <2>2. s1 + a + b = (c1 + a + b) + 255 * q /\ s1 + a + b \in Int /\ c1 + a + b \in Int
    BY <1>5, <1>6, <2>1
  <2>3. (s1 + a + b) % 255 = (c1 + a + b) % 255
    BY <2>2, SameRest
  <2>. QED
    BY <2>3 DEF a, b
<1>14. OsiVerifies(e) <=> Sums(e).c0 % 255 = 0 /\ Sums(e).c1 % 255 = 0
  BY Zenon DEF OsiVerifies
<1>15. OsiVerifies(e) <=> ~slips
  <2>. HIDE DEF slips, c0, c1
  <2>1. OsiVerifies(e) <=> (c0 + X + Y) % 255 = 0 /\ (c1 + left * X + (left - 1) * Y) % 255 = 0
    BY <1>10, <1>12, <1>13, <1>14, Zenon
  <2>. QED
    BY <1>11, <2>1, Zenon
<1>16. e = Patched(d, p, create_osi_cksum(d, p))
  BY <1>2 DEF e
<1>. QED
  BY <1>2, <1>8, <1>15, <1>16

-----------------------------------------------------------------------------
(* What is where in a packet. *)

\* The bytes w stand at offset k of d.
Holds(d, k, w) ==
  /\ k + Len(w) <= Len(d)
  /\ \A i \in 1..Len(w) : d[k + i] = w[i]

\* Two strings of bytes, one behind the other.
LEMMA Joined ==
  ASSUME NEW a \in Seq(Byte), NEW b \in Seq(Byte)
  PROVE  /\ a \o b \in Seq(Byte) /\ Len(a \o b) = Len(a) + Len(b)
         /\ \A i \in 1..Len(a) : (a \o b)[i] = a[i]
         /\ \A i \in 1..Len(b) : (a \o b)[Len(a) + i] = b[i]
<1>1. a \o b \in Seq(Byte) /\ Len(a \o b) = Len(a) + Len(b)
  OBVIOUS
<1>2. ASSUME NEW i \in 1..Len(a) PROVE (a \o b)[i] = a[i]
  OBVIOUS
<1>3. ASSUME NEW i \in 1..Len(b) PROVE (a \o b)[Len(a) + i] = b[i]
  OBVIOUS
<1>. QED
  BY <1>1, <1>2, <1>3

\* What a sequence holds it holds with more behind it.
LEMMA HoldsLeft ==
  ASSUME NEW a \in Seq(Byte), NEW b \in Seq(Byte), NEW w \in Seq(Byte), NEW k \in Nat, Holds(a, k, w)
  PROVE  Holds(a \o b, k, w)
<1>1. k + Len(w) <= Len(a \o b)
  BY Joined DEF Holds
<1>2. ASSUME NEW i \in 1..Len(w) PROVE (a \o b)[k + i] = w[i]
  <2>1. k + i \in 1..Len(a) /\ a[k + i] = w[i]
    BY DEF Holds
  <2>. QED
    BY <2>1, Joined
<1>. QED
  BY <1>1, <1>2 DEF Holds

\* And the second part is behind the first.
LEMMA HoldsRight ==
  ASSUME NEW a \in Seq(Byte), NEW b \in Seq(Byte)
  PROVE  Holds(a \o b, Len(a), b)
  BY Joined DEF Holds

\* What stands in something that stands in d stands in d.
LEMMA HoldsIn ==
  ASSUME NEW d \in Seq(Byte), NEW v \in Seq(Byte), NEW w \in Seq(Byte), NEW k \in Nat, NEW j \in Nat,
         Holds(d, k, v), Holds(v, j, w)
  PROVE  Holds(d, k + j, w)
<1>1. k + j + Len(w) <= Len(d)
  BY DEF Holds
<1>2. ASSUME NEW i \in 1..Len(w) PROVE d[(k + j) + i] = w[i]
  <2>1. j + i \in 1..Len(v) /\ v[j + i] = w[i]
    BY DEF Holds
  <2>2. d[k + (j + i)] = v[j + i]
    BY <2>1 DEF Holds
  <2>3. (k + j) + i = k + (j + i)
    OBVIOUS
  <2>. QED
    BY <2>1, <2>2, <2>3
<1>. QED
  BY <1>1, <1>2 DEF Holds

\* A patch elsewhere does not disturb it.
LEMMA HoldsPatched ==
  ASSUME NEW d \in Seq(Byte), NEW w \in Seq(Byte), NEW j \in Nat, Holds(d, j, w),
         NEW p \in Nat, p + 2 <= Len(d), NEW n \in Word16, j + Len(w) <= p \/ p + 2 <= j
  PROVE  Holds(Patched(d, p, n), j, w)
<1>. DEFINE e == Patched(d, p, n)
<1>1. /\ e \in Seq(Byte) /\ Len(e) = Len(d)
      /\ e[p + 1] = n \div 256 /\ e[p + 2] = n % 256
      /\ \A k \in 1..Len(d) : k # p + 1 /\ k # p + 2 => e[k] = d[k]
  BY PatchedPacket
<1>. HIDE DEF e
<1>2. ASSUME NEW i \in 1..Len(w) PROVE e[j + i] = w[i]
  <2>1. j + i \in 1..Len(d) /\ d[j + i] = w[i] /\ j + i # p + 1 /\ j + i # p + 2
    BY DEF Holds
  <2>. QED
    BY <1>1, <2>1
<1>3. Holds(e, j, w)
  BY <1>1, <1>2 DEF Holds
<1>. QED
  BY <1>3 DEF e

\* What a slice at an offset reads.
LEMMA SliceReads ==
  ASSUME NEW d \in Seq(Byte), NEW w \in Seq(Byte), NEW k \in Nat, Holds(d, k, w)
  PROVE  SubSeq(d, k + 1, k + Len(w)) = w
<1>. DEFINE s == SubSeq(d, k + 1, k + Len(w))
<1>1. k + Len(w) <= Len(d) /\ Len(w) \in Nat
  BY DEF Holds
<1>2. s \in Seq(Byte) /\ Len(s) = Len(w) /\ \A i \in 1..Len(w) : s[i] = d[k + i]
  BY <1>1
<1>. HIDE DEF s
<1>3. \A i \in 1..Len(w) : s[i] = w[i]
  BY <1>2 DEF Holds
<1>4. s = w
  BY <1>2, <1>3
<1>. QED
  BY <1>4 DEF s

\* A word in network order.
LEMMA Net16Bytes ==
  ASSUME NEW n \in Word16
  PROVE  Net16(n) \in Seq(Byte) /\ Len(Net16(n)) = 2 /\ Net16(n)[1] = n \div 256 /\ Net16(n)[2] = n % 256
<1>1. n \div 256 \in Byte /\ n % 256 \in Byte
  BY Bytes16
<1>. DEFINE q == n \div 256
            r == n % 256
<1>2. Net16(n) = <<q, r>>
  BY DEF Net16
<1>. HIDE DEF q, r
<1>3. q \in Byte /\ r \in Byte
  BY <1>1 DEF q, r
<1>4. <<q, r>> \in Seq(Byte) /\ Len(<<q, r>>) = 2 /\ <<q, r>>[1] = q /\ <<q, r>>[2] = r
  BY <1>3
<1>. QED
  BY <1>2, <1>4 DEF q, r

\* ntohs reads what htons wrote.
LEMMA Host16Reads ==
  ASSUME NEW d \in Seq(Byte), NEW k \in Nat, NEW n \in Word16, Holds(d, k, Net16(n))
  PROVE  Host16(d, k) = n
<1>1. d[k + 1] = n \div 256 /\ d[k + 2] = n % 256
  BY Net16Bytes DEF Holds
<1>. QED
  BY <1>1, Bytes16, Zenon DEF Host16

\* A word is read byte by byte.
LEMMA Host32Reads ==
  ASSUME NEW d \in Seq(Byte), NEW k \in Nat, NEW w \in Seq(Byte), Len(w) = 4, Holds(d, k, w)
  PROVE  Host32(d, k) = w
  BY SliceReads DEF Host32

\* The strings that are put one behind the other by FlattenSeq, when each has the
\* length of a link.
LEMMA Flattened ==
  ASSUME NEW seqs \in Seq(Seq(Byte)), \A k \in 1..Len(seqs) : Len(seqs[k]) = 12
  PROVE  /\ FlattenSeq(seqs) \in Seq(Byte) /\ Len(FlattenSeq(seqs)) = 12 * Len(seqs)
         /\ \A k \in 1..Len(seqs) : Holds(FlattenSeq(seqs), 12 * (k - 1), seqs[k])
<1>. DEFINE n == Len(seqs)
            Rule(s) == [i \in 1..n |-> IF i = 1 THEN seqs[i] ELSE s[i - 1] \o seqs[i]]
            c == CHOOSE s : s = Rule(s)
            step == [x \in Seq(Byte) \X (1..n) |-> x[1] \o seqs[x[2]]]
<1>1. n \in Nat
  OBVIOUS
<1>2. ASSUME NEW k \in 1..n PROVE seqs[k] \in Seq(Byte) /\ Len(seqs[k]) = 12
  OBVIOUS
<1>. HIDE DEF n
<1>3. CASE n = 0
  <2>1. FlattenSeq(seqs) = seqs
    BY <1>3 DEF FlattenSeq, n
  <2>2. seqs = << >>
    BY <1>3 DEF n
  <2>3. << >> \in Seq(Byte) /\ Len(<< >>) = 0
    OBVIOUS
  <2>. QED
    BY <1>3, <2>1, <2>2, <2>3 DEF n
<1>4. CASE n > 0
  <2>1. PICK f : f \in [0..n -> Seq(Byte)] /\ f[0] = << >> /\ \A k \in 1..n : f[k] = step[<<f[k - 1], k>>]
    <3>1. step \in [Seq(Byte) \X (1..n) -> Seq(Byte)]
      BY <1>2
    <3>2. << >> \in Seq(Byte)
      OBVIOUS
    <3>. HIDE DEF step
    <3>3. \E f : Follows(f, Seq(Byte), n, << >>, step)
      BY <1>1, <3>1, <3>2, Recursion, Zenon
    <3>. QED
      BY <3>3 DEF Follows
  <2>2. ASSUME NEW k \in 1..n PROVE f[k] = f[k - 1] \o seqs[k]
    <3>1. f[k - 1] \in Seq(Byte) /\ <<f[k - 1], k>> \in Seq(Byte) \X (1..n)
      BY <1>1, <2>1
    <3>. QED
      BY <2>1, <3>1
  <2>3. 1 \in 1..n /\ f[1] = seqs[1]
    <3>1. 1 \in 1..n /\ 1 - 1 = 0
      BY <1>1, <1>4
    <3>0. f[1] = f[1 - 1] \o seqs[1]
      BY <2>2, <3>1
    <3>2. f[1] = << >> \o seqs[1] /\ seqs[1] \in Seq(Byte)
      BY <1>2, <2>1, <3>0, <3>1
    <3>. QED
      BY <3>1, <3>2
  <2>. DEFINE g == [i \in 1..n |-> f[i]]
  <2>4. g = Rule(g)
    <3>1. ASSUME NEW i \in 1..n PROVE g[i] = IF i = 1 THEN seqs[i] ELSE g[i - 1] \o seqs[i]
      <4>1. i # 1 => i - 1 \in 1..n
        BY <1>1
      <4>. QED
        BY <2>2, <2>3, <4>1
    <3>2. g = [i \in 1..n |-> g[i]]
      OBVIOUS
    <3>. HIDE DEF g
    <3>. QED
      BY <3>1, <3>2
  <2>5. c = Rule(c)
    <3>. HIDE DEF Rule, g
    <3>. QED
      BY <2>4
  <2>6. c[1] = seqs[1] /\ \A k \in 1..n : k # 1 => c[k] = c[k - 1] \o seqs[k]
    <3>. HIDE DEF c
    <3>1. \A i \in 1..n : c[i] = IF i = 1 THEN seqs[i] ELSE c[i - 1] \o seqs[i]
      BY <2>5
    <3>. QED
      BY <2>3, <3>1
  <2>7. FlattenSeq(seqs) = c[n]
    BY <1>4 DEF FlattenSeq, n
  <2>. DEFINE Good(s, k) ==
                /\ s \in Seq(Byte) /\ Len(s) = 12 * k
                /\ \A i \in 1..k : Holds(s, 12 * (i - 1), seqs[i])
              S == {k \in Nat : k < n => Good(c[k + 1], k + 1)}
  <2>. HIDE DEF c
  <2>8. 0 \in S
    <3>1. 12 * (1 - 1) = 0 /\ Holds(seqs[1], 0, seqs[1])
      BY <1>2, <2>3 DEF Holds
    <3>. QED
      BY <1>2, <2>3, <2>6, <3>1
  <2>9. ASSUME NEW k \in Nat, k \in S PROVE k + 1 \in S
    <3>. SUFFICES ASSUME k + 1 < n PROVE Good(c[k + 2], k + 2)
      <4>1. k + 1 + 1 = k + 2
        OBVIOUS
      <4>. HIDE DEF Good
      <4>. QED
        BY <4>1
    <3>. DEFINE a == c[k + 1]
                b == seqs[k + 2]
    <3>1. k + 1 \in 1..n /\ k + 2 \in 1..n /\ k + 2 # 1 /\ k + 2 - 1 = k + 1
      BY <1>1
    <3>2. Good(a, k + 1)
      <4>1. k < n
        BY <1>1
      <4>. HIDE DEF Good
      <4>. QED
        BY <2>9, <4>1
    <3>3. b \in Seq(Byte) /\ Len(b) = 12
      BY <1>2, <3>1
    <3>4. c[k + 2] = a \o b
      <4>. DEFINE k2 == k + 2
      <4>1. k2 \in 1..n /\ k2 # 1 /\ k2 - 1 = k + 1
        BY <3>1
      <4>. HIDE DEF k2
      <4>2. c[k2] = c[k2 - 1] \o seqs[k2]
        BY <2>6, <4>1
      <4>. QED
        BY <4>1, <4>2, Zenon DEF k2
    <3>. HIDE DEF a
    <3>5. a \in Seq(Byte) /\ Len(a) = 12 * (k + 1)
      BY <3>2
    <3>. HIDE DEF b
    <3>6. a \o b \in Seq(Byte) /\ Len(a \o b) = 12 * (k + 2)
      <4>1. a \o b \in Seq(Byte) /\ Len(a \o b) = Len(a) + Len(b)
        BY <3>3, <3>5, Joined, Zenon
      <4>2. 12 * (k + 1) + 12 = 12 * (k + 2)
        OBVIOUS
      <4>. QED
        BY <3>3, <3>5, <4>1, <4>2
    <3>7. ASSUME NEW i \in 1..(k + 2) PROVE Holds(a \o b, 12 * (i - 1), seqs[i])
      <4>1. CASE i = k + 2
        <5>1. Holds(a \o b, Len(a), b)
          BY <3>3, <3>5, HoldsRight
        <5>2. Len(a) = 12 * (i - 1) /\ b = seqs[i]
          BY <3>5, <4>1 DEF b
        <5>. QED
          BY <5>1, <5>2
      <4>2. CASE i # k + 2
        <5>1. i \in 1..(k + 1) /\ i \in 1..n /\ 12 * (i - 1) \in Nat
          <6>1. i \in 1..(k + 1)
            BY <4>2
          <6>2. i \in 1..n
            BY <1>1, <3>1, <6>1
          <6>3. 12 * (i - 1) \in Nat
            BY <6>1
          <6>. QED
            BY <6>1, <6>2, <6>3
        <5>2. Holds(a, 12 * (i - 1), seqs[i]) /\ seqs[i] \in Seq(Byte)
          BY <1>2, <3>2, <5>1
        <5>. QED
          BY <3>3, <3>5, <5>1, <5>2, HoldsLeft
      <4>. QED
        BY <4>1, <4>2
    <3>. QED
      BY <3>4, <3>6, <3>7
  <2>10. n - 1 \in S
    <3>1. n - 1 \in Nat
      BY <1>1, <1>4
    <3>. HIDE DEF S
    <3>. QED
      BY <2>8, <2>9, <3>1, Induction
  <2>11. Good(c[n], n)
    <3>1. n - 1 < n /\ n - 1 + 1 = n
      BY <1>1
    <3>. HIDE DEF Good
    <3>. QED
      BY <2>10, <3>1
  <2>. QED
    BY <2>7, <2>11 DEF n
<1>. QED
  BY <1>1, <1>3, <1>4

-----------------------------------------------------------------------------
(* Links, LSAs and packets. *)

\* The links, the LSAs and the bodies that a packet can carry: every length fits
\* into the field for it.
WireLink == [linkId : Word32, linkData : Word32, type : Byte, metric : Word16]
WireLsa ==
  {lsa \in [state_id : Word32, ad_router : Word32, links : Seq(WireLink)] : LsaLen(lsa) \in Word16}

\* x is a with b behind it, at offset k.
Extended(x, a, k, b) ==
  /\ x \in Seq(Byte) /\ Len(x) = k + Len(b)
  /\ Holds(x, k, b)
  /\ \A j \in Nat, w \in Seq(Byte) : Holds(a, j, w) => Holds(x, j, w)

\* Appending extends a sequence.
LEMMA Appended ==
  ASSUME NEW a \in Seq(Byte), NEW b \in Seq(Byte), NEW k, Len(a) = k
  PROVE  Extended(a \o b, a, k, b)
<1>1. a \o b \in Seq(Byte) /\ Len(a \o b) = k + Len(b)
  BY Joined
<1>2. Holds(a \o b, k, b)
  BY HoldsRight
<1>3. ASSUME NEW j \in Nat, NEW w \in Seq(Byte), Holds(a, j, w) PROVE Holds(a \o b, j, w)
  BY <1>3, HoldsLeft
<1>. QED
  BY <1>1, <1>2, <1>3 DEF Extended

\* Where the parts of a link are.
LEMMA LinkLaidOut ==
  ASSUME NEW l \in WireLink
  PROVE  /\ LinkBytes(l) \in Seq(Byte) /\ Len(LinkBytes(l)) = 12
         /\ Holds(LinkBytes(l), 0, l.linkId) /\ Holds(LinkBytes(l), 4, l.linkData)
         /\ Holds(LinkBytes(l), 8, <<l.type, 0>>) /\ Holds(LinkBytes(l), 10, Net16(l.metric))
<1>. DEFINE a1 == l.linkId
            b2 == l.linkData
            a2 == a1 \o b2
            b3 == <<l.type, 0>>
            a3 == a2 \o b3
            b4 == Net16(l.metric)
            a4 == a3 \o b4
<1>1. a1 \in Seq(Byte) /\ Len(a1) = 4 /\ b2 \in Seq(Byte) /\ Len(b2) = 4
  BY DEF WireLink, Word32
<1>2. b3 \in Seq(Byte) /\ Len(b3) = 2
  <2>1. l.type \in Byte /\ 0 \in Byte
    BY DEF WireLink, Byte
  <2>. QED
    BY <2>1
<1>3. b4 \in Seq(Byte) /\ Len(b4) = 2
  BY Net16Bytes DEF WireLink
<1>4. Holds(a1, 0, a1)
  BY <1>1 DEF Holds
<1>5. LinkBytes(l) = a4
  BY DEF LinkBytes
<1>. HIDE DEF a1, b2, b3, b4, a2, a3, a4
<1>6. a2 \in Seq(Byte) /\ Len(a2) = 8 /\ Holds(a2, 0, a1) /\ Holds(a2, 4, b2)
  <2>1. Extended(a2, a1, 4, b2)
    BY <1>1, <1>4, Appended, Zenon DEF a2
  <2>. QED
    BY <1>1, <1>4, <2>1 DEF Extended
<1>7. a3 \in Seq(Byte) /\ Len(a3) = 10 /\ Holds(a3, 0, a1) /\ Holds(a3, 4, b2) /\ Holds(a3, 8, b3)
  <2>1. Extended(a3, a2, 8, b3)
    BY <1>1, <1>2, <1>6, Appended, Zenon DEF a3
  <2>. QED
    BY <1>1, <1>2, <1>6, <2>1 DEF Extended
<1>8. a4 \in Seq(Byte) /\ Len(a4) = 12 /\ Holds(a4, 0, a1) /\ Holds(a4, 4, b2) /\ Holds(a4, 8, b3)
        /\ Holds(a4, 10, b4)
  <2>1. Extended(a4, a3, 10, b4)
    BY <1>1, <1>2, <1>3, <1>7, Appended, Zenon DEF a4
  <2>. QED
    BY <1>1, <1>2, <1>3, <1>7, <2>1 DEF Extended
<1>. QED
  BY <1>5, <1>8 DEF a1, b2, b3, b4

\* RouterLSALink reads what toRouterLSA has written.
LEMMA LinkReads ==
  ASSUME NEW d \in Seq(Byte), NEW k \in Nat, NEW l \in WireLink, Holds(d, k, LinkBytes(l))
  PROVE  ReadLink(d, k) = l
<1>1. l.linkId \in Word32 /\ l.linkData \in Word32 /\ l.type \in Byte /\ l.metric \in Word16
  BY DEF WireLink
<1>2. /\ l.linkId \in Seq(Byte) /\ Len(l.linkId) = 4
      /\ l.linkData \in Seq(Byte) /\ Len(l.linkData) = 4
  BY <1>1 DEF Word32
<1>3. LinkBytes(l) \in Seq(Byte)
  BY LinkLaidOut
<1>4. Host32(d, k) = l.linkId
  <2>0. 0 \in Nat /\ Holds(LinkBytes(l), 0, l.linkId)
    BY LinkLaidOut
  <2>1. Holds(d, k + 0, l.linkId)
    BY <1>2, <1>3, <2>0, HoldsIn, Zenon
  <2>. QED
    BY <1>2, <2>1, Host32Reads, k + 0 = k
<1>5. Host32(d, k + 4) = l.linkData
  <2>0. 4 \in Nat /\ k + 4 \in Nat
    OBVIOUS
  <2>3. Holds(LinkBytes(l), 4, l.linkData)
    BY LinkLaidOut, Zenon
  <2>1. Holds(d, k + 4, l.linkData) /\ k + 4 \in Nat
    BY <1>2, <1>3, <2>0, <2>3, HoldsIn, Zenon
  <2>. QED
    BY <1>2, <2>1, Host32Reads
<1>6. d[k + 9] = l.type
  <2>. DEFINE b == <<l.type, 0>>
  <2>1. b \in Seq(Byte) /\ Len(b) = 2 /\ b[1] = l.type
    <3>1. 0 \in Byte
      BY DEF Byte
    <3>. QED
      BY <1>1, <3>1
  <2>2. Holds(LinkBytes(l), 8, b)
    BY LinkLaidOut
  <2>. HIDE DEF b
  <2>3. Holds(d, k + 8, b)
    BY <1>3, <2>1, <2>2, HoldsIn
  <2>4. d[k + 8 + 1] = b[1]
    BY <2>1, <2>3 DEF Holds
  <2>5. k + 8 + 1 = k + 9
    OBVIOUS
  <2>. QED
    BY <2>1, <2>4, <2>5
<1>7. Host16(d, k + 10) = l.metric
  <2>1. Net16(l.metric) \in Seq(Byte)
    BY <1>1, Net16Bytes
  <2>0. 10 \in Nat /\ k + 10 \in Nat
    OBVIOUS
  <2>3. Holds(LinkBytes(l), 10, Net16(l.metric))
    BY LinkLaidOut, Zenon
  <2>2. Holds(d, k + 10, Net16(l.metric)) /\ k + 10 \in Nat
    BY <1>3, <2>0, <2>1, <2>3, HoldsIn, Zenon
  <2>. QED
    BY <1>1, <2>2, Host16Reads
<1>8. ReadLink(d, k) = [linkId |-> l.linkId, linkData |-> l.linkData, type |-> l.type, metric |-> l.metric]
  BY <1>4, <1>5, <1>6, <1>7, Zenon DEF ReadLink
<1>. QED
  BY <1>8 DEF WireLink

\* Where the parts of an LSA are.
LEMMA LsaLaidOut ==
  ASSUME NEW lsa \in WireLsa
  PROVE  LET r == RawLsa(lsa) IN
           /\ r \in Seq(Byte) /\ Len(r) = LsaLen(lsa) /\ Len(r) >= 24
           /\ Holds(r, 4, lsa.state_id) /\ Holds(r, 8, lsa.ad_router)
           /\ r[17] = 0 /\ r[18] = 0
           /\ Holds(r, 22, Net16(Len(lsa.links)))
           /\ \A k \in 1..Len(lsa.links) : Holds(r, 24 + 12 * (k - 1), LinkBytes(lsa.links[k]))
<1>. DEFINE n == Len(lsa.links)
            seqs == [k \in 1..n |-> LinkBytes(lsa.links[k])]
            b1 == <<0, 100, 2, 1>>
            b2 == lsa.state_id
            b3 == lsa.ad_router
            b4 == <<128, 0, 0, 0>>
            b5 == <<0, 0>>
            b6 == Net16(LsaLen(lsa))
            b8 == Net16(n)
            b9 == FlattenSeq(seqs)
            a2 == b1 \o b2
            a3 == a2 \o b3
            a4 == a3 \o b4
            a5 == a4 \o b5
            a6 == a5 \o b6
            a7 == a6 \o b5
            a8 == a7 \o b8
            a9 == a8 \o b9
<1>1. /\ lsa.state_id \in Word32 /\ lsa.ad_router \in Word32 /\ lsa.links \in Seq(WireLink)
      /\ LsaLen(lsa) \in Word16 /\ LsaLen(lsa) = 24 + 12 * n /\ n \in Nat
  BY DEF WireLsa, LsaLen, LsaHeaderLen, LinkLen
<1>2. n \in Word16
  <2>. DEFINE m == 24 + 12 * n
  <2>1. m \in Nat /\ m < 256 * 256
    BY <1>1 DEF Word16
  <2>2. n \in Nat /\ n < 256 * 256
    BY <1>1, <2>1
  <2>. QED
    BY <2>2 DEF Word16
<1>3. /\ b1 \in Seq(Byte) /\ Len(b1) = 4 /\ b4 \in Seq(Byte) /\ Len(b4) = 4
      /\ b5 \in Seq(Byte) /\ Len(b5) = 2 /\ b5[1] = 0 /\ b5[2] = 0
  <2>1. 0 \in Byte /\ 100 \in Byte /\ 2 \in Byte /\ 1 \in Byte /\ 128 \in Byte
    BY DEF Byte
  <2>. QED
    BY <2>1
<1>4. b2 \in Seq(Byte) /\ Len(b2) = 4 /\ b3 \in Seq(Byte) /\ Len(b3) = 4
  BY <1>1 DEF Word32
<1>5. b6 \in Seq(Byte) /\ Len(b6) = 2 /\ b8 \in Seq(Byte) /\ Len(b8) = 2
  BY <1>1, <1>2, Net16Bytes
<1>6. /\ b9 \in Seq(Byte) /\ Len(b9) = 12 * n
      /\ \A k \in 1..n : Holds(b9, 12 * (k - 1), LinkBytes(lsa.links[k]))
  <2>1. ASSUME NEW k \in 1..n
        PROVE  LinkBytes(lsa.links[k]) \in Seq(Byte) /\ Len(LinkBytes(lsa.links[k])) = 12
    <3>1. lsa.links[k] \in WireLink
      BY <1>1
    <3>. QED
      BY <3>1, LinkLaidOut
  <2>2. seqs \in Seq(Seq(Byte)) /\ Len(seqs) = n /\ \A k \in 1..n : seqs[k] = LinkBytes(lsa.links[k])
    BY <1>1, <2>1
  <2>. HIDE DEF seqs
  <2>3. \A k \in 1..Len(seqs) : Len(seqs[k]) = 12
    BY <2>1, <2>2
  <2>4. /\ FlattenSeq(seqs) \in Seq(Byte) /\ Len(FlattenSeq(seqs)) = 12 * Len(seqs)
        /\ \A k \in 1..Len(seqs) : Holds(FlattenSeq(seqs), 12 * (k - 1), seqs[k])
    BY <2>2, <2>3, Flattened
  <2>. QED
    BY <2>2, <2>4
<1>7. ASSUME NEW k \in 1..n PROVE LinkBytes(lsa.links[k]) \in Seq(Byte)
  <2>1. lsa.links[k] \in WireLink
    BY <1>1
  <2>. QED
    BY <2>1, LinkLaidOut
<1>8. RawLsa(lsa) = a9
  BY DEF RawLsa
<1>. HIDE DEF b1, b2, b3, b4, b5, b6, b8, b9, a2, a3, a4, a5, a6, a7, a8, a9, n, seqs
<1>9. a2 \in Seq(Byte) /\ Len(a2) = 8 /\ Holds(a2, 4, b2)
  <2>1. Extended(a2, b1, 4, b2)
    BY <1>3, <1>4, Appended, Zenon DEF a2
  <2>. QED
    BY <1>3, <1>4, <2>1 DEF Extended
<1>10. a3 \in Seq(Byte) /\ Len(a3) = 12 /\ Holds(a3, 4, b2) /\ Holds(a3, 8, b3)
  <2>1. Extended(a3, a2, 8, b3)
    BY <1>4, <1>9, Appended, Zenon DEF a3
  <2>. QED
    BY <1>4, <1>9, <2>1 DEF Extended
<1>11. a4 \in Seq(Byte) /\ Len(a4) = 16 /\ Holds(a4, 4, b2) /\ Holds(a4, 8, b3)
  <2>1. Extended(a4, a3, 12, b4)
    BY <1>3, <1>4, <1>10, Appended, Zenon DEF a4
  <2>. QED
    BY <1>3, <1>4, <1>10, <2>1 DEF Extended
<1>12. a5 \in Seq(Byte) /\ Len(a5) = 18 /\ Holds(a5, 4, b2) /\ Holds(a5, 8, b3) /\ Holds(a5, 16, b5)
  <2>1. Extended(a5, a4, 16, b5)
    BY <1>3, <1>4, <1>11, Appended, Zenon DEF a5
  <2>. QED
    BY <1>3, <1>4, <1>11, <2>1 DEF Extended
<1>13. a6 \in Seq(Byte) /\ Len(a6) = 20 /\ Holds(a6, 4, b2) /\ Holds(a6, 8, b3) /\ Holds(a6, 16, b5)
  <2>1. Extended(a6, a5, 18, b6)
    BY <1>3, <1>4, <1>5, <1>12, Appended, Zenon DEF a6
  <2>. QED
    BY <1>3, <1>4, <1>5, <1>12, <2>1 DEF Extended
<1>14. a7 \in Seq(Byte) /\ Len(a7) = 22 /\ Holds(a7, 4, b2) /\ Holds(a7, 8, b3) /\ Holds(a7, 16, b5)
  <2>1. Extended(a7, a6, 20, b5)
    BY <1>3, <1>4, <1>13, Appended, Zenon DEF a7
  <2>. QED
    BY <1>3, <1>4, <1>13, <2>1 DEF Extended
<1>15. /\ a8 \in Seq(Byte) /\ Len(a8) = 24 /\ Holds(a8, 4, b2) /\ Holds(a8, 8, b3) /\ Holds(a8, 16, b5)
         /\ Holds(a8, 22, b8)
  <2>1. Extended(a8, a7, 22, b8)
    BY <1>3, <1>4, <1>5, <1>14, Appended, Zenon DEF a8
  <2>. QED
    BY <1>3, <1>4, <1>5, <1>14, <2>1 DEF Extended
<1>16. /\ a9 \in Seq(Byte) /\ Len(a9) = 24 + 12 * n
         /\ Holds(a9, 4, b2) /\ Holds(a9, 8, b3) /\ Holds(a9, 16, b5) /\ Holds(a9, 22, b8) /\ Holds(a9, 24, b9)
  <2>1. Extended(a9, a8, 24, b9)
    BY <1>3, <1>4, <1>5, <1>6, <1>15, Appended, Zenon DEF a9
  <2>. QED
    BY <1>3, <1>4, <1>5, <1>6, <1>15, <2>1 DEF Extended
<1>17. a9[17] = 0 /\ a9[18] = 0
  <2>1. a9[16 + 1] = b5[1] /\ a9[16 + 2] = b5[2]
    BY <1>3, <1>16 DEF Holds
  <2>. QED
    BY <1>3, <2>1
<1>18. ASSUME NEW k \in 1..n PROVE Holds(a9, 24 + 12 * (k - 1), LinkBytes(lsa.links[k]))
  <2>1. 12 * (k - 1) \in Nat
    OBVIOUS
  <2>. QED
    BY <1>6, <1>7, <1>16, <2>1, HoldsIn
<1>. QED
  BY <1>1, <1>8, <1>16, <1>17, <1>18 DEF b2, b3, b8, n

\* The LSA without its age.
LEMMA AgelessLsa ==
  ASSUME NEW r \in Seq(Byte), Len(r) >= 24
  PROVE  /\ Ageless(r) \in Seq(Byte) /\ Len(Ageless(r)) = Len(r) - 2
         /\ \A i \in 1..(Len(r) - 2) : Ageless(r)[i] = r[i + 2]
  BY DEF Ageless

\* The age is not in the place of the checksum.
LEMMA AgelessPatched ==
  ASSUME NEW r \in Seq(Byte), Len(r) >= 24, NEW n \in Word16
  PROVE  Ageless(Patched(r, 16, n)) = Patched(Ageless(r), 14, n)
<1>. DEFINE e == Patched(r, 16, n)
            a == Ageless(r)
            x == Ageless(e)
            y == Patched(a, 14, n)
<1>1. /\ e \in Seq(Byte) /\ Len(e) = Len(r)
      /\ e[16 + 1] = n \div 256 /\ e[16 + 2] = n % 256
      /\ \A k \in 1..Len(r) : k # 16 + 1 /\ k # 16 + 2 => e[k] = r[k]
  <2>1. 16 \in Nat /\ 16 + 2 <= Len(r)
    OBVIOUS
  <2>2. IsPatched(e, r, 16, n)
    BY <2>1, PatchedIs, Zenon
  <2>. QED
    BY <2>2, Zenon DEF IsPatched
<1>2. /\ a \in Seq(Byte) /\ Len(a) = Len(r) - 2
      /\ \A i \in 1..(Len(r) - 2) : a[i] = r[i + 2]
  BY AgelessLsa
<1>. HIDE DEF e, a
<1>3. /\ x \in Seq(Byte) /\ Len(x) = Len(r) - 2
      /\ \A i \in 1..(Len(r) - 2) : x[i] = e[i + 2]
  BY <1>1, AgelessLsa
<1>4. /\ y \in Seq(Byte) /\ Len(y) = Len(a)
      /\ y[14 + 1] = n \div 256 /\ y[14 + 2] = n % 256
      /\ \A k \in 1..Len(a) : k # 14 + 1 /\ k # 14 + 2 => y[k] = a[k]
  <2>1. 14 \in Nat /\ 14 + 2 <= Len(a) /\ a \in Seq(Byte)
    BY <1>2
  <2>. QED
    BY <2>1, PatchedPacket
<1>. HIDE DEF x, y
<1>5. ASSUME NEW i \in 1..(Len(r) - 2) PROVE x[i] = y[i]
  <2>1. x[i] = e[i + 2] /\ i + 2 \in 1..Len(r) /\ i \in 1..Len(a)
    BY <1>2, <1>3
  <2>2. CASE i = 15
    BY <1>1, <1>4, <2>1, <2>2
  <2>3. CASE i = 16
    BY <1>1, <1>4, <2>1, <2>3
  <2>4. CASE i # 15 /\ i # 16
    BY <1>1, <1>2, <1>4, <2>1, <2>4
  <2>. QED
    BY <2>2, <2>3, <2>4
<1>6. x = y
  BY <1>2, <1>3, <1>4, <1>5
<1>. QED
  BY <1>6 DEF x, y, e, a

\* The second of two patches stays.
LEMMA PatchedTwice ==
  ASSUME NEW d \in Seq(Byte), NEW p \in Nat, p + 2 <= Len(d), NEW n \in Word16, NEW m \in Word16
  PROVE  Patched(Patched(d, p, n), p, m) = Patched(d, p, m)
<1>. DEFINE e == Patched(d, p, n)
            x == Patched(e, p, m)
            y == Patched(d, p, m)
<1>1. /\ e \in Seq(Byte) /\ Len(e) = Len(d)
      /\ e[p + 1] = n \div 256 /\ e[p + 2] = n % 256
      /\ \A k \in 1..Len(d) : k # p + 1 /\ k # p + 2 => e[k] = d[k]
  BY PatchedPacket
<1>. HIDE DEF e
<1>2. /\ x \in Seq(Byte) /\ Len(x) = Len(e)
      /\ x[p + 1] = m \div 256 /\ x[p + 2] = m % 256
      /\ \A k \in 1..Len(e) : k # p + 1 /\ k # p + 2 => x[k] = e[k]
  BY <1>1, PatchedPacket
<1>3. /\ y \in Seq(Byte) /\ Len(y) = Len(d)
      /\ y[p + 1] = m \div 256 /\ y[p + 2] = m % 256
      /\ \A k \in 1..Len(d) : k # p + 1 /\ k # p + 2 => y[k] = d[k]
  BY PatchedPacket
<1>. HIDE DEF x, y
<1>4. \A k \in 1..Len(d) : x[k] = y[k]
  BY <1>1, <1>2, <1>3
<1>5. x = y
  BY <1>1, <1>2, <1>3, <1>4
<1>. QED
  BY <1>5 DEF x, y, e

\* The checksum is not among the bytes that decide whether it is wrong.
LEMMA SlipsPatched ==
  ASSUME NEW d \in Seq(Byte), NEW p \in Nat, p + 2 <= Len(d), NEW n \in Word16
  PROVE  Slips(Patched(d, p, n), p) <=> Slips(d, p)
<1>1. 0 \in Word16
  BY DEF Word16
<1>2. Patched(Patched(d, p, n), p, 0) = Patched(d, p, 0)
  BY <1>1, PatchedTwice
<1>3. Len(Patched(d, p, n)) = Len(d)
  BY PatchedPacket
<1>. QED
  BY <1>2, <1>3, Zenon DEF Slips, SumsBefore

\* What toRouterLSA writes.
LEMMA LsaWritten ==
  ASSUME NEW lsa \in WireLsa
  PROVE  \E n \in Word16 :
           /\ toRouterLSA(lsa) = Patched(RawLsa(lsa), 16, n)
           /\ OsiVerifies(Ageless(toRouterLSA(lsa))) <=> ~Slips(Ageless(toRouterLSA(lsa)), 14)
<1>. DEFINE r == RawLsa(lsa)
            a == Ageless(r)
            n == create_osi_cksum(a, 14)
<1>1. r \in Seq(Byte) /\ Len(r) >= 24 /\ r[17] = 0 /\ r[18] = 0
  BY LsaLaidOut
<1>2. toRouterLSA(lsa) = Patched(r, 16, n)
  BY DEF toRouterLSA
<1>. HIDE DEF r
<1>3. a \in Seq(Byte) /\ Len(a) = Len(r) - 2 /\ a[14 + 1] = 0 /\ a[14 + 2] = 0 /\ 14 + 2 <= Len(a)
  <2>1. /\ a \in Seq(Byte) /\ Len(a) = Len(r) - 2
        /\ \A i \in 1..(Len(r) - 2) : a[i] = r[i + 2]
    BY <1>1, AgelessLsa
  <2>. HIDE DEF a
  <2>2. 15 \in 1..(Len(r) - 2) /\ 16 \in 1..(Len(r) - 2)
    BY <1>1
  <2>3. a[15] = r[17] /\ a[16] = r[18]
    BY <2>1, <2>2
  <2>. QED
    BY <1>1, <2>1, <2>3
<1>. HIDE DEF a
<1>4. 14 \in Nat
  OBVIOUS
<1>5. /\ n \in Word16
      /\ OsiVerifies(Patched(a, 14, n)) <=> ~Slips(a, 14)
  BY <1>3, <1>4, LsaChecksumVerifies, Zenon
<1>. HIDE DEF n
<1>6. Ageless(Patched(r, 16, n)) = Patched(a, 14, n)
  BY <1>1, <1>5, AgelessPatched DEF a
<1>7. Slips(Patched(a, 14, n), 14) <=> Slips(a, 14)
  BY <1>3, <1>4, <1>5, SlipsPatched, Zenon
<1>. QED
  BY <1>2, <1>5, <1>6, <1>7, Zenon DEF r

\* The checksum of a router LSA that toRouterLSA writes is right, for every number
\* of links, exactly when create_osi_cksum does not slip (Packets.h:156).
THEOREM RouterLsaVerifies ==
  ASSUME NEW lsa \in WireLsa
  PROVE  OsiVerifies(Ageless(toRouterLSA(lsa))) <=> ~Slips(Ageless(toRouterLSA(lsa)), 14)
  BY LsaWritten

\* The bytes of toRouterLSA, and what is where in them.
LEMMA LsaBytes ==
  ASSUME NEW lsa \in WireLsa
  PROVE  LET d == toRouterLSA(lsa) IN
           /\ d \in Seq(Byte) /\ Len(d) = LsaLen(lsa)
           /\ Holds(d, 4, lsa.state_id) /\ Holds(d, 8, lsa.ad_router)
           /\ Holds(d, 22, Net16(Len(lsa.links)))
           /\ \A k \in 1..Len(lsa.links) : Holds(d, 24 + 12 * (k - 1), LinkBytes(lsa.links[k]))
<1>. DEFINE r == RawLsa(lsa)
            m == Len(lsa.links)
<1>1. PICK n \in Word16 : toRouterLSA(lsa) = Patched(r, 16, n)
  BY LsaWritten
<1>2. /\ r \in Seq(Byte) /\ Len(r) = LsaLen(lsa) /\ Len(r) >= 24
      /\ Holds(r, 4, lsa.state_id) /\ Holds(r, 8, lsa.ad_router) /\ Holds(r, 22, Net16(m))
      /\ \A k \in 1..m : Holds(r, 24 + 12 * (k - 1), LinkBytes(lsa.links[k]))
  BY LsaLaidOut
<1>3. /\ lsa.state_id \in Seq(Byte) /\ Len(lsa.state_id) = 4
      /\ lsa.ad_router \in Seq(Byte) /\ Len(lsa.ad_router) = 4
      /\ m \in Nat /\ lsa.links \in Seq(WireLink)
  BY DEF WireLsa, Word32
<1>4. Net16(m) \in Seq(Byte)
  <2>1. LsaLen(lsa) \in Word16 /\ LsaLen(lsa) = 24 + 12 * m
    BY DEF WireLsa, LsaLen, LsaHeaderLen, LinkLen
  <2>. HIDE DEF m
  <2>2. m \in Word16
    <3>. DEFINE l == 24 + 12 * m
    <3>1. l \in Nat /\ l < 256 * 256
      BY <2>1 DEF Word16
    <3>2. m \in Nat /\ m < 256 * 256
      BY <1>3, <3>1
    <3>. QED
      BY <3>2 DEF Word16
  <2>. QED
    BY <2>2, Net16Bytes
<1>. HIDE DEF r, m
<1>. DEFINE d == Patched(r, 16, n)
<1>5. 16 \in Nat /\ 16 + 2 <= Len(r)
  BY <1>2
<1>6. d \in Seq(Byte) /\ Len(d) = Len(r)
  BY <1>2, <1>5, PatchedPacket
<1>7. Holds(d, 4, lsa.state_id)
  <2>1. 4 \in Nat /\ 4 + Len(lsa.state_id) <= 16
    BY <1>3
  <2>. QED
    BY <1>2, <1>3, <1>5, <2>1, HoldsPatched, Zenon
<1>8. Holds(d, 8, lsa.ad_router)
  <2>1. 8 \in Nat /\ 8 + Len(lsa.ad_router) <= 16
    BY <1>3
  <2>. QED
    BY <1>2, <1>3, <1>5, <2>1, HoldsPatched, Zenon
<1>9. Holds(d, 22, Net16(m))
  <2>1. 22 \in Nat /\ 16 + 2 <= 22
    OBVIOUS
  <2>. QED
    BY <1>2, <1>4, <1>5, <2>1, HoldsPatched, Zenon
<1>10. ASSUME NEW k \in 1..m PROVE Holds(d, 24 + 12 * (k - 1), LinkBytes(lsa.links[k]))
  <2>. DEFINE j == 24 + 12 * (k - 1)
              b == LinkBytes(lsa.links[k])
  <2>1. j \in Nat /\ 16 + 2 <= j
    BY <1>3
  <2>2. b \in Seq(Byte)
    <3>1. lsa.links[k] \in WireLink
      BY <1>3 DEF m
    <3>. QED
      BY <3>1, LinkLaidOut
  <2>3. Holds(r, j, b)
    BY <1>2
  <2>. HIDE DEF j, b
  <2>4. Holds(d, j, b)
    BY <1>2, <1>5, <2>1, <2>2, <2>3, HoldsPatched, Zenon
  <2>. QED
    BY <2>4 DEF j, b
<1>. QED
  BY <1>1, <1>2, <1>6, <1>7, <1>8, <1>9, <1>10 DEF m

\* The constructor RouterLSA reads back every LSA that toRouterLSA writes, whatever
\* its links (Packets.h:96-159).
THEOREM RouterLsaReadsBack ==
  ASSUME NEW lsa \in WireLsa
  PROVE  RouterLSA(toRouterLSA(lsa)) = lsa
<1>. DEFINE d == toRouterLSA(lsa)
            n == Len(lsa.links)
<1>1. /\ d \in Seq(Byte)
      /\ Holds(d, 4, lsa.state_id) /\ Holds(d, 8, lsa.ad_router) /\ Holds(d, 22, Net16(n))
      /\ \A k \in 1..n : Holds(d, 24 + 12 * (k - 1), LinkBytes(lsa.links[k]))
  BY LsaBytes
<1>2. /\ lsa.state_id \in Seq(Byte) /\ Len(lsa.state_id) = 4
      /\ lsa.ad_router \in Seq(Byte) /\ Len(lsa.ad_router) = 4
      /\ lsa.links \in Seq(WireLink) /\ n \in Nat
      /\ lsa = [state_id |-> lsa.state_id, ad_router |-> lsa.ad_router, links |-> lsa.links]
  BY DEF WireLsa, Word32
<1>3. n \in Word16
  <2>1. LsaLen(lsa) \in Word16 /\ LsaLen(lsa) = 24 + 12 * n
    BY DEF WireLsa, LsaLen, LsaHeaderLen, LinkLen
  <2>. HIDE DEF n
  <2>. DEFINE l == 24 + 12 * n
  <2>2. l \in Nat /\ l < 256 * 256
    BY <2>1 DEF Word16
  <2>3. n \in Nat /\ n < 256 * 256
    BY <1>2, <2>2
  <2>. QED
    BY <2>3 DEF Word16
<1>. HIDE DEF d
<1>4. 4 \in Nat /\ 8 \in Nat /\ 22 \in Nat /\ LsaHeaderLen + 2 = 22 /\ LsaHeaderLen + 4 = 24 /\ LinkLen = 12
  BY DEF LsaHeaderLen, LinkLen
<1>5. Host32(d, 4) = lsa.state_id
  BY <1>1, <1>2, <1>4, Host32Reads, Zenon
<1>6. Host32(d, 8) = lsa.ad_router
  BY <1>1, <1>2, <1>4, Host32Reads, Zenon
<1>7. Host16(d, 22) = n
  <2>. HIDE DEF n
  <2>. QED
    BY <1>1, <1>3, <1>4, Host16Reads, Zenon
<1>8. ASSUME NEW k \in 1..n PROVE ReadLink(d, 24 + 12 * (k - 1)) = lsa.links[k]
  <2>. DEFINE j == 24 + 12 * (k - 1)
  <2>1. lsa.links[k] \in WireLink /\ j \in Nat
    BY <1>2
  <2>2. Holds(d, j, LinkBytes(lsa.links[k]))
    BY <1>1
  <2>. HIDE DEF j
  <2>3. ReadLink(d, j) = lsa.links[k]
    BY <1>1, <2>1, <2>2, LinkReads
  <2>. QED
    BY <2>3 DEF j
<1>9. [k \in 1..n |-> ReadLink(d, 24 + 12 * (k - 1))] = lsa.links
  <2>1. lsa.links = [k \in 1..n |-> lsa.links[k]]
    BY <1>2
  <2>. DEFINE f == [k \in 1..n |-> ReadLink(d, 24 + 12 * (k - 1))]
  <2>2. f = [k \in 1..n |-> lsa.links[k]]
    BY <1>8
  <2>. QED
    BY <2>1, <2>2
<1>10. RouterLSA(d) = [state_id |-> Host32(d, 4), ad_router |-> Host32(d, 8),
                       links |-> [k \in 1..Host16(d, 22) |-> ReadLink(d, 24 + 12 * (k - 1))]]
  BY <1>4, Zenon DEF RouterLSA
<1>. QED
  BY <1>2, <1>5, <1>6, <1>7, <1>9, <1>10, Zenon DEF d

\* Where the body of a packet is.
LEMMA PacketLaidOut ==
  ASSUME NEW body \in Seq(Byte), HeaderLen + Len(body) \in Word16, NEW type \in Byte, NEW routerId \in Word32
  PROVE  /\ sendPacket(body, type, routerId) \in Seq(Byte)
         /\ Len(sendPacket(body, type, routerId)) = 24 + Len(body)
         /\ Holds(sendPacket(body, type, routerId), 24, body)
         /\ InetVerifies(sendPacket(body, type, routerId))
<1>. DEFINE b1 == <<2, type>>
            b2 == Net16(HeaderLen + Len(body))
            z == <<0, 0, 0, 0>>
            a2 == b1 \o b2
            a3 == a2 \o routerId
            a4 == a3 \o z
            a5 == a4 \o z
            a6 == a5 \o z
            a7 == a6 \o z
            a8 == a7 \o body
            c == inet_cksum(a8)
<1>1. b1 \in Seq(Byte) /\ Len(b1) = 2
  <2>1. 2 \in Byte
    BY DEF Byte
  <2>. QED
    BY <2>1
<1>2. HeaderLen = 24 /\ Len(body) \in Nat
  BY DEF HeaderLen
<1>3. b2 \in Seq(Byte) /\ Len(b2) = 2
  <2>. DEFINE m == HeaderLen + Len(body)
  <2>2. m \in Word16
    OBVIOUS
  <2>. HIDE DEF m
  <2>3. Net16(m) \in Seq(Byte) /\ Len(Net16(m)) = 2
    BY <2>2, Net16Bytes
  <2>. QED
    BY <2>3 DEF m
<1>4. routerId \in Seq(Byte) /\ Len(routerId) = 4
  BY DEF Word32
<1>5. z \in Seq(Byte) /\ Len(z) = 4 /\ z[1] = 0 /\ z[2] = 0
  <2>1. 0 \in Byte
    BY DEF Byte
  <2>. QED
    BY <2>1
<1>6. sendPacket(body, type, routerId) = Patched(a8, 12, c)
  BY DEF sendPacket, Zero32
<1>. HIDE DEF b1, b2, z, a2, a3, a4, a5, a6, a7, a8, c
<1>7. a2 \in Seq(Byte) /\ Len(a2) = 4
  <2>1. Extended(a2, b1, 2, b2)
    BY <1>1, <1>3, Appended, Zenon DEF a2
  <2>. QED
    BY <1>1, <1>3, <2>1 DEF Extended
<1>8. a3 \in Seq(Byte) /\ Len(a3) = 8
  <2>1. Extended(a3, a2, 4, routerId)
    BY <1>4, <1>7, Appended, Zenon DEF a3
  <2>. QED
    BY <1>4, <1>7, <2>1 DEF Extended
<1>9. a4 \in Seq(Byte) /\ Len(a4) = 12
  <2>1. Extended(a4, a3, 8, z)
    BY <1>5, <1>8, Appended, Zenon DEF a4
  <2>. QED
    BY <1>5, <1>8, <2>1 DEF Extended
<1>10. a5 \in Seq(Byte) /\ Len(a5) = 16 /\ Holds(a5, 12, z)
  <2>1. Extended(a5, a4, 12, z)
    BY <1>5, <1>9, Appended, Zenon DEF a5
  <2>. QED
    BY <1>5, <2>1 DEF Extended
<1>11. a6 \in Seq(Byte) /\ Len(a6) = 20 /\ Holds(a6, 12, z)
  <2>1. Extended(a6, a5, 16, z)
    BY <1>5, <1>10, Appended, Zenon DEF a6
  <2>. QED
    BY <1>5, <1>10, <2>1 DEF Extended
<1>12. a7 \in Seq(Byte) /\ Len(a7) = 24 /\ Holds(a7, 12, z)
  <2>1. Extended(a7, a6, 20, z)
    BY <1>5, <1>11, Appended, Zenon DEF a7
  <2>. QED
    BY <1>5, <1>11, <2>1 DEF Extended
<1>13. a8 \in Seq(Byte) /\ Len(a8) = 24 + Len(body) /\ Holds(a8, 12, z) /\ Holds(a8, 24, body)
  <2>1. Extended(a8, a7, 24, body)
    BY <1>12, Appended, Zenon DEF a8
  <2>. QED
    BY <1>5, <1>12, <2>1 DEF Extended
<1>14. a8[12 + 1] = 0 /\ a8[12 + 2] = 0
  BY <1>5, <1>13 DEF Holds
<1>15. c \in Word16 /\ InetVerifies(Patched(a8, 12, c))
  <2>. DEFINE q == 6
  <2>0. Len(a8) \in Word16
    BY <1>2, <1>13, Zenon
  <2>1. q \in Nat /\ 2 * q = 12 /\ 2 * q + 2 <= Len(a8)
    BY <1>2, <1>13
  <2>. HIDE DEF q
  <2>2. a8[2 * q + 1] = 0 /\ a8[2 * q + 2] = 0
    BY <1>14, <2>1
  <2>3. c \in Word16 /\ InetVerifies(Patched(a8, 2 * q, c))
    BY <1>13, <2>0, <2>1, <2>2, ChecksumVerifies DEF c
  <2>. QED
    BY <2>1, <2>3
<1>16. 12 \in Nat /\ 12 + 2 <= Len(a8) /\ 24 \in Nat /\ 12 + 2 <= 24
  BY <1>2, <1>13
<1>17. Patched(a8, 12, c) \in Seq(Byte) /\ Len(Patched(a8, 12, c)) = Len(a8)
  BY <1>13, <1>15, <1>16, PatchedPacket
<1>18. Holds(Patched(a8, 12, c), 24, body)
  BY <1>13, <1>15, <1>16, HoldsPatched, Zenon
<1>. QED
  BY <1>6, <1>13, <1>15, <1>17, <1>18

\* The checksum of every packet that sendPacket sends is right, whatever it carries
\* (PacketManager.cpp:596-606).
THEOREM PacketVerifies ==
  ASSUME NEW body \in Seq(Byte), HeaderLen + Len(body) \in Word16, NEW type \in Byte, NEW routerId \in Word32
  PROVE  InetVerifies(sendPacket(body, type, routerId))
  BY PacketLaidOut

\* The LS update carries the LSA, where the handler of LS updates looks for it, and
\* both checksums are right but for the slips (PacketManager.cpp:338-370, 433).
THEOREM LSUpdateCarriesLsa ==
  ASSUME NEW lsa \in WireLsa, LsaLen(lsa) + 28 \in Word16, NEW routerId \in Word32
  PROVE  LET p == LSUpdatePacket(lsa, routerId) IN
           /\ LsaOf(p) = toRouterLSA(lsa)
           /\ RouterLSA(LsaOf(p)) = lsa
           /\ InetVerifies(p)
           /\ OsiVerifies(Ageless(LsaOf(p))) <=> ~Slips(Ageless(LsaOf(p)), 14)
<1>. DEFINE d == toRouterLSA(lsa)
            b == Net32(1)
            body == b \o d
            p == LSUpdatePacket(lsa, routerId)
<1>1. d \in Seq(Byte) /\ Len(d) = LsaLen(lsa)
  BY LsaBytes
<1>2. b \in Seq(Byte) /\ Len(b) = 4
  <2>1. 1 \in Word16 /\ 0 \in Byte
    BY DEF Word16, Byte
  <2>2. Net16(1) \in Seq(Byte) /\ Len(Net16(1)) = 2
    BY <2>1, Net16Bytes
  <2>3. <<0, 0>> \in Seq(Byte) /\ Len(<<0, 0>>) = 2
    BY <2>1
  <2>4. <<0, 0>> \o Net16(1) \in Seq(Byte) /\ Len(<<0, 0>> \o Net16(1)) = 4
    <3>. DEFINE x == <<0, 0>>
                y == Net16(1)
    <3>1. x \in Seq(Byte) /\ Len(x) = 2 /\ y \in Seq(Byte) /\ Len(y) = 2
      BY <2>2, <2>3
    <3>. HIDE DEF x, y
    <3>2. x \o y \in Seq(Byte) /\ Len(x \o y) = 4
      <4>1. Extended(x \o y, x, 2, y)
        BY <3>1, Appended, Zenon
      <4>. QED
        BY <3>1, <4>1 DEF Extended
    <3>. QED
      BY <3>2 DEF x, y
  <2>. QED
    BY <2>4 DEF Net32
<1>3. p = sendPacket(body, 4, routerId)
  BY DEF LSUpdatePacket
<1>. HIDE DEF d, b, p
<1>4. body \in Seq(Byte) /\ Len(body) = 4 + Len(d) /\ Holds(body, 4, d)
  <2>1. Extended(body, b, 4, d)
    BY <1>1, <1>2, Appended
  <2>. HIDE DEF body
  <2>. QED
    BY <1>2, <2>1 DEF Extended
<1>. HIDE DEF body
<1>5. HeaderLen = 24 /\ HeaderLen + Len(body) \in Word16 /\ 4 \in Byte
  <2>1. HeaderLen = 24 /\ 4 \in Byte
    BY DEF HeaderLen, Byte
  <2>2. Len(d) \in Nat /\ HeaderLen + Len(body) = LsaLen(lsa) + 28
    BY <1>1, <1>4, <2>1
  <2>. QED
    BY <2>1, <2>2
<1>6. p \in Seq(Byte) /\ Len(p) = 24 + Len(body) /\ Holds(p, 24, body) /\ InetVerifies(p)
  BY <1>3, <1>4, <1>5, PacketLaidOut
<1>7. Holds(p, 24 + 4, d)
  <2>1. 24 \in Nat /\ 4 \in Nat
    OBVIOUS
  <2>. QED
    BY <1>1, <1>4, <1>6, <2>1, HoldsIn, Zenon
<1>8. LsaOf(p) = d
  <2>1. 28 \in Nat /\ Holds(p, 28, d)
    BY <1>7
  <2>2. SubSeq(p, 28 + 1, 28 + Len(d)) = d
    BY <1>1, <1>6, <2>1, SliceReads, Zenon
  <2>3. HeaderLen + 5 = 28 + 1 /\ Len(p) = 28 + Len(d)
    BY <1>1, <1>4, <1>5, <1>6
  <2>. QED
    BY <2>2, <2>3, Zenon DEF LsaOf
<1>9. RouterLSA(d) = lsa
  BY RouterLsaReadsBack DEF d
<1>10. OsiVerifies(Ageless(d)) <=> ~Slips(Ageless(d), 14)
  BY RouterLsaVerifies DEF d
<1>. QED
  BY <1>6, <1>8, <1>9, <1>10, Zenon DEF p, d
=============================================================================
