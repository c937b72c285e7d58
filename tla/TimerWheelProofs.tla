--------------------------- MODULE TimerWheelProofs ---------------------------
(***************************************************************************)
(* The timer wheel for every size of its levels, every counter width, any  *)
(* number of nodes and workers.                                            *)
(***************************************************************************)
EXTENDS TimerWheel, TLAPS

-----------------------------------------------------------------------------
(* Quotients and remainders, for the shifts and masks of the wheel.        *)

\* The quotient and the remainder that make up a number.
LEMMA DivMod ==
    ASSUME NEW x \in Int, NEW m \in Nat \ {0}
    PROVE  /\ x \div m \in Int /\ x % m \in Int
           /\ x = m * (x \div m) + (x % m)
           /\ 0 <= x % m /\ x % m < m
BY SMTT(30)

\* They are the only ones.
LEMMA DivModUnique ==
    ASSUME NEW x \in Int, NEW m \in Nat \ {0}, NEW q \in Int, NEW r \in Int,
           0 <= r, r < m, x = m * q + r
    PROVE  x \div m = q /\ x % m = r
BY SMTT(30)

\* y is x and c times m.
Shifted(y, x, m, c) == x \in Int /\ m \in Nat \ {0} /\ c \in Int /\ y = x + m * c

\* Adding a multiple of m.
LEMMA ModShift ==
    ASSUME NEW x, NEW m, NEW c, NEW y, Shifted(y, x, m, c)
    PROVE  y % m = x % m /\ y \div m = (x \div m) + c
<1>0. x \in Int /\ m \in Nat \ {0} /\ c \in Int /\ y = x + m * c
  BY DEF Shifted
<1>. DEFINE q == x \div m
            r == x % m
            p == q + c
<1>1. q \in Int /\ r \in Int /\ x = m * q + r /\ 0 <= r /\ r < m
  BY <1>0, DivMod
<1>. HIDE DEF q, r
<1>2. y \in Int /\ p \in Int /\ y = m * p + r
  BY <1>0, <1>1
<1>. HIDE DEF p
<1>3. y \div m = p /\ y % m = r
  BY <1>0, <1>1, <1>2, DivModUnique
<1>. QED  BY <1>3 DEF q, r, p

\* Numbers less than m apart have different remainders.
LEMMA ModClose ==
    ASSUME NEW x \in Int, NEW y \in Int, NEW m \in Nat \ {0},
           x % m = y % m, 0 <= x - y, x - y < m
    PROVE  x = y
<1>. DEFINE p == x \div m
            q == y \div m
            r == x % m
<1>1. /\ p \in Int /\ q \in Int /\ r \in Int
      /\ x = m * p + r /\ y = m * q + r
  BY DivMod
<1>. HIDE DEF p, q, r
<1>2. 0 <= m * (p - q) /\ m * (p - q) < m
  BY <1>1
<1>3. p - q = 0
  BY <1>1, <1>2
<1>. QED  BY <1>1, <1>3

\* A multiple.
LEMMA Multiple ==
    ASSUME NEW x \in Int, NEW m \in Nat \ {0}
    PROVE  /\ \A q \in Int : x = m * q => x % m = 0 /\ x \div m = q
           /\ x % m = 0 => x \div m \in Int /\ x = m * (x \div m)
<1>1. ASSUME NEW q \in Int, x = m * q PROVE x % m = 0 /\ x \div m = q
  <2>1. x = m * q + 0
    BY <1>1
  <2>. QED  BY <2>1, DivModUnique
<1>. QED  BY <1>1, DivMod

\* p is m times c, and x a number to divide by it.
Factors(x, p, m, c) ==
    x \in Int /\ m \in Nat \ {0} /\ c \in Nat \ {0} /\ p = m * c

\* A number is a multiple of m * c just if it is one of m and its quotient is
\* one of c.
LEMMA ModProduct ==
    ASSUME NEW x, NEW p, NEW m, NEW c, Factors(x, p, m, c)
    PROVE  x % p = 0 <=> x % m = 0 /\ (x \div m) % c = 0
<1>t. x \in Int /\ m \in Nat \ {0} /\ c \in Nat \ {0} /\ p = m * c
  BY DEF Factors
<1>0. p \in Nat \ {0}
  BY <1>t
<1>1. ASSUME x % p = 0 PROVE x % m = 0 /\ (x \div m) % c = 0
  <2>. DEFINE k == x \div p
              z == c * k
  <2>1. k \in Int /\ x = p * k
    BY <1>t, <1>0, <1>1, Multiple
  <2>. HIDE DEF k
  <2>2. z \in Int /\ x = m * z /\ z = c * k
    BY <1>t, <2>1
  <2>. HIDE DEF z
  <2>3. x \div m = z /\ x % m = 0
    BY <1>t, <2>2, Multiple
  <2>4. z % c = 0
    BY <1>t, <2>1, <2>2, Multiple
  <2>. QED  BY <2>3, <2>4
<1>2. ASSUME x % m = 0, (x \div m) % c = 0 PROVE x % p = 0
  <2>. DEFINE y == x \div m
              k == y \div c
  <2>1. y \in Int /\ x = m * y /\ y % c = 0
    BY <1>t, <1>2, Multiple
  <2>. HIDE DEF y
  <2>2. k \in Int /\ y = c * k
    BY <1>t, <2>1, Multiple
  <2>. HIDE DEF k
  <2>3. x = p * k
    BY <1>t, <2>1, <2>2
  <2>. QED  BY <1>t, <1>0, <2>2, <2>3, Multiple
<1>. QED  BY <1>1, <1>2

-----------------------------------------------------------------------------
(* The levels.                                                             *)

\* The levels of the wheel, each TVN times the one below.
LEMMA Spans ==
    /\ Span(0) = 1 /\ Span(1) = TVR
    /\ \A l \in 2 .. 5 : Span(l) = Span(l - 1) * TVN
    /\ \A l \in 0 .. 5 : Span(l) \in Nat \ {0}
    /\ \A l \in 1 .. 5 : Span(l) >= TVR
<1>. USE WheelAssumption
<1>1. Span(0) = 1 /\ Span(1) = TVR
  BY DEF Span
<1>2. Span(2) = TVR * TVN /\ Span(2) \in Nat /\ Span(2) >= TVR
  BY DEF Span
<1>3. Span(3) = Span(2) * TVN /\ Span(3) \in Nat /\ Span(3) >= TVR
  BY <1>2 DEF Span
<1>4. Span(4) = Span(3) * TVN /\ Span(4) \in Nat /\ Span(4) >= TVR
  BY <1>2, <1>3 DEF Span
<1>5. Span(5) = Span(4) * TVN /\ Span(5) \in Nat /\ Span(5) >= TVR
  BY <1>2, <1>3, <1>4 DEF Span
<1>. QED  BY <1>1, <1>2, <1>3, <1>4, <1>5

\* The counter wraps at a multiple of every level.
LEMMA WrapSpans == \A l \in 0 .. 5 : \E c \in Nat \ {0} : Wrap = Span(l) * c
<1>. USE Spans, WheelAssumption
<1>1. \E c \in Nat \ {0} : Wrap = Span(5) * c
  <2>. DEFINE S == Span(5)
              c == Wrap \div S
  <2>1. S \in Nat \ {0} /\ Wrap \in Nat \ {0} /\ Wrap % S = 0
    OBVIOUS
  <2>. HIDE DEF S
  <2>2. c \in Int /\ Wrap = S * c
    BY <2>1, Multiple
  <2>. HIDE DEF c
  <2>3. c \in Nat \ {0}
    BY <2>1, <2>2
  <2>. QED  BY <2>2, <2>3 DEF S
<1>2. ASSUME NEW l \in 2 .. 5, \E c \in Nat \ {0} : Wrap = Span(l) * c
      PROVE  \E c \in Nat \ {0} : Wrap = Span(l - 1) * c
  <2>1. PICK c \in Nat \ {0} : Wrap = Span(l) * c
    BY <1>2
  <2>2. Span(l) = Span(l - 1) * TVN /\ Span(l - 1) \in Nat \ {0}
    OBVIOUS
  <2>3. Wrap = Span(l - 1) * (TVN * c) /\ TVN * c \in Nat \ {0}
    BY <2>1, <2>2
  <2>. QED  BY <2>3
<1>3. \E c \in Nat \ {0} : Wrap = Span(4) * c
  BY <1>1, <1>2
<1>4. \E c \in Nat \ {0} : Wrap = Span(3) * c
  BY <1>2, <1>3
<1>5. \E c \in Nat \ {0} : Wrap = Span(2) * c
  BY <1>2, <1>4
<1>6. \E c \in Nat \ {0} : Wrap = Span(1) * c
  BY <1>2, <1>5
<1>7. \E c \in Nat \ {0} : Wrap = Span(0) * c
  <2>1. Wrap = 1 * Wrap /\ Wrap \in Nat \ {0}
    OBVIOUS
  <2>. QED  BY <2>1
<1>. QED  BY <1>1, <1>3, <1>4, <1>5, <1>6, <1>7

\* The buckets of a level.
Size(l) == IF l = 1 THEN TVR ELSE TVN

\* A level covers its buckets times the level below.
LEMMA Sizes ==
    \A l \in 1 .. 5 : /\ Size(l) \in Nat \ {0} /\ Size(l) >= 2
                      /\ Span(l) = Span(l - 1) * Size(l)
                      /\ Span(l) \in Nat \ {0} /\ Span(l - 1) \in Nat \ {0}
BY Spans, WheelAssumption DEF Size

\* A slot is one of the buckets of its level.
LEMMA SlotType ==
    ASSUME NEW l \in 1 .. 5, NEW x \in Int
    PROVE  Slot(l, x) \in 0 .. Size(l) - 1
<1>1. Span(l - 1) \in Nat \ {0} /\ Size(l) \in Nat \ {0}
  BY Sizes
<1>2. x \div Span(l - 1) \in Int
  BY <1>1, DivMod
<1>3. (x \div Span(l - 1)) % Size(l) \in 0 .. Size(l) - 1
  BY <1>1, <1>2
<1>. QED  BY <1>3 DEF Slot, Size

\* Counting modulo Wrap changes no slot.
LEMMA SlotWrap ==
    ASSUME NEW l \in 1 .. 5, NEW x \in Int
    PROVE  /\ Slot(l, x % Wrap) = Slot(l, x)
           /\ (x % Wrap) % Span(l) = x % Span(l)
           /\ (x % Wrap) % Span(l - 1) = x % Span(l - 1)
<1>. DEFINE S == Span(l - 1)
            M == Size(l)
            w == x % Wrap
            k == x \div Wrap
<1>1. S \in Nat \ {0} /\ M \in Nat \ {0} /\ Span(l) = S * M /\ Span(l) \in Nat \ {0}
  BY Sizes
<1>2. PICK c \in Nat \ {0} : Wrap = Span(l) * c
  BY WrapSpans
<1>3. Wrap \in Nat \ {0}
  BY Spans, WheelAssumption
<1>4. w \in Int /\ k \in Int /\ x = Wrap * k + w
  BY <1>3, DivMod
<1>. DEFINE d == c * k
            f == M * d
<1>. HIDE DEF S, M, w, k
<1>5. d \in Int /\ f \in Int /\ x = w + Span(l) * d
  BY <1>1, <1>2, <1>4
<1>6. x = w + S * f /\ f = M * d
  BY <1>1, <1>5
<1>. HIDE DEF d, f
<1>7. x % Span(l) = w % Span(l)
  <2>1. Shifted(x, w, Span(l), d)
    BY <1>1, <1>4, <1>5 DEF Shifted
  <2>. QED  BY <2>1, ModShift
<1>8. x % S = w % S /\ x \div S = (w \div S) + f
  <2>1. Shifted(x, w, S, f)
    BY <1>1, <1>4, <1>5, <1>6 DEF Shifted
  <2>. QED  BY <2>1, ModShift
<1>. DEFINE y == w \div S
<1>9. y \in Int
  BY <1>1, <1>4, DivMod
<1>. HIDE DEF y
<1>10. x \div S = y + M * d
  BY <1>6, <1>8 DEF y
<1>11. (x \div S) % M = y % M
  <2>1. Shifted(x \div S, y, M, d)
    BY <1>1, <1>5, <1>9, <1>10 DEF Shifted
  <2>. QED  BY <2>1, ModShift
<1>. QED  BY <1>7, <1>8, <1>11 DEF Slot, S, M, w, y, Size

\* All levels below l are at their first bucket just at the multiples of what
\* they cover.
LEMMA LowSlots ==
    ASSUME NEW x \in Int
    PROVE  /\ Slot(1, x) = x % TVR
           /\ \A l \in 2 .. 5 :
                 (\A k \in 1 .. l - 1 : Slot(k, x) = 0) <=> x % Span(l - 1) = 0
<1>. USE Spans, WheelAssumption
<1>1. Slot(1, x) = x % TVR
  <2>1. x \div 1 = x
    OBVIOUS
  <2>. QED  BY <2>1 DEF Slot
<1>2. ASSUME NEW k \in 2 .. 4
      PROVE  x % Span(k) = 0 <=> x % Span(k - 1) = 0 /\ Slot(k, x) = 0
  <2>. DEFINE S == Span(k - 1)
              P == Span(k)
  <2>1. P = S * TVN /\ S \in Nat \ {0} /\ TVN \in Nat \ {0}
    OBVIOUS
  <2>2. Slot(k, x) = (x \div S) % TVN
    BY DEF Slot
  <2>. HIDE DEF S, P
  <2>3. x % P = 0 <=> x % S = 0 /\ (x \div S) % TVN = 0
    <3>1. Factors(x, P, S, TVN)
      BY <2>1 DEF Factors
    <3>. QED  BY <3>1, ModProduct
  <2>. QED  BY <2>2, <2>3 DEF S, P
<1>3. x % Span(1) = 0 <=> Slot(1, x) = 0
  BY <1>1
<1>4. /\ x % Span(2) = 0 <=> x % Span(1) = 0 /\ Slot(2, x) = 0
      /\ x % Span(3) = 0 <=> x % Span(2) = 0 /\ Slot(3, x) = 0
      /\ x % Span(4) = 0 <=> x % Span(3) = 0 /\ Slot(4, x) = 0
  BY <1>2
<1>5. ASSUME NEW l \in 2 .. 5
      PROVE  (\A k \in 1 .. l - 1 : Slot(k, x) = 0) <=> x % Span(l - 1) = 0
  <2>1. l = 2 \/ l = 3 \/ l = 4 \/ l = 5
    OBVIOUS
  <2>2. /\ 1 .. 1 = {1} /\ 1 .. 2 = {1, 2} /\ 1 .. 3 = {1, 2, 3}
        /\ 1 .. 4 = {1, 2, 3, 4}
    OBVIOUS
  <2>. HIDE Spans, WheelAssumption
  <2>. QED  BY <1>3, <1>4, <2>1, <2>2
<1>. QED  BY <1>1, <1>5

\* A node waits in level l for tick e, less than a round of the level away.  Its
\* bucket comes down at the last tick up to e where the levels below begin anew,
\* and at no other.
LEMMA CascadeAt ==
    ASSUME NEW l \in 2 .. 5, NEW e \in Int, NEW t \in Int, t <= e, e - t < Span(l)
    PROVE  cascades(<<l, Slot(l, e)>>, t) <=> e - t = e % Span(l - 1)
<1>. DEFINE S == Span(l - 1)
            q == e \div S
            n == t \div S
            r == e % S
<1>1. S \in Nat \ {0} /\ TVN \in Nat \ {0} /\ Span(l) = S * TVN
  BY Spans, WheelAssumption
<1>2. q \in Int /\ r \in Int /\ e = S * q + r /\ 0 <= r /\ r < S
  BY <1>1, DivMod
<1>3. n \in Int
  BY <1>1, DivMod
<1>4. cascades(<<l, Slot(l, e)>>, t) <=> q % TVN = n % TVN /\ t % S = 0
  <2>1. Slot(l, e) = q % TVN /\ Slot(l, t) = n % TVN
    BY DEF Slot
  <2>2. (\A k \in 1 .. l - 1 : Slot(k, t) = 0) <=> t % S = 0
    BY LowSlots
  <2>. QED  BY <2>1, <2>2 DEF cascades
<1>5. t % S = 0 => t = S * n
  BY <1>1, Multiple
<1>6. \A z \in Int : t = S * z => t % S = 0 /\ n = z
  BY <1>1, Multiple
<1>. HIDE DEF S, q, n, r
<1>7. ASSUME q % TVN = n % TVN, t % S = 0 PROVE e - t = r
  <2>1. t = S * n
    BY <1>5, <1>7
  <2>2. S * (q - n) + r >= 0 /\ S * (q - n) + r < S * TVN
    BY <1>1, <1>2, <1>3, <2>1
  <2>3. q - n >= 0
    BY <1>1, <1>2, <1>3, <2>2
  <2>4. q - n < TVN
    BY <1>1, <1>2, <1>3, <2>2
  <2>5. q = n
    BY <1>1, <1>2, <1>3, <1>7, <2>3, <2>4, ModClose
  <2>. QED  BY <1>2, <2>1, <2>5
<1>8. ASSUME e - t = r PROVE q % TVN = n % TVN /\ t % S = 0
  <2>1. S * q \in Int
    BY <1>1, <1>2
  <2>2. t = S * q
    BY <1>2, <1>8, <2>1
  <2>. QED  BY <1>2, <1>6, <2>2
<1>. QED  BY <1>4, <1>7, <1>8 DEF r, S

-----------------------------------------------------------------------------
(* The counter.                                                            *)

\* The tick counter is wide enough for the wheel.
LEMMA WrapFacts ==
    /\ Wrap \in Nat \ {0} /\ TVR \in Nat \ {0} /\ TVN \in Nat \ {0} /\ TVR >= 2
    /\ Span(5) \in Nat \ {0} /\ 2 * Span(5) <= Wrap
    /\ \A l \in 1 .. 5 : Span(l) <= Span(5) /\ 2 * Span(l) <= Wrap
<1>. USE Spans, WheelAssumption
<1>1. ASSUME NEW l \in 2 .. 5 PROVE Span(l - 1) <= Span(l)
  <2>1. Span(l) = Span(l - 1) * TVN /\ Span(l - 1) \in Nat
    OBVIOUS
  <2>. QED  BY <2>1
<1>2. Span(1) <= Span(2) /\ Span(2) <= Span(3) /\ Span(3) <= Span(4) /\ Span(4) <= Span(5)
  BY <1>1
<1>3. ASSUME NEW l \in 1 .. 5 PROVE Span(l) <= Span(5)
  BY <1>2
<1>. QED  BY <1>3

\* Reading a tick modulo Wrap.
LEMMA Unwrap ==
    ASSUME NEW x \in Int, - Wrap <= x, x < 2 * Wrap
    PROVE  x % Wrap = IF x < 0 THEN x + Wrap ELSE IF x < Wrap THEN x ELSE x - Wrap
<1>1. Wrap \in Nat \ {0}
  BY WrapFacts
<1>2. ASSUME NEW q \in Int, NEW r \in Int, 0 <= r, r < Wrap, x = Wrap * q + r
      PROVE  x % Wrap = r
  BY <1>1, <1>2, DivModUnique
<1>3. CASE x < 0
  <2>1. x + Wrap \in Int /\ 0 <= x + Wrap /\ x + Wrap < Wrap /\ x = Wrap * (-1) + (x + Wrap)
    BY <1>1, <1>3
  <2>. QED  BY <1>2, <1>3, <2>1
<1>4. CASE 0 <= x /\ x < Wrap
  <2>1. x = Wrap * 0 + x
    BY <1>1
  <2>. QED  BY <1>2, <1>4, <2>1
<1>5. CASE Wrap <= x
  <2>1. x - Wrap \in Int /\ 0 <= x - Wrap /\ x - Wrap < Wrap /\ x = Wrap * 1 + (x - Wrap)
    BY <1>1, <1>5
  <2>. QED  BY <1>1, <1>2, <1>5, <2>1
<1>. QED  BY <1>1, <1>3, <1>4, <1>5

\* The ticks from b to a.
LEMMA Distance ==
    ASSUME NEW a \in Ticks, NEW b \in Ticks
    PROVE  /\ (a - b) % Wrap = IF a < b THEN a - b + Wrap ELSE a - b
           /\ (a - b) % Wrap \in 0 .. Wrap - 1
           /\ (b + ((a - b) % Wrap)) % Wrap = a
<1>1. Wrap \in Nat \ {0} /\ a \in Int /\ b \in Int /\ 0 <= a /\ a < Wrap /\ 0 <= b /\ b < Wrap
  BY WrapFacts DEF Ticks
<1>2. a - b \in Int /\ - Wrap <= a - b /\ a - b < 2 * Wrap
  BY <1>1
<1>3. (a - b) % Wrap = IF a < b THEN a - b + Wrap ELSE a - b
  BY <1>1, <1>2, Unwrap
<1>. DEFINE d == (a - b) % Wrap
<1>4. d \in 0 .. Wrap - 1
  BY <1>1, <1>3
<1>5. b + d \in Int /\ - Wrap <= b + d /\ b + d < 2 * Wrap
  BY <1>1, <1>4
<1>. HIDE DEF d
<1>6. (b + d) % Wrap = IF b + d < Wrap THEN b + d ELSE b + d - Wrap
  BY <1>1, <1>4, <1>5, Unwrap
<1>7. (b + d) % Wrap = a
  BY <1>1, <1>3, <1>6 DEF d
<1>. QED  BY <1>3, <1>4, <1>7 DEF d

\* A signed difference within half the counter's range is exact.
LEMMA DiffExact ==
    ASSUME NEW b \in Ticks, NEW v \in Int, - Wrap < 2 * v, 2 * v < Wrap
    PROVE  (b + v) % Wrap \in Ticks /\ Diff((b + v) % Wrap, b) = v
<1>1. Wrap \in Nat \ {0} /\ b \in Int /\ 0 <= b /\ b < Wrap
  BY WrapFacts DEF Ticks
<1>. DEFINE x == b + v
            a == x % Wrap
<1>2. x \in Int /\ - Wrap <= x /\ x < 2 * Wrap
  BY <1>1
<1>. HIDE DEF x
<1>3. a = IF x < 0 THEN x + Wrap ELSE IF x < Wrap THEN x ELSE x - Wrap
  BY <1>2, Unwrap
<1>4. a \in Ticks
  BY <1>1, <1>2, <1>3 DEF Ticks
<1>. HIDE DEF a
<1>5. (a - b) % Wrap = IF a < b THEN a - b + Wrap ELSE a - b
  BY <1>4, Distance
<1>6. (a - b) % Wrap = IF v < 0 THEN v + Wrap ELSE v
  BY <1>1, <1>3, <1>5 DEF x
<1>7. Diff(a, b) = v
  BY <1>1, <1>6 DEF Diff
<1>. QED  BY <1>4, <1>7 DEF a, x

\* The signed difference of two ticks, and the ticks that lie between them.
LEMMA DiffCases ==
    ASSUME NEW a \in Ticks, NEW b \in Ticks
    PROVE  LET d == (a - b) % Wrap IN
           /\ Diff(a, b) = IF 2 * d >= Wrap THEN d - Wrap ELSE d
           /\ Diff(a, b) \in Int
           /\ 2 * Diff(a, b) < Wrap /\ - Wrap <= 2 * Diff(a, b)
           /\ Diff(a, b) >= 0 => d = Diff(a, b)
<1>1. Wrap \in Nat \ {0} /\ (a - b) % Wrap \in 0 .. Wrap - 1
  BY WrapFacts, Distance
<1>. QED  BY <1>1 DEF Diff

\* The next tick.
LEMMA NextTick ==
    ASSUME NEW j \in Ticks
    PROVE  /\ (j + 1) % Wrap \in Ticks
           /\ (j + 1) % Wrap = IF j + 1 = Wrap THEN 0 ELSE j + 1
           /\ (j + 1) % Wrap # j
<1>1. Wrap \in Nat \ {0} /\ j \in Int /\ 0 <= j /\ j < Wrap /\ Wrap >= 2
  BY WrapFacts DEF Ticks
<1>2. (j + 1) % Wrap = IF j + 1 = Wrap THEN 0 ELSE j + 1
  BY <1>1, Unwrap
<1>. QED  BY <1>1, <1>2 DEF Ticks

-----------------------------------------------------------------------------
(* One node.                                                               *)

\* The tick in which a node with expiry e, linked at tick o, fires.
DueOf(e, o) ==
    IF Diff(e, o) <= 0 THEN (o + 1) % Wrap
    ELSE IF e % TVR = 0 /\ Diff(e, o) >= TVR THEN (e + 1) % Wrap ELSE e

\* Bucket b is right, at tick j, for a node with expiry e that was linked at
\* tick o.  It was due when it was linked, and no tick has passed; or it is in
\* the first level, less than a round before its expiry; or it has come down in
\* the tick of its expiry; or it is in a higher level, less than a round before
\* its expiry, and its bucket is still to come down.
Filed(e, o, b, j) ==
    LET r == (e - j) % Wrap IN
    \/ /\ Diff(e, o) <= 0 /\ o = j /\ b = <<1, (j + 1) % TVR>>
    \/ /\ Diff(e, o) > 0 /\ 0 < r /\ r < TVR
       /\ ~ (e % TVR = 0 /\ Diff(e, o) >= TVR)
       /\ b = <<1, e % TVR>>
    \/ /\ Diff(e, o) >= TVR /\ e % TVR = 0 /\ e = j /\ b = <<1, (j + 1) % TVR>>
    \/ /\ Diff(e, o) >= TVR
       /\ \E l \in 2 .. 5 : /\ e % Span(l - 1) < r /\ r < Span(l)
                            /\ b = <<l, Slot(l, e)>>

\* Where internal_add_timer links a node.
LEMMA AddTimer ==
    ASSUME NEW e \in Ticks, NEW t \in Ticks
    PROVE  /\ Diff(e, t) <= 0 => internal_add_timer(e, t) = <<1, (t + 1) % TVR>>
           /\ Diff(e, t) > 0 =>
                 \E l \in 1 .. 5 : /\ internal_add_timer(e, t) = <<l, Slot(l, e)>>
                                   /\ l = 5 \/ Diff(e, t) < Span(l)
                                   /\ l >= 2 => Diff(e, t) >= Span(l - 1)
<1>. DEFINE idx == Diff(e, t)
            P(k) == /\ k = 5 \/ idx < Span(k)
                    /\ \A i \in 1 .. k - 1 : idx >= Span(i)
            l == CHOOSE k \in Level : P(k)
<1>0. idx \in Int
  BY DiffCases
<1>1. Diff(e, t) <= 0 => internal_add_timer(e, t) = <<1, (t + 1) % TVR>>
  BY DEF internal_add_timer
<1>2. idx > 0 => internal_add_timer(e, t) = <<l, Slot(l, e)>>
  BY <1>0 DEF internal_add_timer
<1>s. \A k \in 1 .. 5 : Span(k) \in Nat
  BY Spans
<1>. HIDE DEF idx
<1>3. \E k \in Level : P(k)
  <2>1. /\ 1 .. 0 = {} /\ 1 .. 1 = {1} /\ 1 .. 2 = {1, 2} /\ 1 .. 3 = {1, 2, 3}
        /\ 1 .. 4 = {1, 2, 3, 4}
    OBVIOUS
  <2>2. CASE idx < Span(1)
    <3>1. P(1)
      BY <2>1, <2>2
    <3>. QED  BY <3>1 DEF Level
  <2>3. CASE idx >= Span(1) /\ idx < Span(2)
    <3>1. P(2)
      BY <2>1, <2>3
    <3>. QED  BY <3>1 DEF Level
  <2>4. CASE idx >= Span(1) /\ idx >= Span(2) /\ idx < Span(3)
    <3>1. P(3)
      BY <2>1, <2>4
    <3>. QED  BY <3>1 DEF Level
  <2>5. CASE idx >= Span(1) /\ idx >= Span(2) /\ idx >= Span(3) /\ idx < Span(4)
    <3>1. P(4)
      BY <2>1, <2>5
    <3>. QED  BY <3>1 DEF Level
  <2>6. CASE idx >= Span(1) /\ idx >= Span(2) /\ idx >= Span(3) /\ idx >= Span(4)
    <3>1. P(5)
      BY <2>1, <2>6
    <3>. QED  BY <3>1 DEF Level
  <2>7. \A k \in 1 .. 5 : idx < Span(k) \/ idx >= Span(k)
    BY <1>0, <1>s
  <2>. QED  BY <2>2, <2>3, <2>4, <2>5, <2>6, <2>7
<1>. HIDE DEF P
<1>4. l \in Level /\ P(l)
  BY <1>3
<1>. HIDE DEF l
<1>5. l \in 1 .. 5 /\ (l = 5 \/ idx < Span(l)) /\ (l >= 2 => idx >= Span(l - 1))
  BY <1>4 DEF P, Level
<1>. QED  BY <1>1, <1>2, <1>5 DEF idx

\* A node that is linked now for v ticks ahead is filed right, whatever v is.
LEMMA LinkFiled ==
    ASSUME NEW j \in Ticks, NEW v \in Int, - Wrap < 2 * v, v < Span(5)
    PROVE  LET e == (j + v) % Wrap IN
           e \in Ticks /\ Diff(e, j) = v /\ Filed(e, j, internal_add_timer(e, j), j)
<1>. DEFINE e == (j + v) % Wrap
            b == internal_add_timer(e, j)
            r == (e - j) % Wrap
<1>0. 2 * v < Wrap
  BY WrapFacts
<1>1. e \in Ticks /\ Diff(e, j) = v
  BY <1>0, DiffExact
<1>. HIDE DEF e
<1>2. v > 0 => r = v
  BY <1>1, DiffCases
<1>3. CASE v <= 0
  <2>1. b = <<1, (j + 1) % TVR>>
    BY <1>1, <1>3, AddTimer
  <2>2. Filed(e, j, b, j)
    BY <1>1, <1>3, <2>1 DEF Filed
  <2>. QED  BY <1>1, <2>2 DEF e
<1>4. CASE v > 0
  <2>1. PICK l \in 1 .. 5 : /\ b = <<l, Slot(l, e)>> /\ v < Span(l)
                            /\ l >= 2 => v >= Span(l - 1)
    BY <1>1, <1>4, AddTimer
  <2>i. e \in Int
    BY <1>1, WrapFacts DEF Ticks
  <2>. HIDE DEF b, r
  <2>2. CASE l = 1
    <3>1. b = <<1, e % TVR>>
      BY <2>1, <2>2, <2>i, LowSlots
    <3>2. Diff(e, j) > 0 /\ 0 < r /\ r < TVR /\ ~ (Diff(e, j) >= TVR)
      BY <1>1, <1>2, <1>4, <2>1, <2>2, Spans, WrapFacts
    <3>. QED  BY <3>1, <3>2, <1>1 DEF Filed, e, b, r
  <2>3. CASE l \in 2 .. 5
    <3>1. Span(l - 1) \in Nat \ {0} /\ Span(l - 1) >= TVR
      BY <2>3, Spans
    <3>2. e % Span(l - 1) < Span(l - 1) /\ e % Span(l - 1) \in Int
      BY <2>i, <3>1, DivMod
    <3>3. e % Span(l - 1) < r /\ r < Span(l) /\ Diff(e, j) >= TVR
      BY <1>1, <1>2, <1>4, <2>1, <2>3, <3>1, <3>2, Spans, WrapFacts
    <3>. QED  BY <1>1, <2>1, <2>3, <3>3 DEF Filed, e, b, r
  <2>. QED  BY <2>2, <2>3
<1>. QED  BY <1>3, <1>4

\* The bucket of a node after the buckets of tick t have come down.
BucketAt(e, b, t) == IF cascades(b, t) THEN internal_add_timer(e, t) ELSE b

\* One tick before the expiry less.
LEMMA LeftAfterTick ==
    ASSUME NEW e \in Ticks, NEW j \in Ticks, (e - j) % Wrap > 0
    PROVE  LET t == (j + 1) % Wrap IN
           /\ (e - t) % Wrap = ((e - j) % Wrap) - 1
           /\ t = e <=> (e - j) % Wrap = 1
<1>1. Wrap \in Nat \ {0} /\ e \in 0 .. Wrap - 1 /\ j \in 0 .. Wrap - 1
  BY WrapFacts DEF Ticks
<1>. DEFINE t == (j + 1) % Wrap
<1>2. t \in Ticks /\ t = IF j + 1 = Wrap THEN 0 ELSE j + 1
  BY NextTick
<1>. HIDE DEF t
<1>3. (e - t) % Wrap = IF e < t THEN e - t + Wrap ELSE e - t
  BY <1>2, Distance
<1>4. (e - j) % Wrap = IF e < j THEN e - j + Wrap ELSE e - j
  BY Distance
<1>5. /\ (e - t) % Wrap = ((e - j) % Wrap) - 1
      /\ t = e <=> (e - j) % Wrap = 1
  BY <1>1, <1>2, <1>3, <1>4
<1>. QED  BY <1>5 DEF t

\* The first bucket of tick t is not that of the next tick.
LEMMA NextSlot ==
    ASSUME NEW t \in Int
    PROVE  (t + 1) % TVR # t % TVR
<1>1. TVR \in Nat \ {0} /\ TVR >= 2
  BY WrapFacts
<1>2. ASSUME (t + 1) % TVR = t % TVR PROVE FALSE
  <2>. DEFINE u == t + 1
  <2>1. u \in Int /\ 0 <= u - t /\ u - t < TVR /\ u % TVR = t % TVR /\ u # t
    BY <1>1, <1>2
  <2>. HIDE DEF u
  <2>. QED  BY <1>1, <2>1, ModClose
<1>. QED  BY <1>2

\* In a tick a node that is filed right comes to the bucket that expires just if
\* it is due, and otherwise is filed right for the next tick.
LEMMA TickFiled ==
    ASSUME NEW e \in Ticks, NEW o \in Ticks, NEW j \in Ticks, NEW b, Filed(e, o, b, j)
    PROVE  LET t == (j + 1) % Wrap
               c == BucketAt(e, b, t) IN
           /\ c = <<1, Slot(1, t)>> <=> t = DueOf(e, o)
           /\ t # DueOf(e, o) => Filed(e, o, c, t)
<1>. DEFINE t == (j + 1) % Wrap
            c == BucketAt(e, b, t)
            r == (e - j) % Wrap
            s == (e - t) % Wrap
            Goal == /\ c = <<1, Slot(1, t)>> <=> t = DueOf(e, o)
                    /\ t # DueOf(e, o) => Filed(e, o, c, t)
<1>1. /\ Wrap \in Nat \ {0} /\ TVR \in Nat \ {0} /\ TVR >= 2 /\ 2 * TVR <= Wrap
      /\ e \in Int /\ j \in Int /\ o \in Int
  BY WrapFacts, Spans DEF Ticks
<1>2. t \in Ticks /\ t \in Int
  BY NextTick, WrapFacts DEF Ticks
<1>3. Slot(1, t) = t % TVR /\ t % TVR = (j + 1) % TVR
  <2>1. j + 1 \in Int
    BY <1>1
  <2>2. Slot(1, t) = Slot(1, j + 1)
    BY <2>1, SlotWrap
  <2>. QED  BY <1>2, <2>1, <2>2, LowSlots
<1>4. r \in 0 .. Wrap - 1 /\ (j + r) % Wrap = e
  BY Distance
<1>5. r > 0 => s = r - 1 /\ (t = e <=> r = 1)
  BY LeftAfterTick
<1>6. Diff(e, o) \in Int
  BY DiffCases
<1>7. (e + 1) % Wrap # e
  BY NextTick
<1>8. \A i : b[1] = 1 => ~ cascades(b, i)
  BY DEF cascades
\* j + r and j + 1 stand for e and t without the wrap.
<1>9. (j + r) % TVR = e % TVR /\ (j + 1) % TVR = t % TVR
  <2>. DEFINE x == j + r
  <2>1. x \in Int /\ x % Wrap = e
    BY <1>1, <1>4
  <2>. HIDE DEF x
  <2>2. (x % Wrap) % Span(1) = x % Span(1)
    BY <2>1, SlotWrap
  <2>3. e % TVR = x % TVR
    BY <2>1, <2>2, Spans
  <2>. QED  BY <1>3, <2>3 DEF x
<1>. HIDE DEF t, r, s
\* It was due when it was linked.
<1>10. ASSUME Diff(e, o) <= 0, o = j, b = <<1, (j + 1) % TVR>>
       PROVE  Goal
  <2>1. c = <<1, Slot(1, t)>>
    BY <1>3, <1>8, <1>10 DEF BucketAt
  <2>2. t = DueOf(e, o)
    BY <1>10 DEF DueOf, t
  <2>. QED  BY <2>1, <2>2
\* It is in the first level.
<1>11. ASSUME Diff(e, o) > 0, 0 < r, r < TVR,
              ~ (e % TVR = 0 /\ Diff(e, o) >= TVR), b = <<1, e % TVR>>
       PROVE  Goal
  <2>1. c = b /\ DueOf(e, o) = e
    BY <1>6, <1>8, <1>11 DEF BucketAt, DueOf
  <2>2. CASE r = 1
    <3>1. t = e
      BY <1>5, <2>2
    <3>. QED  BY <1>3, <1>11, <2>1, <3>1
  <2>3. CASE r > 1
    <3>1. t # e /\ s = r - 1
      BY <1>5, <2>3, <1>4
    <3>2. e % TVR # t % TVR
      <4>1. ASSUME e % TVR = t % TVR PROVE FALSE
        <5>. DEFINE x == j + r
                    y == j + 1
        <5>1. x \in Int /\ y \in Int /\ x % TVR = y % TVR /\ 0 <= x - y /\ x - y < TVR
              /\ x # y
          BY <1>1, <1>4, <1>9, <1>11, <2>3, <4>1
        <5>. HIDE DEF x, y
        <5>. QED  BY <1>1, <5>1, ModClose
      <4>. QED  BY <4>1
    <3>3. c # <<1, Slot(1, t)>>
      BY <1>3, <1>11, <2>1, <3>2
    <3>4. Filed(e, o, c, t)
      <4>1. 0 < s /\ s < TVR
        BY <1>1, <1>4, <1>11, <2>3, <3>1
      <4>2. 0 < (e - t) % Wrap /\ (e - t) % Wrap < TVR
        BY <4>1 DEF s
      <4>. QED  BY <1>11, <2>1, <4>2 DEF Filed
    <3>. QED  BY <2>1, <3>1, <3>3, <3>4
  <2>. QED  BY <1>4, <1>11, <2>2, <2>3
\* It has come down in the tick of its expiry.
<1>12. ASSUME Diff(e, o) >= TVR, e % TVR = 0, e = j, b = <<1, (j + 1) % TVR>>
       PROVE  Goal
  <2>1. c = <<1, Slot(1, t)>>
    BY <1>3, <1>8, <1>12 DEF BucketAt
  <2>2. t = DueOf(e, o)
    BY <1>1, <1>6, <1>12 DEF DueOf, t
  <2>. QED  BY <2>1, <2>2
\* It is in a higher level.
<1>13. ASSUME NEW l \in 2 .. 5, Diff(e, o) >= TVR, e % Span(l - 1) < r, r < Span(l),
              b = <<l, Slot(l, e)>>
       PROVE  Goal
  <2>. DEFINE S == Span(l - 1)
              x == j + r
              y == j + 1
  <2>1. /\ S \in Nat \ {0} /\ Span(l) \in Nat /\ S <= Span(5) /\ Span(5) \in Nat
        /\ 2 * Span(5) <= Wrap /\ S >= TVR
    BY Spans, WrapFacts
  <2>2. e % S \in Int /\ 0 <= e % S /\ e % S < S
    BY <1>1, <2>1, DivMod
  <2>3. r > 0 /\ s = r - 1 /\ s >= e % S /\ s < Span(l) /\ s \in Int
    BY <1>4, <1>5, <1>13, <2>1, <2>2
  <2>4. x \in Int /\ y \in Int /\ y <= x /\ x - y = s
    BY <1>1, <1>4, <2>3
  <2>5. DueOf(e, o) = IF e % TVR = 0 THEN (e + 1) % Wrap ELSE e
    BY <1>1, <1>6, <1>13 DEF DueOf
  <2>6. s > 0 => t # e /\ t # (e + 1) % Wrap
    <3>1. ASSUME s > 0, t = (e + 1) % Wrap PROVE FALSE
      <4>1. t = IF e + 1 = Wrap THEN 0 ELSE e + 1
        BY <3>1, NextTick
      <4>2. s = IF e < t THEN e - t + Wrap ELSE e - t
        BY <1>2, Distance DEF s
      <4>3. e \in 0 .. Wrap - 1
        BY DEF Ticks
      <4>4. s = Wrap - 1
        BY <1>1, <3>1, <4>1, <4>2, <4>3
      <4>. QED  BY <1>13, <2>1, <2>3, <4>4, <1>1, WrapFacts
    <3>. QED  BY <1>5, <2>3, <3>1
  <2>7. cascades(b, t) <=> s = e % S
    <3>1. Slot(l, e) = Slot(l, x) /\ e % S = x % S
      BY <1>4, <2>4, SlotWrap
    <3>2. cascades(b, t) <=> cascades(b, y)
      <4>1. \A k \in 1 .. 5 : Slot(k, t) = Slot(k, y)
        BY <2>4, SlotWrap DEF t
      <4>2. b[1] = l /\ b[2] = Slot(l, e)
        BY <1>13
      <4>. QED  BY <4>1, <4>2 DEF cascades
    <3>. HIDE DEF x, y
    <3>3. cascades(<<l, Slot(l, x)>>, y) <=> x - y = x % S
      BY <2>3, <2>4, CascadeAt
    <3>. QED  BY <1>13, <2>4, <3>1, <3>2, <3>3
  <2>i. s < S => Diff(e, t) = s
    <3>1. 2 * s < Wrap <=> ~ (2 * s >= Wrap)
      BY <1>1, <2>3
    <3>. QED  BY <1>1, <1>2, <2>1, <2>3, <3>1 DEF Diff, s
  <2>. HIDE DEF x, y
  \* Its bucket does not come down.
  <2>8. CASE s # e % S
    <3>1. c = b /\ s > e % S /\ s > 0
      BY <2>2, <2>3, <2>7, <2>8 DEF BucketAt
    <3>2. c # <<1, Slot(1, t)>>
      BY <1>13, <3>1
    <3>3. t # DueOf(e, o)
      BY <2>5, <2>6, <3>1
    <3>4. Filed(e, o, c, t)
      BY <1>13, <2>3, <3>1 DEF Filed, s
    <3>. QED  BY <3>2, <3>3, <3>4
  \* It comes down in the tick of its expiry.
  <2>9. CASE s = e % S /\ s = 0
    <3>1. e = t
      BY <1>4, <1>5, <2>3, <2>9
    <3>2. c = <<1, (t + 1) % TVR>>
      BY <1>2, <2>1, <2>7, <2>9, <2>i, AddTimer DEF BucketAt
    <3>3. e % TVR = 0
      <4>1. \A k \in 1 .. l - 1 : Slot(k, e) = 0
        BY <1>1, <2>9, LowSlots
      <4>2. Slot(1, e) = 0
        BY <4>1
      <4>. QED  BY <1>1, <4>2, LowSlots
    <3>4. c # <<1, Slot(1, t)>>
      BY <1>2, <1>3, <3>2, NextSlot
    <3>5. t # DueOf(e, o)
      BY <1>7, <2>5, <3>1, <3>3
    <3>6. Filed(e, o, c, t)
      BY <1>13, <3>1, <3>2, <3>3 DEF Filed
    <3>. QED  BY <3>4, <3>5, <3>6
  \* It comes down with some ticks left.
  <2>10. CASE s = e % S /\ s > 0
    <3>1. s < S /\ Diff(e, t) = s
      BY <2>2, <2>10, <2>i
    <3>2. t # DueOf(e, o)
      BY <2>5, <2>6, <2>10
    <3>3. PICK k \in 1 .. 5 : /\ internal_add_timer(e, t) = <<k, Slot(k, e)>>
                              /\ s < Span(k)
                              /\ k >= 2 => s >= Span(k - 1)
      BY <1>2, <2>1, <2>10, <3>1, AddTimer
    <3>4. c = <<k, Slot(k, e)>>
      BY <2>7, <2>10, <3>3 DEF BucketAt
    <3>5. CASE k = 1
      <4>1. c = <<1, e % TVR>> /\ s < TVR
        BY <1>1, <3>3, <3>4, <3>5, LowSlots, Spans
      <4>2. t % TVR = 0
        <5>1. \A i \in 1 .. l - 1 : Slot(i, t) = 0
          BY <1>13, <2>7, <2>10 DEF cascades
        <5>. QED  BY <1>3, <5>1
      <4>3. e % TVR # 0
        <5>1. ASSUME e % TVR = 0 PROVE FALSE
          <6>1. x % TVR = y % TVR /\ x # y /\ 0 <= x - y /\ x - y < TVR
            BY <1>9, <2>4, <2>10, <4>1, <4>2, <5>1 DEF x, y
          <6>. QED  BY <1>1, <2>4, <6>1, ModClose
        <5>. QED  BY <5>1
      <4>4. c # <<1, Slot(1, t)>>
        BY <1>3, <4>1, <4>2, <4>3
      <4>5. Filed(e, o, c, t)
        BY <1>1, <1>6, <1>13, <2>10, <4>1, <4>3 DEF Filed, s
      <4>. QED  BY <3>2, <4>4, <4>5
    <3>6. CASE k \in 2 .. 5
      <4>1. Span(k - 1) \in Nat \ {0} /\ s >= Span(k - 1)
        BY <3>3, <3>6, Spans
      <4>2. e % Span(k - 1) < Span(k - 1) /\ e % Span(k - 1) \in Int
        BY <1>1, <4>1, DivMod
      <4>3. e % Span(k - 1) < s
        BY <2>3, <4>1, <4>2
      <4>4. c # <<1, Slot(1, t)>>
        BY <3>4, <3>6
      <4>5. Filed(e, o, c, t)
        BY <1>13, <3>3, <3>4, <3>6, <4>3 DEF Filed, s
      <4>. QED  BY <3>2, <4>4, <4>5
    <3>. QED  BY <3>5, <3>6
  <2>11. s # e % S \/ (s = e % S /\ s = 0) \/ (s = e % S /\ s > 0)
    <3>. DEFINE m == e % S
    <3>0. m \in Int /\ 0 <= m /\ m <= s
      BY <2>2, <2>3
    <3>. HIDE DEF m
    <3>1. s \in Int
      BY <2>3
    <3>2. 0 <= s
      BY <3>0, <3>1
    <3>3. s = 0 \/ s > 0
      BY <3>1, <3>2
    <3>. QED  BY <3>3
  <2>. QED  BY <2>8, <2>9, <2>10, <2>11
<1>14. Goal
  <2>. HIDE DEF Goal
  <2>1. \/ Diff(e, o) <= 0 /\ o = j /\ b = <<1, (j + 1) % TVR>>
        \/ /\ Diff(e, o) > 0 /\ 0 < r /\ r < TVR
           /\ ~ (e % TVR = 0 /\ Diff(e, o) >= TVR) /\ b = <<1, e % TVR>>
        \/ Diff(e, o) >= TVR /\ e % TVR = 0 /\ e = j /\ b = <<1, (j + 1) % TVR>>
        \/ /\ Diff(e, o) >= TVR
           /\ \E l \in 2 .. 5 : /\ e % Span(l - 1) < r /\ r < Span(l)
                                /\ b = <<l, Slot(l, e)>>
    BY Zenon DEF Filed, r
  <2>. QED  BY <1>10, <1>11, <1>12, <1>13, <2>1
<1>. QED  BY <1>14 DEF t

-----------------------------------------------------------------------------
(* The invariant.                                                          *)

\* A node and its bucket at tick j: one that was deleted is in none and has no
\* period; a pending one is filed right for the expiry it was asked for, and a
\* periodic one was linked no further behind than MaxLag allows.
NodeOK(s, j) ==
    /\ s.stopped = "yes" => s.period = 0 /\ s.bucket = NoBucket
    /\ s.period < Span(5)
    /\ s.bucket = NoBucket => s.asked = 0
    /\ s.bucket # NoBucket =>
          /\ Filed(s.expires, s.since, s.bucket, j)
          /\ s.asked # 0 => s.expires = (s.since + ticks_up(s.asked)) % Wrap
          /\ s.period > 0 => Diff(s.expires, s.since) >= 1 - MaxLag

NodesOK == \A n \in Nodes : NodeOK(node[n], jiffies)

\* A worker that is not busy holds no node, and it runs one callback at a time.
WorkersOK ==
    \A w \in Workers :
       /\ worker[w].stage # "busy" => worker[w].batch = {} /\ worker[w].runs = {}
       /\ \A n \in worker[w].runs : worker[w].runs = {n}

Holds(w, n) == n \in worker[w].batch \/ n \in worker[w].runs

\* A periodic node is in one place: pending, in expired_list, or once with one
\* worker.  (A one-shot may be armed while its callback runs.)
OnePlace ==
    \A n \in Nodes :
       /\ Pending(n) => ~ Waits(n)
       /\ node[n].period > 0 =>
             /\ Pending(n) \/ n \in expired_list => \A w \in Workers : ~ Holds(w, n)
             /\ \A w \in Workers : ~ (n \in worker[w].batch /\ n \in worker[w].runs)
             /\ \A w, v \in Workers : Holds(w, n) /\ Holds(v, n) => w = v

\* A periodic node that has fired is at most MaxLag ticks behind.
LagOK ==
    \A n \in Nodes :
       node[n].period > 0 /\ ~ Pending(n) /\ (Waits(n) \/ Executing(n))
       => 0 <= Lag(n) /\ Lag(n) <= MaxLag

WheelInv == TypeOK /\ NodesOK /\ WorkersOK /\ OnePlace /\ LagOK /\ PeriodicAlive

-----------------------------------------------------------------------------
(* What the operations do to a node.                                       *)

\* A delay in ticks is the milliseconds asked for, or less than a tick longer.
LEMMA Rounded ==
    ASSUME NEW ms \in Delays
    PROVE  /\ ticks_up(ms) \in Nat /\ ticks_up(ms) < Span(5)
           /\ ms <= ticks_up(ms) * TickMs /\ ticks_up(ms) * TickMs < ms + TickMs
<1>1. ms \in Nat /\ TickMs \in Nat \ {0} /\ ticks_up(ms) < Span(5)
  BY WheelAssumption
<1>. DEFINE q == ms \div TickMs
            r == ms % TickMs
<1>2. q \in Int /\ r \in Int /\ ms = TickMs * q + r /\ 0 <= r /\ r < TickMs
  BY <1>1, DivMod
<1>3. ticks_up(ms) = IF r # 0 THEN q + 1 ELSE q
  BY <1>2 DEF ticks_up
<1>. HIDE DEF q, r
<1>4. q >= 0
  BY <1>1, <1>2
<1>5. ms <= (IF r # 0 THEN q + 1 ELSE q) * TickMs
  <2>1. CASE r = 0
    BY <1>1, <1>2, <2>1
  <2>2. CASE r # 0
    <3>1. (q + 1) * TickMs = TickMs * q + TickMs
      BY <1>1, <1>2
    <3>2. ms <= (q + 1) * TickMs
      BY <1>1, <1>2, <3>1
    <3>. QED  BY <2>2, <3>2
  <2>. QED  BY <2>1, <2>2
<1>6. (IF r # 0 THEN q + 1 ELSE q) * TickMs < ms + TickMs
  <2>1. CASE r = 0
    <3>1. q * TickMs = TickMs * q
      BY <1>1, <1>2
    <3>. QED  BY <1>1, <1>2, <2>1, <3>1
  <2>2. CASE r # 0
    <3>1. (q + 1) * TickMs = TickMs * q + TickMs
      BY <1>1, <1>2
    <3>2. (q + 1) * TickMs < ms + TickMs
      <4>. DEFINE k == TickMs * q
      <4>1. k \in Int /\ ms = k + r
        BY <1>1, <1>2
      <4>. HIDE DEF k
      <4>. QED  BY <1>1, <1>2, <2>2, <3>1, <4>1 DEF k
    <3>. QED  BY <2>2, <3>2
  <2>. QED  BY <2>1, <2>2
<1>. QED  BY <1>1, <1>2, <1>3, <1>4, <1>5, <1>6

\* A period is at least one tick.
LEMMA PeriodTicks ==
    ASSUME NEW ms \in Periods
    PROVE  period_ticks(ms) \in Nat \ {0} /\ period_ticks(ms) < Span(5)
<1>1. ms \in Nat /\ TickMs \in Nat \ {0} /\ period_ticks(ms) < Span(5)
  BY WheelAssumption
<1>2. ms \div TickMs \in Nat
  BY <1>1
<1>. QED  BY <1>1, <1>2 DEF period_ticks

\* internal_add_timer links a node into some bucket.
LEMMA AddType ==
    ASSUME NEW e \in Ticks, NEW t \in Ticks
    PROVE  internal_add_timer(e, t) \in Buckets /\ internal_add_timer(e, t) # NoBucket
<1>1. e \in Int /\ t \in Int /\ TVR \in Nat \ {0}
  BY WrapFacts DEF Ticks
<1>2. \A b : b \in Buckets => b # NoBucket
  BY DEF Buckets, NoBucket
<1>3. CASE Diff(e, t) <= 0
  <2>1. (t + 1) % TVR \in 0 .. TVR - 1
    BY <1>1
  <2>. QED  BY <1>2, <1>3, <2>1, AddTimer DEF Buckets
<1>4. CASE Diff(e, t) > 0
  <2>1. PICK l \in 1 .. 5 : internal_add_timer(e, t) = <<l, Slot(l, e)>>
    BY <1>4, AddTimer
  <2>2. Slot(l, e) \in 0 .. Size(l) - 1
    BY <1>1, SlotType
  <2>3. <<l, Slot(l, e)>> \in Buckets
    <3>1. CASE l = 1
      BY <2>2, <3>1 DEF Size, Buckets
    <3>2. CASE l \in 2 .. 5
      BY <2>2, <3>2 DEF Size, Buckets
    <3>. QED  BY <3>1, <3>2
  <2>. QED  BY <1>2, <2>1, <2>3
<1>. QED  BY <1>3, <1>4, DiffCases

\* A node that is linked at tick j for v ticks ahead.
Armed(j, v, p, a) ==
    [expires |-> (j + v) % Wrap, period |-> p,
     bucket |-> internal_add_timer((j + v) % Wrap, j),
     since |-> j, asked |-> a, stopped |-> "no"]

\* It is in order, if it is not too far behind, nor further ahead than the wheel
\* reaches.
LEMMA ArmedOK ==
    ASSUME NEW j \in Ticks, NEW v \in Int, 1 - MaxLag <= v, v < Span(5),
           NEW p \in 0 .. Span(5) - 1, NEW a \in {0} \cup Delays,
           a # 0 => v = ticks_up(a)
    PROVE  /\ Armed(j, v, p, a) \in NodeState
           /\ NodeOK(Armed(j, v, p, a), j)
           /\ Armed(j, v, p, a).bucket # NoBucket
           /\ Armed(j, v, p, a).period = p
<1>. DEFINE e == (j + v) % Wrap
            b == internal_add_timer(e, j)
            s == Armed(j, v, p, a)
<1>1. - Wrap < 2 * v
  BY WheelAssumption
<1>2. e \in Ticks /\ Diff(e, j) = v /\ Filed(e, j, b, j)
  BY <1>1, LinkFiled
<1>3. s = [expires |-> e, period |-> p, bucket |-> b, since |-> j, asked |-> a,
           stopped |-> "no"]
  BY DEF Armed
<1>4. a # 0 => e = (j + ticks_up(a)) % Wrap
  OBVIOUS
<1>. HIDE DEF e, s
<1>5. b \in Buckets /\ b # NoBucket
  BY <1>2, AddType
<1>. HIDE DEF b
<1>6. Span(5) \in Nat
  BY WrapFacts
<1>7. s \in NodeState
  BY <1>2, <1>3, <1>5, <1>6 DEF NodeState
<1>8. NodeOK(s, j)
  BY <1>2, <1>3, <1>4, <1>5, <1>6 DEF NodeOK
<1>. QED  BY <1>3, <1>5, <1>7, <1>8 DEF s

\* A node that fires in its due tick is no further behind than MaxLag, and no
\* sooner than it was linked for.
LEMMA DueFacts ==
    ASSUME NEW e \in Ticks, NEW o \in Ticks, NEW t \in Ticks, t = DueOf(e, o)
    PROVE  /\ Diff(e, o) >= 1 - MaxLag => 0 <= Diff(t, e) /\ Diff(t, e) <= MaxLag
           /\ Diff(e, o) > 0 => /\ (t - o) % Wrap >= Diff(e, o)
                               /\ (t - o) % Wrap <= Diff(e, o) + 1
<1>. DEFINE d == Diff(e, o)
            x == (e - o) % Wrap
            f == Diff(t, e)
            y == (t - e) % Wrap
            z == (t - o) % Wrap
<1>1. /\ Wrap \in Nat \ {0} /\ MaxLag \in Nat \ {0} /\ 2 * MaxLag < Wrap /\ Wrap >= 4
      /\ e \in 0 .. Wrap - 1 /\ o \in 0 .. Wrap - 1 /\ t \in 0 .. Wrap - 1
  <2>1. 2 * Span(1) <= Wrap /\ Span(1) = TVR
    BY WrapFacts, Spans
  <2>. QED  BY <2>1, WrapFacts, WheelAssumption DEF Ticks
<1>2. x = (IF e < o THEN e - o + Wrap ELSE e - o) /\ x \in 0 .. Wrap - 1
  BY Distance
<1>3. y = (IF t < e THEN t - e + Wrap ELSE t - e) /\ y \in 0 .. Wrap - 1
  BY Distance
<1>4. z = (IF t < o THEN t - o + Wrap ELSE t - o) /\ z \in 0 .. Wrap - 1
  BY Distance
<1>5. d = IF 2 * x >= Wrap THEN x - Wrap ELSE x
  BY DiffCases
<1>6. f = IF 2 * y >= Wrap THEN y - Wrap ELSE y
  BY DiffCases
<1>7. \/ d <= 0 /\ t = (o + 1) % Wrap
      \/ d > 0 /\ t = (e + 1) % Wrap
      \/ d > 0 /\ t = e
  BY <1>1, <1>2, <1>5 DEF DueOf
<1>8. /\ (o + 1) % Wrap = IF o + 1 = Wrap THEN 0 ELSE o + 1
      /\ (e + 1) % Wrap = IF e + 1 = Wrap THEN 0 ELSE e + 1
  BY NextTick
<1>. HIDE DEF d, x, f, y, z
<1>9. d >= 1 - MaxLag => 0 <= f /\ f <= MaxLag
  <2>1. CASE d <= 0 /\ t = (o + 1) % Wrap
    BY <1>1, <1>2, <1>3, <1>5, <1>6, <1>8, <2>1
  <2>2. CASE d > 0 /\ t = (e + 1) % Wrap
    BY <1>1, <1>3, <1>6, <1>8, <2>2
  <2>3. CASE d > 0 /\ t = e
    BY <1>1, <1>3, <1>6, <2>3
  <2>. QED  BY <1>7, <2>1, <2>2, <2>3
<1>10. d > 0 => z >= d /\ z <= d + 1
  <2>1. CASE d > 0 /\ t = (e + 1) % Wrap
    BY <1>1, <1>2, <1>4, <1>5, <1>8, <2>1
  <2>2. CASE d > 0 /\ t = e
    BY <1>1, <1>2, <1>4, <1>5, <2>2
  <2>. QED  BY <1>1, <1>2, <1>5, <1>7, <2>1, <2>2
<1>. QED  BY <1>9, <1>10 DEF d, f, z

\* A node that has fired.
LEMMA FiredNode ==
    ASSUME NEW s \in NodeState
    PROVE  /\ fired(s) \in NodeState /\ fired(s).period = s.period
           /\ fired(s).bucket = NoBucket /\ fired(s).asked = 0
           /\ fired(s).stopped = s.stopped
           /\ s.period > 0 => fired(s).expires = s.expires
<1>. DEFINE e == IF s.period = 0 THEN 0 ELSE s.expires
<1>1. 0 \in Ticks
  BY WrapFacts DEF Ticks
<1>2. e \in Ticks /\ (s.period > 0 => e = s.expires)
  BY <1>1 DEF NodeState
<1>3. fired(s) = [s EXCEPT !.bucket = NoBucket, !.since = 0, !.asked = 0, !.expires = e]
  BY DEF fired
<1>. HIDE DEF e
<1>. QED  BY <1>1, <1>2, <1>3 DEF NodeState

\* What a tick does to a node: it fires just if it is pending and due, and is
\* otherwise left in order for the tick.
LEMMA TickNode ==
    ASSUME NEW j \in Ticks, NEW s \in NodeState, NodeOK(s, j)
    PROVE  LET t == (j + 1) % Wrap
               d == came_down(s, t)
               out == d.bucket = <<1, Slot(1, t)>> IN
           /\ t \in Ticks
           /\ d \in NodeState /\ d.period = s.period
           /\ d.bucket = NoBucket <=> s.bucket = NoBucket
           /\ out <=> s.bucket # NoBucket /\ t = DueOf(s.expires, s.since)
           /\ ~ out => NodeOK(d, t) /\ d.expires = s.expires
           /\ fired(d) \in NodeState /\ fired(d).period = s.period
           /\ fired(d).bucket = NoBucket /\ NodeOK(fired(d), t)
           /\ out /\ s.period > 0 =>
                 0 <= Diff(t, fired(d).expires) /\ Diff(t, fired(d).expires) <= MaxLag
<1>. DEFINE t == (j + 1) % Wrap
            d == came_down(s, t)
            c == BucketAt(s.expires, s.bucket, t)
            out == d.bucket = <<1, Slot(1, t)>>
<1>1. /\ t \in Ticks /\ s.expires \in Ticks /\ s.since \in Ticks /\ Span(5) \in Nat
      /\ s.period \in 0 .. Span(5)
  BY NextTick, WrapFacts DEF NodeState
<1>2. s.bucket = NoBucket => c = NoBucket
  BY DEF BucketAt, cascades, NoBucket
<1>3. s.bucket # NoBucket =>
         /\ c = <<1, Slot(1, t)>> <=> t = DueOf(s.expires, s.since)
         /\ t # DueOf(s.expires, s.since) => Filed(s.expires, s.since, c, t)
  BY <1>1, TickFiled DEF NodeOK
<1>. HIDE DEF t
<1>4. c \in Buckets \cup {NoBucket} /\ (s.bucket # NoBucket => c # NoBucket)
  BY <1>1, AddType DEF BucketAt, NodeState
<1>5. d = [s EXCEPT !.bucket = c]
  BY DEF came_down, BucketAt, NodeState
<1>. HIDE DEF c, d
<1>6. /\ d \in NodeState /\ d.bucket = c /\ d.period = s.period /\ d.expires = s.expires
      /\ d.since = s.since /\ d.asked = s.asked /\ d.stopped = s.stopped
  BY <1>4, <1>5 DEF NodeState
<1>7. <<1, Slot(1, t)>> # NoBucket
  BY DEF NoBucket
<1>8. d.bucket = NoBucket <=> s.bucket = NoBucket
  BY <1>2, <1>4, <1>6
<1>9. out <=> s.bucket # NoBucket /\ t = DueOf(s.expires, s.since)
  BY <1>2, <1>3, <1>6, <1>7
<1>10. ~ out => NodeOK(d, t)
  BY <1>2, <1>3, <1>6, <1>8, <1>9 DEF NodeOK
<1>11. /\ fired(d) \in NodeState /\ fired(d).period = s.period /\ fired(d).bucket = NoBucket
       /\ fired(d).asked = 0 /\ fired(d).stopped = s.stopped
       /\ s.period > 0 => fired(d).expires = s.expires
  BY <1>1, <1>6, FiredNode
<1>12. NodeOK(fired(d), t)
  BY <1>11 DEF NodeOK
<1>13. ASSUME out, s.period > 0
       PROVE  0 <= Diff(t, fired(d).expires) /\ Diff(t, fired(d).expires) <= MaxLag
  <2>1. Diff(s.expires, s.since) >= 1 - MaxLag
    BY <1>9, <1>13 DEF NodeOK
  <2>2. fired(d).expires = s.expires
    BY <1>11, <1>13
  <2>. QED  BY <1>1, <1>9, <1>13, <2>1, <2>2, DueFacts
<1>14. /\ t \in Ticks
       /\ d \in NodeState /\ d.period = s.period
       /\ d.bucket = NoBucket <=> s.bucket = NoBucket
       /\ out <=> s.bucket # NoBucket /\ t = DueOf(s.expires, s.since)
       /\ ~ out => NodeOK(d, t) /\ d.expires = s.expires
       /\ fired(d) \in NodeState /\ fired(d).period = s.period
       /\ fired(d).bucket = NoBucket /\ NodeOK(fired(d), t)
       /\ out /\ s.period > 0 =>
             0 <= Diff(t, fired(d).expires) /\ Diff(t, fired(d).expires) <= MaxLag
  <2>. HIDE DEF out
  <2>. QED  BY <1>1, <1>6, <1>8, <1>9, <1>10, <1>11, <1>12, <1>13
<1>. QED  BY <1>14 DEF t, d

\* A periodic node that is at most MaxLag behind is linked again.
LEMMA ReaddOK ==
    ASSUME NEW j \in Ticks, NEW s \in NodeState, NodeOK(s, j), s.period > 0,
           s.bucket = NoBucket, 0 <= Diff(j, s.expires), Diff(j, s.expires) <= MaxLag
    PROVE  LET r == [s EXCEPT !.expires = (s.expires + s.period) % Wrap,
                              !.bucket = internal_add_timer((s.expires + s.period) % Wrap, j),
                              !.since = j] IN
           r \in NodeState /\ NodeOK(r, j) /\ r.bucket # NoBucket /\ r.period = s.period
<1>. DEFINE x == s.expires
            p == s.period
            lag == Diff(j, x)
            y == (j - x) % Wrap
            v == p - lag
            r == [s EXCEPT !.expires = (s.expires + s.period) % Wrap,
                           !.bucket = internal_add_timer((s.expires + s.period) % Wrap, j),
                           !.since = j]
<1>1. /\ Wrap \in Nat \ {0} /\ x \in Ticks /\ x \in 0 .. Wrap - 1 /\ j \in 0 .. Wrap - 1
      /\ p \in Nat \ {0} /\ p < Span(5) /\ Span(5) \in Nat /\ 2 * Span(5) <= Wrap
      /\ MaxLag \in Nat
  BY WrapFacts, WheelAssumption DEF NodeState, NodeOK, Ticks
<1>2. y = IF j < x THEN j - x + Wrap ELSE j - x
  BY <1>1, Distance
<1>3. lag = y /\ lag \in Int
  BY <1>1, DiffCases
<1>4. s.asked = 0 /\ s.stopped = "no"
  BY <1>1 DEF NodeOK, NodeState
<1>. HIDE DEF lag, y
<1>5. v \in Int /\ 1 - MaxLag <= v /\ v < Span(5)
  BY <1>1, <1>3 DEF lag
<1>6. (x + p) % Wrap = (j + v) % Wrap
  <2>. DEFINE a == x + p
              b == j + v
  <2>1. a \in Int /\ - Wrap <= a /\ a < 2 * Wrap
    BY <1>1
  <2>2. b \in Int /\ - Wrap <= b /\ b < 2 * Wrap /\ (b = a \/ b = a - Wrap)
    BY <1>1, <1>2, <1>3
  <2>. HIDE DEF a, b
  <2>3. a % Wrap = IF a < 0 THEN a + Wrap ELSE IF a < Wrap THEN a ELSE a - Wrap
    BY <2>1, Unwrap
  <2>4. b % Wrap = IF b < 0 THEN b + Wrap ELSE IF b < Wrap THEN b ELSE b - Wrap
    BY <2>2, Unwrap
  <2>5. a % Wrap = b % Wrap
    BY <1>1, <2>1, <2>2, <2>3, <2>4
  <2>. QED  BY <2>5 DEF a, b
<1>7. r = Armed(j, v, p, 0)
  <2>. DEFINE e == (s.expires + s.period) % Wrap
              b == internal_add_timer(e, j)
  <2>0. r = [s EXCEPT !.expires = e, !.bucket = b, !.since = j]
    OBVIOUS
  <2>. HIDE DEF e, b, r
  <2>1. r = [expires |-> e, period |-> s.period, bucket |-> b, since |-> j,
             asked |-> s.asked, stopped |-> s.stopped]
    BY <2>0 DEF NodeState
  <2>. QED  BY <1>4, <1>6, <2>1 DEF Armed, e, b
<1>8. p \in 0 .. Span(5) - 1
  BY <1>1
<1>. HIDE DEF r, v, p
<1>9. r \in NodeState /\ NodeOK(r, j) /\ r.bucket # NoBucket /\ r.period = p
  BY <1>5, <1>7, <1>8, ArmedOK
<1>. QED  BY <1>9 DEF r, p

-----------------------------------------------------------------------------
(* Every step keeps the invariant.                                         *)

Worker == [stage : Stages, batch : SUBSET Nodes, runs : SUBSET Nodes]

\* timer_wheel_create leaves the invariant true.
LEMMA InitInv == timer_wheel_create => WheelInv
<1>. SUFFICES ASSUME timer_wheel_create PROVE WheelInv
  OBVIOUS
<1>1. timer_node_init \in NodeState /\ NodeOK(timer_node_init, jiffies)
  BY WrapFacts DEF timer_node_init, NodeState, NodeOK, Ticks, NoBucket
<1>2. \A n \in Nodes : node[n] = timer_node_init /\ node[n].period = 0 /\ ~ Pending(n)
  BY DEF timer_wheel_create, timer_node_init, Pending
<1>3. TypeOK
  <2>1. Ready \in Worker
    BY DEF Ready, Worker, Stages
  <2>2. 0 \in Ticks
    BY WrapFacts DEF Ticks
  <2>. QED  BY <1>1, <2>1, <2>2 DEF timer_wheel_create, TypeOK, Worker
<1>4. WorkersOK
  BY DEF timer_wheel_create, WorkersOK, Ready
<1>5. NodesOK
  BY <1>1, <1>2 DEF NodesOK
<1>6. OnePlace /\ LagOK /\ PeriodicAlive
  BY <1>2 DEF OnePlace, LagOK, PeriodicAlive
<1>. QED  BY <1>3, <1>4, <1>5, <1>6 DEF WheelInv

\* An operation of the client on node n: a node that it links does not wait, and
\* one that it leaves periodic is linked and does not run.
LEMMA ClientStep ==
    ASSUME WheelInv, NEW n \in Nodes, NEW s \in NodeState, NodeOK(s, jiffies),
           Set(n, s), OnlyNode,
           s.bucket # NoBucket => ~ Waits(n),
           s.period > 0 => s.bucket # NoBucket /\ ~ Executing(n)
    PROVE  WheelInv'
<1>1. /\ node \in [Nodes -> NodeState] /\ node' = [node EXCEPT ![n] = s]
      /\ jiffies' = jiffies /\ running' = running /\ expired_list' = expired_list
      /\ worker' = worker /\ tick_thread' = tick_thread /\ destroy' = destroy
  BY DEF WheelInv, TypeOK, Set, OnlyNode
<1>2. node'[n] = s /\ \A m \in Nodes : m # n => node'[m] = node[m]
  BY <1>1
<1>3. \A m \in Nodes : /\ Waits(m)' <=> Waits(m)
                       /\ Executing(m)' <=> Executing(m)
                       /\ m # n => (Pending(m)' <=> Pending(m)) /\ Lag(m)' = Lag(m)
  BY <1>1, <1>2 DEF Waits, Executing, Pending, Lag
<1>4. Pending(n)' <=> s.bucket # NoBucket
  BY <1>2 DEF Pending
<1>5. TypeOK'
  BY <1>1 DEF WheelInv, TypeOK
<1>6. NodesOK'
  BY <1>1, <1>2 DEF WheelInv, NodesOK
<1>7. WorkersOK'
  BY <1>1 DEF WheelInv, WorkersOK
<1>8. OnePlace'
  <2>1. \A w \in Workers, m \in Nodes : Holds(w, m)' <=> Holds(w, m)
    BY <1>1 DEF Holds
  <2>2. s.period > 0 => \A w \in Workers : ~ Holds(w, n)
    BY DEF Waits, Executing, Holds
  <2>3. ASSUME NEW m \in Nodes
        PROVE /\ Pending(m)' => ~ Waits(m)'
              /\ node'[m].period > 0 =>
                    /\ Pending(m)' \/ m \in expired_list' => \A w \in Workers : ~ Holds(w, m)'
                    /\ \A w \in Workers : ~ (m \in worker'[w].batch /\ m \in worker'[w].runs)
                    /\ \A w, v \in Workers : Holds(w, m)' /\ Holds(v, m)' => w = v
    <3>1. CASE m = n
      <4>1. Pending(m)' => ~ Waits(m)'
        BY <1>3, <1>4, <3>1
      <4>2. node'[m].period > 0 => \A w \in Workers : ~ Holds(w, m)'
        BY <1>2, <2>1, <2>2, <3>1
      <4>3. node'[m].period > 0 =>
               \A w \in Workers : ~ (m \in worker'[w].batch /\ m \in worker'[w].runs)
        BY <4>2 DEF Holds
      <4>. QED  BY <4>1, <4>2, <4>3
    <3>2. CASE m # n
      BY <1>1, <1>2, <1>3, <2>1, <3>2 DEF WheelInv, OnePlace
    <3>. QED  BY <3>1, <3>2
  <2>. QED  BY <2>3 DEF OnePlace
<1>9. LagOK'
  BY <1>2, <1>3, <1>4 DEF WheelInv, LagOK
<1>10. PeriodicAlive'
  BY <1>1, <1>2, <1>3, <1>4 DEF WheelInv, PeriodicAlive
<1>. QED  BY <1>5, <1>6, <1>7, <1>8, <1>9, <1>10 DEF WheelInv

\* A step that leaves the nodes where they are.
LEMMA QuietStep ==
    ASSUME WheelInv, TypeOK', UNCHANGED <<jiffies, node, expired_list>>, running' => running,
           \A w \in Workers : /\ worker'[w].batch = worker[w].batch
                              /\ worker'[w].runs = worker[w].runs
                              /\ worker'[w].stage # "busy" => worker[w].stage # "busy"
    PROVE  WheelInv'
<1>1. \A n \in Nodes : /\ Waits(n)' <=> Waits(n)
                       /\ Executing(n)' <=> Executing(n)
                       /\ Pending(n)' <=> Pending(n)
                       /\ Lag(n)' = Lag(n)
                       /\ \A w \in Workers : Holds(w, n)' <=> Holds(w, n)
  BY DEF Waits, Executing, Pending, Lag, Holds
<1>2. NodesOK'
  BY DEF WheelInv, NodesOK
<1>3. WorkersOK'
  BY DEF WheelInv, WorkersOK
<1>4. OnePlace'
  BY <1>1 DEF WheelInv, OnePlace
<1>5. LagOK'
  BY <1>1 DEF WheelInv, LagOK
<1>6. PeriodicAlive'
  BY <1>1 DEF WheelInv, PeriodicAlive
<1>. QED  BY <1>2, <1>3, <1>4, <1>5, <1>6 DEF WheelInv

\* The broadcast wakes workers that hold nothing.
LEMMA BroadcastQuiet ==
    ASSUME WheelInv, broadcast \/ UNCHANGED worker
    PROVE  /\ worker' \in [Workers -> Worker]
           /\ \A w \in Workers : /\ worker'[w].batch = worker[w].batch
                                 /\ worker'[w].runs = worker[w].runs
                                 /\ worker'[w].stage # "busy" => worker[w].stage # "busy"
<1>1. worker \in [Workers -> Worker]
  BY DEF WheelInv, TypeOK, Worker
<1>2. CASE UNCHANGED worker
  BY <1>1, <1>2
<1>3. CASE broadcast
  <2>1. Ready \in Worker /\ Ready.batch = {} /\ Ready.runs = {} /\ Ready.stage = "ready"
    BY DEF Ready, Worker, Stages
  <2>2. worker' \in [Workers -> Worker]
    BY <1>1, <1>3, <2>1 DEF broadcast
  <2>3. ASSUME NEW w \in Workers
        PROVE  /\ worker'[w].batch = worker[w].batch
               /\ worker'[w].runs = worker[w].runs
               /\ worker'[w].stage # "busy" => worker[w].stage # "busy"
    <3>1. worker'[w] = IF worker[w].stage = "waiting" THEN Ready ELSE worker[w]
      BY <1>3 DEF broadcast
    <3>2. worker[w].stage = "waiting" => worker[w].batch = {} /\ worker[w].runs = {}
      BY DEF WheelInv, WorkersOK
    <3>. QED  BY <2>1, <3>1, <3>2
  <2>. QED  BY <2>2, <2>3
<1>. QED  BY <1>2, <1>3

\* A worker takes the whole list.
LEMMA TakesStep ==
    ASSUME WheelInv, NEW w \in Workers, worker_takes(w)
    PROVE  WheelInv'
<1>. DEFINE x == [stage |-> "busy", batch |-> expired_list, runs |-> {}]
<1>1. /\ worker \in [Workers -> Worker] /\ expired_list \subseteq Nodes
      /\ worker[w].stage = "ready" /\ worker' = [worker EXCEPT ![w] = x]
      /\ expired_list' = {}
      /\ jiffies' = jiffies /\ running' = running /\ node' = node
      /\ tick_thread' = tick_thread /\ destroy' = destroy
  BY DEF WheelInv, TypeOK, Worker, worker_takes, OnlyWorkers
<1>2. x \in Worker /\ x.batch = expired_list /\ x.runs = {} /\ x.stage = "busy"
  BY <1>1 DEF Worker, Stages
<1>. HIDE DEF x
<1>3. worker'[w] = x /\ \A v \in Workers : v # w => worker'[v] = worker[v]
  BY <1>1
<1>4. worker[w].batch = {} /\ worker[w].runs = {}
  BY <1>1 DEF WheelInv, WorkersOK
<1>5. \A n \in Nodes : /\ Waits(n)' <=> Waits(n)
                       /\ Executing(n)' <=> Executing(n)
                       /\ Pending(n)' <=> Pending(n)
                       /\ Lag(n)' = Lag(n)
  BY <1>1, <1>2, <1>3, <1>4 DEF Waits, Executing, Pending, Lag
<1>6. TypeOK'
  BY <1>1, <1>2 DEF WheelInv, TypeOK, Worker
<1>7. NodesOK' /\ LagOK' /\ PeriodicAlive'
  BY <1>1, <1>5 DEF WheelInv, NodesOK, LagOK, PeriodicAlive
<1>8. WorkersOK'
  BY <1>2, <1>3 DEF WheelInv, WorkersOK
<1>9. OnePlace'
  <2>1. \A n \in Nodes, v \in Workers :
           Holds(v, n)' <=> (v = w /\ n \in expired_list) \/ (v # w /\ Holds(v, n))
    BY <1>2, <1>3 DEF Holds
  <2>2. ASSUME NEW n \in Nodes
        PROVE /\ Pending(n)' => ~ Waits(n)'
              /\ node'[n].period > 0 =>
                    /\ Pending(n)' \/ n \in expired_list' => \A v \in Workers : ~ Holds(v, n)'
                    /\ \A v \in Workers : ~ (n \in worker'[v].batch /\ n \in worker'[v].runs)
                    /\ \A u, v \in Workers : Holds(u, n)' /\ Holds(v, n)' => u = v
    <3>1. Pending(n) => ~ Waits(n) /\ n \notin expired_list
      BY DEF WheelInv, OnePlace, Waits
    <3>2. node[n].period > 0 =>
             /\ Pending(n) \/ n \in expired_list => \A v \in Workers : ~ Holds(v, n)
             /\ \A v \in Workers : ~ (n \in worker[v].batch /\ n \in worker[v].runs)
             /\ \A u, v \in Workers : Holds(u, n) /\ Holds(v, n) => u = v
      BY DEF WheelInv, OnePlace
    <3>3. Pending(n)' => ~ Waits(n)'
      BY <1>5, <3>1
    <3>4. node[n].period > 0 => \A u, v \in Workers : Holds(u, n)' /\ Holds(v, n)' => u = v
      BY <2>1, <3>2
    <3>5. node[n].period > 0 /\ Pending(n)' => \A v \in Workers : ~ Holds(v, n)'
      BY <1>5, <2>1, <3>1, <3>2
    <3>6. node[n].period > 0 =>
             \A v \in Workers : ~ (n \in worker'[v].batch /\ n \in worker'[v].runs)
      BY <1>2, <1>3, <3>2
    <3>. QED  BY <1>1, <3>3, <3>4, <3>5, <3>6
  <2>. QED  BY <2>2 DEF OnePlace
<1>. QED  BY <1>6, <1>7, <1>8, <1>9 DEF WheelInv

\* A worker begins to run a callback.
LEMMA CallsStep ==
    ASSUME WheelInv, NEW w \in Workers, NEW m \in Nodes, worker_calls(w, m)
    PROVE  WheelInv'
<1>1. /\ worker \in [Workers -> Worker] /\ worker[w] \in Worker
      /\ worker[w].stage = "busy" /\ worker[w].runs = {} /\ m \in worker[w].batch
      /\ worker' = [worker EXCEPT ![w].batch = @ \ {m}, ![w].runs = {m}]
      /\ expired_list' = expired_list
      /\ jiffies' = jiffies /\ running' = running /\ node' = node
      /\ tick_thread' = tick_thread /\ destroy' = destroy
  BY DEF WheelInv, TypeOK, Worker, worker_calls, OnlyWorkers
<1>2. /\ worker'[w].batch = worker[w].batch \ {m} /\ worker'[w].runs = {m}
      /\ worker'[w].stage = "busy"
      /\ worker' \in [Workers -> Worker]
      /\ \A v \in Workers : v # w => worker'[v] = worker[v]
  BY <1>1 DEF Worker
<1>3. \A n \in Nodes, v \in Workers : Holds(v, n)' <=> Holds(v, n)
  BY <1>1, <1>2 DEF Holds
<1>4. \A n \in Nodes : /\ Waits(n)' => Waits(n)
                       /\ Waits(n)' \/ Executing(n)' <=> Waits(n) \/ Executing(n)
                       /\ Pending(n)' <=> Pending(n)
                       /\ Lag(n)' = Lag(n)
  <2>1. \A n \in Nodes : Waits(n)' => Waits(n)
    BY <1>1, <1>2 DEF Waits
  <2>2. \A n \in Nodes :
           /\ Waits(n) \/ Executing(n) <=> n \in expired_list \/ \E v \in Workers : Holds(v, n)
           /\ Waits(n)' \/ Executing(n)' <=>
                 n \in expired_list' \/ \E v \in Workers : Holds(v, n)'
    BY DEF Waits, Executing, Holds
  <2>. QED  BY <1>1, <1>3, <2>1, <2>2 DEF Pending, Lag
<1>5. TypeOK'
  BY <1>1, <1>2 DEF WheelInv, TypeOK, Worker
<1>6. NodesOK' /\ LagOK' /\ PeriodicAlive'
  BY <1>1, <1>4 DEF WheelInv, NodesOK, LagOK, PeriodicAlive
<1>7. WorkersOK'
  BY <1>2 DEF WheelInv, WorkersOK
<1>8. OnePlace'
  <2>1. \A n \in Nodes, v \in Workers :
           ~ (n \in worker[v].batch /\ n \in worker[v].runs)
           => ~ (n \in worker'[v].batch /\ n \in worker'[v].runs)
    BY <1>1, <1>2
  <2>. QED  BY <1>1, <1>3, <1>4, <2>1 DEF WheelInv, OnePlace
<1>. QED  BY <1>5, <1>6, <1>7, <1>8 DEF WheelInv

\* A worker comes back from a callback, and links the node again if it is
\* periodic.
LEMMA ReturnsStep ==
    ASSUME WheelInv, NEW w \in Workers, NEW m \in Nodes, worker_returns(w, m)
    PROVE  WheelInv'
<1>. DEFINE r == readd(node[m])
<1>1. /\ worker \in [Workers -> Worker] /\ worker[w] \in Worker
      /\ node \in [Nodes -> NodeState] /\ node[m] \in NodeState /\ jiffies \in Ticks
      /\ m \in worker[w].runs
      /\ worker' = [worker EXCEPT ![w] = IF worker[w].batch = {} THEN Ready
                                         ELSE [@ EXCEPT !.runs = {}]]
      /\ node' = [node EXCEPT ![m] = r]
      /\ expired_list' = expired_list
      /\ jiffies' = jiffies /\ running' = running
      /\ tick_thread' = tick_thread /\ destroy' = destroy
  BY DEF WheelInv, TypeOK, Worker, worker_returns, Set
<1>2. /\ worker'[w].batch = worker[w].batch /\ worker'[w].runs = {}
      /\ worker'[w].stage # "busy" => worker[w].batch = {}
      /\ worker' \in [Workers -> Worker]
      /\ \A v \in Workers : v # w => worker'[v] = worker[v]
  <2>1. Ready \in Worker /\ Ready.batch = {} /\ Ready.runs = {} /\ Ready.stage = "ready"
    BY DEF Ready, Worker, Stages
  <2>2. worker[w].stage = "busy"
    BY <1>1 DEF WheelInv, WorkersOK
  <2>. DEFINE y == [worker[w] EXCEPT !.runs = {}]
  <2>3. y \in Worker /\ y.batch = worker[w].batch /\ y.runs = {} /\ y.stage = "busy"
    <3>. DEFINE x == worker[w]
    <3>1. x \in Worker /\ x.stage = "busy"
      BY <1>1, <2>2
    <3>. HIDE DEF x
    <3>2. [x EXCEPT !.runs = {}] \in Worker
      BY <3>1 DEF Worker
    <3>. QED  BY <3>1, <3>2 DEF Worker, x
  <2>4. worker' = [worker EXCEPT ![w] = IF worker[w].batch = {} THEN Ready ELSE y]
    BY <1>1
  <2>. HIDE DEF y
  <2>. QED  BY <1>1, <2>1, <2>3, <2>4
<1>3. worker[w].runs = {m}
  BY <1>1 DEF WheelInv, WorkersOK
<1>4. node[m].period > 0 => /\ node[m].bucket = NoBucket /\ m \notin expired_list
                            /\ \A v \in Workers : Holds(v, m) <=> v = w
                            /\ m \notin worker[w].batch
                            /\ 0 <= Lag(m) /\ Lag(m) <= MaxLag
  BY <1>1 DEF WheelInv, OnePlace, LagOK, Holds, Executing, Pending
<1>. DEFINE again == running /\ node[m].period > 0
<1>5. CASE again
  <2>1. r = Linked(node[m], (node[m].expires + node[m].period) % Wrap)
    BY <1>4, <1>5 DEF readd
  <2>2. r \in NodeState /\ NodeOK(r, jiffies) /\ r.bucket # NoBucket /\ r.period > 0
    <3>1. 0 <= Diff(jiffies, node[m].expires) /\ Diff(jiffies, node[m].expires) <= MaxLag
      BY <1>4, <1>5 DEF Lag
    <3>2. NodeOK(node[m], jiffies)
      BY DEF WheelInv, NodesOK
    <3>3. r = [node[m] EXCEPT
                 !.expires = (node[m].expires + node[m].period) % Wrap,
                 !.bucket = internal_add_timer((node[m].expires + node[m].period) % Wrap,
                                               jiffies),
                 !.since = jiffies]
      BY <2>1 DEF Linked
    <3>. HIDE DEF r
    <3>4. node[m].period > 0 /\ node[m].bucket = NoBucket
      BY <1>4, <1>5
    <3>. QED  BY <1>1, <3>1, <3>2, <3>3, <3>4, ReaddOK
  <2>. HIDE DEF r
  <2>3. node'[m] = r /\ \A n \in Nodes : n # m => node'[n] = node[n]
    BY <1>1
  <2>4. \A n \in Nodes, v \in Workers : Holds(v, n)' <=> Holds(v, n) /\ n # m
    <3>1. \A n \in Nodes, v \in Workers : n # m => (Holds(v, n)' <=> Holds(v, n))
      BY <1>2, <1>3 DEF Holds
    <3>2. \A v \in Workers : ~ Holds(v, m)'
      BY <1>2, <1>4, <1>5 DEF Holds
    <3>. QED  BY <3>1, <3>2
  <2>5. \A n \in Nodes :
           n # m => /\ Waits(n)' <=> Waits(n)
                    /\ Executing(n)' <=> Executing(n)
                    /\ Pending(n)' <=> Pending(n)
                    /\ Lag(n)' = Lag(n)
    BY <1>1, <1>2, <1>3, <2>3 DEF Waits, Executing, Pending, Lag
  <2>6. Pending(m)' /\ ~ Waits(m)'
    BY <1>1, <1>4, <1>5, <2>2, <2>3, <2>4 DEF Pending, Waits, Holds
  <2>7. TypeOK'
    BY <1>1, <1>2, <2>2 DEF WheelInv, TypeOK, Worker
  <2>8. NodesOK'
    BY <1>1, <2>2, <2>3 DEF WheelInv, NodesOK
  <2>9. WorkersOK'
    BY <1>2 DEF WheelInv, WorkersOK
  <2>10. OnePlace'
    <3>1. \A n \in Nodes, v \in Workers :
             ~ (n \in worker[v].batch /\ n \in worker[v].runs)
             => ~ (n \in worker'[v].batch /\ n \in worker'[v].runs)
      BY <1>2
    <3>2. \A v \in Workers : ~ (m \in worker'[v].batch /\ m \in worker'[v].runs)
      BY <2>4 DEF Holds
    <3>. QED  BY <1>1, <2>3, <2>4, <2>5, <2>6, <3>1, <3>2 DEF WheelInv, OnePlace
  <2>11. LagOK'
    BY <2>3, <2>5, <2>6 DEF WheelInv, LagOK
  <2>12. PeriodicAlive'
    BY <1>1, <2>3, <2>5, <2>6 DEF WheelInv, PeriodicAlive
  <2>. QED  BY <2>7, <2>8, <2>9, <2>10, <2>11, <2>12 DEF WheelInv
<1>6. CASE ~ again
  <2>1. r = node[m] /\ node' = node
    <3>1. r = node[m]
      BY <1>6 DEF readd
    <3>. QED  BY <1>1, <3>1
  <2>2. \A n \in Nodes, v \in Workers : Holds(v, n)' => Holds(v, n)
    BY <1>2 DEF Holds
  <2>3. \A n \in Nodes : /\ Waits(n)' => Waits(n)
                         /\ Executing(n)' => Executing(n)
                         /\ n # m => (Waits(n) => Waits(n)') /\ (Executing(n) => Executing(n)')
                         /\ Pending(n)' <=> Pending(n)
                         /\ Lag(n)' = Lag(n)
    BY <1>1, <1>2, <1>3, <2>1 DEF Waits, Executing, Pending, Lag
  <2>4. TypeOK'
    BY <1>1, <1>2, <2>1 DEF WheelInv, TypeOK, Worker
  <2>5. NodesOK'
    BY <1>1, <2>1 DEF WheelInv, NodesOK
  <2>6. WorkersOK'
    BY <1>2 DEF WheelInv, WorkersOK
  <2>7. OnePlace'
    <3>1. \A n \in Nodes, v \in Workers :
             ~ (n \in worker[v].batch /\ n \in worker[v].runs)
             => ~ (n \in worker'[v].batch /\ n \in worker'[v].runs)
      BY <1>2
    <3>. QED  BY <1>1, <2>1, <2>2, <2>3, <3>1 DEF WheelInv, OnePlace
  <2>8. LagOK'
    BY <2>1, <2>3 DEF WheelInv, LagOK
  <2>9. PeriodicAlive'
    BY <1>1, <1>6, <2>1, <2>3 DEF WheelInv, PeriodicAlive
  <2>. QED  BY <2>4, <2>5, <2>6, <2>7, <2>8, <2>9 DEF WheelInv
<1>. QED  BY <1>5, <1>6

\* What a tick does to the nodes.
LEMMA TickNodes ==
    ASSUME WheelInv, tick
    PROVE  /\ jiffies' = (jiffies + 1) % Wrap /\ jiffies' \in Ticks
           /\ node' \in [Nodes -> NodeState]
           /\ expired_list' \subseteq Nodes
           /\ \A n \in Nodes :
                 /\ node'[n].period = node[n].period
                 /\ NodeOK(node'[n], jiffies')
                 /\ n \in expired_list' <=>
                       n \in expired_list \/ (Pending(n) /\ jiffies' = DueTick(n))
                 /\ Pending(n) /\ jiffies' = DueTick(n) =>
                       /\ ~ Pending(n)'
                       /\ node[n].period > 0 => 0 <= Lag(n)' /\ Lag(n)' <= MaxLag
                 /\ ~ (Pending(n) /\ jiffies' = DueTick(n)) =>
                       /\ Pending(n)' <=> Pending(n)
                       /\ node'[n].expires = node[n].expires
<1>. DEFINE now == (jiffies + 1) % Wrap
            down == [n \in Nodes |-> came_down(node[n], now)]
            out  == {n \in Nodes : down[n].bucket = <<1, Slot(1, now)>>}
<1>1. /\ jiffies' = now /\ expired_list' = expired_list \cup out
      /\ node' = [n \in Nodes |-> IF n \in out THEN fired(down[n]) ELSE down[n]]
  BY DEF tick
<1>2. /\ jiffies \in Ticks /\ node \in [Nodes -> NodeState] /\ expired_list \subseteq Nodes
      /\ \A n \in Nodes : NodeOK(node[n], jiffies)
  BY DEF WheelInv, TypeOK, NodesOK
<1>3. now \in Ticks
  BY <1>2, NextTick
<1>4. \A n \in Nodes : DueTick(n) = DueOf(node[n].expires, node[n].since)
  BY DEF DueTick, DueOf
<1>5. ASSUME NEW n \in Nodes
      PROVE  /\ node'[n] \in NodeState /\ node'[n].period = node[n].period
             /\ NodeOK(node'[n], now)
             /\ n \in out <=> Pending(n) /\ now = DueTick(n)
             /\ n \in out => /\ node'[n].bucket = NoBucket
                             /\ node[n].period > 0 =>
                                   /\ 0 <= Diff(now, node'[n].expires)
                                   /\ Diff(now, node'[n].expires) <= MaxLag
             /\ n \notin out => /\ node'[n].bucket = NoBucket <=> node[n].bucket = NoBucket
                                /\ node'[n].expires = node[n].expires
  <2>. DEFINE s == node[n]
              d == came_down(s, now)
              hit == d.bucket = <<1, Slot(1, now)>>
  <2>1. s \in NodeState /\ NodeOK(s, jiffies)
    BY <1>2
  <2>2. n \in out <=> hit
    OBVIOUS
  <2>3. node'[n] = IF hit THEN fired(d) ELSE d
    BY <1>1, <2>2
  <2>4. Pending(n) <=> s.bucket # NoBucket
    BY DEF Pending
  <2>. HIDE DEF s, out, down
  <2>5. /\ d \in NodeState /\ d.period = s.period
        /\ d.bucket = NoBucket <=> s.bucket = NoBucket
        /\ hit <=> s.bucket # NoBucket /\ now = DueOf(s.expires, s.since)
        /\ ~ hit => NodeOK(d, now) /\ d.expires = s.expires
        /\ fired(d) \in NodeState /\ fired(d).period = s.period
        /\ fired(d).bucket = NoBucket /\ NodeOK(fired(d), now)
        /\ hit /\ s.period > 0 =>
              0 <= Diff(now, fired(d).expires) /\ Diff(now, fired(d).expires) <= MaxLag
    BY <1>2, <2>1, TickNode
  <2>6. DueTick(n) = DueOf(s.expires, s.since)
    BY <1>4 DEF s
  <2>. HIDE DEF d, hit, now
  <2>7. CASE hit
    BY <2>2, <2>3, <2>4, <2>5, <2>6, <2>7 DEF s
  <2>8. CASE ~ hit
    BY <2>2, <2>3, <2>4, <2>5, <2>6, <2>8 DEF s
  <2>. QED  BY <2>7, <2>8
<1>6. node' \in [Nodes -> NodeState]
  <2>1. node' = [n \in Nodes |-> node'[n]]
    BY <1>1
  <2>. HIDE DEF out, down
  <2>. QED  BY <1>5, <2>1
<1>. HIDE DEF now, down
<1>7. expired_list' \subseteq Nodes /\ \A n \in Nodes :
         n \in expired_list' <=> n \in expired_list \/ n \in out
  BY <1>1, <1>2
<1>. HIDE DEF out
<1>8. ASSUME NEW n \in Nodes
      PROVE  /\ node'[n].period = node[n].period
             /\ NodeOK(node'[n], jiffies')
             /\ n \in expired_list' <=>
                   n \in expired_list \/ (Pending(n) /\ jiffies' = DueTick(n))
             /\ Pending(n) /\ jiffies' = DueTick(n) =>
                   /\ ~ Pending(n)'
                   /\ node[n].period > 0 => 0 <= Lag(n)' /\ Lag(n)' <= MaxLag
             /\ ~ (Pending(n) /\ jiffies' = DueTick(n)) =>
                   /\ Pending(n)' <=> Pending(n)
                   /\ node'[n].expires = node[n].expires
  BY <1>1, <1>5, <1>7 DEF Pending, Lag
<1>. QED  BY <1>1, <1>3, <1>6, <1>7, <1>8 DEF now

\* A node that was at most MaxLag - 1 behind is one tick further behind.
LEMMA LagGrows ==
    ASSUME NEW j \in Ticks, NEW x \in Ticks, 0 <= Diff(j, x), Diff(j, x) < MaxLag
    PROVE  0 <= Diff((j + 1) % Wrap, x) /\ Diff((j + 1) % Wrap, x) <= MaxLag
<1>. DEFINE t == (j + 1) % Wrap
            a == Diff(j, x)
            y == (j - x) % Wrap
            b == Diff(t, x)
            z == (t - x) % Wrap
<1>1. /\ Wrap \in Nat \ {0} /\ j \in 0 .. Wrap - 1 /\ x \in 0 .. Wrap - 1
      /\ MaxLag \in Nat /\ 2 * MaxLag < Wrap
  BY WrapFacts, WheelAssumption DEF Ticks
<1>2. t \in Ticks /\ t = IF j + 1 = Wrap THEN 0 ELSE j + 1
  BY NextTick
<1>. HIDE DEF t
<1>3. y = IF j < x THEN j - x + Wrap ELSE j - x
  BY Distance
<1>4. z = IF t < x THEN t - x + Wrap ELSE t - x
  BY <1>2, Distance
<1>5. a = IF 2 * y >= Wrap THEN y - Wrap ELSE y
  BY DiffCases
<1>6. b = IF 2 * z >= Wrap THEN z - Wrap ELSE z
  BY <1>2, DiffCases
<1>7. 0 <= a /\ a < MaxLag
  OBVIOUS
<1>. HIDE DEF a, b, y, z
<1>8. 0 <= b /\ b <= MaxLag
  BY <1>1, <1>2, <1>3, <1>4, <1>5, <1>6, <1>7
<1>. QED  BY <1>8 DEF b, t

\* A tick.
LEMMA TickStep ==
    ASSUME WheelInv, tick
    PROVE  WheelInv'
<1>. DEFINE due(n) == Pending(n) /\ jiffies' = DueTick(n)
<1>1. /\ jiffies' = (jiffies + 1) % Wrap /\ jiffies' \in Ticks
      /\ node' \in [Nodes -> NodeState]
      /\ expired_list' \subseteq Nodes
      /\ \A n \in Nodes :
            /\ node'[n].period = node[n].period
            /\ NodeOK(node'[n], jiffies')
            /\ n \in expired_list' <=> n \in expired_list \/ due(n)
            /\ due(n) => /\ ~ Pending(n)'
                         /\ node[n].period > 0 => 0 <= Lag(n)' /\ Lag(n)' <= MaxLag
            /\ ~ due(n) => /\ Pending(n)' <=> Pending(n)
                           /\ node'[n].expires = node[n].expires
  BY TickNodes
<1>2. \A n \in Nodes : due(n) => Pending(n)
  OBVIOUS
<1>. HIDE DEF due
<1>3. broadcast \/ UNCHANGED worker
  BY DEF tick
<1>4. /\ running' = running /\ destroy' = destroy /\ tick_thread' \in {"loop", "exited"}
      /\ \A n \in Nodes : (Waits(n) \/ Executing(n)) /\ node[n].period > 0 => Lag(n) < MaxLag
  BY DEF tick
<1>5. /\ worker' \in [Workers -> Worker]
      /\ \A w \in Workers : /\ worker'[w].batch = worker[w].batch
                            /\ worker'[w].runs = worker[w].runs
                            /\ worker'[w].stage # "busy" => worker[w].stage # "busy"
  BY <1>3, BroadcastQuiet
<1>6. \A n \in Nodes : /\ \A w \in Workers : Holds(w, n)' <=> Holds(w, n)
                       /\ Executing(n)' <=> Executing(n)
                       /\ Waits(n)' <=> Waits(n) \/ due(n)
  BY <1>1, <1>5 DEF Holds, Executing, Waits
<1>7. TypeOK'
  BY <1>1, <1>4, <1>5 DEF WheelInv, TypeOK, Worker
<1>8. NodesOK'
  BY <1>1 DEF NodesOK
<1>9. WorkersOK'
  BY <1>5 DEF WheelInv, WorkersOK
<1>10. OnePlace'
  <2>1. ASSUME NEW n \in Nodes
        PROVE /\ Pending(n)' => ~ Waits(n)'
              /\ node'[n].period > 0 =>
                    /\ Pending(n)' \/ n \in expired_list' => \A w \in Workers : ~ Holds(w, n)'
                    /\ \A w \in Workers : ~ (n \in worker'[w].batch /\ n \in worker'[w].runs)
                    /\ \A w, v \in Workers : Holds(w, n)' /\ Holds(v, n)' => w = v
    <3>1. /\ Pending(n) => ~ Waits(n)
          /\ node[n].period > 0 =>
                /\ Pending(n) \/ n \in expired_list => \A w \in Workers : ~ Holds(w, n)
                /\ \A w \in Workers : ~ (n \in worker[w].batch /\ n \in worker[w].runs)
                /\ \A w, v \in Workers : Holds(w, n) /\ Holds(v, n) => w = v
      BY DEF WheelInv, OnePlace
    <3>2. CASE due(n)
      BY <1>1, <1>2, <1>5, <1>6, <3>1, <3>2
    <3>3. CASE ~ due(n)
      BY <1>1, <1>5, <1>6, <3>1, <3>3
    <3>. QED  BY <3>2, <3>3
  <2>. QED  BY <2>1 DEF OnePlace
<1>11. LagOK'
  <2>1. ASSUME NEW n \in Nodes, node'[n].period > 0, ~ Pending(n)', Waits(n)' \/ Executing(n)'
        PROVE  0 <= Lag(n)' /\ Lag(n)' <= MaxLag
    <3>1. CASE due(n)
      BY <1>1, <2>1, <3>1
    <3>2. CASE ~ due(n)
      <4>1. /\ node[n].period > 0 /\ ~ Pending(n) /\ (Waits(n) \/ Executing(n))
            /\ node'[n].expires = node[n].expires
        BY <1>1, <1>6, <2>1, <3>2
      <4>2. 0 <= Lag(n) /\ Lag(n) < MaxLag
        BY <1>4, <4>1 DEF WheelInv, LagOK
      <4>3. jiffies \in Ticks /\ node[n].expires \in Ticks
        <5>1. node[n] \in NodeState
          BY DEF WheelInv, TypeOK
        <5>. QED  BY <5>1 DEF WheelInv, TypeOK, NodeState
      <4>4. Lag(n)' = Diff((jiffies + 1) % Wrap, node[n].expires)
        BY <1>1, <4>1 DEF Lag
      <4>. QED  BY <4>2, <4>3, <4>4, LagGrows DEF Lag
    <3>. QED  BY <3>1, <3>2
  <2>. QED  BY <2>1 DEF LagOK
<1>12. PeriodicAlive'
  BY <1>1, <1>4, <1>6 DEF WheelInv, PeriodicAlive
<1>. QED  BY <1>7, <1>8, <1>9, <1>10, <1>11, <1>12 DEF WheelInv

\* The client arms a node: what timer_add, timer_mod and timer_add_periodic
\* leave is a node armed for the delay.
LEMMA ArmSteps ==
    ASSUME WheelInv, NEW n \in Nodes
    PROVE  /\ \A ms \in Delays : timer_add(n, ms) \/ timer_mod(n, ms) => WheelInv'
           /\ \A ms \in Periods : timer_add_periodic(n, ms) => WheelInv'
<1>. DEFINE old == node[n]
            Rec(v, p, a) == [Linked(old, (jiffies + v) % Wrap)
                               EXCEPT !.period = p, !.asked = a, !.stopped = "no"]
            Mod(v, a) == [Linked(old, (jiffies + v) % Wrap)
                            EXCEPT !.asked = a, !.stopped = "no"]
<1>1. /\ old \in NodeState /\ jiffies \in Ticks /\ NodeOK(old, jiffies)
      /\ old.period \in 0 .. Span(5) - 1 /\ Span(5) \in Nat /\ MaxLag \in Nat \ {0}
  <2>1. old \in NodeState /\ jiffies \in Ticks /\ NodeOK(old, jiffies)
    BY DEF WheelInv, TypeOK, NodesOK
  <2>2. old.period \in 0 .. Span(5) /\ old.period < Span(5)
    BY <2>1 DEF NodeState, NodeOK
  <2>. QED  BY <2>1, <2>2, WrapFacts, WheelAssumption
\* The three records.
<1>2. ASSUME NEW v, NEW p, NEW a
      PROVE  /\ Rec(v, p, a) = Armed(jiffies, v, p, a)
             /\ Mod(v, a) = Armed(jiffies, v, old.period, a)
  <2>. DEFINE e == (jiffies + v) % Wrap
              b == internal_add_timer(e, jiffies)
              l == Linked(old, e)
  <2>1. l = [old EXCEPT !.expires = e, !.bucket = b, !.since = jiffies]
    BY DEF Linked
  <2>2. /\ Armed(jiffies, v, p, a) = [expires |-> e, period |-> p, bucket |-> b,
                                     since |-> jiffies, asked |-> a, stopped |-> "no"]
        /\ Armed(jiffies, v, old.period, a) =
              [expires |-> e, period |-> old.period, bucket |-> b,
               since |-> jiffies, asked |-> a, stopped |-> "no"]
    BY DEF Armed
  <2>. HIDE DEF old, l, e, b
  <2>3. l = [expires |-> e, period |-> old.period, bucket |-> b, since |-> jiffies,
             asked |-> old.asked, stopped |-> old.stopped]
    BY <1>1, <2>1 DEF NodeState
  <2>4. /\ [l EXCEPT !.period = p, !.asked = a, !.stopped = "no"] = Armed(jiffies, v, p, a)
        /\ [l EXCEPT !.asked = a, !.stopped = "no"] = Armed(jiffies, v, old.period, a)
    <3>. DEFINE q == [l EXCEPT !.period = p]
                u == [q EXCEPT !.asked = a]
                z == [l EXCEPT !.asked = a]
    <3>1. q = [expires |-> e, period |-> p, bucket |-> b, since |-> jiffies,
               asked |-> old.asked, stopped |-> old.stopped]
      BY <2>3
    <3>. HIDE DEF q
    <3>2. u = [expires |-> e, period |-> p, bucket |-> b, since |-> jiffies,
               asked |-> a, stopped |-> old.stopped]
      BY <3>1
    <3>3. z = [expires |-> e, period |-> old.period, bucket |-> b, since |-> jiffies,
               asked |-> a, stopped |-> old.stopped]
      BY <2>3
    <3>. HIDE DEF u, z
    <3>4. [u EXCEPT !.stopped = "no"] = Armed(jiffies, v, p, a)
      BY <2>2, <3>2
    <3>5. [z EXCEPT !.stopped = "no"] = Armed(jiffies, v, old.period, a)
      BY <2>2, <3>3
    <3>. QED  BY <3>4, <3>5 DEF q, u, z
  <2>. QED  BY <2>4 DEF l, e
<1>3. ASSUME NEW v \in Nat, v < Span(5), NEW p \in 0 .. Span(5) - 1,
             NEW a \in {0} \cup Delays, a # 0 => v = ticks_up(a),
             ~ Waits(n), p > 0 => ~ Executing(n),
             Set(n, Armed(jiffies, v, p, a)), OnlyNode
      PROVE  WheelInv'
  <2>. DEFINE s == Armed(jiffies, v, p, a)
  <2>1. v \in Int /\ 1 - MaxLag <= v
    BY <1>1, <1>3
  <2>2. s \in NodeState /\ NodeOK(s, jiffies) /\ s.bucket # NoBucket /\ s.period = p
    BY <1>1, <1>3, <2>1, ArmedOK
  <2>3. Set(n, s)
    BY <1>3
  <2>. HIDE DEF s
  <2>. QED  BY <1>3, <2>2, <2>3, ClientStep
<1>4. ASSUME NEW ms \in Delays, timer_add(n, ms) PROVE WheelInv'
  <2>1. ~ Waits(n) /\ OnlyNode /\ Set(n, Armed(jiffies, ticks_up(ms), 0, ms))
    <3>1. Rec(ticks_up(ms), 0, ms) = Armed(jiffies, ticks_up(ms), 0, ms)
      <4>. HIDE DEF Rec, Mod
      <4>. QED  BY <1>2
    <3>2. ~ Waits(n) /\ OnlyNode /\ Set(n, Rec(ticks_up(ms), 0, ms))
      BY <1>4, Zenon DEF timer_add, Arms
    <3>. HIDE DEF Rec, Mod
    <3>. QED  BY <3>1, <3>2
  <2>2. 0 \in 0 .. Span(5) - 1 /\ ~ (0 > 0)
    BY WrapFacts
  <2>3. /\ ticks_up(ms) \in Nat /\ ticks_up(ms) < Span(5)
        /\ ms \in {0} \cup Delays
    BY Rounded
  <2>. QED  BY <1>3, <2>1, <2>2, <2>3
<1>5. ASSUME NEW ms \in Delays, timer_mod(n, ms) PROVE WheelInv'
  <2>1. /\ ~ Waits(n) /\ OnlyNode /\ (old.period > 0 => ~ Executing(n))
        /\ Set(n, Armed(jiffies, ticks_up(ms), old.period, ms))
    <3>1. Mod(ticks_up(ms), ms) = Armed(jiffies, ticks_up(ms), old.period, ms)
      <4>. HIDE DEF Rec, Mod
      <4>. QED  BY <1>2
    <3>2. /\ ~ Waits(n) /\ OnlyNode /\ (old.period > 0 => ~ Executing(n))
          /\ Set(n, Mod(ticks_up(ms), ms))
      BY <1>5, Zenon DEF timer_mod, Arms
    <3>. HIDE DEF Rec, Mod
    <3>. QED  BY <3>1, <3>2
  <2>. HIDE DEF old
  <2>. QED  BY <1>1, <1>3, <2>1, Rounded
<1>6. ASSUME NEW ms \in Periods, timer_add_periodic(n, ms) PROVE WheelInv'
  <2>1. /\ ~ Waits(n) /\ OnlyNode /\ ~ Executing(n)
        /\ Set(n, Armed(jiffies, period_ticks(ms), period_ticks(ms), 0))
    <3>. DEFINE p == period_ticks(ms)
    <3>1. Rec(p, p, 0) = Armed(jiffies, p, p, 0)
      <4>. HIDE DEF Rec, Mod
      <4>. QED  BY <1>2
    <3>2. ~ Waits(n) /\ OnlyNode /\ ~ Executing(n) /\ Set(n, Rec(p, p, 0))
      BY <1>6, Zenon DEF timer_add_periodic, Arms
    <3>. HIDE DEF Rec, Mod
    <3>. QED  BY <3>1, <3>2
  <2>2. period_ticks(ms) \in Nat /\ period_ticks(ms) < Span(5)
        /\ period_ticks(ms) \in 0 .. Span(5) - 1
    BY <1>1, PeriodTicks
  <2>. QED  BY <1>3, <2>1, <2>2
<1>. QED  BY <1>4, <1>5, <1>6

\* The client deletes a node.
LEMMA DelStep ==
    ASSUME WheelInv, NEW n \in Nodes, timer_del(n)
    PROVE  WheelInv'
<1>. DEFINE s == [timer_node_init EXCEPT !.stopped = "yes"]
<1>1. /\ s \in NodeState /\ NodeOK(s, jiffies) /\ s.bucket = NoBucket /\ s.period = 0
  BY WrapFacts DEF timer_node_init, NodeState, NodeOK, Ticks
<1>2. Set(n, s) /\ OnlyNode
  BY DEF timer_del
<1>. HIDE DEF s
<1>. QED  BY <1>1, <1>2, ClientStep

\* The steps of the worker w and of timer_wheel_destroy that move no node.
LEMMA QuietSteps ==
    ASSUME WheelInv,
           \/ \E w \in Workers : worker_waits(w) \/ worker_exits(w)
           \/ tick_thread_exits \/ destroy_stops \/ destroy_wakes \/ destroy_returns
    PROVE  WheelInv'
<1>1. worker \in [Workers -> Worker]
  BY DEF WheelInv, TypeOK, Worker
<1>2. ASSUME NEW w \in Workers, worker_waits(w) \/ worker_exits(w) PROVE WheelInv'
  <2>1. PICK g \in {"waiting", "exited"} : worker' = [worker EXCEPT ![w].stage = g]
    BY <1>2 DEF worker_waits, worker_exits
  <2>2. worker[w].stage = "ready" /\ UNCHANGED expired_list /\ OnlyWorkers
    BY <1>2 DEF worker_waits, worker_exits
  <2>3. worker' \in [Workers -> Worker]
    BY <1>1, <2>1 DEF Worker, Stages
  <2>4. \A v \in Workers : /\ worker'[v].batch = worker[v].batch
                           /\ worker'[v].runs = worker[v].runs
                           /\ worker'[v].stage # "busy" => worker[v].stage # "busy"
    BY <1>1, <2>1, <2>2 DEF Worker
  <2>5. TypeOK'
    BY <2>2, <2>3 DEF WheelInv, TypeOK, OnlyWorkers, Worker
  <2>6. UNCHANGED <<jiffies, node, expired_list, running>>
    BY <2>2 DEF OnlyWorkers
  <2>. QED  BY <2>4, <2>5, <2>6, QuietStep
<1>3. CASE tick_thread_exits \/ destroy_stops \/ destroy_wakes \/ destroy_returns
  <2>1. /\ broadcast \/ UNCHANGED worker
        /\ UNCHANGED <<jiffies, node, expired_list>>
        /\ running' = running \/ running' = FALSE
        /\ tick_thread' = tick_thread \/ tick_thread' = "exited"
        /\ destroy' = destroy \/ destroy' \in {"tick", "workers", "done"}
    BY <1>3 DEF tick_thread_exits, destroy_stops, destroy_wakes, destroy_returns
  <2>2. /\ worker' \in [Workers -> Worker]
        /\ \A v \in Workers : /\ worker'[v].batch = worker[v].batch
                              /\ worker'[v].runs = worker[v].runs
                              /\ worker'[v].stage # "busy" => worker[v].stage # "busy"
    BY <2>1, BroadcastQuiet
  <2>3. TypeOK'
    BY <2>1, <2>2 DEF WheelInv, TypeOK, Worker
  <2>. QED  BY <2>1, <2>2, <2>3, QuietStep
<1>. QED  BY <1>2, <1>3

\* The invariant is kept by every step.
LEMMA InvStep ==
    ASSUME WheelInv, [Next]_vars
    PROVE  WheelInv'
<1>1. CASE UNCHANGED vars
  <2>1. UNCHANGED <<jiffies, node, expired_list>> /\ running' = running /\ worker' = worker
    BY <1>1 DEF vars
  <2>2. TypeOK'
    BY <1>1 DEF WheelInv, TypeOK, vars
  <2>. QED  BY <2>1, <2>2, QuietStep
<1>2. ASSUME NEW n \in Nodes,
             \/ \E ms \in Delays : timer_add(n, ms) \/ timer_mod(n, ms)
             \/ \E ms \in Periods : timer_add_periodic(n, ms)
             \/ timer_del(n)
      PROVE  WheelInv'
  BY <1>2, ArmSteps, DelStep
<1>3. CASE tick
  BY <1>3, TickStep
<1>4. ASSUME NEW w \in Workers,
             \/ worker_takes(w)
             \/ \E n \in Nodes : worker_calls(w, n) \/ worker_returns(w, n)
      PROVE  WheelInv'
  BY <1>4, TakesStep, CallsStep, ReturnsStep
<1>5. CASE \/ \E w \in Workers : worker_waits(w) \/ worker_exits(w)
           \/ tick_thread_exits \/ destroy_stops \/ destroy_wakes \/ destroy_returns
  BY <1>5, QuietSteps
<1>. QED  BY <1>1, <1>2, <1>3, <1>4, <1>5 DEF Next

-----------------------------------------------------------------------------
(* What the wheel promises.                                                *)

\* Nodes are filed right, and are where only one thread acts on them, in every
\* state of the wheel.
THEOREM WheelInvariant == Spec => []WheelInv
<1>1. timer_wheel_create => WheelInv
  BY InitInv
<1>2. WheelInv /\ [Next]_vars => WheelInv'
  BY InvStep
<1>. QED  BY <1>1, <1>2, PTL DEF Spec

\* Every field of every node, worker and counter keeps its type: in particular
\* internal_add_timer never computes a bucket that a level does not have.
THEOREM WheelTypeCorrect == Spec => []TypeOK
<1>1. WheelInv => TypeOK
  BY DEF WheelInv
<1>. QED  BY <1>1, WheelInvariant, PTL

\* What timer_del has removed stays removed until it is armed again, even when
\* a worker is in the middle of its callback.
THEOREM DeletedStaysOut == Spec => []DelSticks
<1>1. WheelInv => DelSticks
  BY DEF WheelInv, NodesOK, NodeOK, DelSticks, Pending
<1>. QED  BY <1>1, WheelInvariant, PTL

\* A periodic node of a running wheel is pending, with the workers, or running.
THEOREM PeriodicIsAlive == Spec => []PeriodicAlive
<1>1. WheelInv => PeriodicAlive
  BY DEF WheelInv
<1>. QED  BY <1>1, WheelInvariant, PTL

\* Only a tick counts, and only a tick hands a pending node to the workers.
LEMMA OnlyTick ==
    ASSUME WheelInv, [Next]_vars, ~ tick, NEW n \in Nodes, Pending(n)
    PROVE  jiffies' = jiffies /\ n \notin expired_list'
<1>1. n \notin expired_list
  BY DEF WheelInv, OnePlace, Waits
<1>2. jiffies' = jiffies /\ (expired_list' = expired_list \/ expired_list' = {})
  BY DEF Next, vars, timer_add, timer_mod, timer_add_periodic, timer_del, OnlyNode,
         tick_thread_exits, worker_waits, worker_exits, worker_takes, worker_calls,
         worker_returns, OnlyWorkers, destroy_stops, destroy_wakes, destroy_returns
<1>. QED  BY <1>1, <1>2

\* A pending node fires in its due tick and in no other, through every cascade
\* and across the wrap of the counter, whatever the sizes of the levels.
THEOREM FiresOnTime == Spec => OnTime
<1>1. ASSUME WheelInv, [Next]_vars, NEW n \in Nodes, Pending(n), jiffies' # jiffies
      PROVE  n \in expired_list' <=> jiffies' = DueTick(n)
  <2>1. tick
    BY <1>1, OnlyTick
  <2>2. n \notin expired_list
    BY <1>1 DEF WheelInv, OnePlace, Waits
  <2>. QED  BY <1>1, <2>1, <2>2, TickNodes
<1>2. WheelInv /\ [Next]_vars =>
         [\A n \in Nodes : Pending(n) /\ jiffies' # jiffies
                           => (n \in expired_list' <=> jiffies' = DueTick(n))]_vars
  BY <1>1
<1>. QED  BY <1>2, WheelInvariant, PTL DEF Spec, OnTime

\* Counted in ticks, a node that timer_add or timer_mod linked fires no sooner than
\* asked, and less than two ticks later, for every size of the wheel.
THEOREM FiresAfterAskedTicks == Spec => AskedTicks
<1>1. ASSUME WheelInv, [Next]_vars, NEW n \in Nodes, Pending(n), n \in expired_list',
             node[n].asked # 0
      PROVE  /\ ((jiffies' - node[n].since) % Wrap) * TickMs >= node[n].asked
             /\ ((jiffies' - node[n].since) % Wrap) * TickMs < node[n].asked + 2 * TickMs
  <2>. DEFINE s == node[n]
              e == s.expires
              o == s.since
              t == jiffies'
              z == (t - o) % Wrap
              a == s.asked
  <2>1. tick
    BY <1>1, OnlyTick
  <2>2. n \notin expired_list
    BY <1>1 DEF WheelInv, OnePlace, Waits
  <2>3. t \in Ticks /\ t = DueTick(n)
    BY <1>1, <2>1, <2>2, TickNodes
  <2>4. t = DueOf(e, o)
    BY <2>3 DEF DueTick, DueOf
  <2>5. e \in Ticks /\ o \in Ticks /\ a \in {0} \cup Delays
    <3>1. s \in NodeState
      BY <1>1 DEF WheelInv, TypeOK
    <3>. QED  BY <3>1 DEF NodeState
  <2>6. a # 0 => e = (o + ticks_up(a)) % Wrap
    BY <1>1 DEF WheelInv, NodesOK, NodeOK, Pending
  <2>. HIDE DEF t, e, o, a
  <2>7. z \in Nat /\ TickMs \in Nat \ {0}
    BY <2>3, <2>5, Distance, WheelAssumption, WrapFacts
  <2>8. a # 0
    BY <1>1 DEF a
  <2>. DEFINE v == ticks_up(a)
  <2>9. /\ a \in Delays /\ a \in Nat /\ v \in Nat /\ v < Span(5)
        /\ a <= v * TickMs /\ v * TickMs < a + TickMs
    BY <2>5, <2>8, Rounded, WheelAssumption
  <2>10. e = (o + v) % Wrap
    BY <2>6, <2>8
  <2>. HIDE DEF v
  <2>11. v > 0
    BY <2>7, <2>8, <2>9
  <2>12. - Wrap < 2 * v /\ 2 * v < Wrap
    BY <2>9, WrapFacts
  <2>13. Diff(e, o) = v
    BY <2>5, <2>9, <2>10, <2>12, DiffExact
  <2>14. z >= v /\ z <= v + 1
    BY <2>3, <2>4, <2>5, <2>11, <2>13, DueFacts
  <2>. HIDE DEF z
  <2>15. z * TickMs >= v * TickMs
    BY <2>7, <2>9, <2>14
  <2>16. z * TickMs <= v * TickMs + TickMs
    <3>1. (v + 1) * TickMs = v * TickMs + TickMs
      BY <2>7, <2>9
    <3>2. z * TickMs <= (v + 1) * TickMs
      BY <2>7, <2>9, <2>14
    <3>. QED  BY <3>1, <3>2
  <2>17. z * TickMs \in Nat /\ v * TickMs \in Nat
    BY <2>7, <2>9
  <2>18. z * TickMs >= a /\ z * TickMs < a + 2 * TickMs
    <3>. DEFINE x == z * TickMs
                y == v * TickMs
    <3>1. /\ x \in Nat /\ y \in Nat /\ x >= y /\ x <= y + TickMs
          /\ a <= y /\ y < a + TickMs
      BY <2>9, <2>15, <2>16, <2>17
    <3>. HIDE DEF x, y
    <3>2. x >= a /\ x < a + 2 * TickMs
      BY <2>7, <2>9, <3>1
    <3>. QED  BY <3>2 DEF x
  <2>. QED  BY <2>18 DEF z, t, o, a
<1>2. WheelInv /\ [Next]_vars =>
         [\A n \in Nodes :
             Pending(n) /\ n \in expired_list' /\ node[n].asked # 0
             => LET ms == ((jiffies' - node[n].since) % Wrap) * TickMs
                IN  node[n].asked <= ms /\ ms < node[n].asked + 2 * TickMs]_vars
  <2>. SUFFICES ASSUME WheelInv, [Next]_vars, NEW n \in Nodes, Pending(n),
                       n \in expired_list', node[n].asked # 0
                PROVE  LET ms == ((jiffies' - node[n].since) % Wrap) * TickMs
                       IN  node[n].asked <= ms /\ ms < node[n].asked + 2 * TickMs
    OBVIOUS
  <2>. QED  BY <1>1
<1>. QED  BY <1>2, WheelInvariant, PTL DEF Spec, AskedTicks
=============================================================================
