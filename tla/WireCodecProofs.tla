---------------------------- MODULE WireCodecProofs ----------------------------
(***************************************************************************)
(* Proofs about WireCodec for any radix, any width of numbers, any numbers *)
(* and strings that fit, packets of any length and any decoder.            *)
(*                                                                         *)
(* A loop is a function of the number of its rounds.  What holds of every  *)
(* round is shown by the least one of which it would not (Induction), and  *)
(* so is that there is such a function at all (Recursion).  A number       *)
(* is read back since what its first bytes add up to and what is left of   *)
(* it then, at its weight, make the number (SumTo).  The invariant says    *)
(* that the buffer begins with the bytes of all fields written, and        *)
(* m_index is where those of the fields read end.                          *)
(***************************************************************************)
EXTENDS WireCodec, Integers, SequenceTheorems, FiniteSetTheorems, TLAPS

(* A set of numbers that is not empty has a least one: intervals from 0 are *)
(* finite sets, of which none contains itself for ever.                     *)
LEMMA LeastExists ==
  ASSUME NEW T, T \subseteq Nat, T # {}
  PROVE  \E m \in T : \A n \in T : m <= n
<1> DEFINE U == {0..n : n \in T}
<1>1. U \subseteq FiniteSubsetsOf(Nat)
  <2> SUFFICES ASSUME NEW n \in T PROVE 0..n \in FiniteSubsetsOf(Nat)
    OBVIOUS
  <2>1. IsFiniteSet(0..n) BY FS_Interval
  <2>2. 0..n \in SUBSET Nat OBVIOUS
  <2>3. QED BY <2>1, <2>2 DEF FiniteSubsetsOf
<1>2. PICK x \in U : \A y \in U : <<y, x>> \notin StrictSubsetOrdering(Nat)
  <2>1. IsWellFoundedOn(StrictSubsetOrdering(Nat), FiniteSubsetsOf(Nat))
    BY FS_StrictSubsetOrderingWellFounded
  <2>2. U # {} OBVIOUS
  <2>3. QED BY <1>1, <2>1, <2>2, WFMin
<1>3. PICK m \in T : x = 0..m BY <1>2
<1>4. ASSUME NEW n \in T, n < m PROVE FALSE
  <2>1. 0..n \in U /\ 0..n \in SUBSET Nat /\ x \in SUBSET Nat BY <1>3
  <2>2. 0..n \subseteq x BY <1>3, <1>4
  <2>3. m \in x /\ m \notin 0..n BY <1>3, <1>4
  <2>4. <<0..n, x>> \in StrictSubsetOrdering(Nat)
    BY <2>1, <2>2, <2>3 DEF StrictSubsetOrdering
  <2>5. QED BY <1>2, <2>1, <2>4
<1>5. \A n \in T : m <= n BY <1>4
<1>6. QED BY <1>5

(* LeastOf gives that least number. *)
LEMMA LeastIs ==
  ASSUME NEW T, T \subseteq Nat, T # {}
  PROVE  LeastOf(T) \in T /\ \A n \in T : LeastOf(T) <= n
BY LeastExists DEF LeastOf

(* What holds of 0, and of i if of i - 1, holds of all: S is where it holds. *)
LEMMA Induction ==
  ASSUME NEW N \in Nat, NEW S, 0 \in S,
         \A i \in 1..N : i - 1 \in S => i \in S
  PROVE  \A i \in 0..N : i \in S
<1> SUFFICES ASSUME NEW j \in 0..N, j \notin S PROVE FALSE
  OBVIOUS
<1> DEFINE T == {i \in 0..N : i \notin S}
<1>1. PICK m \in T : \A n \in T : m <= n
  <2>1. T \subseteq Nat /\ T # {} OBVIOUS
  <2>2. QED BY <2>1, LeastExists
<1>2. m \in 1..N BY <1>1
<1>3. m - 1 \in S BY <1>1, <1>2
<1>4. QED BY <1>1, <1>2, <1>3

(* A function may be defined by its value at 0 and a step from each value   *)
(* to the next.                                                             *)
IsStep(step, N, V) == step \in [1..N -> [V -> V]]

Follows(f, N, V, c, step) ==
  f \in [0..N -> V] /\ f[0] = c /\ \A i \in 1..N : f[i] = step[i][f[i - 1]]

LEMMA Recursion ==
  ASSUME NEW N \in Nat, NEW V, NEW c \in V, NEW step, IsStep(step, N, V)
  PROVE  \E f : Follows(f, N, V, c, step)
<1> USE DEF IsStep
<1> DEFINE Defined(n) ==
      \E f \in [0..n -> V] : f[0] = c /\ \A i \in 1..n : f[i] = step[i][f[i - 1]]
           S == {n \in 0..N : Defined(n)}
<1>1. 0 \in S
  <2> DEFINE f == [i \in 0..0 |-> c]
  <2>1. f \in [0..0 -> V] /\ f[0] = c OBVIOUS
  <2>2. \A i \in 1..0 : FALSE OBVIOUS
  <2>3. \A i \in 1..0 : f[i] = step[i][f[i - 1]] BY <2>2
  <2> HIDE DEF f
  <2>4. Defined(0) BY <2>1, <2>3
  <2>5. 0 \in 0..N OBVIOUS
  <2> HIDE DEF Defined
  <2>6. QED BY <2>4, <2>5
<1>2. ASSUME NEW n \in 1..N, n - 1 \in S PROVE n \in S
  <2>1. PICK g \in [0..(n - 1) -> V] :
          g[0] = c /\ \A i \in 1..(n - 1) : g[i] = step[i][g[i - 1]]
    BY <1>2
  <2> DEFINE f == [i \in 0..n |-> IF i = n THEN step[n][g[n - 1]] ELSE g[i]]
  <2>2. f \in [0..n -> V]
    <3>1. step[n][g[n - 1]] \in V BY <2>1
    <3>2. QED BY <3>1
  <2>3. f[0] = c BY <2>1
  <2>4. \A i \in 1..n : f[i] = step[i][f[i - 1]] BY <2>1
  <2> HIDE DEF f
  <2>5. Defined(n) BY <2>2, <2>3, <2>4
  <2>6. n \in 0..N OBVIOUS
  <2> HIDE DEF Defined
  <2>7. QED BY <2>5, <2>6
<1>3. \A n \in 0..N : n \in S
  <2> HIDE DEF S
  <2>1. QED BY <1>1, <1>2, Induction
<1>4. Defined(N)
  <2>1. N \in S BY <1>3
  <2> HIDE DEF Defined
  <2>2. QED BY <2>1
<1>5. QED BY <1>4 DEF Follows

(* A function that is in V at 0, and next to where it is, is in V everywhere. *)
LEMMA Values ==
  ASSUME NEW N \in Nat, NEW V, NEW f, f = [i \in 0..N |-> f[i]], f[0] \in V,
         \A i \in 1..N : f[i - 1] \in V => f[i] \in V
  PROVE  f \in [0..N -> V]
<1> DEFINE S == {i \in 0..N : f[i] \in V}
<1>1. 0 \in S OBVIOUS
<1>a. \A i \in 1..N : i - 1 \in S => i \in S OBVIOUS
<1>2. \A i \in 0..N : i \in S
  <2> HIDE DEF S
  <2>1. QED BY <1>1, <1>a, Induction
<1>3. \A i \in 0..N : f[i] \in V BY <1>2
<1>4. QED BY <1>3

-------------------------------------------------------------------------------
(* Numbers. *)

(* A product of numbers is a number. *)
LEMMA Products ==
  /\ \A a, b \in Nat : a * b \in Nat
  /\ \A a, b \in Nat \ {0} : a * b \in Nat \ {0}
<1>1. \A a, b \in Nat : a * b \in Nat OBVIOUS
<1>2. \A a, b \in Nat : a # 0 /\ b # 0 => a * b # 0 OBVIOUS
<1>3. QED BY <1>1, <1>2

(* Weight goes up by the radix with each byte. *)
LEMMA WeightIs ==
  /\ Weight \in [0..MaxVarintBytes -> Nat \ {0}]
  /\ Weight[0] = 1
  /\ \A i \in 1..MaxVarintBytes : Weight[i] = Radix * Weight[i - 1]
<1> DEFINE V == Nat \ {0}
           Is(f) == f = [i \in 0..MaxVarintBytes |-> IF i = 0 THEN 1 ELSE Radix * f[i - 1]]
           step == [i \in 1..MaxVarintBytes |-> [v \in V |-> Radix * v]]
<1>0. MaxVarintBytes \in Nat /\ Radix \in V BY WireAssumption
<1>a. \A v \in V : Radix * v \in V BY <1>0, Products
<1>b. PICK f : Follows(f, MaxVarintBytes, V, 1, step)
  <2>1. IsStep(step, MaxVarintBytes, V) BY <1>a DEF IsStep
  <2>2. 1 \in V OBVIOUS
  <2> HIDE DEF step, V
  <2>3. QED BY <1>0, <2>1, <2>2, Recursion
<1>1. /\ f \in [0..MaxVarintBytes -> V]
      /\ f[0] = 1 /\ \A i \in 1..MaxVarintBytes : f[i] = step[i][f[i - 1]]
  BY <1>b, Zenon DEF Follows
<1>2. \A i \in 1..MaxVarintBytes : f[i] = Radix * f[i - 1]
  <2>1. \A i \in 1..MaxVarintBytes : i - 1 \in 0..MaxVarintBytes BY <1>0
  <2>2. \A i \in 1..MaxVarintBytes : f[i - 1] \in V BY <1>1, <2>1
  <2>3. \A i \in 1..MaxVarintBytes : \A v \in V : step[i][v] = Radix * v OBVIOUS
  <2> HIDE DEF step, V
  <2>4. QED BY <1>1, <2>2, <2>3
<1>3. Is(f)
  <2>1. \A i \in 0..MaxVarintBytes : f[i] = IF i = 0 THEN 1 ELSE Radix * f[i - 1]
    <3>1. \A i \in 0..MaxVarintBytes : i = 0 \/ i \in 1..MaxVarintBytes OBVIOUS
    <3> HIDE DEF V, step
    <3>2. QED BY <1>1, <1>2, <3>1, Zenon
  <2>2. QED BY <1>1, <2>1
<1>4. Is(Weight)
  <2>1. Weight = CHOOSE g : Is(g) BY Zenon DEF Weight
  <2>2. QED BY <1>3, <2>1, Zenon
<1>5. \A i \in 0..MaxVarintBytes : Weight[i] = IF i = 0 THEN 1 ELSE Radix * Weight[i - 1]
  <2>1. PICK W : W = Weight OBVIOUS
  <2>2. W = [i \in 0..MaxVarintBytes |-> IF i = 0 THEN 1 ELSE Radix * W[i - 1]]
    BY <1>4, <2>1, Zenon
  <2>3. \A i \in 0..MaxVarintBytes : W[i] = IF i = 0 THEN 1 ELSE Radix * W[i - 1]
    BY <2>2
  <2>4. QED BY <2>1, <2>3
<1>6. Weight = [i \in 0..MaxVarintBytes |-> Weight[i]]
  BY <1>4, <1>5
<1>7. Weight[0] = 1 /\ \A i \in 1..MaxVarintBytes : Weight[i] = Radix * Weight[i - 1]
  BY <1>0, <1>5
<1>8. Weight \in [0..MaxVarintBytes -> V]
  <2>1. Weight[0] \in V BY <1>7
  <2>2. \A i \in 1..MaxVarintBytes : Weight[i - 1] \in V => Weight[i] \in V
    BY <1>a, <1>7
  <2> HIDE DEF V
  <2>3. QED BY <1>0, <1>6, <2>1, <2>2, Values, Zenon
<1>9. QED BY <1>7, <1>8

(* What is left of v after each byte, and how many bytes it takes. *)
IsRests(f, v) == f = [i \in 0..MaxVarintBytes |-> IF i = 0 THEN v ELSE f[i - 1] \div Radix]

Rests(v) == CHOOSE f : IsRests(f, v)

Size(v) == LeastOf({i \in 1..MaxVarintBytes : Rests(v)[i] = 0} \cup {MaxVarintBytes})

(* What is left of a number after i bytes. *)
LEMMA RestsAre ==
  ASSUME NEW v \in Nat
  PROVE  /\ Rests(v) \in [0..MaxVarintBytes -> Nat]
         /\ Rests(v)[0] = v
         /\ \A i \in 1..MaxVarintBytes : Rests(v)[i] = Rests(v)[i - 1] \div Radix
<1> DEFINE step == [i \in 1..MaxVarintBytes |-> [r \in Nat |-> r \div Radix]]
<1>0. MaxVarintBytes \in Nat /\ \A r \in Nat : r \div Radix \in Nat BY WireAssumption
<1>1. PICK f : Follows(f, MaxVarintBytes, Nat, v, step)
  <2>1. IsStep(step, MaxVarintBytes, Nat) BY <1>0 DEF IsStep
  <2> HIDE DEF step
  <2>2. QED BY <1>0, <2>1, Recursion
<1>2. /\ f \in [0..MaxVarintBytes -> Nat]
      /\ f[0] = v /\ \A i \in 1..MaxVarintBytes : f[i] = step[i][f[i - 1]]
  BY <1>1, Zenon DEF Follows
<1>3. \A i \in 1..MaxVarintBytes : f[i] = f[i - 1] \div Radix
  <2>1. \A i \in 1..MaxVarintBytes : i - 1 \in 0..MaxVarintBytes BY <1>0
  <2>2. \A i \in 1..MaxVarintBytes : f[i - 1] \in Nat BY <1>2, <2>1
  <2>3. \A i \in 1..MaxVarintBytes : \A r \in Nat : step[i][r] = r \div Radix OBVIOUS
  <2> HIDE DEF step
  <2>4. QED BY <1>2, <2>2, <2>3
<1>4. IsRests(f, v)
  <2>1. \A i \in 0..MaxVarintBytes : f[i] = IF i = 0 THEN v ELSE f[i - 1] \div Radix
    <3>1. \A i \in 0..MaxVarintBytes : i = 0 \/ i \in 1..MaxVarintBytes OBVIOUS
    <3> HIDE DEF step
    <3>2. QED BY <1>2, <1>3, <3>1, Zenon
  <2>2. QED BY <1>2, <2>1 DEF IsRests
<1>5. IsRests(Rests(v), v) BY <1>4, Zenon DEF Rests
<1>6. PICK g : g = Rests(v) /\ IsRests(g, v) BY <1>5
<1>7. \A i \in 0..MaxVarintBytes : g[i] = IF i = 0 THEN v ELSE g[i - 1] \div Radix
  BY <1>6 DEF IsRests
<1>8. g[0] = v /\ \A i \in 1..MaxVarintBytes : g[i] = g[i - 1] \div Radix
  BY <1>0, <1>7
<1>9. g \in [0..MaxVarintBytes -> Nat]
  <2>1. g = [i \in 0..MaxVarintBytes |-> g[i]] BY <1>6, <1>7 DEF IsRests
  <2>2. \A i \in 1..MaxVarintBytes : g[i - 1] \in Nat => g[i] \in Nat BY <1>0, <1>8
  <2>3. QED BY <1>0, <1>8, <2>1, <2>2, Values, Zenon
<1>10. QED BY <1>6, <1>8, <1>9

(* WriteVarint64 in those words. *)
LEMMA VarintBytesAre ==
  ASSUME NEW v \in Nat
  PROVE  VarintBytes(v) = [i \in 1..Size(v) |-> VarintByte(Rests(v)[i - 1])]
BY Zenon DEF VarintBytes, Size, Rests, IsRests

(* Arithmetic of a step: a number r at weight w loses its lowest digit. *)
LEMMA DigitStep ==
  ASSUME NEW r \in Nat, NEW w \in Nat \ {0}, NEW R \in Nat \ {0, 1}
  PROVE  /\ (r % R) * w + (r \div R) * (R * w) = r * w
         /\ (r % R) * w \in Nat /\ (r \div R) * (R * w) \in Nat
<1>1. r = R * (r \div R) + (r % R) /\ r \div R \in Nat /\ r % R \in 0..(R - 1)
  OBVIOUS
<1>2. PICK q \in Nat, d \in Nat : q = r \div R /\ d = r % R BY <1>1
<1>3. r = R * q + d BY <1>1, <1>2
<1>4. (R * q + d) * w = d * w + q * (R * w) OBVIOUS
<1>5. d * w \in Nat /\ q * (R * w) \in Nat BY Products
<1>6. QED BY <1>2, <1>3, <1>4, <1>5

(* What is left after i bytes, at their weight, is no more than the number. *)
LEMMA Bounded ==
  ASSUME NEW v \in Nat
  PROVE  \A i \in 0..MaxVarintBytes : Rests(v)[i] * Weight[i] <= v
<1>1. PICK r : r = Rests(v) OBVIOUS
<1>2. PICK w : w = Weight OBVIOUS
<1>3. /\ r \in [0..MaxVarintBytes -> Nat] /\ r[0] = v
      /\ \A i \in 1..MaxVarintBytes : r[i] = r[i - 1] \div Radix
  BY <1>1, RestsAre
<1>4. /\ w \in [0..MaxVarintBytes -> Nat \ {0}] /\ w[0] = 1
      /\ \A i \in 1..MaxVarintBytes : w[i] = Radix * w[i - 1]
  BY <1>2, WeightIs
<1>5. MaxVarintBytes \in Nat /\ Radix \in Nat \ {0, 1} BY WireAssumption
<1> DEFINE S == {i \in 0..MaxVarintBytes : r[i] * w[i] <= v}
<1>6. 0 \in S BY <1>3, <1>4, <1>5
<1>7. ASSUME NEW i \in 1..MaxVarintBytes, i - 1 \in S PROVE i \in S
  <2>1. PICK a \in Nat, b \in Nat \ {0} : a = r[i - 1] /\ b = w[i - 1]
    <3>1. i - 1 \in 0..MaxVarintBytes BY <1>5
    <3>2. QED BY <1>3, <1>4, <3>1
  <2>2. r[i] = a \div Radix /\ w[i] = Radix * b BY <1>3, <1>4, <2>1
  <2>3. /\ ((a % Radix) * b) + ((a \div Radix) * (Radix * b)) = a * b
        /\ (a % Radix) * b \in Nat /\ (a \div Radix) * (Radix * b) \in Nat
    BY <1>5, DigitStep
  <2>4. a * b <= v BY <1>7, <2>1
  <2>5. (a \div Radix) * (Radix * b) <= v
    <3> DEFINE x == (a % Radix) * b
               y == (a \div Radix) * (Radix * b)
    <3>1. x \in Nat /\ y \in Nat /\ x + y <= v BY <2>3, <2>4
    <3> HIDE DEF x, y
    <3>2. y <= v BY <3>1
    <3>3. QED BY <3>2 DEF y
  <2>6. QED BY <2>2, <2>5
<1>8. \A i \in 0..MaxVarintBytes : i \in S
  <2> HIDE DEF S
  <2>1. QED BY <1>5, <1>6, <1>7, Induction
<1>9. QED BY <1>1, <1>2, <1>8

(* The bytes of a number that fits end with the first that has no           *)
(* continuation bit, and nothing is left then.                              *)
LEMMA SizeIs ==
  ASSUME NEW v \in 0..(Limit - 1)
  PROVE  /\ Size(v) \in 1..MaxVarintBytes
         /\ Rests(v)[Size(v)] = 0
         /\ \A i \in 1..(Size(v) - 1) : Rests(v)[i] # 0
<1>0. v \in Nat /\ MaxVarintBytes \in Nat \ {0} BY WireAssumption
<1> DEFINE M == MaxVarintBytes
           T == {i \in 1..M : Rests(v)[i] = 0}
<1>1. Rests(v)[M] = 0
  <2>1. PICK a \in Nat, b \in Nat \ {0} : a = Rests(v)[M] /\ b = Weight[M]
    <3>1. M \in 0..M BY <1>0
    <3>2. QED BY <1>0, <3>1, RestsAre, WeightIs
  <2>2. a * b <= v BY <1>0, <2>1, Bounded
  <2>3. v < b BY <2>1, WireAssumption
  <2>4. ASSUME a # 0 PROVE FALSE
    <3>1. \A x, y \in Nat \ {0} : x * y >= y OBVIOUS
    <3>2. a * b >= b BY <2>4, <3>1
    <3>3. a * b \in Nat BY Products
    <3>4. QED BY <1>0, <2>2, <2>3, <3>2, <3>3
  <2>5. QED BY <2>1, <2>4
<1>2. M \in T /\ T \cup {M} = T /\ T \subseteq Nat /\ T # {}
  BY <1>0, <1>1
<1>3. Size(v) = LeastOf(T) BY <1>2 DEF Size
<1>4. Size(v) \in T /\ \A i \in T : Size(v) <= i
  <2> HIDE DEF T
  <2>1. QED BY <1>2, <1>3, LeastIs
<1>5. QED BY <1>0, <1>4

(* Each has the seven bits that come next, and the last no continuation bit. *)
LEMMA BytesAre ==
  ASSUME NEW v \in 0..(Limit - 1), NEW i \in 1..Size(v)
  PROVE  /\ Rests(v)[i - 1] \in Nat
         /\ VarintByte(Rests(v)[i - 1]) \in Byte
         /\ VarintByte(Rests(v)[i - 1]) % Radix = Rests(v)[i - 1] % Radix
         /\ VarintByte(Rests(v)[i - 1]) < Radix <=> i = Size(v)
<1>0. v \in Nat /\ MaxVarintBytes \in Nat \ {0} /\ Radix \in Nat \ {0, 1}
  BY WireAssumption
<1>1. Size(v) \in 1..MaxVarintBytes BY SizeIs
<1>2. i - 1 \in 0..MaxVarintBytes /\ i \in 1..MaxVarintBytes BY <1>0, <1>1
<1>3. PICK a \in Nat : a = Rests(v)[i - 1] BY <1>0, <1>2, RestsAre
<1>4. Rests(v)[i] = a \div Radix BY <1>0, <1>2, <1>3, RestsAre
<1>5. a \div Radix = 0 <=> i = Size(v)
  <2>1. CASE i = Size(v) BY <1>4, <2>1, SizeIs
  <2>2. CASE i # Size(v)
    <3>1. i \in 1..(Size(v) - 1) BY <1>1, <2>2
    <3>2. QED BY <1>4, <2>2, <3>1, SizeIs
  <2>3. QED BY <2>1, <2>2
<1>6. \A R \in Nat \ {0, 1}, x \in Nat :
        /\ x \div R = 0 <=> x < R
        /\ x % R \in 0..(R - 1)
        /\ (R + (x % R)) % R = x % R /\ (x % R) % R = x % R
  <2> SUFFICES ASSUME NEW R \in Nat \ {0, 1}, NEW x \in Nat
               PROVE  /\ x \div R = 0 <=> x < R
                      /\ x % R \in 0..(R - 1)
                      /\ (R + (x % R)) % R = x % R /\ (x % R) % R = x % R
    OBVIOUS
  <2>1. x \div R = 0 <=> x < R OBVIOUS
  <2>2. x % R \in 0..(R - 1) OBVIOUS
  <2>3. PICK d \in 0..(R - 1) : d = x % R BY <2>2
  <2>4. d % R = d /\ (R + d) % R = d OBVIOUS
  <2>5. QED BY <2>1, <2>3, <2>4
<1>7. VarintByte(a) = IF a < Radix THEN a % Radix ELSE Radix + (a % Radix)
  BY <1>0 DEF VarintByte
<1>8. /\ a \div Radix = 0 <=> a < Radix
      /\ a % Radix \in 0..(Radix - 1)
      /\ (Radix + (a % Radix)) % Radix = a % Radix /\ (a % Radix) % Radix = a % Radix
  BY <1>0, <1>6
<1>9. QED
  <2>1. PICK d \in 0..(Radix - 1) : d = a % Radix BY <1>8
  <2>2. CASE a < Radix BY <1>0, <1>3, <1>5, <1>7, <1>8, <2>1, <2>2 DEF Byte
  <2>3. CASE ~(a < Radix) BY <1>0, <1>3, <1>5, <1>7, <1>8, <2>1, <2>3 DEF Byte
  <2>4. QED BY <2>2, <2>3

(* The same for a read: which byte it ends with, whether it succeeds, how    *)
(* many bytes it adds up, and their sums.                                   *)
LastByte(start) ==
  LeastOf({i \in 0..(MaxVarintBytes - 1) :
             ~MoreAfter(start + i) \/ ReadByte(start + i) < Radix}
          \cup {MaxVarintBytes})

Succeeds(start) == LastByte(start) < MaxVarintBytes /\ MoreAfter(start + LastByte(start))

Taken(start) == IF Succeeds(start) THEN LastByte(start) + 1 ELSE LastByte(start)

IsSums(f, start, size) ==
  f = [i \in 0..size |->
         IF i = 0 THEN 0 ELSE f[i - 1] + Shifted(ReadByte(start + i - 1), i - 1)]

Sums(start, size) == CHOOSE f : IsSums(f, start, size)

(* ReadVarint64 in those words. *)
LEMMA ReadVarint64Is ==
  ASSUME NEW start
  PROVE  /\ ReadVarint64(start).ok = Succeeds(start)
         /\ ReadVarint64(start).value = Sums(start, Taken(start))[Taken(start)]
         /\ ReadVarint64(start).index =
              IF LastByte(start) = MaxVarintBytes THEN start + LastByte(start)
              ELSE start + LastByte(start) + 1
<1>1. ReadVarint64(start) =
        [ok |-> Succeeds(start),
         value |-> Sums(start, Taken(start))[Taken(start)],
         index |-> IF LastByte(start) = MaxVarintBytes THEN start + LastByte(start)
                   ELSE start + LastByte(start) + 1]
  BY Zenon DEF ReadVarint64, LastByte, Succeeds, Taken, Sums, IsSums
<1>2. QED BY <1>1

(* Shifted bits are a number. *)
LEMMA ShiftedIs ==
  ASSUME NEW byte \in Byte, NEW i \in 0..MaxVarintBytes
  PROVE  Shifted(byte, i) \in Nat
<1>1. PICK w \in Nat : w = Weight[i] BY WeightIs
<1>2. PICK d \in Nat : d = byte % Radix BY WireAssumption DEF Byte
<1>3. PICK x \in Nat : x = d * w BY Products
<1>4. Limit \in Nat \ {0} BY WireAssumption
<1>5. x % Limit \in Nat BY <1>4
<1>6. QED BY <1>1, <1>2, <1>3, <1>5 DEF Shifted

(* What the first i bytes add up to. *)
LEMMA SumsAre ==
  ASSUME buffer \in Seq(Byte), NEW start \in Nat, NEW size \in 0..MaxVarintBytes,
         start + size <= Len(buffer)
  PROVE  /\ Sums(start, size) \in [0..size -> Nat]
         /\ Sums(start, size)[0] = 0
         /\ \A i \in 1..size : Sums(start, size)[i] =
              Sums(start, size)[i - 1] + Shifted(ReadByte(start + i - 1), i - 1)
<1>1. PICK part \in [1..size -> Nat] :
        \A i \in 1..size : part[i] = Shifted(ReadByte(start + i - 1), i - 1)
  <2>1. ASSUME NEW i \in 1..size PROVE Shifted(ReadByte(start + i - 1), i - 1) \in Nat
    <3>1. i - 1 \in 0..MaxVarintBytes /\ (start + i - 1) + 1 \in 1..Len(buffer)
      BY WireAssumption
    <3>2. ReadByte(start + i - 1) \in Byte BY <3>1 DEF ReadByte
    <3>3. QED BY <3>1, <3>2, ShiftedIs
  <2> DEFINE p == [i \in 1..size |-> Shifted(ReadByte(start + i - 1), i - 1)]
  <2>2. p \in [1..size -> Nat] BY <2>1
  <2>3. \A i \in 1..size : p[i] = Shifted(ReadByte(start + i - 1), i - 1) OBVIOUS
  <2> HIDE DEF p
  <2>4. QED BY <2>2, <2>3
<1> DEFINE step == [i \in 1..size |-> [x \in Nat |-> x + part[i]]]
<1>2. PICK f : Follows(f, size, Nat, 0, step)
  <2>1. IsStep(step, size, Nat) BY <1>1 DEF IsStep
  <2> HIDE DEF step
  <2>2. size \in Nat BY WireAssumption
  <2>3. QED BY <2>1, <2>2, Recursion
<1>3. /\ f \in [0..size -> Nat]
      /\ f[0] = 0 /\ \A i \in 1..size : f[i] = step[i][f[i - 1]]
  BY <1>2, Zenon DEF Follows
<1>4. \A i \in 1..size : f[i] = f[i - 1] + part[i]
  <2>1. \A i \in 1..size : i - 1 \in 0..size BY WireAssumption
  <2>2. \A i \in 1..size : f[i - 1] \in Nat BY <1>3, <2>1
  <2>3. \A i \in 1..size : \A x \in Nat : step[i][x] = x + part[i] BY <1>1
  <2> HIDE DEF step
  <2>4. QED BY <1>3, <2>2, <2>3
<1>5. IsSums(f, start, size)
  <2>1. \A i \in 0..size : f[i] =
          IF i = 0 THEN 0 ELSE f[i - 1] + Shifted(ReadByte(start + i - 1), i - 1)
    <3>1. \A i \in 0..size : i = 0 \/ i \in 1..size OBVIOUS
    <3> HIDE DEF step
    <3>2. QED BY <1>1, <1>3, <1>4, <3>1, Zenon
  <2>2. QED BY <1>3, <2>1 DEF IsSums
<1>6. IsSums(Sums(start, size), start, size) BY <1>5, Zenon DEF Sums
<1>7. PICK g : g = Sums(start, size) /\ IsSums(g, start, size) BY <1>6
<1>8. \A i \in 0..size : g[i] =
        IF i = 0 THEN 0 ELSE g[i - 1] + Shifted(ReadByte(start + i - 1), i - 1)
  BY <1>7 DEF IsSums
<1>9. /\ g[0] = 0
      /\ \A i \in 1..size : g[i] = g[i - 1] + Shifted(ReadByte(start + i - 1), i - 1)
  BY <1>8, WireAssumption
<1>10. g \in [0..size -> Nat]
  <2>1. g = [i \in 0..size |-> g[i]] BY <1>7, <1>8 DEF IsSums
  <2>2. \A i \in 1..size : g[i - 1] \in Nat => g[i] \in Nat BY <1>1, <1>9
  <2>3. size \in Nat BY WireAssumption
  <2>4. g[0] \in Nat BY <1>9
  <2>5. QED BY <2>1, <2>2, <2>3, <2>4, Values, Zenon
<1>11. QED BY <1>7, <1>9, <1>10

(* The bytes of v are in the buffer, from m_index = start on. *)
HoldsNumber(start, v) ==
  /\ start + Size(v) <= Len(buffer)
  /\ \A i \in 1..Size(v) : buffer[start + i] = VarintByte(Rests(v)[i - 1])

(* The loop reads the bytes that the number has. *)
LEMMA BytesRead ==
  ASSUME buffer \in Seq(Byte), NEW v \in 0..(Limit - 1), NEW start \in Nat,
         HoldsNumber(start, v), NEW i \in 1..Size(v)
  PROVE  /\ ReadByte(start + i - 1) = VarintByte(Rests(v)[i - 1])
         /\ MoreAfter(start + i - 1) <=> start + i < Len(buffer)
<1>1. Size(v) \in Nat /\ i \in Nat BY SizeIs, WireAssumption
<1>2. (start + i - 1) + 1 = start + i BY <1>1
<1>3. QED BY <1>2 DEF HoldsNumber, ReadByte, MoreAfter

(* What i bytes add up to is what they have taken of the number. *)
LEMMA SumTo ==
  ASSUME buffer \in Seq(Byte), NEW v \in 0..(Limit - 1), NEW start \in Nat,
         HoldsNumber(start, v), NEW size \in 0..Size(v)
  PROVE  \A i \in 0..size : Sums(start, size)[i] + (Rests(v)[i] * Weight[i]) = v
<1>0. /\ v \in Nat /\ MaxVarintBytes \in Nat \ {0} /\ Radix \in Nat \ {0, 1}
      /\ Size(v) \in 1..MaxVarintBytes /\ Limit \in Nat \ {0}
  BY SizeIs, WireAssumption
<1>1. PICK s : s = Sums(start, size) OBVIOUS
<1>2. /\ s \in [0..size -> Nat] /\ s[0] = 0
      /\ \A i \in 1..size : s[i] = s[i - 1] + Shifted(ReadByte(start + i - 1), i - 1)
  <2>1. size \in 0..MaxVarintBytes /\ start + size <= Len(buffer)
    BY <1>0 DEF HoldsNumber
  <2>2. QED BY <1>1, <2>1, SumsAre
<1>3. PICK r, w : r = Rests(v) /\ w = Weight OBVIOUS
<1>4. /\ r \in [0..MaxVarintBytes -> Nat] /\ r[0] = v
      /\ \A i \in 1..MaxVarintBytes : r[i] = r[i - 1] \div Radix
  BY <1>0, <1>3, RestsAre
<1>5. /\ w \in [0..MaxVarintBytes -> Nat \ {0}] /\ w[0] = 1
      /\ \A i \in 1..MaxVarintBytes : w[i] = Radix * w[i - 1]
  BY <1>3, WeightIs
<1> DEFINE S == {i \in 0..size : s[i] + (r[i] * w[i]) = v}
<1>6. 0 \in S BY <1>0, <1>2, <1>4, <1>5
<1>7. ASSUME NEW i \in 1..size, i - 1 \in S PROVE i \in S
  <2>0. i \in 1..Size(v) /\ i \in 1..MaxVarintBytes /\ i - 1 \in 0..MaxVarintBytes
        /\ i - 1 \in 0..size
    BY <1>0
  <2>1. PICK a \in Nat, b \in Nat \ {0}, c \in Nat :
          a = r[i - 1] /\ b = w[i - 1] /\ c = s[i - 1]
    BY <1>2, <1>4, <1>5, <2>0
  <2>2. r[i] = a \div Radix /\ w[i] = Radix * b BY <1>4, <1>5, <2>0, <2>1
  <2>3. /\ ((a % Radix) * b) + ((a \div Radix) * (Radix * b)) = a * b
        /\ (a % Radix) * b \in Nat /\ (a \div Radix) * (Radix * b) \in Nat
    BY <1>0, DigitStep
  <2>4. PICK x \in Nat, y \in Nat :
          x = (a % Radix) * b /\ y = (a \div Radix) * (Radix * b)
    BY <2>3
  <2>5. c + (x + y) = v BY <1>7, <2>1, <2>3, <2>4
  <2>6. Shifted(ReadByte(start + i - 1), i - 1) = x
    <3>1. ReadByte(start + i - 1) % Radix = a % Radix
      BY <1>3, <2>0, <2>1, BytesRead, BytesAre
    <3>2. Shifted(ReadByte(start + i - 1), i - 1) = x % Limit
      BY <1>3, <2>1, <2>4, <3>1 DEF Shifted
    <3>3. x < Limit BY <1>0, <2>5
    <3>4. x % Limit = x BY <1>0, <3>3
    <3>5. QED BY <3>2, <3>4
  <2>7. s[i] = c + x BY <1>2, <2>1, <2>6
  <2>8. r[i] * w[i] = y BY <2>2, <2>4
  <2>9. s[i] + (r[i] * w[i]) = v BY <2>5, <2>7, <2>8
  <2>10. QED BY <2>9
<1>8. \A i \in 0..size : i \in S
  <2> HIDE DEF S
  <2>1. size \in Nat BY <1>0
  <2>2. QED BY <1>6, <1>7, <2>1, Induction
<1>9. QED BY <1>1, <1>3, <1>8

(* A number that is in the buffer is read, unless it ends it. *)
LEMMA NumberRead ==
  ASSUME buffer \in Seq(Byte), NEW v \in 0..(Limit - 1), NEW start \in Nat,
         HoldsNumber(start, v)
  PROVE  /\ ReadVarint64(start).index = start + Size(v)
         /\ ReadVarint64(start).ok \in BOOLEAN
         /\ ReadVarint64(start).ok <=> start + Size(v) < Len(buffer)
         /\ ReadVarint64(start).ok => ReadVarint64(start).value = v
<1>0. /\ MaxVarintBytes \in Nat \ {0}
      /\ Size(v) \in 1..MaxVarintBytes /\ Rests(v)[Size(v)] = 0
      /\ Len(buffer) \in Nat
  BY SizeIs, WireAssumption
<1>1. PICK n \in 1..MaxVarintBytes : n = Size(v) BY <1>0
<1> DEFINE T == {i \in 0..(MaxVarintBytes - 1) :
                   ~MoreAfter(start + i) \/ ReadByte(start + i) < Radix}
                \cup {MaxVarintBytes}
<1>2. \A i \in 0..(n - 1) :
        /\ MoreAfter(start + i) <=> start + (i + 1) < Len(buffer)
        /\ ReadByte(start + i) < Radix <=> i + 1 = n
  <2> SUFFICES ASSUME NEW i \in 0..(n - 1)
               PROVE  /\ MoreAfter(start + i) <=> start + (i + 1) < Len(buffer)
                      /\ ReadByte(start + i) < Radix <=> i + 1 = n
    OBVIOUS
  <2>1. PICK k \in 1..Size(v) : k = i + 1 BY <1>0, <1>1
  <2>2. start + k - 1 = start + i BY <1>0, <2>1
  <2>3. /\ ReadByte(start + i) = VarintByte(Rests(v)[k - 1])
        /\ MoreAfter(start + i) <=> start + k < Len(buffer)
    BY <2>2, BytesRead
  <2>4. QED BY <1>1, <2>1, <2>3, BytesAre
<1>3. LastByte(start) = n - 1
  <2>1. n - 1 \in T
    <3>1. n - 1 \in 0..(n - 1) /\ n - 1 \in 0..(MaxVarintBytes - 1) /\ (n - 1) + 1 = n
      BY <1>0
    <3>2. ReadByte(start + (n - 1)) < Radix BY <1>2, <3>1
    <3>3. QED BY <3>1, <3>2
  <2>2. \A m \in T : n - 1 <= m
    <3> SUFFICES ASSUME NEW m \in T, m < n - 1 PROVE FALSE
      BY <1>0
    <3>1. m \in 0..(n - 1) /\ m + 1 # n BY <1>0
    <3>2. start + (m + 1) < Len(buffer)
      <4>1. start + n <= Len(buffer) BY <1>1 DEF HoldsNumber
      <4>2. QED BY <1>0, <3>1, <4>1
    <3>3. MoreAfter(start + m) /\ ~(ReadByte(start + m) < Radix) BY <1>2, <3>1, <3>2
    <3>4. QED BY <1>0, <3>1, <3>3
  <2>3. T \subseteq Nat /\ T # {} BY <1>0
  <2>4. LastByte(start) = LeastOf(T) BY DEF LastByte
  <2>5. LastByte(start) \in T /\ \A m \in T : LastByte(start) <= m
    <3> HIDE DEF T
    <3>1. QED BY <2>3, <2>4, LeastIs
  <2> HIDE DEF T
  <2>6. LastByte(start) <= n - 1 /\ n - 1 <= LastByte(start) /\ LastByte(start) \in Nat
    BY <2>1, <2>2, <2>3, <2>5
  <2>7. QED BY <1>1, <2>6
<1>4. Succeeds(start) <=> start + n < Len(buffer)
  <2>1. n - 1 \in 0..(n - 1) /\ n - 1 < MaxVarintBytes /\ (n - 1) + 1 = n BY <1>0
  <2>2. MoreAfter(start + (n - 1)) <=> start + n < Len(buffer) BY <1>2, <2>1
  <2>3. QED BY <1>3, <2>1, <2>2 DEF Succeeds
<1>5. ReadVarint64(start).index = start + n
  <2>1. n - 1 # MaxVarintBytes /\ start + (n - 1) + 1 = start + n BY <1>0
  <2>2. QED BY <1>3, <2>1, ReadVarint64Is
<1>6. ASSUME Succeeds(start) PROVE ReadVarint64(start).value = v
  <2>1. Taken(start) = n BY <1>0, <1>3, <1>6 DEF Taken
  <2>2. ReadVarint64(start).value = Sums(start, n)[n] BY <2>1, ReadVarint64Is
  <2>3. n \in 0..Size(v) /\ n \in 0..n /\ n \in 0..MaxVarintBytes BY <1>0, <1>1
  <2>4. Sums(start, n)[n] + (Rests(v)[n] * Weight[n]) = v BY <2>3, SumTo
  <2>5. Rests(v)[n] * Weight[n] = 0
    <3>1. Rests(v)[n] = 0 /\ Weight[n] \in Nat BY <1>0, <1>1, <2>3, WeightIs
    <3>2. QED BY <3>1
  <2>6. Sums(start, n)[n] \in Nat
    <3>1. start + n <= Len(buffer) BY <1>1 DEF HoldsNumber
    <3>2. QED BY <2>3, <3>1, SumsAre
  <2>7. QED BY <2>2, <2>4, <2>5, <2>6
<1>7. QED
  <2>1. ReadVarint64(start).ok = Succeeds(start) BY ReadVarint64Is
  <2>2. Succeeds(start) \in BOOLEAN BY DEF Succeeds
  <2>3. QED BY <1>1, <1>4, <1>5, <1>6, <2>1, <2>2

-------------------------------------------------------------------------------
(* Fields. *)

(* A function on 1..n is a sequence of n elements. *)
LEMMA FunctionIsSeq ==
  ASSUME NEW n \in Nat, NEW S, NEW f \in [1..n -> S]
  PROVE  f \in Seq(S) /\ Len(f) = n
OBVIOUS

(* The bytes of a number are one or more. *)
LEMMA NumberBytes ==
  ASSUME NEW v \in 0..(Limit - 1)
  PROVE  /\ VarintBytes(v) \in Seq(Byte) /\ Len(VarintBytes(v)) = Size(v)
         /\ \A i \in 1..Size(v) : VarintBytes(v)[i] = VarintByte(Rests(v)[i - 1])
<1>1. v \in Nat /\ Size(v) \in Nat BY SizeIs, WireAssumption
<1>2. VarintBytes(v) = [i \in 1..Size(v) |-> VarintByte(Rests(v)[i - 1])]
  BY <1>1, VarintBytesAre
<1>3. \A i \in 1..Size(v) : VarintByte(Rests(v)[i - 1]) \in Byte BY BytesAre
<1>4. VarintBytes(v) \in [1..Size(v) -> Byte] BY <1>2, <1>3
<1>5. QED BY <1>1, <1>2, <1>4, FunctionIsSeq

(* A field has a number or a text. *)
LEMMA FieldIs ==
  ASSUME NEW field \in AnyField
  PROVE  \/ /\ field.kind = "number" /\ field.value \in 0..(Limit - 1)
            /\ FieldBytes(field) = VarintBytes(field.value)
         \/ /\ field.kind = "string" /\ field.value \in Seq(Byte)
            /\ Len(field.value) \in 0..(Limit - 1) /\ Len(field.value) <= MaxLength
            /\ FieldBytes(field) = VarintBytes(Len(field.value)) \o field.value
<1>1. CASE field \in [kind : {"number"}, value : 0..(Limit - 1)]
  BY <1>1 DEF FieldBytes
<1>2. CASE field \in [kind : {"string"}, value : Texts]
  <2>1. field.kind = "string" /\ field.value \in Texts BY <1>2
  <2>2. field.value \in Seq(Byte) /\ Len(field.value) <= MaxLength BY <2>1 DEF Texts
  <2>3. Len(field.value) \in Nat BY <2>2, LenProperties
  <2>4. Len(field.value) \in 0..(Limit - 1) BY <2>2, <2>3, WireAssumption
  <2>5. QED BY <2>1, <2>2, <2>4 DEF FieldBytes
<1>3. QED BY <1>1, <1>2 DEF AnyField

(* The bytes of a field are one or more. *)
LEMMA FieldBytesAre ==
  ASSUME NEW field \in AnyField
  PROVE  FieldBytes(field) \in Seq(Byte) /\ Len(FieldBytes(field)) \in Nat \ {0}
<1>1. CASE field.kind = "number"
  <2>1. field.value \in 0..(Limit - 1) /\ FieldBytes(field) = VarintBytes(field.value)
    BY <1>1, FieldIs
  <2>2. QED BY <2>1, NumberBytes, SizeIs
<1>2. CASE field.kind = "string"
  <2>1. PICK n \in 0..(Limit - 1), s \in Seq(Byte) :
          FieldBytes(field) = VarintBytes(n) \o s
    BY <1>2, FieldIs
  <2>2. VarintBytes(n) \in Seq(Byte) /\ Len(VarintBytes(n)) \in Nat \ {0}
    BY NumberBytes, SizeIs
  <2>3. Len(s) \in Nat BY LenProperties
  <2>4. QED BY <2>1, <2>2, <2>3, ConcatProperties
<1>3. QED BY <1>1, <1>2, FieldIs

(* The bytes of a field are in the buffer, from m_index = start on. *)
Holds(start, field) ==
  /\ start + Len(FieldBytes(field)) <= Len(buffer)
  /\ \A i \in 1..Len(FieldBytes(field)) : buffer[start + i] = FieldBytes(field)[i]

FieldRead(start, kind) == IF kind = "number" THEN ReadVarint64(start) ELSE ReadString(start)

(* Every field is read back, and the next read starts after it. *)
LEMMA FieldReadBack ==
  ASSUME buffer \in Seq(Byte), NEW field \in AnyField, NEW start \in Nat, Holds(start, field)
  PROVE  LET r == FieldRead(start, field.kind)
             end == start + Len(FieldBytes(field))
         IN /\ r.index = end
            /\ r.ok \in BOOLEAN /\ (r.ok <=> end < Len(buffer))
            /\ r.ok \/ field.kind = "string" => r.value = field.value
<1>0. Len(buffer) \in Nat BY LenProperties
<1>1. CASE field.kind = "number"
  <2>1. field.value \in 0..(Limit - 1) /\ FieldBytes(field) = VarintBytes(field.value)
    BY <1>1, FieldIs
  <2>2. PICK v \in 0..(Limit - 1) : v = field.value BY <2>1
  <2>3. HoldsNumber(start, v) /\ Len(FieldBytes(field)) = Size(v)
    <3>1. /\ VarintBytes(v) \in Seq(Byte) /\ Len(VarintBytes(v)) = Size(v)
          /\ \A i \in 1..Size(v) : VarintBytes(v)[i] = VarintByte(Rests(v)[i - 1])
      BY NumberBytes
    <3>2. FieldBytes(field) = VarintBytes(v) BY <2>1, <2>2, Zenon
    <3>3. Len(FieldBytes(field)) = Size(v) BY <3>1, <3>2, Zenon
    <3>4. start + Size(v) <= Len(buffer) BY <3>3 DEF Holds
    <3>5. ASSUME NEW i \in 1..Size(v)
          PROVE  buffer[start + i] = VarintByte(Rests(v)[i - 1])
      <4>1. buffer[start + i] = FieldBytes(field)[i] BY <3>3, Zenon DEF Holds
      <4>2. FieldBytes(field)[i] = VarintByte(Rests(v)[i - 1]) BY <3>1, <3>2, Zenon
      <4>3. QED BY <4>1, <4>2, Zenon
    <3>6. QED BY <3>3, <3>4, <3>5, Zenon DEF HoldsNumber
  <2>4. FieldRead(start, field.kind) = ReadVarint64(start) BY <1>1 DEF FieldRead
  <2>5. QED BY <1>1, <2>2, <2>3, <2>4, NumberRead
<1>2. CASE field.kind = "string"
  <2>1. PICK s \in Seq(Byte), n \in 0..(Limit - 1) :
          /\ s = field.value /\ n = Len(s) /\ n <= MaxLength
          /\ FieldBytes(field) = VarintBytes(n) \o s
    BY <1>2, FieldIs
  <2>2. PICK k \in Nat : k = Size(n) BY SizeIs, WireAssumption
  <2>3. n \in Nat /\ MaxLength \in Nat BY WireAssumption
  <2>4. /\ VarintBytes(n) \in Seq(Byte) /\ Len(VarintBytes(n)) = k
        /\ \A i \in 1..k : VarintBytes(n)[i] = VarintByte(Rests(n)[i - 1])
    BY <2>2, NumberBytes
  <2>5. /\ Len(FieldBytes(field)) = k + n
        /\ \A i \in 1..k : FieldBytes(field)[i] = VarintBytes(n)[i]
        /\ \A i \in 1..n : FieldBytes(field)[k + i] = s[i]
    <3>a. PICK u \in Seq(Byte) : u = VarintBytes(n) /\ Len(u) = k BY <2>4
    <3>b. /\ Len(u \o s) = Len(u) + Len(s)
          /\ \A i \in 1..(Len(u) + Len(s)) : (u \o s)[i] =
                IF i <= Len(u) THEN u[i] ELSE s[i - Len(u)]
      BY ConcatProperties
    <3>c. PICK bytes : bytes = FieldBytes(field) OBVIOUS
    <3>d. bytes = u \o s BY <2>1, <3>a, <3>c
    <3>1. /\ Len(bytes) = k + n
          /\ \A i \in 1..(k + n) : bytes[i] = IF i <= k THEN u[i] ELSE s[i - k]
      BY <2>1, <3>a, <3>b, <3>d
    <3>2. \A i \in 1..k : i \in 1..(k + n) /\ i <= k BY <2>3
    <3>3. \A i \in 1..n : k + i \in 1..(k + n) /\ ~(k + i <= k) /\ (k + i) - k = i
      BY <2>3
    <3>4. /\ \A i \in 1..k : bytes[i] = u[i]
          /\ \A i \in 1..n : bytes[k + i] = s[i]
      BY <3>1, <3>2, <3>3
    <3>5. QED BY <3>a, <3>c, <3>1, <3>4
  <2>6. /\ start + (k + n) <= Len(buffer)
        /\ \A i \in 1..k : buffer[start + i] = VarintByte(Rests(n)[i - 1])
        /\ \A i \in 1..n : buffer[start + (k + i)] = s[i]
    <3>1. \A i \in 1..k : i \in 1..(k + n) BY <2>3
    <3>2. \A i \in 1..n : k + i \in 1..(k + n) BY <2>3
    <3>3. QED BY <2>4, <2>5, <3>1, <3>2 DEF Holds
  <2>7. HoldsNumber(start, n) BY <1>0, <2>2, <2>3, <2>6 DEF HoldsNumber
  <2>8. PICK length : length = ReadVarint64(start) OBVIOUS
  <2>9. /\ length.index = start + k /\ (length.ok <=> start + k < Len(buffer))
        /\ length.ok => length.value = n
    BY <2>2, <2>7, <2>8, NumberRead
  <2>10. FieldRead(start, field.kind) =
           IF ~length.ok \/ length.value > MaxLength
           THEN [ok |-> FALSE, value |-> <<>>, index |-> length.index]
           ELSE [ok |-> length.index + length.value < Len(buffer),
                 value |-> SubSeq(buffer, length.index + 1, length.index + length.value),
                 index |-> length.index + length.value]
    BY <1>2, <2>8 DEF FieldRead, ReadString
  <2>11. CASE ~length.ok
    <3>1. n = 0 /\ start + k = Len(buffer)
      <4>1. ~(start + k < Len(buffer)) BY <2>9, <2>11
      <4>2. start + (k + n) <= Len(buffer) BY <2>6
      <4>3. QED BY <1>0, <2>3, <4>1, <4>2
    <3>2. s = <<>> BY <2>1, <3>1, EmptySeq
    <3>3. PICK r : r = FieldRead(start, field.kind) OBVIOUS
    <3>4. r = [ok |-> FALSE, value |-> <<>>, index |-> start + k]
      BY <2>9, <2>10, <2>11, <3>3
    <3>5. start + (k + n) = start + k /\ ~(start + k < Len(buffer)) BY <1>0, <3>1
    <3>6. PICK end : end = start + Len(FieldBytes(field)) OBVIOUS
    <3>7. end = start + k /\ (end < Len(buffer)) = FALSE BY <2>5, <3>5, <3>6
    <3>8. r.index = end /\ r.ok = FALSE /\ r.value = s BY <3>2, <3>4, <3>7
    <3>9. QED BY <2>1, <3>3, <3>6, <3>7, <3>8
  <2>12. CASE length.ok
    <3>1. ~(length.value > MaxLength) /\ length.value = n BY <2>1, <2>3, <2>9, <2>12
    <3>2. FieldRead(start, field.kind) =
            [ok |-> start + k + n < Len(buffer),
             value |-> SubSeq(buffer, start + k + 1, start + k + n),
             index |-> start + k + n]
      BY <2>9, <2>10, <2>12, <3>1
    <3>3. SubSeq(buffer, start + k + 1, start + k + n) = s
      <4>1. /\ start + k + 1 \in Int /\ start + k + n \in Int
            /\ \A i \in (start + k + 1)..(start + k + n) : buffer[i] \in Byte
        BY <1>0, <2>3, <2>6
      <4>2. PICK t : t = SubSeq(buffer, start + k + 1, start + k + n) OBVIOUS
      <4>3. PICK a \in Int, b \in Int : a = start + k + 1 /\ b = start + k + n BY <4>1
      <4>4. /\ t \in Seq(Byte)
            /\ Len(t) = IF a <= b THEN b - a + 1 ELSE 0
            /\ \A i \in 1..(b - a + 1) : t[i] = buffer[a + i - 1]
        BY <4>1, <4>2, <4>3, SubSeqProperties
      <4>5. Len(t) = n BY <2>3, <4>3, <4>4
      <4>6. \A i \in 1..n : i \in 1..(b - a + 1) /\ a + i - 1 = start + (k + i)
        BY <2>3, <4>3
      <4>7. \A i \in 1..n : t[i] = s[i] BY <2>6, <4>4, <4>6
      <4>8. QED BY <2>1, <4>2, <4>4, <4>5, <4>7, SeqEqual
    <3>4. start + k + n = start + (k + n) BY <2>3
    <3>5. PICK r : r = FieldRead(start, field.kind) OBVIOUS
    <3>6. r = [ok |-> start + (k + n) < Len(buffer), value |-> s, index |-> start + (k + n)]
      BY <3>2, <3>3, <3>4, <3>5
    <3>7. PICK end : end = start + Len(FieldBytes(field)) OBVIOUS
    <3>8. r = [ok |-> end < Len(buffer), value |-> s, index |-> end]
      BY <2>5, <3>6, <3>7, Zenon
    <3>9. (end < Len(buffer)) \in BOOLEAN OBVIOUS
    <3>10. r.index = end /\ r.value = s /\ r.ok \in BOOLEAN /\ (r.ok <=> end < Len(buffer))
      BY <3>8, <3>9
    <3>11. QED BY <2>1, <3>5, <3>7, <3>10, Zenon
  <2>13. QED BY <2>11, <2>12
<1>3. QED BY <1>1, <1>2, FieldIs

-------------------------------------------------------------------------------
(* Packets. *)

(* Bytes(fields)[n] are the bytes of the first n fields. *)
IsBytes(f, fields) ==
  f = [n \in 0..Len(fields) |-> IF n = 0 THEN <<>> ELSE f[n - 1] \o FieldBytes(fields[n])]

Bytes(fields) == CHOOSE f : IsBytes(f, fields)

(* Bytes adds those of each field to those before. *)
LEMMA BytesOfFields ==
  ASSUME NEW fields \in Seq(AnyField)
  PROVE  /\ Bytes(fields) \in [0..Len(fields) -> Seq(Byte)]
         /\ Bytes(fields)[0] = <<>>
         /\ \A n \in 1..Len(fields) :
              Bytes(fields)[n] = Bytes(fields)[n - 1] \o FieldBytes(fields[n])
<1>1. PICK N \in Nat : N = Len(fields) BY LenProperties
<1>2. PICK part \in [1..N -> Seq(Byte)] : \A n \in 1..N : part[n] = FieldBytes(fields[n])
  <2>1. ASSUME NEW n \in 1..N PROVE FieldBytes(fields[n]) \in Seq(Byte)
    <3>1. fields[n] \in AnyField BY <1>1, ElementOfSeq
    <3>2. QED BY <3>1, FieldBytesAre
  <2> DEFINE p == [n \in 1..N |-> FieldBytes(fields[n])]
  <2>2. p \in [1..N -> Seq(Byte)] BY <2>1
  <2>3. \A n \in 1..N : p[n] = FieldBytes(fields[n]) OBVIOUS
  <2> HIDE DEF p
  <2>4. QED BY <2>2, <2>3
<1>3. \A x, y \in Seq(Byte) : x \o y \in Seq(Byte) BY ConcatProperties
<1>4. <<>> \in Seq(Byte) BY EmptySeq
<1> DEFINE step == [n \in 1..N |-> [x \in Seq(Byte) |-> x \o part[n]]]
<1>5. PICK f : Follows(f, N, Seq(Byte), <<>>, step)
  <2>1. IsStep(step, N, Seq(Byte)) BY <1>2, <1>3 DEF IsStep
  <2> HIDE DEF step
  <2>2. QED BY <1>4, <2>1, Recursion
<1>6. /\ f \in [0..N -> Seq(Byte)]
      /\ f[0] = <<>> /\ \A n \in 1..N : f[n] = step[n][f[n - 1]]
  BY <1>5, Zenon DEF Follows
<1>7. \A n \in 1..N : f[n] = f[n - 1] \o FieldBytes(fields[n])
  <2>1. \A n \in 1..N : n - 1 \in 0..N OBVIOUS
  <2>2. \A n \in 1..N : f[n - 1] \in Seq(Byte) BY <1>6, <2>1
  <2>3. ASSUME NEW n \in 1..N, NEW x \in Seq(Byte) PROVE step[n][x] = x \o part[n]
    <3>1. step[n] = [y \in Seq(Byte) |-> y \o part[n]] BY Zenon
    <3> HIDE DEF step
    <3>2. QED BY <3>1
  <2> HIDE DEF step
  <2>4. ASSUME NEW n \in 1..N PROVE f[n] = f[n - 1] \o FieldBytes(fields[n])
    <3>1. f[n] = step[n][f[n - 1]] BY <1>6, Zenon
    <3>2. step[n][f[n - 1]] = f[n - 1] \o part[n] BY <2>2, <2>3, Zenon
    <3>3. part[n] = FieldBytes(fields[n]) BY <1>2, Zenon
    <3>4. QED BY <3>1, <3>2, <3>3, Zenon
  <2>5. QED BY <2>4, Zenon
<1>8. IsBytes(f, fields)
  <2>1. \A n \in 0..N : f[n] = IF n = 0 THEN <<>> ELSE f[n - 1] \o FieldBytes(fields[n])
    <3>1. \A n \in 0..N : n = 0 \/ n \in 1..N OBVIOUS
    <3> HIDE DEF step
    <3>2. QED BY <1>6, <1>7, <3>1, Zenon
  <2>2. QED BY <1>1, <1>6, <2>1 DEF IsBytes
<1>9. IsBytes(Bytes(fields), fields) BY <1>8, Zenon DEF Bytes
<1>10. PICK g : g = Bytes(fields) /\ IsBytes(g, fields) BY <1>9
<1>11. \A n \in 0..N : g[n] = IF n = 0 THEN <<>> ELSE g[n - 1] \o FieldBytes(fields[n])
  BY <1>1, <1>10 DEF IsBytes
<1>12. g[0] = <<>> /\ \A n \in 1..N : g[n] = g[n - 1] \o FieldBytes(fields[n])
  <2>1. 0 \in 0..N /\ \A n \in 1..N : n \in 0..N /\ n # 0 OBVIOUS
  <2>2. QED BY <1>11, <2>1, Zenon
<1>13. g \in [0..N -> Seq(Byte)]
  <2>1. g = [n \in 0..N |-> g[n]] BY <1>1, <1>10, <1>11 DEF IsBytes
  <2>2. \A n \in 1..N : g[n - 1] \in Seq(Byte) => g[n] \in Seq(Byte)
    BY <1>2, <1>3, <1>12
  <2>3. g[0] \in Seq(Byte) BY <1>4, <1>12
  <2>4. QED BY <2>1, <2>2, <2>3, Values, Zenon
<1>14. QED BY <1>1, <1>10, <1>12, <1>13

(* PacketBytes are those of all fields. *)
LEMMA PacketBytesAre ==
  ASSUME NEW fields
  PROVE  PacketBytes(fields) = Bytes(fields)[Len(fields)]
BY Zenon DEF PacketBytes, Bytes, IsBytes

(* Packets that begin with the same fields begin with the same bytes. *)
LEMMA SameBeginning ==
  ASSUME NEW x \in Seq(AnyField), NEW y \in Seq(AnyField), NEW n \in Nat,
         n <= Len(x), n <= Len(y), \A i \in 1..n : x[i] = y[i]
  PROVE  \A i \in 0..n : Bytes(x)[i] = Bytes(y)[i]
<1> DEFINE S == {i \in 0..n : Bytes(x)[i] = Bytes(y)[i]}
<1>0. Len(x) \in Nat /\ Len(y) \in Nat BY LenProperties
<1>1. 0 \in S
  <2>1. Bytes(x)[0] = <<>> /\ Bytes(y)[0] = <<>> BY BytesOfFields, Zenon
  <2>2. 0 \in 0..n OBVIOUS
  <2>3. QED BY <2>1, <2>2, Zenon
<1>2. ASSUME NEW i \in 1..n, i - 1 \in S PROVE i \in S
  <2>1. i \in 1..Len(x) /\ i \in 1..Len(y) /\ i \in 0..n BY <1>0
  <2>2. Bytes(x)[i] = Bytes(x)[i - 1] \o FieldBytes(x[i]) BY <2>1, BytesOfFields
  <2>3. Bytes(y)[i] = Bytes(y)[i - 1] \o FieldBytes(y[i]) BY <2>1, BytesOfFields
  <2>4. Bytes(x)[i - 1] = Bytes(y)[i - 1] /\ x[i] = y[i] BY <1>2
  <2>5. QED BY <2>1, <2>2, <2>3, <2>4
<1>3. \A i \in 0..n : i \in S
  <2> HIDE DEF S
  <2>1. QED BY <1>1, <1>2, Induction
<1>4. QED BY <1>3

(* The bytes of the first n fields are a packet's. *)
LEMMA BytesOfBeginning ==
  ASSUME NEW fields \in Seq(AnyField), NEW n \in 0..Len(fields)
  PROVE  PacketBytes(SubSeq(fields, 1, n)) = Bytes(fields)[n]
<1>0. Len(fields) \in Nat BY LenProperties
<1>1. PICK x : x = SubSeq(fields, 1, n) OBVIOUS
<1>2. x \in Seq(AnyField) /\ Len(x) = n /\ \A i \in 1..n : x[i] = fields[i]
  <2>1. \A i \in 1..n : fields[i] \in AnyField BY <1>0, ElementOfSeq
  <2>2. /\ x \in Seq(AnyField) /\ Len(x) = IF 1 <= n THEN n - 1 + 1 ELSE 0
        /\ \A i \in 1..(n - 1 + 1) : x[i] = fields[1 + i - 1]
    BY <1>0, <1>1, <2>1, SubSeqProperties
  <2>3. \A i \in 1..n : i \in 1..(n - 1 + 1) /\ 1 + i - 1 = i OBVIOUS
  <2>4. QED BY <1>0, <2>2, <2>3
<1>3. PacketBytes(x) = Bytes(x)[n] BY <1>2, PacketBytesAre
<1>4. Bytes(x)[n] = Bytes(fields)[n] BY <1>0, <1>2, SameBeginning
<1>5. QED BY <1>1, <1>3, <1>4

(* Strings of bytes written one after the other. *)
LEMMA BytesAssociate ==
  \A a, b, c \in Seq(Byte) : (a \o b) \o c = a \o (b \o c)
<1>1. QED BY ConcatAssociative

(* What is written in two goes are the bytes of all fields. *)
LEMMA BytesOfBoth ==
  ASSUME NEW x \in Seq(AnyField), NEW y \in Seq(AnyField)
  PROVE  PacketBytes(x \o y) = PacketBytes(x) \o PacketBytes(y)
<1>1. PICK m \in Nat, n \in Nat : m = Len(x) /\ n = Len(y) BY LenProperties
<1>2. PICK z : z = x \o y OBVIOUS
<1>3. /\ z \in Seq(AnyField) /\ Len(z) = m + n
      /\ \A i \in 1..m : z[i] = x[i]
      /\ \A i \in 1..n : z[m + i] = y[i]
  <2>1. /\ z \in Seq(AnyField) /\ Len(z) = m + n
        /\ \A i \in 1..(m + n) : z[i] = IF i <= m THEN x[i] ELSE y[i - m]
    BY <1>1, <1>2, ConcatProperties
  <2>2. \A i \in 1..m : i \in 1..(m + n) /\ i <= m OBVIOUS
  <2>3. \A i \in 1..n : m + i \in 1..(m + n) /\ ~(m + i <= m) /\ (m + i) - m = i OBVIOUS
  <2>4. QED BY <2>1, <2>2, <2>3
<1>4. Bytes(x)[m] \in Seq(Byte) /\ Bytes(z)[m] = Bytes(x)[m]
  <2>1. m \in 0..m /\ m <= m + n /\ m <= m OBVIOUS
  <2>2. \A i \in 0..m : Bytes(z)[i] = Bytes(x)[i]
    BY <1>1, <1>3, <2>1, SameBeginning, Zenon
  <2>3. QED BY <1>1, <2>1, <2>2, BytesOfFields
<1> DEFINE S == {i \in 0..n : Bytes(z)[m + i] = Bytes(x)[m] \o Bytes(y)[i]}
<1>5. 0 \in S
  <2>1. Bytes(y)[0] = <<>> BY BytesOfFields, Zenon
  <2>2. m + 0 = m /\ 0 \in 0..n OBVIOUS
  <2>3. Bytes(x)[m] \o <<>> = Bytes(x)[m] BY <1>4, ConcatEmptySeq, Zenon
  <2>4. QED BY <1>4, <2>1, <2>2, <2>3, Zenon
<1>6. ASSUME NEW i \in 1..n, i - 1 \in S PROVE i \in S
  <2>1. /\ i \in 1..Len(y) /\ i - 1 \in 0..Len(y) /\ m + i \in 1..Len(z)
        /\ (m + i) - 1 = m + (i - 1)
    BY <1>1, <1>3
  <2>2. PICK a \in Seq(Byte), b \in Seq(Byte), c \in Seq(Byte) :
          a = Bytes(x)[m] /\ b = Bytes(y)[i - 1] /\ c = FieldBytes(y[i])
    <3>1. y[i] \in AnyField BY <2>1, ElementOfSeq
    <3>2. QED BY <1>4, <2>1, <3>1, BytesOfFields, FieldBytesAre
  <2>3. Bytes(y)[i] = b \o c BY <2>1, <2>2, BytesOfFields
  <2>4. Bytes(z)[m + i] = Bytes(z)[(m + i) - 1] \o FieldBytes(z[m + i])
    BY <1>3, <2>1, BytesOfFields
  <2>5. Bytes(z)[(m + i) - 1] = a \o b BY <1>6, <2>1, <2>2
  <2>6. z[m + i] = y[i] BY <1>3
  <2>7. Bytes(z)[m + i] = (a \o b) \o c BY <2>2, <2>4, <2>5, <2>6
  <2>8. (a \o b) \o c = a \o (b \o c) BY BytesAssociate, Zenon
  <2>9. Bytes(z)[m + i] = Bytes(x)[m] \o Bytes(y)[i] BY <2>2, <2>3, <2>7, <2>8, Zenon
  <2>10. i \in 0..n OBVIOUS
  <2>11. QED BY <2>9, <2>10, Zenon
<1>7. \A i \in 0..n : i \in S
  <2> HIDE DEF S
  <2>1. QED BY <1>5, <1>6, Induction
<1>8. Bytes(z)[m + n] = Bytes(x)[m] \o Bytes(y)[n]
  <2>1. n \in 0..n OBVIOUS
  <2>2. QED BY <1>7, <2>1, Zenon
<1>9. /\ PacketBytes(x) = Bytes(x)[m] /\ PacketBytes(y) = Bytes(y)[n]
      /\ PacketBytes(z) = Bytes(z)[m + n]
  BY <1>1, <1>3, PacketBytesAre, Zenon
<1>10. QED BY <1>2, <1>8, <1>9, Zenon

(* What has been written stays, and every field adds bytes. *)
LEMMA Beginnings ==
  ASSUME NEW fields \in Seq(AnyField), NEW k \in 0..Len(fields)
  PROVE  \A m \in k..Len(fields) :
           /\ Len(Bytes(fields)[k]) <= Len(Bytes(fields)[m])
           /\ k # m => Len(Bytes(fields)[k]) < Len(Bytes(fields)[m])
           /\ \A i \in 1..Len(Bytes(fields)[k]) : Bytes(fields)[m][i] = Bytes(fields)[k][i]
<1>1. PICK N \in Nat : N = Len(fields) BY LenProperties
<1>2. PICK b \in [0..N -> Seq(Byte)] :
        b = Bytes(fields) /\ \A n \in 1..N : b[n] = b[n - 1] \o FieldBytes(fields[n])
  BY <1>1, BytesOfFields
<1>3. \A n \in 0..N : b[n] \in Seq(Byte) /\ Len(b[n]) \in Nat BY <1>2, LenProperties
<1> DEFINE Extends(m) == /\ Len(b[k]) <= Len(b[m])
                         /\ k # m => Len(b[k]) < Len(b[m])
                         /\ \A i \in 1..Len(b[k]) : b[m][i] = b[k][i]
           S == {j \in 0..(N - k) : Extends(k + j)}
<1>4. 0 \in S
  <2>1. k + 0 = k /\ 0 \in 0..(N - k) /\ k \in 0..N BY <1>1
  <2>2. Extends(k) BY <1>3, <2>1
  <2>3. QED BY <2>1, <2>2, Zenon
<1>5. ASSUME NEW j \in 1..(N - k), j - 1 \in S PROVE j \in S
  <2>1. PICK m \in 1..N : m = k + j BY <1>1
  <2>2. m - 1 = k + (j - 1) /\ m - 1 \in 0..N /\ k \in 0..N /\ k # m BY <1>1, <2>1
  <2>3. Extends(m - 1) BY <1>5, <2>2, Zenon
  <2>4. PICK u \in Seq(Byte), v \in Seq(Byte) : u = b[m - 1] /\ v = FieldBytes(fields[m])
                                          /\ Len(v) \in Nat \ {0}
    <3>1. fields[m] \in AnyField BY <1>1, ElementOfSeq
    <3>2. QED BY <1>3, <2>2, <3>1, FieldBytesAre
  <2>5. b[m] = u \o v BY <1>2, <2>4
  <2>6. PICK p \in Nat, q \in Nat \ {0} : p = Len(u) /\ q = Len(v) BY <2>4, LenProperties
  <2>7. /\ Len(b[m]) = p + q
        /\ \A i \in 1..(p + q) : b[m][i] = IF i <= p THEN u[i] ELSE v[i - p]
    BY <2>5, <2>6, ConcatProperties
  <2>8. \A i \in 1..p : b[m][i] = u[i]
    <3>1. \A i \in 1..p : i \in 1..(p + q) /\ i <= p OBVIOUS
    <3>2. QED BY <2>7, <3>1
  <2>9. PICK l \in Nat : l = Len(b[k]) BY <1>3, <2>2
  <2>10. l <= p /\ \A i \in 1..l : u[i] = b[k][i]
    BY <2>3, <2>4, <2>6, <2>9
  <2>a. l < p + q /\ l <= p + q /\ \A i \in 1..l : i \in 1..p BY <2>10
  <2>b. Extends(m) BY <2>7, <2>8, <2>9, <2>10, <2>a
  <2>11. j \in 0..(N - k) OBVIOUS
  <2>12. QED BY <2>1, <2>b, <2>11, Zenon
<1>6. \A j \in 0..(N - k) : j \in S
  <2> HIDE DEF S
  <2>1. N - k \in Nat BY <1>1
  <2>2. QED BY <1>4, <1>5, <2>1, Induction
<1>7. \A m \in k..N : Extends(m)
  <2> TAKE m \in k..N
  <2>1. m - k \in 0..(N - k) /\ k + (m - k) = m BY <1>1
  <2>2. m - k \in S BY <1>6, <2>1
  <2>3. Extends(k + (m - k)) BY <2>2, Zenon
  <2>4. QED BY <2>1, <2>3, Zenon
<1>8. QED BY <1>1, <1>2, <1>7

(* Where the bytes of a field are in those of its packet. *)
LEMMA Located ==
  ASSUME NEW fields \in Seq(AnyField), NEW n \in 1..Len(fields)
  PROVE  /\ Len(Bytes(fields)[n - 1]) + Len(FieldBytes(fields[n])) = Len(Bytes(fields)[n])
         /\ Len(Bytes(fields)[n]) <= Len(PacketBytes(fields))
         /\ n # Len(fields) => Len(Bytes(fields)[n]) < Len(PacketBytes(fields))
         /\ n = Len(fields) => Len(Bytes(fields)[n]) = Len(PacketBytes(fields))
         /\ \A i \in 1..Len(FieldBytes(fields[n])) :
              PacketBytes(fields)[Len(Bytes(fields)[n - 1]) + i] = FieldBytes(fields[n])[i]
<1> DEFINE packet == PacketBytes(fields)
<1>1. PICK N \in Nat : N = Len(fields) BY LenProperties
<1>2. n - 1 \in 0..N /\ n \in 0..N /\ N \in n..N BY <1>1
<1>3. PICK u \in Seq(Byte), v \in Seq(Byte), w \in Seq(Byte) :
        /\ u = Bytes(fields)[n - 1] /\ v = FieldBytes(fields[n]) /\ w = Bytes(fields)[n]
        /\ w = u \o v
  <2> HIDE DEF packet
  <2>1. fields[n] \in AnyField BY <1>1, ElementOfSeq
  <2>2. /\ Bytes(fields)[n - 1] \in Seq(Byte) /\ Bytes(fields)[n] \in Seq(Byte)
        /\ Bytes(fields)[n] = Bytes(fields)[n - 1] \o FieldBytes(fields[n])
    BY <1>1, <1>2, BytesOfFields
  <2>3. FieldBytes(fields[n]) \in Seq(Byte) BY <2>1, FieldBytesAre
  <2>4. QED BY <2>2, <2>3
<1>b. PICK start \in Nat : start = Len(u) BY LenProperties
<1>4. packet = Bytes(fields)[N] BY <1>1, PacketBytesAre
<1>5. /\ Len(w) <= Len(packet) /\ (n # N => Len(w) < Len(packet))
      /\ \A i \in 1..Len(w) : packet[i] = w[i]
  <2>1. /\ Len(Bytes(fields)[n]) <= Len(Bytes(fields)[N])
        /\ n # N => Len(Bytes(fields)[n]) < Len(Bytes(fields)[N])
        /\ \A i \in 1..Len(Bytes(fields)[n]) : Bytes(fields)[N][i] = Bytes(fields)[n][i]
    <3>1. n \in 0..Len(fields) /\ N \in n..Len(fields) BY <1>1, <1>2, Zenon
    <3>2. QED BY <3>1, Beginnings, Zenon
  <2>2. packet = Bytes(fields)[N] /\ w = Bytes(fields)[n] BY <1>3, <1>4
  <2> HIDE DEF packet
  <2>3. QED BY <2>1, <2>2, Zenon
<1>a. PICK p \in Nat : p = Len(v) BY LenProperties
<1>6. /\ Len(w) = start + p
      /\ \A i \in 1..(start + p) : w[i] = IF i <= start THEN u[i] ELSE v[i - start]
  <2>1. Len(u) = start BY <1>b
  <2>2. /\ Len(u \o v) = Len(u) + Len(v)
        /\ \A i \in 1..(Len(u) + Len(v)) : (u \o v)[i] =
              IF i <= Len(u) THEN u[i] ELSE v[i - Len(u)]
    BY ConcatProperties
  <2>3. w = u \o v BY <1>3
  <2>4. QED BY <1>a, <2>1, <2>2, <2>3, Zenon
<1> HIDE DEF packet
<1>7. ASSUME NEW i \in 1..p PROVE packet[start + i] = v[i]
  <2>1. start + i \in 1..(start + p) /\ ~(start + i <= start) /\ (start + i) - start = i
    OBVIOUS
  <2>2. QED BY <1>5, <1>6, <2>1
<1>8. /\ Len(u) + Len(v) = Len(w) /\ Len(w) <= Len(packet)
      /\ (n # N => Len(w) < Len(packet)) /\ (n = N => Len(w) = Len(packet))
      /\ \A i \in 1..Len(v) : packet[Len(u) + i] = v[i]
  BY <1>3, <1>4, <1>5, <1>6, <1>7, <1>a, <1>b
<1>9. QED BY <1>1, <1>3, <1>8 DEF packet

-------------------------------------------------------------------------------
(* Decoders. *)

Item == [kind : {"number", "string"}, checked : BOOLEAN]

(* Every decoder expects some field, and the one that looks at the type a number. *)
LEMMA LayoutIs ==
  ASSUME written \in Seq(AnyField), written # <<>>, NEW d \in DOMAIN Layout
  PROVE  /\ Layout[d] \in Seq(Item) /\ Len(Layout[d]) \in Nat \ {0}
         /\ d \in WantsHello => Layout[d][1] = Checked("number")
<1>1. PICK c \in Item, h \in Seq(Item), s \in Seq(Item), x \in Seq(Item) :
        /\ c = Checked("number") /\ x = <<Checked("number")>>
        /\ h = DecodeClientHelloPacket /\ s = DecodeServerHelloPacket
  <2>1. Checked("number") \in Item BY DEF Checked, Item
  <2>2. \A k \in {"number", "string"} : Read(k) \in Item BY DEF Read, Item
  <2>3. DecodeClientHelloPacket \in Seq(Item) BY <2>2 DEF DecodeClientHelloPacket
  <2>4. DecodeServerHelloPacket \in Seq(Item) BY <2>2 DEF DecodeServerHelloPacket
  <2>5. <<Checked("number")>> \in Seq(Item) BY <2>1
  <2>6. QED BY <2>1, <2>3, <2>4, <2>5
<1>2. Len(x) = 1 /\ x[1] = c BY <1>1
<1>3. ASSUME NEW y \in Seq(Item)
      PROVE  x \o y \in Seq(Item) /\ Len(x \o y) \in Nat \ {0} /\ (x \o y)[1] = c
  <2>a. /\ x \o y \in Seq(Item) /\ Len(x \o y) = Len(x) + Len(y)
        /\ \A i \in 1..(Len(x) + Len(y)) :
             (x \o y)[i] = IF i <= Len(x) THEN x[i] ELSE y[i - Len(x)]
    BY ConcatProperties
  <2>b. Len(y) \in Nat BY LenProperties
  <2>1. /\ x \o y \in Seq(Item) /\ Len(x \o y) = 1 + Len(y) /\ Len(y) \in Nat
        /\ \A i \in 1..(1 + Len(y)) : (x \o y)[i] = IF i <= 1 THEN x[i] ELSE y[i - 1]
    BY <1>2, <2>a, <2>b, Zenon
  <2>2. 1 \in 1..(1 + Len(y)) BY <2>1
  <2>3. QED BY <1>2, <2>1, <2>2
<1>4. CASE d \in {"GetPacketType", "DecidePacketType"}
  <2>1. Layout[d] = <<Checked("number")>> BY <1>4 DEF Layout
  <2>2. d \notin WantsHello BY <1>4 DEF WantsHello
  <2>3. QED BY <1>1, <1>2, <2>1, <2>2
<1>5. CASE d = "DecodeQueryPacket"
  <2>1. Layout[d] = <<Checked("number"), Checked("string"), Read("number"), Read("number"),
                      Read("string")>>
    BY <1>5 DEF Layout
  <2>2. /\ Checked("number") \in Item /\ Checked("string") \in Item
        /\ Read("number") \in Item /\ Read("string") \in Item
    BY DEF Checked, Read, Item
  <2>3. d \notin WantsHello BY <1>5 DEF WantsHello
  <2>4. QED BY <2>1, <2>2, <2>3
<1>6. CASE d = "DecodeHelloPacket"
  <2>1. Layout[d] = <<Checked("number"), Checked("string")>> BY <1>6 DEF Layout
  <2>2. Checked("number") \in Item /\ Checked("string") \in Item BY DEF Checked, Item
  <2>3. QED BY <2>1, <2>2
<1>7. CASE d = "DecodeClientPacket"
  <2>1. Layout[d] = x \o h BY <1>1, <1>7 DEF Layout
  <2>2. QED BY <1>1, <1>3, <2>1
<1>8. CASE d = "DecodeServerPackets"
  <2>1. Layout[d] = x \o s BY <1>1, <1>8 DEF Layout
  <2>2. QED BY <1>1, <1>3, <2>1
<1>9. CASE d = "Fields"
  <2>1. PICK N \in Nat \ {0} : N = Len(written) BY EmptySeq
  <2>2. Layout[d] = [n \in 1..N |-> Read(written[n].kind)] BY <1>9, <2>1 DEF Layout
  <2>3. \A n \in 1..N : Read(written[n].kind) \in Item
    <3>1. \A n \in 1..N : written[n] \in AnyField BY <2>1, ElementOfSeq
    <3>2. \A n \in 1..N : written[n].kind \in {"number", "string"} BY <3>1 DEF AnyField
    <3>3. QED BY <3>2 DEF Read, Item
  <2>4. Layout[d] \in [1..N -> Item] BY <2>2, <2>3
  <2>5. d \notin WantsHello BY <1>9 DEF WantsHello
  <2>6. QED BY <2>4, <2>5, FunctionIsSeq
<1>10. DOMAIN Layout = {"GetPacketType", "DecidePacketType", "DecodeQueryPacket",
                        "DecodeHelloPacket", "DecodeClientPacket", "DecodeServerPackets",
                        "Fields"}
  BY DEF Layout
<1>11. QED BY <1>4, <1>5, <1>6, <1>7, <1>8, <1>9, <1>10

(* The packet is in the buffer, and slack bytes follow it. *)
Packed ==
  /\ Len(buffer) = Len(PacketBytes(written)) + slack
  /\ \A i \in 1..Len(PacketBytes(written)) : buffer[i] = PacketBytes(written)[i]

CodecTypes ==
  /\ written \in Seq(AnyField)
  /\ buffer \in Seq(Byte)
  /\ slack \in {0, 1}
  /\ \E V : values \in Seq(V)
  /\ results \in Seq(BOOLEAN) /\ Len(results) = Len(values)
  /\ Len(values) <= Len(written)

Encoded ==
  /\ stage = "encode" => buffer = PacketBytes(written) /\ values = <<>> /\ slack = 0
  /\ stage # "encode" => Packed /\ written # <<>> /\ decoder \in DOMAIN Layout
  /\ index = Len(Bytes(written)[Len(values)])

(* A decoder that goes on has refused nothing so far. *)
GoesOn ==
  stage = "decode" =>
    /\ Len(values) < Len(Layout[decoder])
    /\ Starts(decoder) \/ (Takes(decoder) /\ values = <<>>)
    /\ \A n \in 1..Len(values) : Layout[decoder][n].checked => results[n]
    /\ decoder \in WantsHello /\ values # <<>> => values[1] = 0

CodecInv == CodecTypes /\ Encoded /\ ReadBack /\ GoesOn /\ AcceptsWhatGoesOn

(* A packet is bytes. *)
LEMMA PacketIs ==
  ASSUME NEW fields \in Seq(AnyField)
  PROVE  PacketBytes(fields) \in Seq(Byte) /\ Len(PacketBytes(fields)) \in Nat
<1>1. PICK N \in Nat : N = Len(fields) /\ N \in 0..N BY LenProperties
<1>2. Bytes(fields)[N] \in Seq(Byte) BY <1>1, BytesOfFields
<1>3. QED BY <1>1, <1>2, PacketBytesAre, LenProperties

(* What the next read gives. *)
LEMMA NextField ==
  ASSUME CodecInv, ReadField, NEW n, n = Len(values) + 1
  PROVE  /\ n \in 1..Len(written) /\ n \in 1..Len(Layout[decoder])
         /\ Layout[decoder][n].kind = written[n].kind
         /\ \E value : \E ok \in BOOLEAN :
              /\ values' = Append(values, value) /\ results' = Append(results, ok)
              /\ index' = Len(Bytes(written)[n])
              /\ ~ok <=> Last(n)
              /\ ~LastNumber(n) => value = written[n].value
<1>1. /\ stage = "decode" /\ ReadNext /\ written \in Seq(AnyField) /\ written # <<>>
      /\ decoder \in DOMAIN Layout /\ buffer \in Seq(Byte)
  BY DEF CodecInv, CodecTypes, Encoded, ReadField
<1>2. PICK N \in Nat \ {0}, L \in Nat \ {0} : N = Len(written) /\ L = Len(Layout[decoder])
  BY <1>1, EmptySeq, LayoutIs
<1>3. PICK V : values \in Seq(V) BY DEF CodecInv, CodecTypes
<1>4. PICK m \in Nat : m = Len(values) /\ m < L
  BY <1>1, <1>2, <1>3, LenProperties DEF CodecInv, GoesOn
<1>5. n = m + 1 /\ n \in 1..L /\ n \in Nat BY <1>2, <1>4
<1>6. n \in 1..N /\ Layout[decoder][n].kind = written[n].kind
  <2>1. CASE Starts(decoder) BY <1>2, <1>5, <2>1 DEF Starts
  <2>2. CASE ~Starts(decoder)
    <3>1. /\ Takes(decoder) /\ values = <<>> BY <1>1, <2>2 DEF CodecInv, GoesOn
    <3>2. /\ decoder \in {"DecodeClientPacket", "DecodeServerPackets"}
          /\ written[1].kind = "number"
      BY <2>2, <3>1 DEF Takes
    <3>3. n = 1 BY <1>4, <1>5, <3>1, EmptySeq
    <3>4. Layout[decoder][1] = Checked("number")
      BY <1>1, <3>2, LayoutIs DEF WantsHello
    <3>5. Layout[decoder][1].kind = "number" BY <3>4 DEF Checked
    <3>6. QED BY <1>2, <3>2, <3>3, <3>5
  <2>3. QED BY <2>1, <2>2
<1>a. PICK w \in Seq(AnyField) : w = written /\ N = Len(w) BY <1>1, <1>2
<1>7. PICK field \in AnyField : field = w[n] BY <1>6, <1>a, ElementOfSeq
<1>8. PICK r : r = FieldRead(index, field.kind) OBVIOUS
<1>9. index' = r.index /\ values' = Append(values, r.value) /\ results' = Append(results, r.ok)
  <2>1. Layout[decoder][Len(values) + 1].kind = field.kind BY <1>6, <1>7, <1>a
  <2>2. QED BY <1>1, <1>8, <2>1 DEF ReadNext, FieldRead
<1>10. PICK packet \in Seq(Byte), end \in Nat, p \in Nat :
         /\ packet = PacketBytes(w) /\ end = Len(Bytes(w)[n]) /\ p = Len(packet)
  <2>1. n \in 0..N BY <1>6
  <2>2. Bytes(w)[n] \in Seq(Byte) BY <1>a, <2>1, BytesOfFields
  <2>3. Len(Bytes(w)[n]) \in Nat BY <2>2, LenProperties
  <2>4. QED BY <2>3, PacketIs
<1>11. PICK start \in Nat : start = index /\ start = Len(Bytes(w)[n - 1])
  <2>1. n - 1 = m /\ m \in 0..N BY <1>2, <1>5, <1>6
  <2>2. Bytes(w)[m] \in Seq(Byte) BY <1>a, <2>1, BytesOfFields
  <2>3. Len(Bytes(w)[m]) \in Nat BY <2>2, LenProperties
  <2>4. QED BY <1>4, <1>a, <2>1, <2>3 DEF CodecInv, Encoded
<1>12. /\ start + Len(FieldBytes(field)) = end
       /\ end <= p /\ (n # N => end < p) /\ (n = N => end = p)
       /\ \A i \in 1..Len(FieldBytes(field)) : packet[start + i] = FieldBytes(field)[i]
  <2>1. n \in 1..Len(w) BY <1>6, <1>a
  <2>2. /\ Len(Bytes(w)[n - 1]) + Len(FieldBytes(w[n])) = Len(Bytes(w)[n])
        /\ Len(Bytes(w)[n]) <= Len(PacketBytes(w))
        /\ n # Len(w) => Len(Bytes(w)[n]) < Len(PacketBytes(w))
        /\ n = Len(w) => Len(Bytes(w)[n]) = Len(PacketBytes(w))
        /\ \A i \in 1..Len(FieldBytes(w[n])) :
             PacketBytes(w)[Len(Bytes(w)[n - 1]) + i] = FieldBytes(w[n])[i]
    BY <2>1, Located
  <2>3. QED BY <1>7, <1>10, <1>11, <1>a, <2>2, Zenon
<1>13. /\ slack \in {0, 1} /\ Len(buffer) = p + slack
       /\ \A i \in 1..p : buffer[i] = packet[i]
  BY <1>1, <1>10, <1>a DEF CodecInv, CodecTypes, Encoded, Packed
<1>14. Holds(start, field)
  <2>1. PICK k \in Nat : k = Len(FieldBytes(field)) BY FieldBytesAre
  <2>2. start + k <= Len(buffer) BY <1>12, <1>13, <2>1
  <2>3. \A i \in 1..k : start + i \in 1..p BY <1>12, <2>1
  <2>4. QED BY <1>12, <1>13, <2>1, <2>2, <2>3 DEF Holds
<1>15. /\ r.index = end /\ r.ok \in BOOLEAN /\ (r.ok <=> end < Len(buffer))
       /\ r.ok \/ field.kind = "string" => r.value = field.value
  BY <1>1, <1>8, <1>11, <1>12, <1>14, FieldReadBack
<1>16. end < Len(buffer) <=> ~Last(n)
  <2>1. CASE n = N BY <1>2, <1>12, <1>13, <2>1 DEF Last
  <2>2. CASE n # N BY <1>2, <1>12, <1>13, <2>2 DEF Last
  <2>3. QED BY <2>1, <2>2
<1>17. r.ok \in BOOLEAN /\ (~r.ok <=> Last(n)) BY <1>15, <1>16, Zenon
<1>18. ~LastNumber(n) => r.value = written[n].value
  <2>1. field.kind = "number" \/ field.kind = "string" BY FieldIs
  <2>2. QED BY <1>7, <1>15, <1>17, <1>a, <2>1 DEF LastNumber
<1>19. index' = Len(Bytes(written)[n]) BY <1>9, <1>10, <1>15, <1>a
<1>20. \E value : \E ok \in BOOLEAN :
         /\ values' = Append(values, value) /\ results' = Append(results, ok)
         /\ index' = Len(Bytes(written)[n])
         /\ ~ok <=> Last(n)
         /\ ~LastNumber(n) => value = written[n].value
  BY <1>9, <1>17, <1>18, <1>19, Zenon
<1>21. QED BY <1>2, <1>5, <1>6, <1>20, Zenon

-------------------------------------------------------------------------------
(* The invariant. *)

(* A new encoder has written nothing. *)
LEMMA CodecStarts == Init => CodecInv
<1> SUFFICES ASSUME Init PROVE CodecInv
  OBVIOUS
<1>1. /\ written = <<>> /\ buffer = <<>> /\ index = 0 /\ stage = "encode" /\ slack = 0
      /\ values = <<>> /\ results = <<>>
  BY DEF Init
<1>2. written \in Seq(AnyField) /\ Len(written) = 0 BY <1>1
<1>3. Bytes(written)[0] = <<>> BY <1>2, BytesOfFields, Zenon
<1>4. PacketBytes(written) = <<>> BY <1>2, <1>3, PacketBytesAre, Zenon
<1>5. Len(values) = 0 /\ values \in Seq({}) BY <1>1
<1>6. CodecTypes BY <1>1, <1>2, <1>5 DEF CodecTypes
<1>7. index = Len(Bytes(written)[Len(values)])
  <2>1. Bytes(written)[Len(values)] = <<>> BY <1>3, <1>5, Zenon
  <2>2. QED BY <1>1, <2>1
<1>8. Encoded BY <1>1, <1>4, <1>7 DEF Encoded
<1>9. ReadBack BY <1>5 DEF ReadBack
<1>10. GoesOn /\ AcceptsWhatGoesOn BY <1>1 DEF GoesOn, AcceptsWhatGoesOn
<1>11. QED BY <1>6, <1>8, <1>9, <1>10 DEF CodecInv

(* WriteUInt64, WriteString and EncodeHelloPacket add to the end. *)
LEMMA WriteKeeps ==
  ASSUME CodecInv, NEW fields \in Seq(AnyField), Write(fields)
  PROVE  CodecInv'
<1>1. /\ stage = "encode" /\ written' = written \o fields
      /\ buffer' = buffer \o PacketBytes(fields)
      /\ stage' = stage /\ index' = index /\ decoder' = decoder /\ slack' = slack
      /\ values' = values /\ results' = results /\ verdict' = verdict
  BY DEF Write, decoding
<1>2. /\ written \in Seq(AnyField) /\ buffer \in Seq(Byte) /\ slack = 0 /\ values = <<>>
      /\ buffer = PacketBytes(written) /\ index = Len(Bytes(written)[Len(values)])
      /\ results \in Seq(BOOLEAN) /\ Len(results) = Len(values)
  BY <1>1 DEF CodecInv, CodecTypes, Encoded
<1>3. PICK w : w = written \o fields OBVIOUS
<1>4. w \in Seq(AnyField) /\ Len(w) \in Nat BY <1>2, <1>3, ConcatProperties, LenProperties
<1>5. buffer' = PacketBytes(w) /\ buffer' \in Seq(Byte)
  <2>1. PacketBytes(written \o fields) = PacketBytes(written) \o PacketBytes(fields)
    BY <1>2, BytesOfBoth
  <2>2. QED BY <1>1, <1>2, <1>3, <1>4, <2>1, PacketIs
<1>6. Len(values) = 0 BY <1>2
<1>7. index' = Len(Bytes(w)[Len(values)])
  <2>1. Bytes(w)[0] = <<>> BY <1>4, BytesOfFields, Zenon
  <2>2. Bytes(written)[0] = <<>> BY <1>2, BytesOfFields, Zenon
  <2>3. QED BY <1>1, <1>2, <1>6, <2>1, <2>2, Zenon
<1>8. CodecTypes'
  <2>1. (written \in Seq(AnyField))' BY <1>1, <1>3, <1>4
  <2>2. (\E V : values \in Seq(V))' BY <1>1 DEF CodecInv, CodecTypes
  <2>3. (Len(values) <= Len(written))' BY <1>1, <1>3, <1>4, <1>6
  <2>4. QED BY <1>1, <1>2, <1>5, <2>1, <2>2, <2>3 DEF CodecTypes
<1>9. Encoded' BY <1>1, <1>2, <1>3, <1>5, <1>7 DEF Encoded
<1>10. ReadBack' BY <1>1, <1>6 DEF ReadBack
<1>11. GoesOn' /\ AcceptsWhatGoesOn' BY <1>1 DEF GoesOn, AcceptsWhatGoesOn
<1>12. QED BY <1>8, <1>9, <1>10, <1>11 DEF CodecInv

(* What follows from the packet alone stays as long as the packet does. *)
LEMMA SamePacket ==
  ASSUME written' = written
  PROVE  /\ Layout' = Layout
         /\ \A d : Starts(d)' <=> Starts(d)
         /\ \A d : Takes(d)' <=> Takes(d)
<1>1. Layout' = Layout
  BY DEF Layout, Read, Checked, DecodeClientHelloPacket, DecodeServerHelloPacket
<1>2. \A d : Starts(d)' <=> Starts(d) BY <1>1 DEF Starts
<1>3. \A d : Takes(d)' <=> Takes(d) BY <1>2 DEF Takes
<1>4. QED BY <1>1, <1>2, <1>3

(* The decoder's buffer begins with the packet, and nothing is read yet. *)
LEMMA DispatchKeeps == CodecInv /\ DispatchBufferForSocket => CodecInv'
<1> SUFFICES ASSUME CodecInv, DispatchBufferForSocket PROVE CodecInv'
  OBVIOUS
<1>1. /\ stage = "encode" /\ written # <<>> /\ stage' = "decode"
      /\ decoder' \in DOMAIN Layout /\ Takes(decoder') /\ slack' \in {0, 1}
      /\ buffer' = buffer \o [i \in 1..slack' |-> 0]
      /\ written' = written /\ index' = index /\ values' = values /\ results' = results
  BY DEF DispatchBufferForSocket
<1>2. /\ written \in Seq(AnyField) /\ buffer \in Seq(Byte) /\ values = <<>>
      /\ buffer = PacketBytes(written) /\ index = Len(Bytes(written)[Len(values)])
      /\ results \in Seq(BOOLEAN) /\ Len(results) = Len(values)
      /\ Len(values) <= Len(written)
  BY <1>1 DEF CodecInv, CodecTypes, Encoded
<1>3. PICK zeros : zeros = [i \in 1..slack' |-> 0] OBVIOUS
<1>4. PICK s \in Nat : s = slack' BY <1>1
<1>5. zeros \in Seq(Byte) /\ Len(zeros) = s
  <2>1. 0 \in Byte BY WireAssumption DEF Byte
  <2>2. zeros \in [1..s -> Byte] BY <1>3, <1>4, <2>1
  <2>3. QED BY <2>2, FunctionIsSeq
<1>6. /\ buffer' \in Seq(Byte) /\ Len(buffer') = Len(buffer) + slack'
      /\ \A i \in 1..Len(buffer) : buffer'[i] = buffer[i]
  <2>1. PICK b \in Seq(Byte), z \in Seq(Byte), n \in Nat :
          b = buffer /\ z = zeros /\ n = Len(b) /\ Len(z) = s
    BY <1>2, <1>5, LenProperties
  <2>2. /\ b \o z \in Seq(Byte) /\ Len(b \o z) = Len(b) + Len(z)
        /\ \A i \in 1..(Len(b) + Len(z)) :
             (b \o z)[i] = IF i <= Len(b) THEN b[i] ELSE z[i - Len(b)]
    BY ConcatProperties
  <2>3. \A i \in 1..n : i \in 1..(n + s) /\ i <= n OBVIOUS
  <2>4. buffer' = b \o z BY <1>1, <1>3, <2>1, Zenon
  <2>5. \A i \in 1..n : buffer'[i] = b[i] BY <2>1, <2>2, <2>3, <2>4
  <2>6. QED BY <1>4, <2>1, <2>2, <2>4, <2>5
<1>7. Len(values) = 0 BY <1>2
<1>8. Packed' BY <1>1, <1>2, <1>6 DEF Packed
<1>9. Layout' = Layout /\ Takes(decoder)'
  BY <1>1, SamePacket DEF Takes, Starts
<1>10. CodecTypes'
  <2>1. (\E V : values \in Seq(V))' BY <1>1 DEF CodecInv, CodecTypes
  <2>2. QED BY <1>1, <1>2, <1>6, <2>1 DEF CodecTypes
<1>11. Encoded' BY <1>1, <1>2, <1>8, <1>9 DEF Encoded
<1>12. ReadBack' BY <1>1, <1>7 DEF ReadBack
<1>13. GoesOn'
  <2>1. Len(Layout[decoder']) \in Nat \ {0} BY <1>1, <1>2, LayoutIs
  <2>2. (Len(values) < Len(Layout[decoder]))' BY <1>1, <1>7, <1>9, <2>1
  <2>3. values' = <<>> /\ Len(values') = 0 BY <1>1, <1>2, <1>7
  <2>4. QED BY <1>9, <2>2, <2>3 DEF GoesOn
<1>14. AcceptsWhatGoesOn' BY <1>1 DEF AcceptsWhatGoesOn
<1>15. QED BY <1>10, <1>11, <1>12, <1>13, <1>14 DEF CodecInv

(* A read leaves the fields read before as they were. *)
LEMMA ReadKeeps == CodecInv /\ ReadField => CodecInv'
<1> SUFFICES ASSUME CodecInv, ReadField PROVE CodecInv'
  OBVIOUS
<1>1. /\ written' = written /\ buffer' = buffer /\ decoder' = decoder /\ slack' = slack
      /\ stage = "decode"
  BY DEF ReadField
<1>2. /\ written \in Seq(AnyField) /\ buffer \in Seq(Byte) /\ slack \in {0, 1}
      /\ results \in Seq(BOOLEAN) /\ Len(results) = Len(values)
      /\ Packed /\ written # <<>> /\ decoder \in DOMAIN Layout
  BY <1>1 DEF CodecInv, CodecTypes, Encoded
<1>3. /\ Layout' = Layout
      /\ Starts(decoder)' <=> Starts(decoder)
      /\ \A i : Last(i)' <=> Last(i)
      /\ \A i : LastNumber(i)' <=> LastNumber(i)
  BY <1>1, SamePacket DEF Starts, Last, LastNumber
<1>4. PICK V : values \in Seq(V) BY DEF CodecInv, CodecTypes
<1>5. PICK m \in Nat, n \in Nat : m = Len(values) /\ n = m + 1
  BY <1>4, LenProperties
<1>6. /\ n \in 1..Len(written) /\ n \in 1..Len(Layout[decoder])
      /\ \E value : \E ok \in BOOLEAN :
           /\ values' = Append(values, value) /\ results' = Append(results, ok)
           /\ index' = Len(Bytes(written)[n])
           /\ ~ok <=> Last(n)
           /\ ~LastNumber(n) => value = written[n].value
  <2>1. n = Len(values) + 1 BY <1>5
  <2>2. QED BY <2>1, NextField, Zenon
<1>7. PICK value : \E ok \in BOOLEAN :
        /\ values' = Append(values, value) /\ results' = Append(results, ok)
        /\ index' = Len(Bytes(written)[n])
        /\ ~ok <=> Last(n)
        /\ ~LastNumber(n) => value = written[n].value
  BY <1>6
<1>8. PICK ok \in BOOLEAN :
        /\ values' = Append(values, value) /\ results' = Append(results, ok)
        /\ index' = Len(Bytes(written)[n])
        /\ ~ok <=> Last(n)
        /\ ~LastNumber(n) => value = written[n].value
  BY <1>7
<1>9. /\ values' \in Seq(V \cup {value}) /\ Len(values') = n
      /\ \A i \in 1..m : values'[i] = values[i]
      /\ values'[n] = value
  <2>1. values \in Seq(V \cup {value}) BY <1>4
  <2>2. QED BY <1>5, <1>8, <2>1
<1>10. /\ results' \in Seq(BOOLEAN) /\ Len(results') = n
       /\ \A i \in 1..m : results'[i] = results[i]
       /\ results'[n] = ok
  BY <1>2, <1>5, <1>8
<1>11. CodecTypes'
  <2>1. (\E U : values \in Seq(U))' BY <1>9
  <2>2. (Len(values) <= Len(written))' BY <1>1, <1>6, <1>9
  <2>3. QED BY <1>1, <1>2, <1>9, <1>10, <2>1, <2>2 DEF CodecTypes
<1>12. stage' \in {"decode", "done"} BY <1>1 DEF ReadField
<1>13. Encoded'
  <2>1. Packed' BY <1>1, <1>2 DEF Packed
  <2>2. (index = Len(Bytes(written)[Len(values)]))' BY <1>1, <1>8, <1>9
  <2>3. QED BY <1>1, <1>2, <1>3, <1>12, <2>1, <2>2 DEF Encoded
<1>14. ASSUME NEW i \in 1..n
       PROVE  /\ ~LastNumber(i) => values'[i] = written[i].value
              /\ ~results'[i] <=> Last(i)
  <2>1. CASE i = n
    <3>1. values'[i] = value /\ (results'[i] <=> ok) BY <1>9, <1>10, <2>1
    <3>2. QED BY <1>8, <2>1, <3>1, Zenon
  <2>2. CASE i # n
    <3>1. i \in 1..m BY <1>5, <2>2
    <3>2. /\ ~LastNumber(i) => values[i] = written[i].value
          /\ ~results[i] <=> Last(i)
      BY <1>5, <3>1 DEF CodecInv, ReadBack
    <3>3. values'[i] = values[i] /\ (results'[i] <=> results[i]) BY <1>9, <1>10, <3>1
    <3>4. QED BY <3>2, <3>3, Zenon
  <2>3. QED BY <2>1, <2>2
<1>15. ReadBack' BY <1>1, <1>3, <1>9, <1>14 DEF ReadBack
<1>16. PICK L \in Nat \ {0} : L = Len(Layout[decoder]) /\ n <= L BY <1>2, <1>6, LayoutIs
<1>17. decoder \in WantsHello => /\ Layout[decoder][1].checked
                                 /\ results'[1] => values'[1] = written[1].value
  <2>1. 1 \in 1..n BY <1>5
  <2>2. decoder \in WantsHello => Layout[decoder][1].checked
    BY <1>2, LayoutIs DEF Checked
  <2>3. LastNumber(1) => Last(1) BY DEF LastNumber
  <2>4. QED BY <1>14, <2>1, <2>2, <2>3
<1>18. CASE Refuses
  <2>1. stage' = "done" /\ verdict' = "refused" BY <1>18 DEF ReadField
  <2>2. \/ \E i \in 1..L : Layout[decoder][i].checked /\ Last(i)
        \/ decoder \in WantsHello /\ written[1].value # 0
    <3>1. CASE Layout[decoder][n].checked /\ ~results'[n]
      <4>1. n \in 1..n /\ n \in 1..L BY <1>5, <1>16
      <4>2. Last(n) BY <1>14, <3>1, <4>1, Zenon
      <4>3. QED BY <3>1, <4>1, <4>2
    <3>2. CASE n = 1 /\ decoder \in WantsHello /\ values'[1] # 0
      <4>1. 1 \in 1..n /\ 1 \in 1..L BY <1>5, <1>16
      <4>2. results'[1] => written[1].value # 0 BY <1>17, <3>2, Zenon
      <4>3. ~results'[1] => Last(1) BY <1>14, <4>1, Zenon
      <4>4. Layout[decoder][1].checked BY <1>17, <3>2
      <4>5. QED BY <3>2, <4>1, <4>2, <4>3, <4>4, Zenon
    <3>3. QED BY <1>9, <1>18, <3>1, <3>2 DEF Refuses
  <2>3. AcceptsWhatGoesOn' BY <1>1, <1>3, <1>16, <2>1, <2>2 DEF AcceptsWhatGoesOn
  <2>4. GoesOn' BY <2>1 DEF GoesOn
  <2>5. QED BY <1>11, <1>13, <1>15, <2>3, <2>4 DEF CodecInv
<1>19. CASE ~Refuses
  <2>1. \A i \in 1..n : Layout[decoder][i].checked => results'[i]
    <3>1. Layout[decoder][n].checked => results'[n] BY <1>9, <1>19 DEF Refuses
    <3>2. \A i \in 1..m : Layout[decoder][i].checked => results[i]
      BY <1>1, <1>5 DEF CodecInv, GoesOn
    <3>3. \A i \in 1..n : i = n \/ i \in 1..m BY <1>5
    <3>4. QED BY <1>10, <3>1, <3>2, <3>3
  <2>2. decoder \in WantsHello => values'[1] = 0
    <3>1. CASE n = 1 BY <1>9, <1>19, <3>1 DEF Refuses
    <3>2. CASE n # 1
      <4>1. 1 \in 1..m /\ values # <<>> BY <1>5, <3>2
      <4>2. decoder \in WantsHello => values[1] = 0 BY <1>1, <4>1 DEF CodecInv, GoesOn
      <4>3. QED BY <1>9, <4>1, <4>2
    <3>3. QED BY <3>1, <3>2
  <2>3. decoder \in WantsHello => written[1].value = 0
    <3>1. 1 \in 1..n BY <1>5
    <3>2. QED BY <1>17, <2>1, <2>2, <3>1, Zenon
  <2>4. CASE n < L
    <3>1. stage' = "decode" BY <1>1, <1>9, <1>16, <1>19, <2>4 DEF ReadField
    <3>2. Starts(decoder)
      <4>1. SUFFICES ASSUME ~Starts(decoder) PROVE FALSE
        OBVIOUS
      <4>2. Takes(decoder) BY <1>1, <4>1 DEF CodecInv, GoesOn
      <4>3. decoder \in WantsHello /\ written[1].value # 0
        BY <4>1, <4>2 DEF Takes, WantsHello
      <4>4. QED BY <2>3, <4>3
    <3>3. GoesOn'
      <4>1. Len(values') < Len(Layout[decoder]) BY <1>9, <1>16, <2>4
      <4>2. \A i \in 1..Len(values') : Layout[decoder][i].checked => results'[i]
        BY <1>9, <2>1, Zenon
      <4>3. Starts(decoder)' BY <1>3, <3>2
      <4>4. (Len(values) < Len(Layout[decoder]))' BY <1>1, <1>3, <4>1
      <4>5. (\A i \in 1..Len(values) : Layout[decoder][i].checked => results[i])'
        BY <1>1, <1>3, <4>2
      <4>6. (decoder \in WantsHello /\ values # <<>> => values[1] = 0)' BY <1>1, <2>2
      <4>7. QED BY <4>3, <4>4, <4>5, <4>6, Zenon DEF GoesOn
    <3>4. AcceptsWhatGoesOn' BY <3>1 DEF AcceptsWhatGoesOn
    <3>5. QED BY <1>11, <1>13, <1>15, <3>3, <3>4 DEF CodecInv
  <2>5. CASE n = L
    <3>1. /\ stage' = "done"
          /\ decoder \notin {"DecidePacketType", "DecodeQueryPacket"} => verdict' = "accepted"
      BY <1>9, <1>16, <1>19, <2>5 DEF ReadField
    <3>2. \A i \in 1..L : Layout[decoder][i].checked => ~Last(i) BY <1>14, <2>1, <2>5
    <3>3. AcceptsWhatGoesOn'
      BY <1>1, <1>3, <1>16, <2>3, <3>1, <3>2 DEF AcceptsWhatGoesOn
    <3>4. GoesOn' BY <3>1 DEF GoesOn
    <3>5. QED BY <1>11, <1>13, <1>15, <3>3, <3>4 DEF CodecInv
  <2>6. QED BY <1>16, <2>4, <2>5
<1>20. QED BY <1>18, <1>19

(* Stuttering. *)
LEMMA StutterKeeps == CodecInv /\ UNCHANGED vars => CodecInv'
<1> SUFFICES ASSUME CodecInv, UNCHANGED vars PROVE CodecInv'
  OBVIOUS
<1>1. /\ written' = written /\ buffer' = buffer /\ index' = index /\ stage' = stage
      /\ decoder' = decoder /\ slack' = slack /\ values' = values /\ results' = results
      /\ verdict' = verdict
  BY DEF vars
<1>2. Layout' = Layout /\ (\A d : Starts(d)' <=> Starts(d)) /\ (\A d : Takes(d)' <=> Takes(d))
  BY <1>1, SamePacket
<1>3. (\A i : Last(i)' <=> Last(i)) /\ (\A i : LastNumber(i)' <=> LastNumber(i))
  BY <1>1 DEF Last, LastNumber
<1>4. CodecTypes' BY <1>1 DEF CodecInv, CodecTypes
<1>5. Encoded' BY <1>1, <1>2 DEF CodecInv, Encoded, Packed
<1>6. ReadBack' BY <1>1, <1>3 DEF CodecInv, ReadBack
<1>7. GoesOn' BY <1>1, <1>2 DEF CodecInv, GoesOn, Starts, Takes
<1>8. AcceptsWhatGoesOn' BY <1>1, <1>2, <1>3 DEF CodecInv, AcceptsWhatGoesOn
<1>9. QED BY <1>4, <1>5, <1>6, <1>7, <1>8 DEF CodecInv

(* The invariant, by the actions. *)
LEMMA Codec == Spec => []CodecInv
<1>1. ASSUME CodecInv, Next PROVE CodecInv'
  <2>1. ASSUME NEW field \in Field, WriteField(field) PROVE CodecInv'
    <3>1. field \in AnyField BY WireAssumption DEF Field, AnyField
    <3>2. <<field>> \in Seq(AnyField) BY <3>1
    <3>3. QED BY <1>1, <2>1, <3>2, WriteKeeps DEF WriteField
  <2>2. ASSUME EncodeHelloPacket PROVE CodecInv'
    BY <1>1, <2>2, WriteKeeps, WireAssumption DEF EncodeHelloPacket
  <2>3. ASSUME NEW packet \in ClientPackets, ClientWrites(packet) PROVE CodecInv'
    <3>1. packet \in Seq(AnyField) BY WireAssumption
    <3>2. QED BY <1>1, <2>3, <3>1, WriteKeeps DEF ClientWrites
  <2>4. QED BY <1>1, <2>1, <2>2, <2>3, DispatchKeeps, ReadKeeps DEF Next
<1>2. QED BY <1>1, CodecStarts, StutterKeeps, PTL DEF Spec

(* However the fields are mixed, the decoder stands where the next of them   *)
(* begins: ReadVarint64 and ReadString move m_index by what WriteUInt64 and  *)
(* WriteString have written, and no read goes past the packet.              *)
THEOREM WireAligned == Spec => []Aligned
<1>1. CodecInv => Aligned
  <2> SUFFICES ASSUME CodecInv
               PROVE  index = Len(PacketBytes(SubSeq(written, 1, Len(values))))
    BY DEF Aligned
  <2>1. written \in Seq(AnyField) /\ Len(written) \in Nat /\ Len(values) \in 0..Len(written)
    BY LenProperties DEF CodecInv, CodecTypes
  <2>2. PacketBytes(SubSeq(written, 1, Len(values))) = Bytes(written)[Len(values)]
    BY <2>1, BytesOfBeginning
  <2>3. QED BY <2>2 DEF CodecInv, Encoded
<1>2. QED BY <1>1, Codec, PTL

(* ReadVarint64 and ReadString give what WriteUInt64 and WriteString have    *)
(* written, whatever the numbers and strings, but for a number whose last    *)
(* byte ends the buffer; a read fails of such a field, and of no other.     *)
THEOREM WireReadBack == Spec => []ReadBack
<1>1. CodecInv => ReadBack BY DEF CodecInv
<1>2. QED BY <1>1, Codec, PTL

(* GetPacketType, DecodeHelloPacket, DecodeClientPacket and                  *)
(* DecodeServerPackets accept a packet of the right type exactly when the    *)
(* buffer goes on after each field whose result they look at.               *)
THEOREM WireAcceptsWhatGoesOn == Spec => []AcceptsWhatGoesOn
<1>1. CodecInv => AcceptsWhatGoesOn BY DEF CodecInv
<1>2. QED BY <1>1, Codec, PTL
===============================================================================
