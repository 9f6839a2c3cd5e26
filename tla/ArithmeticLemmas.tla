-------------------------- MODULE ArithmeticLemmas --------------------------
(***************************************************************************)
(* Products and quotients, which the provers only see through when they    *)
(* are named: what the proofs about pixels and grids use of them.          *)
(***************************************************************************)
EXTENDS Integers, TLAPS

LEMMA Times ==
  ASSUME NEW a \in Int, NEW b \in Int, NEW c \in Nat, a <= b
  PROVE  a * c <= b * c
<1>1. (b - a) * c >= 0
  OBVIOUS
<1> QED
  BY <1>1

LEMMA Cancel ==
  ASSUME NEW a \in Int, NEW b \in Int, NEW c \in Nat \ {0}, a * c <= b * c
  PROVE  a <= b
<1> SUFFICES ASSUME b + 1 <= a PROVE FALSE
  OBVIOUS
<1>1. (b + 1) * c <= a * c
  BY Times
<1>2. (b + 1) * c = b * c + c
  OBVIOUS
<1> DEFINE ac == a * c
           bc == b * c
<1>3. ac \in Int /\ bc \in Int
  OBVIOUS
<1> HIDE DEF ac, bc
<1>4. bc + c <= ac /\ ac <= bc
  BY <1>1, <1>2 DEF ac, bc
<1> QED
  BY <1>3, <1>4

LEMMA Floor ==
  ASSUME NEW a \in Nat, NEW c \in Nat \ {0}
  PROVE  /\ a \div c \in Nat
         /\ (a \div c) * c <= a
         /\ a < (a \div c) * c + c
BY Z3

\* The last byte of a pixel on the screen is in the mapped bytes.
LEMMA PixelInside ==
  ASSUME NEW x \in Nat, NEW y \in Nat, NEW bytes \in Nat,
         NEW px \in 0 .. x - 1, NEW py \in 0 .. y - 1
  PROVE  py * (x * bytes) + px * bytes + bytes <= x * bytes * y
<1> DEFINE row == x * bytes
<1>1. row \in Nat /\ px + 1 <= x /\ py + 1 <= y /\ px \in Nat /\ py \in Nat
  OBVIOUS
<1>2. (px + 1) * bytes <= row
  BY <1>1, Times
<1> HIDE DEF row
<1>3. (py + 1) * row <= y * row
  BY <1>1, Times
<1>4. (px + 1) * bytes = px * bytes + bytes /\ (py + 1) * row = py * row + row
  BY <1>1
<1> DEFINE a == px * bytes
           b == py * row
           c == y * row
<1>5. a \in Int /\ b \in Int /\ c \in Int
  BY <1>1
<1>6. c = x * bytes * y
  BY DEF row
<1> HIDE DEF a, b, c
<1>7. b + a + bytes <= c
  BY <1>1, <1>2, <1>3, <1>4, <1>5 DEF a, b, c
<1> QED
  BY <1>6, <1>7 DEF a, b, row
=============================================================================
