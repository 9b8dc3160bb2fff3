---------------------------- MODULE JitBlockProofs -----------------------------
(***************************************************************************)
(* Proofs about JitBlock: the room emit_action asks for covers what it     *)
(* writes.  First Bytes, which is defined by recursion over the code: that *)
(* its recursion has a solution, and that it adds up over concatenation.   *)
(* Then a bound for each piece of code the emitter writes, in the order    *)
(* the pieces are built from each other; an action's bound is compared     *)
(* with its guard, an exit's with the room kept for it.                    *)
(***************************************************************************)
EXTENDS JitBlock, WellFoundedInduction, TLAPS

\* A sequence of host instructions, of whatever shapes.
IsCode(c) == \E S : c \in Seq(S)

\* f counts the bytes of the first instructions of c, up to m of them.
SumsTo(f, c, m) ==
  /\ f \in [0 .. m -> Nat]
  /\ f[0] = 0
  /\ \A k \in 1 .. m : f[k] = f[k-1] + Size(c[k])

LEMMA SizeType ==
  ASSUME NEW i
  PROVE  Size(i) \in Nat
BY DEF Size

\* A set of naturals that holds 0 and with each number below m the next.
LEMMA Counting ==
  ASSUME NEW m \in Nat, NEW P, 0 \in P, \A k \in 0 .. m - 1 : k \in P => k + 1 \in P
  PROVE  0 .. m \subseteq P
<1>1. SUFFICES ASSUME NEW x \in 0 .. m, x \notin P PROVE FALSE  OBVIOUS
<1> DEFINE W == {k \in Nat : k <= m /\ k \notin P}
<1>2. W # {} /\ W \subseteq Nat  BY <1>1
<1>3. PICK y \in W : \A z \in W : <<z, y>> \notin OpToRel(<, Nat)
  BY <1>2, NatLessThanWellFounded, WFMin
<1>4. y # 0 /\ y \in Nat /\ y <= m  BY <1>3
<1>5. y - 1 \in 0 .. m - 1 /\ (y - 1) + 1 = y  BY <1>4
<1>6. y - 1 \notin P  BY <1>3, <1>5
<1>7. y - 1 \in W  BY <1>4, <1>5, <1>6
<1>8. <<y - 1, y>> \in OpToRel(<, Nat)  BY <1>4, <1>5 DEF OpToRel
<1>9. QED  BY <1>3, <1>7, <1>8

LEMMA SumExists ==
  ASSUME NEW c, NEW m \in Nat
  PROVE  \E f : SumsTo(f, c, m)
<1> DEFINE P == {k \in Nat : \E f : SumsTo(f, c, k)}
<1>1. 0 \in P
  <2>1. SumsTo([k \in 0 .. 0 |-> 0], c, 0)  BY DEF SumsTo
  <2>2. QED  BY <2>1
<1>2. ASSUME NEW k \in 0 .. m - 1, k \in P PROVE k + 1 \in P
  <2>1. PICK f : SumsTo(f, c, k)  BY <1>2
  <2> DEFINE g == [x \in 0 .. k + 1 |-> IF x <= k THEN f[x] ELSE f[k] + Size(c[k+1])]
  <2>2. SumsTo(g, c, k + 1)
    <3>1. f[k] \in Nat /\ Size(c[k+1]) \in Nat  BY <2>1, SizeType DEF SumsTo
    <3>2. g \in [0 .. k + 1 -> Nat]  BY <3>1, <2>1 DEF SumsTo
    <3>3. g[0] = 0  BY <2>1 DEF SumsTo
    <3>4. ASSUME NEW x \in 1 .. k + 1 PROVE g[x] = g[x-1] + Size(c[x])
      <4>1. CASE x <= k  BY <4>1, <2>1 DEF SumsTo
      <4>2. CASE x = k + 1  BY <4>2
      <4>3. QED  BY <4>1, <4>2
    <3>5. QED  BY <3>2, <3>3, <3>4 DEF SumsTo
  <2>3. k + 1 \in Nat  OBVIOUS
  <2>4. QED  BY <2>2, <2>3
<1> HIDE DEF P
<1>3. 0 .. m \subseteq P  BY <1>1, <1>2, Counting
<1>4. QED  BY <1>3 DEF P

\* Bytes by its recursion.
LEMMA BytesSums ==
  ASSUME NEW c, Len(c) \in Nat
  PROVE  \E f : SumsTo(f, c, Len(c)) /\ Bytes(c) = f[Len(c)]
<1> DEFINE m == Len(c)
<1> DEFINE Is(f) == f = [k \in 0 .. m |-> IF k = 0 THEN 0 ELSE f[k-1] + Size(c[k])]
<1>1. PICK f : SumsTo(f, c, m)  BY SumExists
<1>2. Is(f)
  <2>1. DOMAIN f = 0 .. m  BY <1>1 DEF SumsTo
  <2>2. f = [k \in 0 .. m |-> f[k]]  BY <1>1 DEF SumsTo
  <2>3. \A k \in 0 .. m : f[k] = IF k = 0 THEN 0 ELSE f[k-1] + Size(c[k])  BY <1>1 DEF SumsTo
  <2>4. QED  BY <2>2, <2>3
<1> DEFINE g == CHOOSE g : Is(g)
<1>3. Is(g)  BY <1>2
<1>4. Bytes(c) = g[m]  BY DEF Bytes
<1>5. SumsTo(g, c, m)
  <2> HIDE DEF g
  <2>1. DOMAIN g = 0 .. m /\ g[0] = 0 /\ \A k \in 1 .. m : g[k] = g[k-1] + Size(c[k])
    BY <1>3
  <2> DEFINE P == {k \in Nat : k <= m => g[k] \in Nat}
  <2>2. 0 \in P  BY <2>1
  <2>3. ASSUME NEW k \in 0 .. m - 1, k \in P PROVE k + 1 \in P
    <3>1. g[k] \in Nat /\ k + 1 \in 1 .. m /\ (k + 1) - 1 = k  BY <2>3
    <3>2. g[k+1] = g[k] + Size(c[k+1])  BY <3>1, <2>1
    <3>3. QED  BY <3>1, <3>2, SizeType
  <2> HIDE DEF P
  <2>4. 0 .. m \subseteq P  BY <2>2, <2>3, Counting
  <2>5. \A k \in 0 .. m : g[k] \in Nat  BY <2>4 DEF P
  <2>6. g = [k \in 0 .. m |-> g[k]]  BY <1>3
  <2>7. QED  BY <2>1, <2>5, <2>6 DEF SumsTo
<1>6. QED  BY <1>4, <1>5

LEMMA CodeCat ==
  ASSUME NEW a, NEW b, IsCode(a), IsCode(b)
  PROVE  /\ IsCode(a \o b)
         /\ Len(a) \in Nat /\ Len(b) \in Nat /\ Len(a \o b) = Len(a) + Len(b)
         /\ \A k \in 1 .. Len(a) : (a \o b)[k] = a[k]
         /\ \A k \in 1 .. Len(b) : (a \o b)[Len(a) + k] = b[k]
<1>1. PICK S : a \in Seq(S)  BY DEF IsCode
<1>2. PICK T : b \in Seq(T)  BY DEF IsCode
<1> DEFINE U == S \cup T
<1>3. a \in Seq(U) /\ b \in Seq(U)  BY <1>1, <1>2
<1> HIDE DEF U
<1>4. a \o b \in Seq(U) /\ Len(a) \in Nat /\ Len(b) \in Nat /\ Len(a \o b) = Len(a) + Len(b)
  BY <1>3
<1>5. \A k \in 1 .. Len(a) : (a \o b)[k] = a[k]  BY <1>3
<1>6. \A k \in 1 .. Len(b) : (a \o b)[Len(a) + k] = b[k]  BY <1>3
<1>7. QED  BY <1>4, <1>5, <1>6 DEF IsCode

\* What is emitted one after the other adds up.
LEMMA BytesCat ==
  ASSUME NEW a, NEW b, IsCode(a), IsCode(b)
  PROVE  /\ IsCode(a \o b)
         /\ Bytes(a) \in Nat /\ Bytes(b) \in Nat
         /\ Bytes(a \o b) = Bytes(a) + Bytes(b)
<1> DEFINE c == a \o b
<1> DEFINE p == Len(a)
<1> DEFINE q == Len(b)
<1>1. IsCode(c) /\ p \in Nat /\ q \in Nat /\ Len(c) = p + q  BY CodeCat
<1>2. \A k \in 1 .. p : c[k] = a[k]  BY CodeCat
<1>3. \A k \in 1 .. q : c[p + k] = b[k]  BY CodeCat
<1> HIDE DEF c, p, q
<1>4. PICK f : SumsTo(f, a, p) /\ Bytes(a) = f[p]  BY <1>1, BytesSums DEF p
<1>5. PICK g : SumsTo(g, b, q) /\ Bytes(b) = g[q]  BY <1>1, BytesSums DEF q
<1>6. PICK h : SumsTo(h, c, p + q) /\ Bytes(c) = h[p + q]
  <2>1. Len(c) \in Nat  BY <1>1
  <2>2. QED  BY <1>1, <2>1, BytesSums
<1>7. f[p] \in Nat /\ g[q] \in Nat /\ h[p + q] \in Nat  BY <1>1, <1>4, <1>5, <1>6 DEF SumsTo
<1>8. h[p] = f[p]
  <2> DEFINE P == {k \in Nat : k <= p => h[k] = f[k]}
  <2>1. 0 \in P  BY <1>4, <1>6 DEF SumsTo
  <2>2. ASSUME NEW k \in 0 .. p - 1, k \in P PROVE k + 1 \in P
    <3>1. k + 1 \in 1 .. p /\ k + 1 \in 1 .. p + q /\ (k + 1) - 1 = k /\ k <= p  BY <1>1
    <3>2. f[k+1] = f[k] + Size(a[k+1])  BY <3>1, <1>4 DEF SumsTo
    <3>3. h[k+1] = h[k] + Size(c[k+1])  BY <3>1, <1>6 DEF SumsTo
    <3>4. h[k+1] = f[k+1]  BY <3>1, <3>2, <3>3, <2>2, <1>2
    <3>5. QED  BY <3>1, <3>4
  <2> HIDE DEF P
  <2>3. 0 .. p \subseteq P  BY <2>1, <2>2, <1>1, Counting
  <2>4. p \in 0 .. p  BY <1>1
  <2>5. QED  BY <2>3, <2>4, <1>1 DEF P
<1>9. h[p + q] = f[p] + g[q]
  <2> DEFINE P == {k \in Nat : k <= q => h[p + k] = f[p] + g[k]}
  <2>1. 0 \in P
    <3>1. g[0] = 0 /\ p + 0 = p /\ f[p] + 0 = f[p]  BY <1>1, <1>5, <1>7 DEF SumsTo
    <3>2. QED  BY <3>1, <1>8
  <2>2. ASSUME NEW k \in 0 .. q - 1, k \in P PROVE k + 1 \in P
    <3>1. k + 1 \in 1 .. q /\ p + (k + 1) \in 1 .. p + q /\ (k + 1) - 1 = k /\ k <= q
          /\ (p + (k + 1)) - 1 = p + k /\ k \in 0 .. q
      BY <1>1
    <3>2. g[k+1] = g[k] + Size(b[k+1]) /\ g[k] \in Nat  BY <3>1, <1>5 DEF SumsTo
    <3>3. h[p + (k + 1)] = h[p + k] + Size(c[p + (k + 1)])  BY <3>1, <1>6 DEF SumsTo
    <3>4. c[p + (k + 1)] = b[k+1]  BY <3>1, <1>3
    <3>5. h[p + k] = f[p] + g[k]  BY <3>1, <2>2
    <3>6. Size(b[k+1]) \in Nat  BY SizeType
    <3>7. h[p + (k + 1)] = f[p] + g[k+1]
      <4> DEFINE z == Size(b[k+1])
      <4> HIDE DEF z
      <4>1. h[p + (k + 1)] = (f[p] + g[k]) + z /\ g[k+1] = g[k] + z /\ z \in Nat
        BY <3>2, <3>3, <3>4, <3>5, <3>6 DEF z
      <4>2. QED  BY <4>1, <3>2, <1>7
    <3>8. QED  BY <3>1, <3>7
  <2> HIDE DEF P
  <2>3. 0 .. q \subseteq P  BY <2>1, <2>2, <1>1, Counting
  <2>4. q \in 0 .. q  BY <1>1
  <2>5. QED  BY <2>3, <2>4, <1>1 DEF P
<1>10. QED  BY <1>1, <1>4, <1>5, <1>6, <1>7, <1>9 DEF c

LEMMA Bytes0 ==
  IsCode(<<>>) /\ Bytes(<<>>) = 0
<1>1. <<>> \in Seq({}) /\ Len(<<>>) = 0  OBVIOUS
<1>2. PICK f : SumsTo(f, <<>>, 0) /\ Bytes(<<>>) = f[0]  BY <1>1, BytesSums
<1>3. QED  BY <1>1, <1>2 DEF SumsTo, IsCode

LEMMA Bytes1 ==
  ASSUME NEW x
  PROVE  IsCode(<<x>>) /\ Bytes(<<x>>) = Size(x)
<1> DEFINE c == <<x>>
<1>1. c \in Seq({x}) /\ Len(c) = 1 /\ c[1] = x  OBVIOUS
<1> HIDE DEF c
<1>2. PICK f : SumsTo(f, c, 1) /\ Bytes(c) = f[1]
  <2>1. Len(c) \in Nat  BY <1>1
  <2>2. PICK f : SumsTo(f, c, Len(c)) /\ Bytes(c) = f[Len(c)]  BY <2>1, BytesSums
  <2>3. QED  BY <2>2, <1>1
<1>3. f[0] = 0 /\ f[1] = f[0] + Size(c[1])
  <2>1. 1 \in 1 .. 1 /\ 1 - 1 = 0  OBVIOUS
  <2>2. QED  BY <1>2, <2>1 DEF SumsTo
<1>4. Bytes(c) = Size(x)  BY <1>1, <1>2, <1>3, SizeType
<1>5. QED  BY <1>1, <1>4 DEF IsCode, c

LEMMA Bytes2 ==
  ASSUME NEW x1, NEW x2
  PROVE  /\ IsCode(<<x1, x2>>)
         /\ Bytes(<<x1, x2>>) = Size(x1) + Size(x2)
<1> DEFINE c == <<x1, x2>>
<1>1. /\ c \in Seq({x1, x2}) /\ Len(c) = 2
      /\ c[1] = x1 /\ c[2] = x2
  OBVIOUS
<1> HIDE DEF c
<1>2. PICK f : SumsTo(f, c, 2) /\ Bytes(c) = f[2]
  <2>1. Len(c) \in Nat  BY <1>1
  <2>2. PICK f : SumsTo(f, c, Len(c)) /\ Bytes(c) = f[Len(c)]  BY <2>1, BytesSums
  <2>3. QED  BY <2>2, <1>1
<1>3. f[0] = 0 /\ \A k \in 1 .. 2 : f[k] = f[k-1] + Size(c[k])  BY <1>2 DEF SumsTo
<1>4. f[1] = f[0] + Size(x1) /\ f[2] = f[1] + Size(x2)
  BY <1>1, <1>3
<1>5. Bytes(c) = Size(x1) + Size(x2)  BY <1>2, <1>3, <1>4, SizeType
<1>6. QED  BY <1>1, <1>5 DEF IsCode, c

LEMMA Bytes3 ==
  ASSUME NEW x1, NEW x2, NEW x3
  PROVE  /\ IsCode(<<x1, x2, x3>>)
         /\ Bytes(<<x1, x2, x3>>) = Size(x1) + Size(x2) + Size(x3)
<1> DEFINE c == <<x1, x2, x3>>
<1>1. /\ c \in Seq({x1, x2, x3}) /\ Len(c) = 3
      /\ c[1] = x1 /\ c[2] = x2 /\ c[3] = x3
  OBVIOUS
<1> HIDE DEF c
<1>2. PICK f : SumsTo(f, c, 3) /\ Bytes(c) = f[3]
  <2>1. Len(c) \in Nat  BY <1>1
  <2>2. PICK f : SumsTo(f, c, Len(c)) /\ Bytes(c) = f[Len(c)]  BY <2>1, BytesSums
  <2>3. QED  BY <2>2, <1>1
<1>3. f[0] = 0 /\ \A k \in 1 .. 3 : f[k] = f[k-1] + Size(c[k])  BY <1>2 DEF SumsTo
<1>4. f[1] = f[0] + Size(x1) /\ f[2] = f[1] + Size(x2) /\ f[3] = f[2] + Size(x3)
  BY <1>1, <1>3
<1>5. Bytes(c) = Size(x1) + Size(x2) + Size(x3)  BY <1>2, <1>3, <1>4, SizeType
<1>6. QED  BY <1>1, <1>5 DEF IsCode, c

LEMMA Bytes4 ==
  ASSUME NEW x1, NEW x2, NEW x3, NEW x4
  PROVE  /\ IsCode(<<x1, x2, x3, x4>>)
         /\ Bytes(<<x1, x2, x3, x4>>) = Size(x1) + Size(x2) + Size(x3) + Size(x4)
<1> DEFINE c == <<x1, x2, x3, x4>>
<1>1. /\ c \in Seq({x1, x2, x3, x4}) /\ Len(c) = 4
      /\ c[1] = x1 /\ c[2] = x2 /\ c[3] = x3 /\ c[4] = x4
  OBVIOUS
<1> HIDE DEF c
<1>2. PICK f : SumsTo(f, c, 4) /\ Bytes(c) = f[4]
  <2>1. Len(c) \in Nat  BY <1>1
  <2>2. PICK f : SumsTo(f, c, Len(c)) /\ Bytes(c) = f[Len(c)]  BY <2>1, BytesSums
  <2>3. QED  BY <2>2, <1>1
<1>3. f[0] = 0 /\ \A k \in 1 .. 4 : f[k] = f[k-1] + Size(c[k])  BY <1>2 DEF SumsTo
<1>4. f[1] = f[0] + Size(x1) /\ f[2] = f[1] + Size(x2) /\ f[3] = f[2] + Size(x3) /\ f[4] = f[3] + Size(x4)
  BY <1>1, <1>3
<1>5. Bytes(c) = Size(x1) + Size(x2) + Size(x3) + Size(x4)  BY <1>2, <1>3, <1>4, SizeType
<1>6. QED  BY <1>1, <1>5 DEF IsCode, c

LEMMA Bytes5 ==
  ASSUME NEW x1, NEW x2, NEW x3, NEW x4, NEW x5
  PROVE  /\ IsCode(<<x1, x2, x3, x4, x5>>)
         /\ Bytes(<<x1, x2, x3, x4, x5>>) = Size(x1) + Size(x2) + Size(x3) + Size(x4) + Size(x5)
<1> DEFINE c == <<x1, x2, x3, x4, x5>>
<1>1. /\ c \in Seq({x1, x2, x3, x4, x5}) /\ Len(c) = 5
      /\ c[1] = x1 /\ c[2] = x2 /\ c[3] = x3 /\ c[4] = x4 /\ c[5] = x5
  OBVIOUS
<1> HIDE DEF c
<1>2. PICK f : SumsTo(f, c, 5) /\ Bytes(c) = f[5]
  <2>1. Len(c) \in Nat  BY <1>1
  <2>2. PICK f : SumsTo(f, c, Len(c)) /\ Bytes(c) = f[Len(c)]  BY <2>1, BytesSums
  <2>3. QED  BY <2>2, <1>1
<1>3. f[0] = 0 /\ \A k \in 1 .. 5 : f[k] = f[k-1] + Size(c[k])  BY <1>2 DEF SumsTo
<1>4. f[1] = f[0] + Size(x1) /\ f[2] = f[1] + Size(x2) /\ f[3] = f[2] + Size(x3) /\ f[4] = f[3] + Size(x4) /\ f[5] = f[4] + Size(x5)
  BY <1>1, <1>3
<1>5. Bytes(c) = Size(x1) + Size(x2) + Size(x3) + Size(x4) + Size(x5)  BY <1>2, <1>3, <1>4, SizeType
<1>6. QED  BY <1>1, <1>5 DEF IsCode, c

\* Code without a literal takes three bytes an instruction at most.
LEMMA BytesShort ==
  ASSUME NEW c, IsCode(c), \A k \in 1 .. Len(c) : Size(c[k]) <= 3
  PROVE  Len(c) \in Nat /\ Bytes(c) \in Nat /\ Bytes(c) <= 3 * Len(c)
<1> DEFINE m == Len(c)
<1>1. m \in Nat  BY DEF IsCode
<1>2. PICK f : SumsTo(f, c, m) /\ Bytes(c) = f[m]  BY <1>1, BytesSums
<1> DEFINE P == {k \in Nat : k <= m => f[k] <= 3 * k}
<1>3. 0 \in P  BY <1>2 DEF SumsTo
<1>4. ASSUME NEW k \in 0 .. m - 1, k \in P PROVE k + 1 \in P
  <2>1. k + 1 \in 1 .. m /\ (k + 1) - 1 = k /\ k <= m /\ k \in 0 .. m  BY <1>1
  <2>2. f[k+1] = f[k] + Size(c[k+1]) /\ f[k] \in Nat  BY <2>1, <1>2 DEF SumsTo
  <2>3. Size(c[k+1]) \in Nat /\ Size(c[k+1]) <= 3  BY <2>1, SizeType
  <2>4. f[k] <= 3 * k  BY <2>1, <1>4
  <2>5. QED  BY <2>1, <2>2, <2>3, <2>4
<1> HIDE DEF P
<1>5. 0 .. m \subseteq P  BY <1>1, <1>3, <1>4, Counting
<1>6. m \in 0 .. m  BY <1>1
<1>7. QED  BY <1>1, <1>2, <1>5, <1>6 DEF P, SumsTo

-------------------------------------------------------------------------------
(* What is emitted, in bytes. *)

Fits(c, k) == IsCode(c) /\ Bytes(c) \in Nat /\ Bytes(c) <= k

LEMMA FitsCat ==
  ASSUME NEW a, NEW b, NEW j \in Nat, NEW k \in Nat, NEW m \in Nat,
         Fits(a, j), Fits(b, k), j + k <= m
  PROVE  Fits(a \o b, m)
<1>1. IsCode(a \o b) /\ Bytes(a \o b) = Bytes(a) + Bytes(b)  BY BytesCat DEF Fits
<1>2. Bytes(a) \in Nat /\ Bytes(b) \in Nat /\ Bytes(a) <= j /\ Bytes(b) <= k  BY DEF Fits
<1>3. QED  BY <1>1, <1>2 DEF Fits

LEMMA Fits0 ==
  Fits(<<>>, 0)
BY Bytes0 DEF Fits

LEMMA Fits1 ==
  ASSUME NEW x, NEW m \in Nat, Size(x) <= m
  PROVE  Fits(<<x>>, m)
BY Bytes1, SizeType DEF Fits

LEMMA Fits2 ==
  ASSUME NEW x1, NEW x2,
         NEW m \in Nat, Size(x1) + Size(x2) <= m
  PROVE  Fits(<<x1, x2>>, m)
BY Bytes2, SizeType DEF Fits

LEMMA Fits3 ==
  ASSUME NEW x1, NEW x2, NEW x3,
         NEW m \in Nat, Size(x1) + Size(x2) + Size(x3) <= m
  PROVE  Fits(<<x1, x2, x3>>, m)
BY Bytes3, SizeType DEF Fits

LEMMA Fits4 ==
  ASSUME NEW x1, NEW x2, NEW x3, NEW x4,
         NEW m \in Nat, Size(x1) + Size(x2) + Size(x3) + Size(x4) <= m
  PROVE  Fits(<<x1, x2, x3, x4>>, m)
BY Bytes4, SizeType DEF Fits

LEMMA Fits5 ==
  ASSUME NEW x1, NEW x2, NEW x3, NEW x4, NEW x5,
         NEW m \in Nat, Size(x1) + Size(x2) + Size(x3) + Size(x4) + Size(x5) <= m
  PROVE  Fits(<<x1, x2, x3, x4, x5>>, m)
BY Bytes5, SizeType DEF Fits

\* A register each: 24 bytes.
LEMMA OverFits ==
  ASSUME NEW S, NEW I, \A i \in GPR : Size(I[i]) = 3
  PROVE  Fits(Over(S, I), 24)
<1> DEFINE one(i) == IF i \in S THEN <<I[i]>> ELSE <<>>
<1>1. ASSUME NEW i \in GPR PROVE Fits(one(i), 3)
  <2>1. Size(I[i]) <= 3  OBVIOUS
  <2>2. CASE i \in S
    <3>1. Fits(<<I[i]>>, 3)  BY <2>1, Fits1
    <3>2. QED  BY <3>1, <2>2
  <2>3. CASE i \notin S
    <3>1. Fits(<<>>, 3)  BY Fits0 DEF Fits
    <3>2. QED  BY <3>1, <2>3
  <2>4. QED  BY <2>2, <2>3
<1>2. Over(S, I) = one(0) \o one(1) \o one(2) \o one(3) \o one(4) \o one(5) \o one(6) \o one(7)
  BY DEF Over
<1> HIDE DEF one
<1>3. \A i \in 0 .. 7 : Fits(one(i), 3)  BY <1>1 DEF GPR
<1>4. Fits(one(0) \o one(1), 6)  BY <1>3, FitsCat
<1>5. Fits(one(0) \o one(1) \o one(2), 9)  BY <1>3, <1>4, FitsCat
<1>6. Fits(one(0) \o one(1) \o one(2) \o one(3), 12)  BY <1>3, <1>5, FitsCat
<1>7. Fits(one(0) \o one(1) \o one(2) \o one(3) \o one(4), 15)  BY <1>3, <1>6, FitsCat
<1>8. Fits(one(0) \o one(1) \o one(2) \o one(3) \o one(4) \o one(5), 18)  BY <1>3, <1>7, FitsCat
<1>9. Fits(one(0) \o one(1) \o one(2) \o one(3) \o one(4) \o one(5) \o one(6), 21)
  BY <1>3, <1>8, FitsCat
<1>10. Fits(one(0) \o one(1) \o one(2) \o one(3) \o one(4) \o one(5) \o one(6) \o one(7), 24)
  BY <1>3, <1>9, FitsCat
<1>11. QED  BY <1>2, <1>10

LEMMA GprsFit ==
  ASSUME NEW S
  PROVE  Fits(emit_load_gprs(S), 24) /\ Fits(emit_store_gprs(S), 24)
<1>1. \A i \in GPR : Size([k \in GPR |-> L32i(R(k), k)][i]) = 3  BY DEF Size, L32i
<1>2. \A i \in GPR : Size([k \in GPR |-> S32i(R(k), k)][i]) = 3  BY DEF Size, S32i
<1>3. QED  BY <1>1, <1>2, OverFits DEF emit_load_gprs, emit_store_gprs

LEMMA PrologueFits ==
  ASSUME NEW S
  PROVE  Fits(emit_prologue(S), 27)
<1>1. Size(<<"entry">>) <= 3  BY DEF Size
<1>2. Fits(<<<<"entry">>>>, 3)  BY <1>1, Fits1
<1>3. QED  BY <1>2, GprsFit, FitsCat DEF emit_prologue

LEMMA EpilogueFits ==
  ASSUME NEW ip, NEW S
  PROVE  Fits(emit_epilogue(ip, S), 42)
<1> DEFINE c == <<<<"ip32", T0, ip>>, S32i(T0, NextIp), <<"retw">>>>
<1>1. Size(<<"ip32", T0, ip>>) = 13 /\ Size(S32i(T0, NextIp)) = 3 /\ Size(<<"retw">>) = 2  BY DEF Size, S32i
<1>2. Fits(c, 18)  BY <1>1, Fits3
<1> HIDE DEF c
<1>3. Fits(emit_store_gprs(S) \o c, 42)  BY <1>2, GprsFit, FitsCat
<1>4. QED  BY <1>3 DEF emit_epilogue, c

LEMMA LinkedExitFits ==
  ASSUME NEW ip, NEW S
  PROVE  Fits(emit_linked_exit(S, ip), 31)
<1> DEFINE c == <<Mov(10, CPU), <<"call8", ip>>, <<"retw">>>>
<1>1. Size(Mov(10, CPU)) = 2 /\ Size(<<"call8", ip>>) = 3 /\ Size(<<"retw">>) = 2  BY DEF Size, Mov
<1>2. Fits(c, 7)  BY <1>1, Fits3
<1> HIDE DEF c
<1>3. Fits(emit_store_gprs(S) \o c, 31)  BY <1>2, GprsFit, FitsCat
<1>4. QED  BY <1>3 DEF emit_linked_exit, c

LEMMA AddressFits ==
  ASSUME NEW a, NEW d, NEW t
  PROVE  Fits(emit_mem_address(a, d, t), 27)
<1> DEFINE m == a.mem
<1> DEFINE base == IF m.base >= 0 THEN <<Mov(d, R(m.base))>> ELSE <<Movi(d, 0)>>
<1> DEFINE scale == IF m.scale = 0 THEN <<>> ELSE <<Sh("SHL", t, t, m.scale)>>
<1> DEFINE index == IF m.index < 0 THEN <<>> ELSE
                      <<Mov(t, R(m.index))>> \o scale \o <<Alu("ADD", d, d, t)>>
<1> DEFINE disp == IF m.disp # 0 \/ (m.base < 0 /\ m.index < 0)
                     THEN <<Movi32(t, m.disp), Alu("ADD", d, d, t)>> ELSE <<>>
<1>1. Fits(base, 3)
  <2>1. Size(Mov(d, R(m.base))) <= 3 /\ Size(Movi(d, 0)) <= 3  BY DEF Size, Movi, Mov
  <2>2. Fits(<<Mov(d, R(m.base))>>, 3) /\ Fits(<<Movi(d, 0)>>, 3)  BY <2>1, Fits1
  <2>3. QED  BY <2>2
<1>2. Fits(scale, 3)
  <2>1. Size(Sh("SHL", t, t, m.scale)) <= 3  BY DEF Size, Sh
  <2>2. Fits(<<Sh("SHL", t, t, m.scale)>>, 3)  BY <2>1, Fits1
  <2>3. Fits(<<>>, 3)  BY Fits0 DEF Fits
  <2>4. QED  BY <2>2, <2>3
<1> HIDE DEF scale
<1>3. Fits(index, 8)
  <2>1. Size(Mov(t, R(m.index))) <= 2 /\ Size(Alu("ADD", d, d, t)) <= 3  BY DEF Size, Mov, Alu
  <2>2. Fits(<<Mov(t, R(m.index))>>, 2) /\ Fits(<<Alu("ADD", d, d, t)>>, 3)  BY <2>1, Fits1
  <2>3. Fits(<<Mov(t, R(m.index))>> \o scale, 5)  BY <2>2, <1>2, FitsCat
  <2>4. Fits(<<Mov(t, R(m.index))>> \o scale \o <<Alu("ADD", d, d, t)>>, 8)
    BY <2>2, <2>3, FitsCat
  <2>5. Fits(<<>>, 8)  BY Fits0 DEF Fits
  <2>6. QED  BY <2>4, <2>5
<1>4. Fits(disp, 16)
  <2>1. Size(Movi32(t, m.disp)) = 13 /\ Size(Alu("ADD", d, d, t)) = 3  BY DEF Size, Movi32, Alu
  <2>2. Fits(<<Movi32(t, m.disp), Alu("ADD", d, d, t)>>, 16)  BY <2>1, Fits2
  <2>3. Fits(<<>>, 16)  BY Fits0 DEF Fits
  <2>4. QED  BY <2>2, <2>3
<1>5. emit_mem_address(a, d, t) = base \o index \o disp  BY DEF emit_mem_address, scale
<1> HIDE DEF base, index, disp
<1>6. Fits(base \o index, 11)  BY <1>1, <1>3, FitsCat
<1>7. Fits(base \o index \o disp, 27)  BY <1>6, <1>4, FitsCat
<1>8. QED  BY <1>5, <1>7

LEMMA PointerFits ==
  ASSUME NEW a
  PROVE  Fits(emit_guest_ptr32(a), 33)
<1> DEFINE c == <<<<"physmem", T2>>, Alu("ADD", T2, T2, T0)>>
<1>1. Size(<<"physmem", T2>>) = 3 /\ Size(Alu("ADD", T2, T2, T0)) = 3  BY DEF Size, Alu
<1>2. Fits(c, 6)  BY <1>1, Fits2
<1> HIDE DEF c
<1>3. Fits(emit_mem_address(a, T0, T1), 27)  BY AddressFits
<1>4. Fits(emit_mem_address(a, T0, T1) \o c, 33)  BY <1>2, <1>3, FitsCat
<1>5. QED  BY <1>4 DEF emit_guest_ptr32, c

\* A helper call: twice the registers, and 18 bytes.
LEMMA AroundFits ==
  ASSUME NEW a, NEW before, NEW helper, NEW after, NEW j \in Nat, NEW k \in Nat, NEW m \in Nat,
         Fits(before, j), Fits(after, k), (66 + j) + k <= m
  PROVE  Fits(Around(a, before, helper, after), m)
<1> DEFINE c == <<Addr32(T2), Mov(10, CPU), Call(helper)>>
<1>1. Size(Addr32(T2)) = 13 /\ Size(Mov(10, CPU)) = 2 /\ Size(Call(helper)) = 3  BY DEF Size, Mov, Addr32, Call
<1>2. Fits(c, 18)  BY <1>1, Fits3
<1> DEFINE st == emit_store_gprs(store_mask)
<1> DEFINE ld == emit_load_gprs(load_mask \cup store_mask)
<1>3. Fits(st, 24) /\ Fits(ld, 24)  BY GprsFit
<1>4. Around(a, before, helper, after) = st \o before \o c \o after \o ld  BY DEF Around
<1> HIDE DEF c, st, ld
<1>5. Fits(st \o before, 24 + j)  BY <1>3, FitsCat
<1>6. Fits(st \o before \o c, 42 + j)  BY <1>2, <1>5, FitsCat
<1>7. Fits(st \o before \o c \o after, (42 + j) + k)  BY <1>6, FitsCat
<1>8. Fits(st \o before \o c \o after \o ld, m)  BY <1>3, <1>7, FitsCat
<1>9. QED  BY <1>4, <1>8

LEMMA CcFits ==
  ASSUME NEW d, NEW op, NEW mask, NEW t
  PROVE  Fits(emit_cc(d, op, mask, t), 25)
<1>1. /\ Size(S32i(d, Dst)) = 3 /\ Size(Movi(t, CcOp[op])) = 3 /\ Size(S32i(t, Op)) = 3
      /\ Size(Movi32(t, mask)) = 13 /\ Size(S32i(t, Mask)) = 3
  BY DEF Size, Movi32, Movi, S32i
<1>2. QED  BY <1>1, Fits5 DEF emit_cc

LEMMA MergeFits ==
  ASSUME NEW d, NEW v, NEW bits, NEW low
  PROVE  Fits(emit_merge(d, v, bits, low), 38)
<1> DEFINE x == <<Movi32(T1, 15 - bits * low), Alu("AND", d, d, T1), Movi32(T1, bits),
                  Alu("AND", v, v, T1)>>
<1> DEFINE y == IF low = 1 THEN <<>> ELSE <<Sh("SHL", v, v, 1)>>
<1> DEFINE z == <<Alu("OR", d, d, v)>>
<1>1. /\ Size(Movi32(T1, 15 - bits * low)) = 13 /\ Size(Alu("AND", d, d, T1)) = 3
      /\ Size(Movi32(T1, bits)) = 13 /\ Size(Alu("AND", v, v, T1)) = 3
      /\ Size(Sh("SHL", v, v, 1)) = 3 /\ Size(Alu("OR", d, d, v)) = 3
  BY DEF Size, Movi32, Alu, Sh
<1>2. Fits(x, 32)  BY <1>1, Fits4
<1>3. Fits(y, 3)
  <2>1. Fits(<<>>, 3)  BY Fits0 DEF Fits
  <2>2. Fits(<<Sh("SHL", v, v, 1)>>, 3)  BY <1>1, Fits1
  <2>3. QED  BY <2>1, <2>2
<1>4. Fits(z, 3)  BY <1>1, Fits1
<1>5. emit_merge(d, v, bits, low) = x \o y \o z  BY DEF emit_merge
<1> HIDE DEF x, y, z
<1>6. Fits(x \o y, 35)  BY <1>2, <1>3, FitsCat
<1>7. Fits(x \o y \o z, 38)  BY <1>4, <1>6, FitsCat
<1>8. QED  BY <1>5, <1>7

LEMMA SrliFits ==
  ASSUME NEW r, NEW k
  PROVE  Fits(emit_srli_any(r, k), 9)
<1>1. Size(Sh("SHR", r, r, k)) <= 9  BY DEF Size, Sh
<1>2. Fits(<<Sh("SHR", r, r, k)>>, 9)  BY <1>1, Fits1
<1>3. Size(Movi(T2, k)) = 3 /\ Size(<<"ssr", SAR, T2>>) = 3 /\ Size(<<"srl", r, r>>) = 3
  BY DEF Size, Movi
<1>4. Fits(<<Movi(T2, k), <<"ssr", SAR, T2>>, <<"srl", r, r>>>>, 9)  BY <1>3, Fits3
<1>5. QED  BY <1>2, <1>4 DEF emit_srli_any

-------------------------------------------------------------------------------
(* Each action writes no more than the room it asked for. *)

LEMMA AluRRFits ==
  ASSUME NEW a \in X86Action
  PROVE  Fits(EmitAluRR(a), IF a.dead THEN 3 ELSE 40)
<1> DEFINE d == R(a.dst)
<1> DEFINE s == R(a.src)
<1> DEFINE mask == IF a.op \in {"ADD", "SUB"} THEN MaskArith ELSE MaskLogic
<1> DEFINE c == <<S32i(d, Src1), S32i(s, Src2), Alu(a.op, d, d, s)>>
<1>1. Size(S32i(d, Src1)) = 3 /\ Size(S32i(s, Src2)) = 3 /\ Size(Alu(a.op, d, d, s)) = 3
  BY DEF Size, S32i, Alu
<1>2. Fits(<<Alu(a.op, d, d, s)>>, 3)  BY <1>1, Fits1
<1>3. Fits(c, 9)  BY <1>1, Fits3
<1>4. EmitAluRR(a) = IF a.dead THEN <<Alu(a.op, d, d, s)>> ELSE c \o emit_cc(d, a.op, mask, T0)
  BY DEF EmitAluRR
<1> HIDE DEF c, d, s, mask
<1>5. Fits(emit_cc(d, a.op, mask, T0), 25)  BY CcFits
<1>6. Fits(c \o emit_cc(d, a.op, mask, T0), 40)  BY <1>3, <1>5, FitsCat
<1>7. QED  BY <1>2, <1>4, <1>6

LEMMA AluRIFits ==
  ASSUME NEW a \in X86Action
  PROVE  Fits(EmitAluRI(a), IF a.dead THEN 19 ELSE 56)
<1> DEFINE d == R(a.dst)
<1> DEFINE mask == IF a.op \in {"ADD", "SUB"} THEN MaskArith ELSE MaskLogic
<1> DEFINE c == <<S32i(d, Src1), Movi32(T0, a.imm), S32i(T0, Src2), Alu(a.op, d, d, T0)>>
<1> DEFINE e == <<Movi32(T0, a.imm), Alu(a.op, d, d, T0)>>
<1> DEFINE plus == <<Addi(d, d, a.imm)>>
<1> DEFINE minus == <<Addi(d, d, -a.imm)>>
<1>1. /\ Size(S32i(d, Src1)) = 3 /\ Size(Movi32(T0, a.imm)) = 13 /\ Size(S32i(T0, Src2)) = 3
      /\ Size(Alu(a.op, d, d, T0)) = 3
      /\ Size(Addi(d, d, a.imm)) <= 19 /\ Size(Addi(d, d, -a.imm)) <= 19
  BY DEF Size, S32i, Movi32, Alu, Addi
<1>2. Fits(c, 22)  BY <1>1, Fits4
<1>3. Fits(e, 19)  BY <1>1, Fits2
<1>4. Fits(plus, 19) /\ Fits(minus, 19)  BY <1>1, Fits1
<1>5. EmitAluRI(a) = IF ~a.dead THEN c \o emit_cc(d, a.op, mask, T0)
                     ELSE IF a.op = "ADD" THEN plus ELSE IF a.op = "SUB" THEN minus ELSE e
  BY DEF EmitAluRI
<1> HIDE DEF c, d, e, plus, minus, mask
<1>6. Fits(emit_cc(d, a.op, mask, T0), 25)  BY CcFits
<1>7. Fits(c \o emit_cc(d, a.op, mask, T0), 56)  BY <1>2, <1>6, FitsCat
<1>8. QED  BY <1>3, <1>4, <1>5, <1>7

LEMMA ShiftFits ==
  ASSUME NEW a \in X86Action
  PROVE  Fits(EmitShift(a), IF a.src = 0 THEN 0 ELSE IF a.dead THEN 16 ELSE 64)
<1> DEFINE d == R(a.dst)
<1> DEFINE k == a.src
<1> DEFINE f == a.op
<1> DEFINE src == IF f = "SHR" THEN <<S32i(d, Src1)>> ELSE <<>>
<1> DEFINE bit == emit_srli_any(T0, IF f = "SHL" THEN 4 - k ELSE k - 1)
<1> DEFINE keep == <<Movi(T1, 1), Alu("AND", T0, T0, T1), S32i(T0, Dst2)>>
<1> DEFINE shift == IF f = "SHR" THEN emit_srli_any(d, k) ELSE <<Sh(f, d, d, k)>>
<1> DEFINE cc == emit_cc(d, f, MaskLogic, T0)
<1>1. /\ Size(S32i(d, Src1)) <= 3 /\ Size(Mov(T0, d)) <= 2 /\ Size(Sh(f, d, d, k)) <= 9
      /\ Size(Movi(T1, 1)) = 3 /\ Size(Alu("AND", T0, T0, T1)) = 3 /\ Size(S32i(T0, Dst2)) = 3
  BY DEF Size, S32i, Mov, Sh, Movi, Alu
<1>2. Fits(src, 3)
  <2>1. Fits(<<S32i(d, Src1)>>, 3)  BY <1>1, Fits1
  <2>2. Fits(<<>>, 3)  BY Fits0 DEF Fits
  <2>3. QED  BY <2>1, <2>2
<1>3. Fits(<<Mov(T0, d)>>, 2)  BY <1>1, Fits1
<1>4. Fits(bit, 9)  BY SrliFits
<1>5. Fits(keep, 9)  BY <1>1, Fits3
<1>6. Fits(shift, 9)
  <2>1. Fits(<<Sh(f, d, d, k)>>, 9)  BY <1>1, Fits1
  <2>2. Fits(emit_srli_any(d, k), 9)  BY SrliFits
  <2>3. QED  BY <2>1, <2>2
<1>7. Fits(cc, 25)  BY CcFits
<1>8. EmitShift(a) = IF k = 0 THEN <<>> ELSE IF a.dead THEN shift
                     ELSE (src \o <<Mov(T0, d)>> \o bit \o keep) \o shift \o cc
  BY DEF EmitShift
<1> HIDE DEF src, bit, keep, shift, cc, d, f
<1>9. Fits(src \o <<Mov(T0, d)>>, 5)  BY <1>2, <1>3, FitsCat
<1>10. Fits(src \o <<Mov(T0, d)>> \o bit, 14)  BY <1>4, <1>9, FitsCat
<1>11. Fits(src \o <<Mov(T0, d)>> \o bit \o keep, 23)  BY <1>5, <1>10, FitsCat
<1>12. Fits((src \o <<Mov(T0, d)>> \o bit \o keep) \o shift, 32)  BY <1>6, <1>11, FitsCat
<1>13. Fits((src \o <<Mov(T0, d)>> \o bit \o keep) \o shift \o cc, 64)  BY <1>7, <1>12, FitsCat
<1>14. Fits(shift, 16) /\ Fits(<<>>, 0)  BY <1>6, Fits0 DEF Fits
<1>15. QED  BY <1>8, <1>13, <1>14

LEMMA BswapFits ==
  ASSUME NEW d
  PROVE  Fits(EmitBswap(d), 56)
<1> DEFINE c == EmitBswap(d)
<1>1. IsCode(c) /\ Len(c) = 18 /\ \A k \in 1 .. 18 : Size(c[k]) <= 3
  <2>1. Len(c) = 18 /\ c \in Seq({c[k] : k \in 1 .. 18})
    BY DEF EmitBswap
  <2>2. \A k \in 1 .. 18 : Size(c[k]) <= 3
    BY DEF EmitBswap, Size, Mov, Sh, Alu
  <2>3. QED  BY <2>1, <2>2 DEF IsCode
<1> HIDE DEF c
<1>2. Bytes(c) \in Nat /\ Bytes(c) <= 3 * 18  BY <1>1, BytesShort
<1>3. QED  BY <1>1, <1>2 DEF Fits, c

LEMMA LoadT2Fits ==
  ASSUME NEW a
  PROVE  Fits(EmitLoadT2(a), PerForm(36, 95))
<1>1. Size(<<"ldm", T2, T2>>) <= 3 /\ Size(Mov(T2, 10)) <= 2  BY DEF Size, Mov
<1>2. Fits(<<<<"ldm", T2, T2>>>>, 3) /\ Fits(<<Mov(T2, 10)>>, 2)  BY <1>1, Fits1
<1>3. Fits(emit_guest_ptr32(a), 33) /\ Fits(emit_mem_address(a, T0, T1), 27)
  BY PointerFits, AddressFits
<1>4. Fits(emit_guest_ptr32(a) \o <<<<"ldm", T2, T2>>>>, 36)  BY <1>2, <1>3, FitsCat
<1>5. Fits(Around(a, emit_mem_address(a, T0, T1), "load32", <<Mov(T2, 10)>>), 95)
  BY <1>2, <1>3, AroundFits
<1>6. QED  BY <1>4, <1>5 DEF EmitLoadT2, PerForm

\* A comparison: what it loads, the operation, and the lazy flags unless dead.
LEMMA CompareFits ==
  ASSUME NEW a \in X86Action, a.type \in Compares
  PROVE  Fits(EmitCompare(a), Guard(a))
<1> DEFINE d == R(a.dst)
<1> DEFINE s == R(a.src)
<1> DEFINE t == a.type
<1> DEFINE Sub(l, r) == <<S32i(l, Src1), S32i(r, Src2)>>
<1> DEFINE live(c) == IF a.dead THEN <<>> ELSE c
<1>1. \A l, r : Fits(Sub(l, r), 6)
  <2>1. TAKE l, r
  <2>2. Size(S32i(l, Src1)) = 3 /\ Size(S32i(r, Src2)) = 3  BY DEF Size, S32i
  <2>3. QED  BY <2>2, Fits2
<1>2. \A l, r, x, op, mask, y : Fits(Sub(l, r) \o emit_cc(x, op, mask, y), 31)
  <2>1. TAKE l, r, x, op, mask, y
  <2>2. Fits(Sub(l, r), 6) /\ Fits(emit_cc(x, op, mask, y), 25)  BY <1>1, CcFits
  <2>3. QED  BY <2>2, FitsCat
<1>3. \A f, x, l, r : Fits(<<Alu(f, x, l, r)>>, 3)
  <2>1. TAKE f, x, l, r
  <2>2. Size(Alu(f, x, l, r)) <= 3  BY DEF Size, Alu
  <2>3. QED  BY <2>2, Fits1
<1>4. ASSUME NEW c, NEW k \in Nat, Fits(c, k) PROVE Fits(live(c), IF a.dead THEN 0 ELSE k)
  BY <1>4, Fits0
<1>5. Fits(EmitLoadT2(a), PerForm(36, 95))  BY LoadT2Fits
<1>6. CASE t = "CMP_RR"
  <2> DEFINE x == <<Alu("SUB", T0, d, s)>>
  <2> DEFINE y == emit_cc(T0, "SUB", MaskArith, T2)
  <2>1. Fits(Sub(d, s), 6) /\ Fits(x, 3) /\ Fits(y, 25)  BY <1>1, <1>3, CcFits
  <2>2. EmitCompare(a) = live(Sub(d, s) \o x \o y)  BY <1>6 DEF EmitCompare
  <2>3. Guard(a) = IF a.dead THEN 0 ELSE 40  BY <1>6 DEF Guard
  <2> HIDE DEF x, y, Sub, live
  <2>4. Fits(Sub(d, s) \o x, 9)  BY <2>1, FitsCat
  <2>5. Fits(Sub(d, s) \o x \o y, 40)  BY <2>1, <2>4, FitsCat
  <2>6. QED  BY <1>4, <2>2, <2>3, <2>5
<1>7. CASE t = "CMP_RI"
  <2> DEFINE x == <<Movi32(T1, a.imm), Alu("SUB", T0, d, T1)>>
  <2> DEFINE y == Sub(d, T1) \o emit_cc(T0, "SUB", MaskArith, T2)
  <2>1. Size(Movi32(T1, a.imm)) = 13 /\ Size(Alu("SUB", T0, d, T1)) = 3
    BY DEF Size, Movi32, Alu
  <2>2. Fits(x, 16) /\ Fits(y, 31)  BY <2>1, <1>2, Fits2
  <2>3. EmitCompare(a) = x \o live(y)  BY <1>7 DEF EmitCompare
  <2>4. Guard(a) = IF a.dead THEN 19 ELSE 59  BY <1>7 DEF Guard
  <2> HIDE DEF x, y, Sub, live
  <2>5. Fits(live(y), IF a.dead THEN 0 ELSE 31)  BY <1>4, <2>2
  <2>6. CASE a.dead
    <3>1. Fits(x \o live(y), 19)  BY <2>2, <2>5, <2>6, FitsCat
    <3>2. QED  BY <2>3, <2>4, <2>6, <3>1
  <2>7. CASE ~a.dead
    <3>1. Fits(x \o live(y), 59)  BY <2>2, <2>5, <2>7, FitsCat
    <3>2. QED  BY <2>3, <2>4, <2>7, <3>1
  <2>8. QED  BY <2>6, <2>7
<1>8. CASE t = "TEST_RR"
  <2> DEFINE x == <<Alu("AND", T0, d, s)>>
  <2> DEFINE y == emit_cc(T0, "AND", MaskLogic, T1)
  <2>1. Fits(x, 3) /\ Fits(y, 25)  BY <1>3, CcFits
  <2>2. EmitCompare(a) = x \o live(y)  BY <1>8 DEF EmitCompare
  <2>3. Guard(a) = IF a.dead THEN 3 ELSE 35  BY <1>8 DEF Guard
  <2> HIDE DEF x, y, live
  <2>4. Fits(live(y), IF a.dead THEN 0 ELSE 25)  BY <1>4, <2>1
  <2>5. CASE a.dead
    <3>1. Fits(x \o live(y), 3)  BY <2>1, <2>4, <2>5, FitsCat
    <3>2. QED  BY <2>2, <2>3, <2>5, <3>1
  <2>6. CASE ~a.dead
    <3>1. Fits(x \o live(y), 35)  BY <2>1, <2>4, <2>6, FitsCat
    <3>2. QED  BY <2>2, <2>3, <2>6, <3>1
  <2>7. QED  BY <2>5, <2>6
<1>9. ASSUME NEW x, NEW y, Fits(x, 3), Fits(y, 31)
      PROVE  Fits(EmitLoadT2(a) \o x \o live(y), PerForm(70, 129))
  <2>1. Fits(live(y), IF a.dead THEN 0 ELSE 31)  BY <1>4, <1>9
  <2> HIDE DEF live
  <2>2. Fits(live(y), 31)  BY <2>1 DEF Fits
  <2>3. CASE inline
    <3>1. Fits(EmitLoadT2(a) \o x, 39)  BY <1>5, <1>9, <2>3, FitsCat DEF PerForm
    <3>2. Fits(EmitLoadT2(a) \o x \o live(y), 70)  BY <2>2, <3>1, FitsCat
    <3>3. QED  BY <2>3, <3>2 DEF PerForm
  <2>4. CASE ~inline
    <3>1. Fits(EmitLoadT2(a) \o x, 98)  BY <1>5, <1>9, <2>4, FitsCat DEF PerForm
    <3>2. Fits(EmitLoadT2(a) \o x \o live(y), 129)  BY <2>2, <3>1, FitsCat
    <3>3. QED  BY <2>4, <3>2 DEF PerForm
  <2>5. QED  BY <2>3, <2>4
<1>10. CASE t = "CMP_RM32"
  <2> DEFINE x == <<Alu("SUB", T0, d, T2)>>
  <2> DEFINE y == Sub(d, T2) \o emit_cc(T0, "SUB", MaskArith, T1)
  <2>1. Fits(x, 3) /\ Fits(y, 31)  BY <1>2, <1>3
  <2>2. EmitCompare(a) = EmitLoadT2(a) \o x \o live(y)  BY <1>10 DEF EmitCompare
  <2>3. Guard(a) = PerForm(112, 176)  BY <1>10 DEF Guard
  <2> HIDE DEF x, y, live
  <2>4. Fits(EmitLoadT2(a) \o x \o live(y), PerForm(70, 129))  BY <1>9, <2>1
  <2>5. QED  BY <2>2, <2>3, <2>4 DEF Fits, PerForm
<1>11. CASE t = "CMP_MR32"
  <2> DEFINE x == <<Alu("SUB", T0, T2, s)>>
  <2> DEFINE y == Sub(T2, s) \o emit_cc(T0, "SUB", MaskArith, T1)
  <2>1. Fits(x, 3) /\ Fits(y, 31)  BY <1>2, <1>3
  <2>2. EmitCompare(a) = EmitLoadT2(a) \o x \o live(y)  BY <1>11 DEF EmitCompare
  <2>3. Guard(a) = PerForm(112, 176)  BY <1>11 DEF Guard
  <2> HIDE DEF x, y, live
  <2>4. Fits(EmitLoadT2(a) \o x \o live(y), PerForm(70, 129))  BY <1>9, <2>1
  <2>5. QED  BY <2>2, <2>3, <2>4 DEF Fits, PerForm
<1>12. CASE t = "TEST_MR32"
  <2> DEFINE x == <<Alu("AND", T0, T2, s)>>
  <2> DEFINE y == emit_cc(T0, "AND", MaskLogic, T1)
  <2>1. Fits(x, 3) /\ Fits(y, 25)  BY <1>3, CcFits
  <2>2. EmitCompare(a) = EmitLoadT2(a) \o x \o live(y)  BY <1>12 DEF EmitCompare
  <2>3. Guard(a) = PerForm(96, 160)  BY <1>12 DEF Guard
  <2> HIDE DEF x, y, live
  <2>4. Fits(y, 31)  BY <2>1 DEF Fits
  <2>5. Fits(EmitLoadT2(a) \o x \o live(y), PerForm(70, 129))  BY <1>9, <2>1, <2>4
  <2>6. QED  BY <2>2, <2>3, <2>5 DEF Fits, PerForm
<1>13. QED  BY <1>6, <1>7, <1>8, <1>10, <1>11, <1>12 DEF Compares

\* A move to or from memory, and a push.
LEMMA MoveFits ==
  ASSUME NEW a \in X86Action, a.type \in Loads \cup Stores \cup {"PUSH_IMM8"}
  PROVE  Fits(EmitMove(a), Guard(a))
<1> DEFINE t == a.type
<1> DEFINE d == R(a.dst)
<1> DEFINE s == R(a.src)
<1> DEFINE addr == emit_mem_address(a, T0, T1)
<1> DEFINE byte(r) == R(r % 4)
<1>1. Fits(addr, 27) /\ Fits(emit_guest_ptr32(a), 33)  BY AddressFits, PointerFits
<1>2. Fits(<<>>, 0)  BY Fits0
<1> HIDE DEF addr
<1>3. CASE t = "MOV_RM32" /\ inline
  <2>1. Size(<<"ldm", d, T2>>) <= 3  BY DEF Size
  <2>2. Fits(<<<<"ldm", d, T2>>>>, 3)  BY <2>1, Fits1
  <2>3. Fits(emit_guest_ptr32(a) \o <<<<"ldm", d, T2>>>>, 48)  BY <1>1, <2>2, FitsCat
  <2>4. EmitMove(a) = emit_guest_ptr32(a) \o <<<<"ldm", d, T2>>>>  BY <1>3 DEF EmitMove
  <2>5. Guard(a) = 48  BY <1>3 DEF Guard, PerForm
  <2>6. QED  BY <2>3, <2>4, <2>5
<1>4. CASE t = "MOV_RM32" /\ ~inline
  <2> DEFINE x == <<Movi(12, a.dst)>>
  <2>1. Size(Movi(12, a.dst)) <= 3  BY DEF Size, Movi
  <2>2. Fits(x, 3)  BY <2>1, Fits1
  <2>3. EmitMove(a) = Around(a, addr \o x, "mov_rm32", <<>>)  BY <1>4 DEF EmitMove, addr
  <2>4. Guard(a) = 112  BY <1>4 DEF Guard, PerForm
  <2> HIDE DEF x
  <2>5. Fits(addr \o x, 30)  BY <1>1, <2>2, FitsCat
  <2>6. Fits(Around(a, addr \o x, "mov_rm32", <<>>), 112)  BY <1>2, <2>5, AroundFits
  <2>7. QED  BY <2>3, <2>4, <2>6
<1>5. CASE t = "MOV_MR32" /\ inline
  <2>1. Size(<<"stm", s, T2>>) <= 3  BY DEF Size
  <2>2. Fits(<<<<"stm", s, T2>>>>, 3)  BY <2>1, Fits1
  <2>3. Fits(emit_guest_ptr32(a) \o <<<<"stm", s, T2>>>>, 48)  BY <1>1, <2>2, FitsCat
  <2>4. EmitMove(a) = emit_guest_ptr32(a) \o <<<<"stm", s, T2>>>>  BY <1>5 DEF EmitMove
  <2>5. Guard(a) = 48  BY <1>5 DEF Guard, PerForm
  <2>6. QED  BY <2>3, <2>4, <2>5
<1>6. CASE t = "MOV_MR32" /\ ~inline
  <2> DEFINE x == <<Mov(12, s)>>
  <2>1. Size(Mov(12, s)) <= 2  BY DEF Size, Mov
  <2>2. Fits(x, 2)  BY <2>1, Fits1
  <2>3. EmitMove(a) = Around(a, addr \o x, "mov_mr32", <<>>)  BY <1>6 DEF EmitMove, addr
  <2>4. Guard(a) = 112  BY <1>6 DEF Guard, PerForm
  <2> HIDE DEF x
  <2>5. Fits(addr \o x, 29)  BY <1>1, <2>2, FitsCat
  <2>6. Fits(Around(a, addr \o x, "mov_mr32", <<>>), 112)  BY <1>2, <2>5, AroundFits
  <2>7. QED  BY <2>3, <2>4, <2>6
<1>7. ASSUME NEW h PROVE Fits(Around(a, addr, h, <<Mov(T2, 10)>>), 95)
  <2>1. Size(Mov(T2, 10)) <= 2  BY DEF Size, Mov
  <2>2. Fits(<<Mov(T2, 10)>>, 2)  BY <2>1, Fits1
  <2>3. QED  BY <1>1, <2>2, AroundFits
<1>8. CASE t = "MOV_RM8"
  <2> DEFINE x == Around(a, addr, "load8", <<Mov(T2, 10)>>)
  <2> DEFINE y == emit_merge_u8(byte(a.dst), T2, a.dst > 3)
  <2>1. Fits(x, 95)  BY <1>7
  <2>2. Fits(y, 38)  BY MergeFits DEF emit_merge_u8
  <2>3. EmitMove(a) = x \o y  BY <1>8 DEF EmitMove, addr
  <2>4. Guard(a) = 160  BY <1>8 DEF Guard
  <2> HIDE DEF x, y
  <2>5. Fits(x \o y, 160)  BY <2>1, <2>2, FitsCat
  <2>6. QED  BY <2>3, <2>4, <2>5
<1>9. CASE t = "MOV_RM16"
  <2> DEFINE x == Around(a, addr, "load16", <<Mov(T2, 10)>>)
  <2> DEFINE y == emit_merge_u16(d, T2)
  <2>1. Fits(x, 95)  BY <1>7
  <2>2. Fits(y, 38)  BY MergeFits DEF emit_merge_u16
  <2>3. EmitMove(a) = x \o y  BY <1>9 DEF EmitMove, addr
  <2>4. Guard(a) = 160  BY <1>9 DEF Guard
  <2> HIDE DEF x, y
  <2>5. Fits(x \o y, 160)  BY <2>1, <2>2, FitsCat
  <2>6. QED  BY <2>3, <2>4, <2>5
<1>10. ASSUME NEW x, NEW h, Fits(x, 21) PROVE Fits(Around(a, addr \o x, h, <<>>), 160)
  <2>1. Fits(addr \o x, 48)  BY <1>1, <1>10, FitsCat
  <2>2. QED  BY <1>2, <2>1, AroundFits
<1>11. CASE t = "MOV_MR8" /\ a.src > 3
  <2> DEFINE x == <<Sh("SHR", T1, byte(a.src), 1), Movi32(T2, 1), Alu("AND", T1, T1, T2), Mov(12, T1)>>
  <2>1. /\ Size(Sh("SHR", T1, byte(a.src), 1)) = 3 /\ Size(Movi32(T2, 1)) = 13
        /\ Size(Alu("AND", T1, T1, T2)) = 3 /\ Size(Mov(12, T1)) = 2
    BY DEF Size, Sh, Movi32, Alu, Mov
  <2>2. Fits(x, 21)  BY <2>1, Fits4
  <2>3. ~(a.src < 4)  BY <1>11 DEF X86Action
  <2>4. EmitMove(a) = Around(a, addr \o x, "store8", <<>>)
    BY <1>11, <2>3 DEF EmitMove, addr
  <2>5. Guard(a) = 160  BY <1>11 DEF Guard
  <2> HIDE DEF x
  <2>6. QED  BY <1>10, <2>2, <2>4, <2>5
<1>12. CASE t = "MOV_MR8" /\ a.src < 4
  <2> DEFINE x == <<Movi32(T2, 1), Alu("AND", T1, byte(a.src), T2), Mov(12, T1)>>
  <2>1. /\ Size(Movi32(T2, 1)) = 13 /\ Size(Alu("AND", T1, byte(a.src), T2)) = 3
        /\ Size(Mov(12, T1)) = 2
    BY DEF Size, Movi32, Alu, Mov
  <2>2. Fits(x, 21)  BY <2>1, Fits3
  <2>3. ~(a.src > 3)  BY <1>12 DEF X86Action
  <2>4. EmitMove(a) = Around(a, addr \o x, "store8", <<>>)  BY <1>12, <2>3 DEF EmitMove, addr
  <2>5. Guard(a) = 160  BY <1>12 DEF Guard
  <2> HIDE DEF x
  <2>6. QED  BY <1>10, <2>2, <2>4, <2>5
<1>13. CASE t = "MOV_MR16"
  <2> DEFINE x == <<Movi32(T2, 3), Alu("AND", T1, s, T2), Mov(12, T1)>>
  <2>1. Size(Movi32(T2, 3)) = 13 /\ Size(Alu("AND", T1, s, T2)) = 3 /\ Size(Mov(12, T1)) = 2
    BY DEF Size, Movi32, Alu, Mov
  <2>2. Fits(x, 21)  BY <2>1, Fits3
  <2>3. EmitMove(a) = Around(a, addr \o x, "store16", <<>>)  BY <1>13 DEF EmitMove, addr
  <2>4. Guard(a) = 160  BY <1>13 DEF Guard
  <2> HIDE DEF x
  <2>5. QED  BY <1>10, <2>2, <2>3, <2>4
<1>14. CASE t = "PUSH_IMM8" /\ inline
  <2>1. /\ Size(Addi(R(4), R(4), -4)) = 3 /\ Size(<<"physmem", T2>>) = 3
        /\ Size(Alu("ADD", T2, T2, R(4))) = 3 /\ Size(Movi32(T1, a.imm)) = 13
        /\ Size(<<"stm", T1, T2>>) = 3
    BY DEF Size, Addi, Alu, Movi32
  <2>2. Fits(<<Addi(R(4), R(4), -4), <<"physmem", T2>>, Alu("ADD", T2, T2, R(4)),
               Movi32(T1, a.imm), <<"stm", T1, T2>>>>, 64)
    BY <2>1, Fits5
  <2>3. Guard(a) = 64  BY <1>14 DEF Guard, PerForm
  <2>4. QED  BY <1>14, <2>2, <2>3 DEF EmitMove
<1>15. CASE t = "PUSH_IMM8" /\ ~inline
  <2> DEFINE x == <<Movi32(11, a.imm)>>
  <2>1. Size(Movi32(11, a.imm)) <= 13  BY DEF Size, Movi32
  <2>2. Fits(x, 13)  BY <2>1, Fits1
  <2>3. EmitMove(a) = Around(a, x, "push_imm32", <<>>)  BY <1>15 DEF EmitMove
  <2>4. Guard(a) = 112  BY <1>15 DEF Guard, PerForm
  <2> HIDE DEF x
  <2>5. Fits(Around(a, x, "push_imm32", <<>>), 112)  BY <1>2, <2>2, AroundFits
  <2>6. QED  BY <2>3, <2>4, <2>5
<1>16. t = "MOV_MR8" => a.src > 3 \/ a.src < 4  BY DEF X86Action
<1>17. t \in {"MOV_RM32", "MOV_RM8", "MOV_RM16", "MOV_MR32", "MOV_MR8", "MOV_MR16", "PUSH_IMM8"}
  BY DEF Loads, Stores
<1>18. QED
  BY <1>3, <1>4, <1>5, <1>6, <1>8, <1>9, <1>11, <1>12, <1>13, <1>14, <1>15, <1>16, <1>17

\* A conditional jump: the branch over the jump, and two exits.
LEMMA JccFits ==
  ASSUME NEW a \in X86Action, NEW next, JccSupported(cs.mode, a.cc)
  PROVE  Fits(EmitJcc(a, next), 150)
<1> DEFINE fall == emit_epilogue(next, store_mask)
<1> DEFINE b == Branch(cs, Invert(a.cc))
<1> DEFINE x == <<b, <<"j", Len(fall)>>>>
<1>1. Size(b) = 3
  <2>1. a.cc \in {2, 3, 4, 5, 6, 7, 8, 9, 12, 13, 14, 15}  BY DEF JccSupported
  <2>2. Invert(a.cc) \in {2, 3, 4, 5, 6, 7, 8, 9, 12, 13, 14, 15}
    <3>1. Invert(2) = 3 /\ Invert(3) = 2 /\ Invert(4) = 5 /\ Invert(5) = 4 /\ Invert(6) = 7
          /\ Invert(7) = 6 /\ Invert(8) = 9 /\ Invert(9) = 8 /\ Invert(12) = 13
          /\ Invert(13) = 12 /\ Invert(14) = 15 /\ Invert(15) = 14
      BY DEF Invert
    <3>2. QED  BY <2>1, <3>1
  <2>3. ASSUME NEW cc \in {2, 3, 4, 5, 6, 7, 8, 9, 12, 13, 14, 15}
        PROVE  \E f, l, r : Branch(cs, cc) = <<"br", f, l, r>>
    <3>1. CASE cc \in {2, 3, 6, 7}  BY <3>1 DEF Branch
    <3>2. CASE cc = 4  BY <3>2 DEF Branch
    <3>3. CASE cc = 5  BY <3>3 DEF Branch
    <3>4. CASE cc \in {8, 9}  BY <3>4 DEF Branch
    <3>5. CASE cc \in {12, 13, 14, 15}  BY <3>5 DEF Branch
    <3>6. QED  BY <2>3, <3>1, <3>2, <3>3, <3>4, <3>5
  <2>4. PICK f, l, r : b = <<"br", f, l, r>>  BY <2>2, <2>3
  <2>5. QED  BY <2>4 DEF Size
<1>2. Size(<<"j", Len(fall)>>) = 3  BY DEF Size
<1> HIDE DEF b
<1>3. Fits(x, 6)  BY <1>1, <1>2, Fits2
<1>4. Fits(fall, 42) /\ Fits(emit_epilogue(Target, store_mask), 42)  BY EpilogueFits
<1>5. EmitJcc(a, next) = x \o fall \o emit_epilogue(Target, store_mask)  BY DEF EmitJcc, b
<1> HIDE DEF x, fall
<1>6. Fits(x \o fall, 48)  BY <1>3, <1>4, FitsCat
<1>7. Fits(x \o fall \o emit_epilogue(Target, store_mask), 150)  BY <1>4, <1>6, FitsCat
<1>8. QED  BY <1>5, <1>7

\* The actions jit_action_enabled admits while flags_dead is clear.
Emittable ==
  {a \in X86Action :
     a.type \in {"NOP", "MOV_RI", "MOV_RR", "NOT_R", "CWDE", "CDQ", "BSWAP_R", "NEG_R", "SHx_RI",
                 "JMP", "ALU_RR", "ALU_RI", "CMP_RR", "CMP_RI", "TEST_RR", "JCC", "XCHG_EAX_R",
                 "PUSH_IMM8"} \cup MemAccess}

LEMMA EnabledEmittable ==
  ASSUME NEW a \in Insns, jit_action_enabled(a)
  PROVE  a \in Emittable
<1>1. a \in X86Action /\ ~a.dead  BY DecodedActions
<1>2. QED  BY <1>1 DEF jit_action_enabled, Emittable

\* emit_action writes no more than the room it asked for.
LEMMA ActionFits ==
  ASSUME NEW a \in Emittable, NEW next, a.type = "JCC" => JccSupported(cs.mode, a.cc)
  PROVE  Guard(a) \in Nat /\ Fits(emit_action(a, next), Guard(a))
<1> DEFINE t == a.type
<1> DEFINE d == R(a.dst)
<1> DEFINE s == R(a.src)
<1>1. a \in X86Action  BY DEF Emittable
<1>2. CASE t = "NOP"
  <2>1. emit_action(a, next) = <<>>  BY <1>2 DEF emit_action, Compares
  <2>2. Guard(a) = 0  BY <1>2 DEF Guard
  <2>3. QED  BY <2>1, <2>2, Fits0
<1>3. CASE t = "CWDE"
  <2> DEFINE x == Sh("SHL", R(0), R(0), 2)
  <2> DEFINE y == Sh("SAR", R(0), R(0), 2)
  <2>1. Size(x) = 3 /\ Size(y) = 3  BY DEF Size, Sh
  <2>2. emit_action(a, next) = <<x, y>>  BY <1>3 DEF emit_action, Compares
  <2>3. Guard(a) = 6  BY <1>3 DEF Guard
  <2> HIDE DEF x, y
  <2>4. Fits(<<x, y>>, 6)  BY <2>1, Fits2
  <2>5. QED  BY <2>2, <2>3, <2>4
<1>4. CASE t = "CDQ"
  <2> DEFINE x == Sh("SAR", R(2), R(0), 3)
  <2>1. Size(x) <= 3  BY DEF Size, Sh
  <2>2. emit_action(a, next) = <<x>>  BY <1>4 DEF emit_action, Compares
  <2>3. Guard(a) = 3  BY <1>4 DEF Guard
  <2> HIDE DEF x
  <2>4. Fits(<<x>>, 3)  BY <2>1, Fits1
  <2>5. QED  BY <2>2, <2>3, <2>4
<1>5. CASE t = "XCHG_EAX_R"
  <2> DEFINE x == Mov(T0, R(0))
  <2> DEFINE y == Mov(R(0), s)
  <2> DEFINE z == Mov(s, T0)
  <2>1. Size(x) = 2 /\ Size(y) = 2 /\ Size(z) = 2  BY DEF Size, Mov
  <2>2. emit_action(a, next) = <<x, y, z>>  BY <1>5 DEF emit_action, Compares
  <2>3. Guard(a) = 6  BY <1>5 DEF Guard
  <2> HIDE DEF x, y, z
  <2>4. Fits(<<x, y, z>>, 6)  BY <2>1, Fits3
  <2>5. QED  BY <2>2, <2>3, <2>4
<1>6. CASE t = "BSWAP_R"
  <2>1. emit_action(a, next) = EmitBswap(d)  BY <1>6 DEF emit_action, Compares
  <2>2. Guard(a) = 56  BY <1>6 DEF Guard
  <2>3. QED  BY <2>1, <2>2, BswapFits
<1>7. CASE t = "MOV_RR"
  <2> DEFINE x == Mov(d, s)
  <2>1. Size(x) <= 2  BY DEF Size, Mov
  <2>2. emit_action(a, next) = <<x>>  BY <1>7 DEF emit_action, Compares
  <2>3. Guard(a) = 2  BY <1>7 DEF Guard
  <2> HIDE DEF x
  <2>4. Fits(<<x>>, 2)  BY <2>1, Fits1
  <2>5. QED  BY <2>2, <2>3, <2>4
<1>8. CASE t = "MOV_RI"
  <2> DEFINE x == Movi32(d, a.imm)
  <2>1. Size(x) <= 16  BY DEF Size, Movi32
  <2>2. emit_action(a, next) = <<x>>  BY <1>8 DEF emit_action, Compares
  <2>3. Guard(a) = 16  BY <1>8 DEF Guard
  <2> HIDE DEF x
  <2>4. Fits(<<x>>, 16)  BY <2>1, Fits1
  <2>5. QED  BY <2>2, <2>3, <2>4
<1>9. CASE t = "ALU_RR"
  <2>1. emit_action(a, next) = EmitAluRR(a)  BY <1>9 DEF emit_action, Compares
  <2>2. Guard(a) = IF a.dead THEN 3 ELSE 40  BY <1>9 DEF Guard
  <2>3. QED  BY <1>1, <2>1, <2>2, AluRRFits
<1>10. CASE t = "ALU_RI"
  <2>1. emit_action(a, next) = EmitAluRI(a)  BY <1>10 DEF emit_action, Compares
  <2>2. Guard(a) = IF a.dead THEN 19 ELSE 56  BY <1>10 DEF Guard
  <2>3. QED  BY <1>1, <2>1, <2>2, AluRIFits
<1>11. CASE t = "NOT_R"
  <2> DEFINE x == Movi32(T0, 15)
  <2> DEFINE y == Alu("XOR", d, d, T0)
  <2>1. Size(x) = 13 /\ Size(y) = 3  BY DEF Size, Movi32, Alu
  <2>2. emit_action(a, next) = <<x, y>>  BY <1>11 DEF emit_action, Compares
  <2>3. Guard(a) = 19  BY <1>11 DEF Guard
  <2> HIDE DEF x, y
  <2>4. Fits(<<x, y>>, 19)  BY <2>1, Fits2
  <2>5. QED  BY <2>2, <2>3, <2>4
<1>12. CASE t = "NEG_R"
  <2> DEFINE x == <<"neg", d, d>>
  <2> DEFINE y == S32i(d, Src1)
  <2>1. Size(x) = 3 /\ Size(y) = 3  BY DEF Size, S32i
  <2>2. Guard(a) = IF a.dead THEN 3 ELSE 40  BY <1>12 DEF Guard
  <2>3. CASE a.dead
    <3>1. emit_action(a, next) = <<x>>  BY <1>12, <2>3 DEF emit_action, Compares
    <3> HIDE DEF x
    <3>2. Fits(<<x>>, 3)  BY <2>1, Fits1
    <3>3. QED  BY <2>2, <2>3, <3>1, <3>2
  <2>4. CASE ~a.dead
    <3>1. emit_action(a, next) = <<y, x>> \o emit_cc(d, "NEG", MaskArith, T0)
      BY <1>12, <2>4 DEF emit_action, Compares
    <3> HIDE DEF x, y
    <3>2. Fits(<<y, x>>, 6) /\ Fits(emit_cc(d, "NEG", MaskArith, T0), 25)  BY <2>1, Fits2, CcFits
    <3>3. Fits(<<y, x>> \o emit_cc(d, "NEG", MaskArith, T0), 40)  BY <3>2, FitsCat
    <3>4. QED  BY <2>2, <2>4, <3>1, <3>3
  <2>5. QED  BY <2>3, <2>4
<1>13. CASE t = "SHx_RI"
  <2>1. emit_action(a, next) = EmitShift(a)  BY <1>13 DEF emit_action, Compares
  <2>2. Guard(a) = IF a.src = 0 THEN 0 ELSE IF a.dead THEN 16 ELSE 64  BY <1>13 DEF Guard
  <2>3. QED  BY <1>1, <2>1, <2>2, ShiftFits
<1>14. CASE t \in Compares
  <2>1. emit_action(a, next) = EmitCompare(a)  BY <1>14 DEF emit_action, Compares
  <2>2. Guard(a) \in Nat  BY <1>1, <1>14 DEF Guard, Compares, PerForm
  <2>3. QED  BY <1>1, <1>14, <2>1, <2>2, CompareFits
<1>15. CASE t = "JMP"
  <2>1. emit_action(a, next) = emit_epilogue(Target, store_mask)
    BY <1>15 DEF emit_action, Compares
  <2>2. Guard(a) = 64  BY <1>15 DEF Guard
  <2>3. Fits(emit_epilogue(Target, store_mask), 64)  BY EpilogueFits DEF Fits
  <2>4. QED  BY <2>1, <2>2, <2>3
<1>16. CASE t = "JCC"
  <2>1. emit_action(a, next) = EmitJcc(a, next)  BY <1>16 DEF emit_action, Compares
  <2>2. Guard(a) = 150  BY <1>16 DEF Guard
  <2>3. Fits(EmitJcc(a, next), 150)  BY <1>1, <1>16, JccFits
  <2>4. QED  BY <2>1, <2>2, <2>3
<1>17. CASE t \in Loads \cup Stores \cup {"PUSH_IMM8"}
  <2>1. emit_action(a, next) = EmitMove(a)  BY <1>17 DEF emit_action, Loads, Stores, Compares
  <2>2. Guard(a) \in Nat  BY <1>1, <1>17 DEF Guard, Loads, Stores, PerForm
  <2>3. QED  BY <1>1, <1>17, <2>1, <2>2, MoveFits
<1>18. \/ t \in {"NOP", "MOV_RI", "MOV_RR", "NOT_R", "CWDE", "CDQ", "BSWAP_R", "NEG_R", "SHx_RI",
                 "JMP", "ALU_RR", "ALU_RI", "JCC", "XCHG_EAX_R"}
       \/ t \in Compares \/ t \in Loads \cup Stores \cup {"PUSH_IMM8"}
  BY DEF Emittable, MemAccess, Compares
<1> HIDE DEF t
<1>19. QED
  BY <1>2, <1>3, <1>4, <1>5, <1>6, <1>7, <1>8, <1>9, <1>10, <1>11, <1>12, <1>13, <1>14, <1>15,
     <1>16, <1>17, <1>18

-------------------------------------------------------------------------------
(* The block. *)

BlockInv ==
  /\ acts \in Seq(Emittable) /\ n \in Nat
  /\ Fits(code, BlockBytes)

LEMMA DeadEmittable ==
  ASSUME NEW seq \in Seq(Emittable)
  PROVE  MarkDead(seq) \in Seq(Emittable)
<1>1. Len(seq) \in Nat /\ DOMAIN seq = 1 .. Len(seq) /\ \A i \in 1 .. Len(seq) : seq[i] \in Emittable
  OBVIOUS
<1>2. ASSUME NEW a \in Emittable, NEW b \in BOOLEAN PROVE [a EXCEPT !.dead = b] \in Emittable
  <2>1. a \in X86Action  BY DEF Emittable
  <2>2. [a EXCEPT !.dead = b] \in X86Action /\ [a EXCEPT !.dead = b].type = a.type
    BY <2>1 DEF X86Action
  <2>3. QED  BY <2>2 DEF Emittable
<1> DEFINE b(i) == WritesFlags(seq[i]) /\ ~FlagsLiveAfter(seq, i)
<1> DEFINE m(i) == [seq[i] EXCEPT !.dead = b(i)]
<1>3. MarkDead(seq) = [i \in 1 .. Len(seq) |-> m(i)]  BY <1>1 DEF MarkDead
<1>4. \A i \in 1 .. Len(seq) : b(i) \in BOOLEAN  OBVIOUS
<1> HIDE DEF b
<1>5. \A i \in 1 .. Len(seq) : m(i) \in Emittable  BY <1>1, <1>2, <1>4
<1> HIDE DEF m
<1>6. [i \in 1 .. Len(seq) |-> m(i)] \in Seq(Emittable)  BY <1>1, <1>5
<1>7. QED  BY <1>3, <1>6

\* For every buffer size, level and sequence of decoded instructions, with
\* memory accesses inline or as calls: nothing is written past
\* JIT_BLOCK_MAXBYTES (emit_action, emit_epilogue, emit_linked_exit).
THEOREM BlockWithinBuffer ==
  Spec => []WithinBuffer
<1>1. Init => BlockInv
  <2>1. SUFFICES ASSUME Init PROVE BlockInv  OBVIOUS
  <2>2. acts \in Seq(Emittable) /\ n \in Nat /\ code = <<>>  BY <2>1 DEF Init
  <2>3. QED  BY <2>2, Fits0, BlockSizes DEF BlockInv, Fits
<1>2. BlockInv /\ [Next]_vars => BlockInv'
  <2>1. SUFFICES ASSUME BlockInv, [Next]_vars PROVE BlockInv'  OBVIOUS
  <2>2. ASSUME acts' \in Seq(Emittable), n' \in Nat, UNCHANGED code PROVE BlockInv'
    BY <2>1, <2>2 DEF BlockInv, Fits, IsCode, Bytes
  <2>3. ASSUME NEW exit, NEW k \in Nat, Fits(exit, k), Bytes(code) + k <= BlockBytes,
               code' = code \o exit, UNCHANGED acts, n' \in Nat
        PROVE  BlockInv'
    <3>1. IsCode(code \o exit) /\ Bytes(code \o exit) = Bytes(code) + Bytes(exit)
      BY <2>1, <2>3, BytesCat DEF BlockInv, Fits
    <3>2. Bytes(code) \in Nat /\ Bytes(exit) \in Nat /\ Bytes(exit) <= k
      BY <2>1, <2>3 DEF BlockInv, Fits
    <3>3. Fits(code \o exit, BlockBytes)  BY <2>3, <3>1, <3>2, BlockSizes DEF Fits
    <3>4. Fits(code, BlockBytes)'  BY <2>3, <3>3 DEF Fits, IsCode, Bytes
    <3>5. QED  BY <2>1, <2>3, <3>4 DEF BlockInv
  <2>4. ASSUME NEW a \in Insns, Scan(a) PROVE BlockInv'
    <3>1. a \in Emittable  BY <2>4, EnabledEmittable DEF Scan
    <3>2. acts' \in Seq(Emittable) /\ n' \in Nat /\ UNCHANGED code
      BY <2>1, <2>4, <3>1 DEF Scan, BlockInv
    <3>3. QED  BY <2>2, <3>2
  <2>5. CASE ScanStop  BY <2>1, <2>2, <2>5 DEF ScanStop, BlockInv
  <2>6. CASE DeadFlags
    <3>1. acts' \in Seq(Emittable) /\ n' \in Nat
      BY <2>1, <2>6, DeadEmittable DEF DeadFlags, BlockInv
    <3>2. Fits(emit_prologue(load_mask), 27)  BY PrologueFits
    <3>3. Fits(emit_prologue(load_mask), BlockBytes)  BY <3>2, BlockSizes DEF Fits
    <3>4. code' = emit_prologue(load_mask)  BY <2>6 DEF DeadFlags
    <3>5. Fits(code, BlockBytes)'
      <4> DEFINE p == emit_prologue(load_mask)
      <4>1. Fits(p, BlockBytes) /\ code' = p  BY <3>3, <3>4
      <4> HIDE DEF p
      <4>2. QED  BY <4>1 DEF Fits, IsCode, Bytes
    <3>6. QED  BY <3>1, <3>5 DEF BlockInv
  <2>7. CASE Emit
    <3> DEFINE a == acts[n + 1]
    <3>1. a \in Emittable /\ n + 1 \in Nat  BY <2>1, <2>7 DEF Emit, BlockInv
    <3>2. Bytes(code) + Guard(a) <= BlockBytes /\ (a.type = "JCC" => JccSupported(cs.mode, a.cc))
      BY <2>7 DEF Emit, Emits
    <3>3. code' = code \o emit_action(a, n + 1) /\ UNCHANGED acts /\ n' = n + 1
      BY <2>7 DEF Emit
    <3> HIDE DEF a
    <3>4. Guard(a) \in Nat /\ Fits(emit_action(a, n + 1), Guard(a))  BY <3>1, <3>2, ActionFits
    <3>5. QED  BY <2>3, <3>1, <3>2, <3>3, <3>4
  <2>8. ASSUME NEW e, NEW k \in Nat, Fits(e, k), Bytes(code) + k <= BlockBytes, Exit(e)
        PROVE  BlockInv'
    BY <2>1, <2>3, <2>8 DEF Exit, BlockInv
  <2>9. ASSUME GiveUp PROVE BlockInv'
    BY <2>1, <2>2, <2>9 DEF GiveUp, BlockInv
  <2>10. ASSUME RoomForExit, Exit(emit_epilogue(n, store_mask)) PROVE BlockInv'
    <3>1. Fits(emit_epilogue(n, store_mask), 42)  BY EpilogueFits
    <3>2. Bytes(code) + 42 <= BlockBytes
      BY <2>1, <2>10, BlockSizes DEF RoomForExit, BlockInv, Fits
    <3>3. QED  BY <2>8, <2>10, <3>1, <3>2
  <2>11. CASE Finish
    <3>1. CASE Bytes(code) < BlockBytes /\ Exit(<<>>)
      <4>1. Bytes(code) + 0 <= BlockBytes  BY <2>1, <3>1, BlockSizes DEF BlockInv, Fits
      <4>2. QED  BY <2>8, <3>1, <4>1, Fits0
    <3>2. CASE Bytes(code) + 40 < BlockBytes /\ Exit(emit_linked_exit(store_mask, n))
      <4>1. Fits(emit_linked_exit(store_mask, n), 31)  BY LinkedExitFits
      <4>2. Bytes(code) + 31 <= BlockBytes  BY <2>1, <3>2, BlockSizes DEF BlockInv, Fits
      <4>3. QED  BY <2>8, <3>2, <4>1, <4>2
    <3>3. CASE RoomForExit /\ Exit(emit_epilogue(n, store_mask))  BY <2>10, <3>3
    <3>4. CASE GiveUp  BY <2>9, <3>4
    <3>5. QED  BY <2>11, <3>1, <3>2, <3>3, <3>4 DEF Finish
  <2>12. CASE Partial
    <3>1. CASE RoomForExit /\ Exit(emit_epilogue(n, store_mask))  BY <2>10, <3>1
    <3>2. CASE GiveUp  BY <2>9, <3>2
    <3>3. QED  BY <2>12, <3>1, <3>2 DEF Partial
  <2>13. ASSUME NEW g \in Machines, Execute(g) PROVE BlockInv'
    BY <2>1, <2>2, <2>13 DEF Execute, BlockInv
  <2>14. CASE UNCHANGED vars  BY <2>1, <2>2, <2>14 DEF vars, BlockInv
  <2>15. QED
    BY <2>1, <2>4, <2>5, <2>6, <2>7, <2>11, <2>12, <2>13, <2>14 DEF Next
<1>3. BlockInv => WithinBuffer  BY DEF BlockInv, Fits, WithinBuffer
<1>4. QED  BY <1>1, <1>2, <1>3, PTL DEF Spec

=============================================================================
