--------------------------- MODULE InterruptProofs ---------------------------
(***************************************************************************)
(* The two ends of a device's interrupt line: the virtqueues that raise it *)
(* and the PLIC that hands it to a hart, for any queue and ring size, any  *)
(* number of harts and any set of sources.                                 *)
(*                                                                         *)
(* VirtioQueue.  IInv is inductive.  RingsOK bounds what is under way: the *)
(* buffers in the two rings and the driver's own are never more than the   *)
(* ring has entries, so no index check misfires and no unread entry is     *)
(* overwritten.  RegistersOK and OneForRng tie the driver's progress to    *)
(* the registers, Excused accounts for a device that gave up, and Woken    *)
(* says what a driver that sleeps may rely on.  What a handler may do is   *)
(* stated once, as Handled: every device's handler is shown to do that,    *)
(* and the invariant and the refinement of BufferLoop follow from it.      *)
(*                                                                         *)
(* Plic.  PlicInv is inductive: LineCovered needs ServedOnce (a masked     *)
(* line is pending or served) together with the fact that every raised     *)
(* line is masked, and NoMissedInterrupt needs the types only.  The        *)
(* context an address decodes to plays no part: the proofs hold for        *)
(* EnableCtx and ClaimCtx whatever they are.                               *)
(***************************************************************************)
EXTENDS VirtioQueue, Plic, WellFoundedInduction, TLAPS

-----------------------------------------------------------------------------
(* Remainders.                                                             *)

LEMMA DivMod ==
  ASSUME NEW m \in Nat, 0 < m, NEW x \in Int
  PROVE  /\ x \div m \in Int /\ x % m \in 0 .. m - 1
         /\ x = m * (x \div m) + (x % m)
<1>1. x \div m \in Int /\ x % m \in Int
  OBVIOUS
<1>2. 0 <= x % m /\ x % m < m
  OBVIOUS
<1>3. x = m * (x \div m) + (x % m)
  OBVIOUS
<1> QED BY <1>1, <1>2, <1>3

LEMMA Multiple ==
  ASSUME NEW m \in Nat, 0 < m, NEW q \in Int
  PROVE  m * q \in Int /\ (q >= 1 => m * q >= m) /\ (q <= -1 => m * q <= -m)
OBVIOUS

LEMMA Distribute ==
  ASSUME NEW m \in Nat, NEW q \in Int, NEW r \in Int
  PROVE  m * (q + r) = m * q + m * r /\ m * (q - r) = m * q - m * r
OBVIOUS

\* The remainder is the only number below m that is a multiple of m away.
LEMMA ModUnique ==
  ASSUME NEW m \in Nat, 0 < m, NEW x \in Int, NEW q \in Int, NEW r \in 0 .. m - 1,
         x = m * q + r
  PROVE  x % m = r
<1> DEFINE p == x \div m
<1>1. x = m * p + (x % m) /\ p \in Int /\ x % m \in 0 .. m - 1
  BY DivMod
<1> HIDE DEF p
<1>2. m * (p - q) = r - (x % m)
  BY <1>1, Distribute, Multiple
<1>3. p = q \/ p - q >= 1 \/ p - q <= -1
  BY <1>1
<1> QED BY <1>1, <1>2, <1>3, Multiple

\* Two numbers with the same remainder are equal or at least m apart.
LEMMA SameMod ==
  ASSUME NEW m \in Nat, 0 < m, NEW x \in Int, NEW y \in Int, x % m = y % m
  PROVE  x = y \/ x - y >= m \/ y - x >= m
<1> DEFINE q == x \div m  r == y \div m
<1>1. x - y = m * q - m * r /\ q \in Int /\ r \in Int /\ m * q \in Int /\ m * r \in Int
  BY DivMod, Multiple
<1> HIDE DEF q, r
<1>2. x - y = m * (q - r)
  BY <1>1, Distribute
<1>3. q = r \/ q - r >= 1 \/ q - r <= -1
  BY <1>1
<1> QED BY <1>1, <1>2, <1>3, Multiple

LEMMA AddMod ==
  ASSUME NEW m \in Nat, 0 < m, NEW x \in Int, NEW y \in Int, y % m = 0,
         NEW z \in Int, z = x + y
  PROVE  z % m = x % m
<1> DEFINE p == x \div m  q == y \div m  k == p + q  r == x % m
<1>1. x = m * p + r /\ y = m * q /\ p \in Int /\ q \in Int /\ r \in 0 .. m - 1
  BY DivMod, Multiple
<1> HIDE DEF p, q, r
<1>2. k \in Int /\ z = m * k + r
  BY <1>1, Distribute, Multiple
<1> HIDE DEF k
<1>3. z % m = r
  BY <1>1, <1>2, ModUnique
<1> QED BY <1>3 DEF r

\* A remainder by cases, for numbers at most one modulus away.
LEMMA SmallMod ==
  ASSUME NEW m \in Nat, 0 < m, NEW x \in Int
  PROVE  /\ 0 <= x /\ x < m => x % m = x
         /\ m <= x /\ x < 2 * m => x % m = x - m
         /\ -m <= x /\ x < 0 => x % m = x + m
<1>1. 0 <= x /\ x < m => x % m = x
  BY ModUnique, x = m * 0 + x
<1>2. m <= x /\ x < 2 * m => x % m = x - m
  BY ModUnique, x = m * 1 + (x - m)
<1>3. -m <= x /\ x < 0 => x % m = x + m
  BY ModUnique, x = m * (-1) + (x + m)
<1> QED BY <1>1, <1>2, <1>3

-----------------------------------------------------------------------------
(* Ring indices.                                                           *)

LEMMA RingSizes ==
  /\ QNum \in Nat /\ IdxMod \in Nat /\ 0 < QNum /\ QNum < IdxMod
  /\ IdxMod % QNum = 0
BY ConstAssumption

\* U16 by cases.
LEMMA Wrap ==
  ASSUME NEW x \in Int, -IdxMod <= x, x < 2 * IdxMod
  PROVE  /\ U16(x) = IF x < 0 THEN x + IdxMod ELSE IF x < IdxMod THEN x ELSE x - IdxMod
         /\ U16(x) \in Idx
BY RingSizes, SmallMod DEF U16, Idx

LEMMA EntryInRing ==
  ASSUME NEW x \in Int
  PROVE  Entry(x) \in Ring
<1>1. U16(x) \in Int
  BY RingSizes, DivMod DEF U16
<1> QED BY <1>1, RingSizes, DivMod DEF Entry, Ring

\* The entry of an index that may have wrapped.
LEMMA EntryMod ==
  ASSUME NEW x \in Int, 0 <= x, x < 2 * IdxMod
  PROVE  Entry(x) = x % QNum
<1>1. CASE x < IdxMod
  BY <1>1, Wrap, RingSizes DEF Entry
<1>2. CASE IdxMod <= x
  <2>1. U16(x) = x - IdxMod
    BY <1>2, Wrap, RingSizes
  <2> DEFINE y == x - IdxMod
  <2>2. y \in Int /\ x = y + IdxMod
    BY RingSizes
  <2> HIDE DEF y
  <2>3. IdxMod \in Int /\ QNum \in Nat /\ 0 < QNum /\ IdxMod % QNum = 0
    BY RingSizes
  <2>4. x % QNum = y % QNum
    BY <2>2, <2>3, AddMod, Zenon
  <2> QED BY <2>1, <2>4 DEF Entry, y
<1> QED BY <1>1, <1>2, RingSizes

\* Fewer than QNum entries on, the ring has not come round.
LEMMA EntryDistinct ==
  ASSUME NEW a \in Idx, NEW i \in Nat, NEW j \in Nat, i < j, j <= QNum, j - i < QNum
  PROVE  Entry(a + i) # Entry(a + j)
<1>1. /\ a + i \in Int /\ 0 <= a + i /\ a + i < 2 * IdxMod
      /\ a + j \in Int /\ 0 <= a + j /\ a + j < 2 * IdxMod
  BY RingSizes DEF Idx
<1>2. Entry(a + i) = (a + i) % QNum /\ Entry(a + j) = (a + j) % QNum
  BY <1>1, EntryMod
<1> DEFINE x == a + i  y == a + j
<1>3. x # y /\ x - y < QNum /\ y - x < QNum
  BY RingSizes DEF Idx
<1> HIDE DEF x, y
<1>4. x % QNum # y % QNum
  BY <1>1, <1>3, SameMod, RingSizes DEF x, y
<1> QED BY <1>2, <1>4 DEF x, y

\* The distance between two indices, and what moving either end does to it.
LEMMA Distance ==
  ASSUME NEW a \in Idx, NEW b \in Idx
  PROVE  /\ U16(a - b) \in Nat /\ U16(a - b) < IdxMod
         /\ U16(b + U16(a - b)) = a
         /\ U16(a - b) = 0 <=> a = b
BY Wrap, RingSizes DEF Idx

LEMMA DistanceUp ==
  ASSUME NEW a \in Idx, NEW b \in Idx, NEW n \in 0 .. QNum, U16(a - b) + n < IdxMod
  PROVE  U16(a + n) \in Idx /\ U16(U16(a + n) - b) = U16(a - b) + n
BY Wrap, RingSizes DEF Idx

LEMMA DistanceDown ==
  ASSUME NEW a \in Idx, NEW b \in Idx, NEW n \in 0 .. U16(a - b)
  PROVE  U16(b + n) \in Idx /\ U16(a - U16(b + n)) = U16(a - b) - n
BY Wrap, RingSizes DEF Idx

\* Entries counted from an index that has moved on.
LEMMA Shift ==
  ASSUME NEW b \in Idx, NEW n \in Nat, NEW i \in Nat, n + i <= QNum
  PROVE  Entry(U16(b + n) + i) = Entry(b + (n + i))
<1> DEFINE c == U16(b + n)
<1>1. c \in Idx /\ (c = b + n \/ c = b + n - IdxMod)
  BY Wrap, RingSizes DEF Idx
<1> HIDE DEF c
<1>2. CASE c = b + n
  BY <1>2, RingSizes DEF Idx, c
<1>3. CASE c = b + n - IdxMod
  <2>1. /\ c + i \in Int /\ 0 <= c + i /\ c + i < IdxMod
        /\ b + (n + i) \in Int /\ b + (n + i) = (c + i) + IdxMod
    BY <1>1, <1>3, RingSizes DEF Idx
  <2>2. U16(c + i) = c + i /\ U16(b + (n + i)) = c + i
    BY <2>1, Wrap, RingSizes
  <2> QED BY <2>2 DEF Entry, c
<1> QED BY <1>1, <1>2, <1>3

-----------------------------------------------------------------------------
(* How many entries of the ring a set has, counted along the ring.         *)

IsTally(c, S, n) ==
  c = [k \in 0 .. n |-> IF k = 0 THEN 0 ELSE c[k - 1] + IF k - 1 \in S THEN 1 ELSE 0]
Tally(S) == CHOOSE c : IsTally(c, S, QNum)
Count(S) == Tally(S)[QNum]

LEMMA NatSet ==
  ASSUME NEW P \in SUBSET Nat, 0 \in P, \A n \in P : n + 1 \in P
  PROVE  P = Nat
<1> SUFFICES ASSUME NEW x \in Nat \ P PROVE FALSE
  OBVIOUS
<1>1. IsWellFoundedOn(OpToRel(<, Nat), Nat)
  BY NatLessThanWellFounded
<1>2. PICK y \in Nat \ P : \A z \in Nat \ P : ~(<<z, y>> \in OpToRel(<, Nat))
  <2>1. Nat \ P \subseteq Nat /\ Nat \ P # {}
    OBVIOUS
  <2> QED BY <1>1, <2>1, WFMin, Zenon
<1>3. \A z \in Nat \ P : ~(z < y)
  BY <1>2 DEF OpToRel
<1>4. y # 0 /\ y - 1 \in Nat /\ (y - 1) + 1 = y /\ y - 1 < y
  OBVIOUS
<1> QED BY <1>3, <1>4

LEMMA TallyExists ==
  ASSUME NEW S
  PROVE  \A n \in Nat : \E c : IsTally(c, S, n)
<1> DEFINE Q == {n \in Nat : \E c : IsTally(c, S, n)}
           In(x) == IF x \in S THEN 1 ELSE 0
<1>1. 0 \in Q
  <2> DEFINE c == [k \in 0 .. 0 |-> 0]
  <2>1. \A k \in 0 .. 0 : k = 0
    OBVIOUS
  <2>2. IsTally(c, S, 0)
    BY <2>1, Zenon DEF IsTally
  <2> QED BY <2>2
<1>2. ASSUME NEW n \in Q PROVE n + 1 \in Q
  <2>1. n \in Nat /\ n + 1 \in Nat
    OBVIOUS
  <2>2. PICK c : IsTally(c, S, n)
    OBVIOUS
  <2> HIDE DEF Q
  <2> DEFINE d == [k \in 0 .. n + 1 |-> IF k = n + 1 THEN c[n] + In(n) ELSE c[k]]
  <2>3. ASSUME NEW k \in 0 .. n + 1
        PROVE  d[k] = IF k = 0 THEN 0 ELSE d[k - 1] + In(k - 1)
    <3>1. CASE k = n + 1
      <4>1. n \in 0 .. n + 1 /\ n # n + 1 /\ k # 0 /\ k - 1 = n
        BY <2>1, <3>1
      <4> QED BY <3>1, <4>1, Zenon
    <3>2. CASE k # n + 1
      <4>1. k \in 0 .. n /\ (k # 0 => k - 1 \in 0 .. n + 1 /\ k - 1 # n + 1)
        BY <2>1, <3>2
      <4>2. d[k] = c[k] /\ (k # 0 => d[k - 1] = c[k - 1])
        BY <3>2, <4>1, Zenon
      <4>3. c[k] = IF k = 0 THEN 0 ELSE c[k - 1] + In(k - 1)
        BY <2>2, <4>1, Zenon DEF IsTally
      <4> HIDE DEF d, In
      <4> QED BY <4>2, <4>3, Zenon
    <3> QED BY <3>1, <3>2
  <2>4. d = [k \in 0 .. n + 1 |-> d[k]]
    BY Zenon
  <2> HIDE DEF d
  <2>5. IsTally(d, S, n + 1)
    BY <2>3, <2>4, Zenon DEF IsTally
  <2> QED BY <2>1, <2>5, Zenon DEF Q
<1>3. Q = Nat
  <2>1. Q \in SUBSET Nat
    OBVIOUS
  <2> HIDE DEF Q
  <2> QED BY <1>1, <1>2, <2>1, NatSet, Zenon
<1> QED BY <1>3

LEMMA TallyIs ==
  ASSUME NEW S
  PROVE  /\ Tally(S)[0] = 0
         /\ \A k \in 0 .. QNum - 1 :
              Tally(S)[k + 1] = Tally(S)[k] + IF k \in S THEN 1 ELSE 0
<1>1. QNum \in Nat
  BY RingSizes
<1>2. IsTally(Tally(S), S, QNum)
  <2>1. \E c : IsTally(c, S, QNum)
    BY <1>1, TallyExists, Zenon
  <2> QED BY <2>1, Zenon DEF Tally
<1>3. 0 \in 0 .. QNum
  BY <1>1
<1>4. ASSUME NEW k \in 0 .. QNum - 1
      PROVE  Tally(S)[k + 1] = Tally(S)[k] + IF k \in S THEN 1 ELSE 0
  <2>1. k + 1 \in 0 .. QNum /\ k + 1 # 0 /\ (k + 1) - 1 = k
    BY <1>1
  <2> QED BY <1>2, <2>1, Zenon DEF IsTally
<1> QED BY <1>2, <1>3, <1>4, Zenon DEF IsTally

LEMMA CountRange ==
  ASSUME NEW S
  PROVE  /\ \A k \in 0 .. QNum : Tally(S)[k] \in Nat /\ Tally(S)[k] <= k
         /\ Count(S) \in Nat /\ Count(S) <= QNum
<1> DEFINE c == Tally(S)
           Q == {k \in Nat : k <= QNum => c[k] \in Nat /\ c[k] <= k}
<1>1. QNum \in Nat
  BY RingSizes
<1>2. c[0] = 0 /\ \A k \in 0 .. QNum - 1 : c[k + 1] = c[k] + IF k \in S THEN 1 ELSE 0
  BY TallyIs, Zenon
<1> HIDE DEF c
<1>3. 0 \in Q
  BY <1>2
<1>4. ASSUME NEW k \in Q PROVE k + 1 \in Q
  <2> SUFFICES ASSUME k + 1 <= QNum PROVE c[k + 1] \in Nat /\ c[k + 1] <= k + 1
    OBVIOUS
  <2>1. k \in 0 .. QNum - 1 /\ c[k] \in Nat /\ c[k] <= k
    BY <1>1
  <2>2. c[k + 1] = c[k] \/ c[k + 1] = c[k] + 1
    BY <1>2, <2>1
  <2> QED BY <2>1, <2>2
<1>5. Q = Nat
  <2>1. Q \in SUBSET Nat
    OBVIOUS
  <2> HIDE DEF Q
  <2> QED BY <1>3, <1>4, <2>1, NatSet, Zenon
<1>6. \A k \in 0 .. QNum : c[k] \in Nat /\ c[k] <= k
  BY <1>1, <1>5
<1>7. QNum \in 0 .. QNum
  BY <1>1
<1> QED BY <1>6, <1>7, Zenon DEF c, Count

LEMMA CountRemove ==
  ASSUME NEW S, NEW b \in Ring, b \in S
  PROVE  Count(S \ {b}) + 1 = Count(S)
<1> DEFINE c == Tally(S)
           d == Tally(S \ {b})
           Q == {k \in Nat : k <= QNum => c[k] = d[k] + IF b < k THEN 1 ELSE 0}
<1>1. QNum \in Nat /\ b \in 0 .. QNum - 1
  BY RingSizes DEF Ring
<1>2. c[0] = 0 /\ \A k \in 0 .. QNum - 1 : c[k + 1] = c[k] + IF k \in S THEN 1 ELSE 0
  BY TallyIs, Zenon
<1>3. /\ d[0] = 0
      /\ \A k \in 0 .. QNum - 1 : d[k + 1] = d[k] + IF k \in S \ {b} THEN 1 ELSE 0
  BY TallyIs, Zenon
<1>4. \A k \in 0 .. QNum : d[k] \in Nat
  BY CountRange, Zenon
<1> HIDE DEF c, d
<1>5. 0 \in Q
  BY <1>1, <1>2, <1>3
<1>6. ASSUME NEW k \in Q PROVE k + 1 \in Q
  <2> SUFFICES ASSUME k + 1 <= QNum PROVE c[k + 1] = d[k + 1] + IF b < k + 1 THEN 1 ELSE 0
    OBVIOUS
  <2>1. k \in 0 .. QNum - 1 /\ k \in 0 .. QNum /\ c[k] = d[k] + IF b < k THEN 1 ELSE 0
    BY <1>1
  <2>2. d[k] \in Nat
    BY <1>4, <2>1
  <2>3. CASE k = b
    <3>1. c[k + 1] = c[k] + 1 /\ d[k + 1] = d[k] + 0
      BY <1>2, <1>3, <2>1, <2>3
    <3> QED BY <1>1, <2>1, <2>2, <2>3, <3>1
  <2>4. CASE k # b
    <3>1. \/ c[k + 1] = c[k] + 1 /\ d[k + 1] = d[k] + 1
          \/ c[k + 1] = c[k] + 0 /\ d[k + 1] = d[k] + 0
      BY <1>2, <1>3, <2>1, <2>4
    <3> QED BY <1>1, <2>1, <2>2, <2>4, <3>1
  <2> QED BY <2>3, <2>4
<1>7. Q = Nat
  <2>1. Q \in SUBSET Nat
    OBVIOUS
  <2> HIDE DEF Q
  <2> QED BY <1>5, <1>6, <2>1, NatSet, Zenon
<1>8. c[QNum] = d[QNum] + 1
  BY <1>1, <1>7
<1> QED BY <1>8 DEF c, d, Count

LEMMA CountAdd ==
  ASSUME NEW S, NEW b \in Ring
  PROVE  Count(S \cup {b}) = Count(S) \/ Count(S \cup {b}) = Count(S) + 1
<1>1. CASE b \in S
  <2>1. S \cup {b} = S
    BY <1>1
  <2> QED BY <2>1
<1>2. CASE b \notin S
  <2>1. (S \cup {b}) \ {b} = S /\ b \in S \cup {b}
    BY <1>2
  <2>2. Count((S \cup {b}) \ {b}) + 1 = Count(S \cup {b})
    BY <2>1, CountRemove, Zenon
  <2> QED BY <2>1, <2>2, Zenon
<1> QED BY <1>1, <1>2

-----------------------------------------------------------------------------
(* The inductive invariant.                                                *)

\* Buffers on their way back, as the driver counts them.
Back == U16(used_idx - seen)

RingsOK ==
  drv # "down" =>
    /\ Pending + Back + Count(free) <= QNum
    /\ \A i \in 0 .. Pending - 1 : Chain(i) \in Buf
    /\ \A i \in 0 .. Back - 1 : used[Entry(seen + i)] \in Buf

RegistersOK ==
  /\ drv # "down" => ready
  /\ drv \notin {"down", "setup"} => driver_ok
  /\ shared_dir /\ driver_ok => drv \notin {"down", "setup"}
  /\ ~shared_dir => dev = "fs"
  /\ drv = "down" => ~owe

OneForRng == dev = "rng" /\ drv # "down" => Pending = IF owe THEN 1 ELSE 0

Excused ==
  /\ needs_reset => excuse
  /\ excuse => dev \in {"blk", "gpu", "rx"}
  /\ (\E b \in Buf : kind[b] # "ok") => excuse

Woken ==
  /\ drv \in {"idle", "recheck", "ack"} => ~no_intr
  /\ drv = "idle" /\ Back > 0 => "used" \in isr /\ (line \/ dev = "rx")

IInv == TypeOK /\ RingsOK /\ RegistersOK /\ OneForRng /\ Excused /\ Woken
-----------------------------------------------------------------------------
(* What a handler may do, whichever device it is of.                       *)

\* The device works off n buffers, and returns them or gives up.
Serves(n) ==
  /\ ~needs_reset /\ drv \notin {"down", "setup"}
  /\ Consume(n)
  /\ isr \subseteq isr' /\ isr' \subseteq {"used", "conf"}
  /\ needs_reset' \in BOOLEAN /\ (needs_reset' => excuse)
  /\ \/ used_idx' = U16(used_idx + n) /\ (no_intr \/ "used" \in isr')
     \/ used_idx' = used_idx /\ needs_reset'

GivesUp == ~needs_reset /\ ~driver_ok /\ dev = "rx" /\ Refuse

Handled == Ignore \/ GivesUp \/ \E n \in 0 .. Pending : Serves(n)

\* No check on the indices misfires.
LEMMA NeverTooMany ==
  ASSUME TypeOK, RingsOK, drv # "down"
  PROVE  /\ Pending \in Nat /\ Back \in Nat /\ Count(free) \in Nat
         /\ Pending + Back + Count(free) <= QNum
         /\ ~TooManyInt /\ ~TooMany16
<1>1. Pending \in Nat /\ Back \in Nat
  BY Distance DEF Pending, Back, TypeOK
<1>2. Count(free) \in Nat
  BY CountRange
<1>3. Pending + Back + Count(free) <= QNum
  BY DEF RingsOK
<1>4. ~TooMany16
  BY <1>1, <1>2, <1>3, RingSizes DEF TooMany16, Pending
<1>5. ~TooManyInt
  <2>1. CASE avail_idx - last_avail < 0
    BY <2>1, RingSizes DEF TooManyInt, TypeOK, Idx
  <2>2. CASE avail_idx - last_avail >= 0
    <3>1. Pending = avail_idx - last_avail
      BY <2>2, Wrap, RingSizes DEF Pending, TypeOK, Idx
    <3> QED BY <3>1, <1>1, <1>2, <1>3, RingSizes DEF TooManyInt
  <2> QED BY <2>1, <2>2 DEF TypeOK, Idx
<1> QED BY <1>1, <1>2, <1>3, <1>4, <1>5

\* The first chain that is refused, or all of them.
LEMMA ServedOfIs ==
  ASSUME NEW n \in Nat
  PROVE  /\ ServedOf(n) \in 0 .. n
         /\ ServedOf(n) = n \/ kind[Chain(ServedOf(n))] # "ok"
<1> DEFINE P(k) == (\A i \in 0 .. k - 1 : kind[Chain(i)] = "ok")
                     /\ (k = n \/ kind[Chain(k)] # "ok")
           T == {k \in 0 .. n : k = n \/ kind[Chain(k)] # "ok"}
<1>1. T \subseteq Nat /\ n \in T
  OBVIOUS
<1>2. PICK k \in T : \A j \in T : <<j, k>> \notin OpToRel(<, Nat)
  <2> HIDE DEF T
  <2> QED BY <1>1, NatLessThanWellFounded, WFMin, Zenon
<1>3. \A j \in T : ~(j < k)
  BY <1>1, <1>2, Zenon DEF OpToRel
<1>4. k \in 0 .. n /\ P(k)
  BY <1>3
<1> HIDE DEF P
<1>5. ServedOf(n) \in 0 .. n /\ P(ServedOf(n))
  BY <1>4 DEF ServedOf, P
<1> QED BY <1>5 DEF P

LEMMA RefusedExcuses ==
  ASSUME TypeOK, RingsOK, Excused, drv # "down",
         NEW n \in 0 .. Pending - 1, kind[Chain(n)] # "ok"
  PROVE  excuse
BY DEF RingsOK, Excused

LEMMA PublishServes ==
  ASSUME TypeOK, ~needs_reset, drv \notin {"down", "setup"},
         NEW n, Publish(n), UNCHANGED needs_reset
  PROVE  Serves(n)
<1>1. isr \subseteq isr' /\ isr' \subseteq {"used", "conf"} /\ (no_intr \/ "used" \in isr')
  BY DEF Publish, TypeOK
<1> QED BY <1>1 DEF Serves, Publish, TypeOK

LEMMA BlkHandled ==
  ASSUME TypeOK, RingsOK, Excused, drv \notin {"down", "setup"}, driver_ok, ready, NotifyBlk
  PROVE  Handled
<1> DEFINE n == ServedOf(Pending)
<1>1. Pending \in Nat /\ ~TooManyInt
  BY NeverTooMany
<1>2. n \in 0 .. Pending /\ (n = Pending \/ kind[Chain(n)] # "ok")
  BY <1>1, ServedOfIs
<1>3. CASE Ignore
  BY <1>3 DEF Handled
<1>4. CASE ~needs_reset /\ Publish(n) /\ UNCHANGED needs_reset
  <2> HIDE DEF n
  <2> QED BY <1>2, <1>4, PublishServes DEF Handled
<1>5. CASE ~needs_reset /\ n < Pending /\ Consume(n) /\ SetFail /\ UNCHANGED used_idx
  <2> HIDE DEF n
  <2>1. excuse
    BY <1>1, <1>2, <1>5, RefusedExcuses
  <2>2. Serves(n)
    BY <1>5, <2>1 DEF Serves, SetFail, TypeOK
  <2> QED BY <1>2, <2>2 DEF Handled
<1> QED BY <1>1, <1>3, <1>4, <1>5 DEF NotifyBlk, Checked

LEMMA GpuHandled ==
  ASSUME TypeOK, RingsOK, Excused, drv \notin {"down", "setup"}, driver_ok, ready, NotifyGpu
  PROVE  Handled
<1> DEFINE n == ServedOf(Pending)
<1>1. Pending \in Nat /\ ~TooMany16 /\ Pending <= QNum
  BY NeverTooMany, RingSizes
<1>2. n \in 0 .. Pending /\ (n = Pending \/ kind[Chain(n)] # "ok")
  BY <1>1, ServedOfIs
<1>3. CASE Ignore
  BY <1>3 DEF Handled
<1>4. CASE ~needs_reset /\ Publish(n) /\ UNCHANGED needs_reset
  <2> HIDE DEF n
  <2> QED BY <1>2, <1>4, PublishServes DEF Handled
<1>5. CASE ~needs_reset /\ n < Pending /\ Consume(n) /\ SetFail /\ UNCHANGED used_idx
  <2> HIDE DEF n
  <2>1. excuse
    BY <1>1, <1>2, <1>5, RefusedExcuses
  <2>2. Serves(n)
    BY <1>5, <2>1 DEF Serves, SetFail, TypeOK
  <2> QED BY <1>2, <2>2 DEF Handled
<1>6. CASE /\ ~needs_reset /\ n < Pending
           /\ Consume(n + 1) /\ used_idx' = U16(used_idx + n + 1)
           /\ needs_reset' = TRUE
           /\ isr' = isr \cup (IF driver_ok THEN {"conf"} ELSE {})
                         \cup (IF no_intr THEN {} ELSE {"used"})
  <2> HIDE DEF n
  <2>1. excuse
    BY <1>1, <1>2, <1>6, RefusedExcuses
  <2>2. n + 1 \in 0 .. Pending
    BY <1>1, <1>2, <1>6
  <2>3. isr \subseteq isr' /\ isr' \subseteq {"used", "conf"} /\ (no_intr \/ "used" \in isr')
    BY <1>6 DEF TypeOK
  <2>4. used_idx + n + 1 = used_idx + (n + 1)
    BY <1>1, <1>2 DEF TypeOK, Idx
  <2>5. Serves(n + 1)
    BY <1>6, <2>1, <2>3, <2>4 DEF Serves, TypeOK
  <2> QED BY <2>2, <2>5 DEF Handled
<1> QED BY <1>1, <1>3, <1>4, <1>5, <1>6, Zenon DEF NotifyGpu, Checked

LEMMA FsHandled ==
  ASSUME TypeOK, RingsOK, drv \notin {"down", "setup"}, driver_ok, ready, NotifyFs
  PROVE  Handled
<1>1. Pending \in 0 .. Pending /\ ~TooManyInt
  BY NeverTooMany
<1>2. Ignore \/ (~needs_reset /\ Publish(Pending) /\ UNCHANGED needs_reset)
  BY <1>1 DEF NotifyFs, Checked
<1> QED BY <1>1, <1>2, PublishServes DEF Handled

LEMMA StatusqHandled ==
  ASSUME TypeOK, RingsOK, drv \notin {"down", "setup"}, ~needs_reset, NotifyStatusq
  PROVE  Handled
<1>1. Pending \in 0 .. Pending /\ ~TooMany16
  BY NeverTooMany
<1>2. Ignore \/ (Publish(Pending) /\ UNCHANGED needs_reset)
  BY <1>1 DEF NotifyStatusq
<1> QED BY <1>1, <1>2, PublishServes DEF Handled

\* Both directions of virtio-net, from a notification, the tick or slirp.
LEMMA NetHandled ==
  ASSUME TypeOK, RingsOK, RegistersOK, dev \in {"tx", "rx"}, driver_ok \/ dev = "rx",
         NEW n \in Nat, NEW fd \in BOOLEAN, TryNet(n, fd)
  PROVE  Handled
<1>1. driver_ok => ready /\ drv \notin {"down", "setup"}
  BY DEF RegistersOK
<1>2. CASE Ignore
  BY <1>2 DEF Handled
<1>3. CASE ~driver_ok /\ ~needs_reset /\ Refuse
  BY <1>3 DEF Handled, GivesUp
<1>4. CASE driver_ok /\ ~needs_reset /\ Publish(n) /\ UNCHANGED needs_reset
  <2>1. Serves(n)
    BY <1>1, <1>4, PublishServes
  <2>2. Pending \in Nat
    BY <1>1, <1>4, NeverTooMany
  <2> QED BY <2>1, <2>2 DEF Handled, TryNet
<1>5. driver_ok => ~TooManyInt
  BY <1>1, NeverTooMany
<1> QED BY <1>1, <1>2, <1>3, <1>4, <1>5 DEF TryNet, Checked

-----------------------------------------------------------------------------
(* What a handler does to the rings.                                       *)

LEMMA EntryOfUsed ==
  ASSUME TypeOK, Back \in Nat, NEW i \in Nat, Back + i <= QNum
  PROVE  Entry(used_idx + i) = Entry(seen + (Back + i))
<1>1. seen \in Idx /\ used_idx \in Idx /\ U16(seen + Back) = used_idx
  BY Distance DEF Back, TypeOK
<1>2. Entry(U16(seen + Back) + i) = Entry(seen + (Back + i))
  BY <1>1, Shift
<1> QED BY <1>1, <1>2

\* The elements written do not touch those the driver has not read.
LEMMA UsedWritten ==
  ASSUME TypeOK, RingsOK, drv # "down", NEW n \in 0 .. Pending, Consume(n)
  PROVE  /\ used' \in [Ring -> Ring]
         /\ \A i \in 0 .. Back - 1 : used'[Entry(seen + i)] = used[Entry(seen + i)]
         /\ \A j \in 0 .. n - 1 : used'[Entry(seen + (Back + j))] = Chain(j)
<1>1. /\ Pending \in Nat /\ Back \in Nat /\ Back + n <= QNum /\ n \in Nat
      /\ seen \in Idx /\ seen \in Int
  BY NeverTooMany, RingSizes DEF TypeOK, Idx
<1>2. \A j \in 0 .. n - 1 : Entry(used_idx + j) = Entry(seen + (Back + j))
  BY <1>1, EntryOfUsed, RingSizes
<1>3. \A j \in Int : Chain(j) \in Ring
  BY EntryInRing DEF Chain, TypeOK, Idx
<1>4. used' \in [Ring -> Ring]
  <2>1. \A p \in Ring : used'[p] \in Ring
    <3> SUFFICES ASSUME NEW p \in Ring PROVE used'[p] \in Ring
      OBVIOUS
    <3>1. CASE \E i \in 0 .. n - 1 : Entry(used_idx + i) = p
      <4> DEFINE c == CHOOSE i \in 0 .. n - 1 : Entry(used_idx + i) = p
      <4>1. c \in 0 .. n - 1
        BY <3>1
      <4>2. used'[p] = Chain(c)
        BY <3>1 DEF Consume
      <4> QED BY <4>1, <4>2, <1>1, <1>3
    <3>2. CASE ~\E i \in 0 .. n - 1 : Entry(used_idx + i) = p
      BY <3>2 DEF Consume, TypeOK
    <3> QED BY <3>1, <3>2
  <2>2. used' = [p \in Ring |-> used'[p]]
    BY DEF Consume
  <2> QED BY <2>1, <2>2
<1>5. ASSUME NEW i \in 0 .. Back - 1
      PROVE  used'[Entry(seen + i)] = used[Entry(seen + i)]
  <2>1. \A j \in 0 .. n - 1 : Entry(used_idx + j) # Entry(seen + i)
    <3> SUFFICES ASSUME NEW j \in 0 .. n - 1
                 PROVE  Entry(seen + i) # Entry(seen + (Back + j))
      BY <1>2
    <3>1. /\ i \in Nat /\ Back + j \in Nat /\ i < Back + j
          /\ Back + j <= QNum /\ Back + j - i < QNum
      BY <1>1, RingSizes
    <3> QED BY <3>1, <1>1, EntryDistinct
  <2>2. Entry(seen + i) \in Ring
    BY <1>1, EntryInRing
  <2> QED BY <2>1, <2>2 DEF Consume
<1>6. ASSUME NEW j \in 0 .. n - 1
      PROVE  used'[Entry(seen + (Back + j))] = Chain(j)
  <2> DEFINE p == Entry(used_idx + j)
             c == CHOOSE i \in 0 .. n - 1 : Entry(used_idx + i) = p
  <2>1. p \in Ring
    BY <1>1, EntryInRing DEF TypeOK, Idx
  <2>2. c \in 0 .. n - 1 /\ Entry(used_idx + c) = p
    OBVIOUS
  <2>3. used'[p] = Chain(c)
    BY <2>1 DEF Consume
  <2> HIDE DEF c, p
  <2>4. c = j
    <3>1. Entry(seen + (Back + c)) = Entry(seen + (Back + j))
      BY <1>2, <2>2 DEF p
    <3>2. \A a \in 0 .. n - 1, b \in 0 .. n - 1 :
            a < b => Entry(seen + (Back + a)) # Entry(seen + (Back + b))
      <4> SUFFICES ASSUME NEW a \in 0 .. n - 1, NEW b \in 0 .. n - 1, a < b
                   PROVE  Entry(seen + (Back + a)) # Entry(seen + (Back + b))
        OBVIOUS
      <4>1. /\ Back + a \in Nat /\ Back + b \in Nat /\ Back + a < Back + b
            /\ Back + b <= QNum /\ (Back + b) - (Back + a) < QNum
        BY <1>1, RingSizes
      <4> QED BY <4>1, <1>1, EntryDistinct, Zenon
    <3> QED BY <3>1, <3>2, <2>2, <1>1
  <2> QED BY <2>3, <2>4, <1>2 DEF p
<1> QED BY <1>4, <1>5, <1>6

LEMMA AvailRead ==
  ASSUME TypeOK, RingsOK, drv # "down", NEW n \in 0 .. Pending, Consume(n),
         UNCHANGED <<avail_idx, avail>>
  PROVE  /\ last_avail' \in Idx /\ Pending' = Pending - n
         /\ \A i \in 0 .. (Pending - n) - 1 : Chain(i)' = Chain(n + i)
<1>1. Pending \in Nat /\ Pending <= QNum /\ n \in Nat /\ last_avail \in Idx /\ avail_idx \in Idx
  BY NeverTooMany, RingSizes DEF TypeOK
<1>2. last_avail' = U16(last_avail + n)
  BY DEF Consume
<1>3. U16(last_avail + n) \in Idx /\ U16(avail_idx - U16(last_avail + n)) = Pending - n
  BY <1>1, DistanceDown DEF Pending
<1>4. ASSUME NEW i \in 0 .. (Pending - n) - 1
      PROVE  Chain(i)' = Chain(n + i)
  <2>1. i \in Nat /\ n + i <= QNum
    BY <1>1, RingSizes
  <2>2. Entry(U16(last_avail + n) + i) = Entry(last_avail + (n + i))
    BY <1>1, <2>1, Shift
  <2> QED BY <1>2, <2>2 DEF Chain
<1> QED BY <1>2, <1>3, <1>4 DEF Pending

\* How far the used index moves.
LEMMA UsedMoves ==
  ASSUME TypeOK, RingsOK, NEW n \in 0 .. Pending, Serves(n), UNCHANGED seen
  PROVE  /\ used_idx' \in Idx
         /\ used_idx' = U16(used_idx + n) => Back' = Back + n
         /\ used_idx' = used_idx => Back' = Back
<1>1. /\ Pending \in Nat /\ Back \in Nat /\ n \in 0 .. QNum /\ Back + n < IdxMod
      /\ used_idx \in Idx /\ seen \in Idx
  BY NeverTooMany, RingSizes DEF Serves, TypeOK
<1>2. U16(used_idx + n) \in Idx /\ U16(U16(used_idx + n) - seen) = Back + n
  BY <1>1, DistanceUp DEF Back
<1> QED BY <1>1, <1>2 DEF Serves, Back

-----------------------------------------------------------------------------
(* Steps that run a handler.                                               *)

HandlerStep ==
  /\ Handled
  /\ UNCHANGED <<dev, driver_ok, ready, shared_dir, availVars, no_intr,
                 drv, got, seen, free, kind>>
  /\ fd_ready' \in BOOLEAN /\ line' \in BOOLEAN /\ owe' \in BOOLEAN /\ excuse' \in BOOLEAN
  /\ owe' => owe
  /\ (isr' # {} => line') \/ dev = "rx"
  /\ excuse => excuse'
  /\ excuse' => excuse \/ dev = "rx"
  /\ GivesUp => excuse'
  /\ dev = "rng" => ~owe' /\ Pending' = 0

LEMMA KickIsHandler == IInv /\ Kick => HandlerStep
<1> SUFFICES ASSUME IInv, Kick PROVE HandlerStep
  OBVIOUS
<1> USE DEF IInv
<1>1. drv \notin {"down", "setup"} /\ driver_ok /\ ready
  BY DEF Kick, RegistersOK
<1>2. dev \in {"blk", "fs", "gpu", "rng", "statusq", "eventq", "tx", "rx"}
  BY ConstAssumption DEF TypeOK
<1>3. ~(dev \in {"blk", "gpu", "rx"}) => ~needs_reset
  BY DEF Excused
<1>4. CASE dev \in {"tx", "rx"}
  <2>1. PICK n \in 0 .. Pending : TryNet(n, fd_ready)
    BY <1>4 DEF Kick, Notify
  <2>2. n \in Nat
    BY <1>1, NeverTooMany
  <2>3. fd_ready \in BOOLEAN
    BY DEF TypeOK
  <2>4. Handled
    BY <1>1, <1>4, <2>1, <2>2, <2>3, NetHandled
  <2>5. fd_ready' \in BOOLEAN
    BY <2>1, <2>3, Zenon DEF TryNet, FdAfterStop
  <2>6. line' \in BOOLEAN /\ (isr' # {} => line')
    BY Zenon DEF Kick, SetLine
  <2> QED BY <1>1, <1>4, <2>4, <2>5, <2>6, Zenon DEF HandlerStep, Kick, GivesUp, TypeOK
<1>5. CASE dev = "rng"
  <2>1. Pending = 1
    BY <1>1, <1>5 DEF Kick, OneForRng, TypeOK
  <2>2. Publish(1) /\ UNCHANGED <<needs_reset, fd_ready>>
    BY <1>5 DEF Kick, Notify, NotifyRng
  <2>3. Serves(1)
    BY <1>1, <1>3, <1>5, <2>2, PublishServes
  <2>4. Handled
    BY <2>1, <2>3 DEF Handled
  <2>5. Pending' = 0
    <3>1. Pending' = Pending - 1
      BY <1>1, <2>1, <2>2, AvailRead DEF Publish, Kick, availVars
    <3> QED BY <2>1, <3>1
  <2>6. line' \in BOOLEAN /\ (isr' # {} => line')
    BY Zenon DEF Kick, SetLine
  <2> QED BY <1>1, <1>5, <2>2, <2>4, <2>5, <2>6, Zenon DEF HandlerStep, Kick, GivesUp, TypeOK
<1>6. CASE dev \in {"blk", "fs", "gpu", "statusq", "eventq"}
  <2>1. UNCHANGED fd_ready
    BY <1>6 DEF Kick, Notify
  <2>2. Handled
    BY <1>1, <1>3, <1>6, BlkHandled, FsHandled, GpuHandled, StatusqHandled
       DEF Kick, Notify, Handled
  <2>3. line' \in BOOLEAN /\ (isr' # {} => line')
    BY Zenon DEF Kick, SetLine
  <2> QED BY <1>1, <1>6, <2>1, <2>2, <2>3, ZenonT(60) DEF HandlerStep, Kick, GivesUp, TypeOK
<1> QED BY <1>2, <1>4, <1>5, <1>6

LEMMA RefreshIsHandler ==
  ASSUME IInv, NEW n \in 0 .. QNum, Refresh(n)
  PROVE  HandlerStep
<1> USE DEF IInv
<1>1. n \in Nat
  BY RingSizes
<1>2. Handled
  BY <1>1, NetHandled, Zenon DEF Refresh
<1>3. fd_ready' \in BOOLEAN
  BY Zenon DEF Refresh, TryNet, FdAfterStop, TypeOK
<1>4. line' \in BOOLEAN /\ (isr' # {} => line')
  BY Zenon DEF Refresh, RaiseLine, TypeOK
<1> QED BY <1>2, <1>3, <1>4 DEF HandlerStep, Refresh, GivesUp, TypeOK, drvVars

LEMMA RecvIsHandler ==
  ASSUME IInv, NEW n \in 0 .. QNum, RecvFromPeer(n)
  PROVE  HandlerStep
<1> USE DEF IInv
<1>1. n \in Nat
  BY RingSizes
<1>2. Handled
  BY <1>1, NetHandled, Zenon DEF RecvFromPeer
<1>3. fd_ready' \in BOOLEAN
  BY ZenonT(60) DEF RecvFromPeer, TryNet, FdAfterStop, TypeOK
<1>4. excuse' \in BOOLEAN /\ (excuse => excuse') /\ (~driver_ok => excuse')
  BY Zenon DEF RecvFromPeer, TypeOK
<1> QED BY <1>2, <1>3, <1>4, ZenonT(30) DEF HandlerStep, RecvFromPeer, GivesUp, TypeOK

LEMMA HostEventIsHandler ==
  ASSUME IInv, NEW n \in Packets, HostEvent(n)
  PROVE  HandlerStep
<1> USE DEF IInv
<1>1. n \in Nat /\ n # 0
  BY ConstAssumption, ZenonT(30)
<1>2. ready /\ drv \notin {"down", "setup"} /\ driver_ok /\ ~needs_reset
  BY ZenonT(30) DEF HostEvent, RegistersOK
<1>3. Pending \in Nat /\ ~TooMany16
  BY <1>2, NeverTooMany, ZenonT(30)
<1>4. Handled
  <2>1. CASE Ignore
    BY <2>1 DEF Handled
  <2>2. CASE /\ ~(IF avail_idx < last_avail THEN avail_idx + IdxMod ELSE avail_idx)
                   < last_avail + n
             /\ Publish(n) /\ UNCHANGED needs_reset
    <3>1. n <= Pending
      BY <1>1, <2>2, Wrap, RingSizes, SMTT(60) DEF Pending, TypeOK, Idx
    <3>2. Serves(n)
      BY <1>2, <2>2, PublishServes
    <3> QED BY <1>1, <1>3, <3>1, <3>2 DEF Handled
  <2> QED BY <1>3, <2>1, <2>2, ZenonT(30) DEF HostEvent
<1>5. line' \in BOOLEAN /\ (isr' # {} => line')
  BY Zenon DEF HostEvent, RaiseLine, TypeOK
<1> QED BY <1>2, <1>4, <1>5, ZenonT(60) DEF HandlerStep, HostEvent, GivesUp, TypeOK, drvVars

LEMMA HandlerKeeps ==
  ASSUME IInv, HandlerStep
  PROVE  IInv'
<1> USE DEF IInv
<1>1. CASE Ignore \/ GivesUp
  <2>1. UNCHANGED <<last_avail, used_idx, used, avail_idx, avail, seen, free, drv, kind,
                    dev, no_intr, isr>>
    BY <1>1, ZenonT(30) DEF HandlerStep, Ignore, GivesUp, Refuse, SetFail, availVars, usedVars, TypeOK
  <2>2. Pending' = Pending /\ Back' = Back /\ \A i : Chain(i)' = Chain(i)
    BY <2>1 DEF Pending, Back, Chain
  <2>3. needs_reset' \in BOOLEAN /\ (needs_reset' => needs_reset \/ GivesUp)
    <3>1. CASE Ignore
      BY <3>1, ZenonT(30) DEF Ignore, TypeOK
    <3>2. CASE GivesUp
      BY <3>2 DEF GivesUp, Refuse, SetFail
    <3> QED BY <1>1, <3>1, <3>2
  <2>4. TypeOK'
    BY <2>1, <2>3, ZenonT(30) DEF HandlerStep, TypeOK
  <2>5. RingsOK'
    BY <2>1, <2>2, ZenonT(30) DEF RingsOK
  <2>6. RegistersOK'
    BY <2>1, ZenonT(30) DEF RegistersOK, HandlerStep, TypeOK
  <2>7. OneForRng'
    BY <2>1, ZenonT(30) DEF OneForRng, HandlerStep
  <2>8. Excused'
    <3>1. needs_reset' => excuse'
      BY <2>3, ZenonT(30) DEF Excused, HandlerStep, TypeOK
    <3>2. excuse' => dev \in {"blk", "gpu", "rx"}
      BY ZenonT(60) DEF Excused, HandlerStep, TypeOK
    <3> QED BY <2>1, <3>1, <3>2, ZenonT(60) DEF Excused, HandlerStep, TypeOK
  <2>9. Woken'
    <3>1. isr # {} => line' \/ dev = "rx"
      BY <2>1, ZenonT(60) DEF HandlerStep, TypeOK
    <3> QED BY <2>1, <2>2, <3>1, ZenonT(30) DEF Woken, TypeOK
  <2> QED BY <2>4, <2>5, <2>6, <2>7, <2>8, <2>9
<1>2. ASSUME NEW n \in 0 .. Pending, Serves(n)
      PROVE  IInv'
  <2>1. /\ drv \notin {"down", "setup"} /\ Consume(n) /\ UNCHANGED <<avail_idx, avail, seen>>
        /\ UNCHANGED <<dev, drv, kind, no_intr, free>>
    BY <1>2, Zenon DEF Serves, HandlerStep, availVars
  <2>2. /\ Pending \in Nat /\ Back \in Nat /\ Count(free) \in Nat
        /\ Pending + Back + Count(free) <= QNum
    BY <2>1, NeverTooMany, ZenonT(30)
  <2>3. /\ used' \in [Ring -> Ring]
        /\ \A i \in 0 .. Back - 1 : used'[Entry(seen + i)] = used[Entry(seen + i)]
        /\ \A j \in 0 .. n - 1 : used'[Entry(seen + (Back + j))] = Chain(j)
    BY <2>1, UsedWritten, ZenonT(30)
  <2>4. /\ last_avail' \in Idx /\ Pending' = Pending - n
        /\ \A i \in 0 .. (Pending - n) - 1 : Chain(i)' = Chain(n + i)
    BY <2>1, AvailRead, ZenonT(30)
  <2>5. /\ used_idx' \in Idx
        /\ (Back' = Back + n /\ (no_intr \/ "used" \in isr')) \/ Back' = Back
    BY <1>2, <2>1, UsedMoves, ZenonT(30) DEF Serves
  <2>6. TypeOK'
    BY <1>2, <2>3, <2>4, <2>5, ZenonT(60) DEF HandlerStep, Serves, availVars, TypeOK
  <2>7. RingsOK'
    <3>1. /\ \A i \in 0 .. Pending - 1 : Chain(i) \in Buf
          /\ \A i \in 0 .. Back - 1 : used[Entry(seen + i)] \in Buf
      BY <2>1, ZenonT(30) DEF RingsOK
    <3>2. Pending' + Back' + Count(free') <= QNum
      BY <2>1, <2>2, <2>4, <2>5, RingSizes, SMTT(60)
    <3>3. \A i \in 0 .. Pending' - 1 : Chain(i)' \in Buf
      BY <2>2, <2>4, <3>1, SMTT(60)
    <3>4. ASSUME NEW i \in 0 .. Back' - 1
          PROVE  used'[Entry(seen + i)] \in Buf
      <4>1. CASE i < Back
        BY <2>2, <2>3, <2>5, <3>1, <4>1, SMTT(60)
      <4>2. CASE Back <= i
        <5>1. i - Back \in 0 .. n - 1 /\ i = Back + (i - Back)
          BY <2>2, <2>5, <4>2, SMTT(60)
        <5>2. used'[Entry(seen + i)] = Chain(i - Back)
          BY <2>3, <5>1, ZenonT(30)
        <5>3. i - Back \in 0 .. Pending - 1
          BY <2>2, <5>1, SMTT(60)
        <5> QED BY <3>1, <5>2, <5>3, ZenonT(30)
      <4> QED BY <2>2, <2>5, <4>1, <4>2, SMTT(60)
    <3> QED BY <2>1, <3>2, <3>3, <3>4, ZenonT(60) DEF RingsOK
  <2>8. RegistersOK'
    BY <2>1, ZenonT(60) DEF RegistersOK, HandlerStep, TypeOK
  <2>9. OneForRng'
    BY <2>1, ZenonT(30) DEF OneForRng, HandlerStep
  <2>10. Excused'
    <3>1. needs_reset' => excuse'
      BY <1>2, ZenonT(30) DEF Serves, HandlerStep, TypeOK
    <3>2. excuse' => dev \in {"blk", "gpu", "rx"}
      BY ZenonT(30) DEF Excused, HandlerStep, TypeOK
    <3> QED BY <2>1, <3>1, <3>2, ZenonT(30) DEF Excused, HandlerStep, TypeOK
  <2>11. Woken'
    <3>1. isr' # {} => line' \/ dev = "rx"
      BY ZenonT(30) DEF HandlerStep, TypeOK
    <3>2. isr \subseteq isr'
      BY <1>2 DEF Serves
    <3> QED BY <2>1, <2>5, <3>1, <3>2, ZenonT(30) DEF Woken, TypeOK
  <2> QED BY <2>6, <2>7, <2>8, <2>9, <2>10, <2>11, ZenonT(30)
<1> QED BY <1>1, <1>2, ZenonT(30) DEF HandlerStep, Handled

-----------------------------------------------------------------------------
(* The driver's steps and the tick.                                        *)

LEMMA RingsStay ==
  ASSUME RingsOK, drv # "down",
         UNCHANGED <<last_avail, avail_idx, avail, used_idx, used, seen, free>>
  PROVE  RingsOK' /\ Pending' = Pending /\ Back' = Back
<1>1. Pending' = Pending /\ Back' = Back /\ \A i : Chain(i)' = Chain(i)
  BY ZenonT(30) DEF Pending, Back, Chain
<1>2. RingsOK'
  <2> SUFFICES /\ Pending' + Back' + Count(free') <= QNum
               /\ \A i \in 0 .. Pending' - 1 : Chain(i)' \in Buf
               /\ \A i \in 0 .. Back' - 1 : used'[Entry(seen' + i)] \in Buf
    BY ZenonT(30) DEF RingsOK
  <2> QED BY <1>1, ZenonT(30) DEF RingsOK
<1> QED BY <1>1, <1>2, ZenonT(30)

LEMMA DriverOkKeeps == IInv /\ WriteDriverOk => IInv'
<1> SUFFICES ASSUME IInv, WriteDriverOk PROVE IInv'
  OBVIOUS
<1> USE DEF IInv, WriteDriverOk, availVars, usedVars
<1>1. RingsOK' /\ Pending' = Pending /\ Back' = Back
  BY RingsStay, ZenonT(30)
<1>2. TypeOK'
  BY ZenonT(60) DEF TypeOK
<1>3. RegistersOK'
  BY ZenonT(30) DEF RegistersOK, TypeOK
<1>4. OneForRng' /\ Excused' /\ Woken'
  BY <1>1, ZenonT(30) DEF OneForRng, Excused, Woken, TypeOK
<1> QED BY <1>1, <1>2, <1>3, <1>4, ZenonT(30)

LEMMA ReadIsrKeeps == IInv /\ ReadIsr => IInv'
<1> SUFFICES ASSUME IInv, ReadIsr PROVE IInv'
  OBVIOUS
<1> USE DEF IInv, ReadIsr, regVars, availVars, usedVars
<1>1. RingsOK' /\ Pending' = Pending /\ Back' = Back
  BY RingsStay, ZenonT(30)
<1>2. TypeOK'
  BY ZenonT(30) DEF TypeOK
<1>3. RegistersOK'
  BY ZenonT(60) DEF RegistersOK, TypeOK
<1>4. OneForRng' /\ Excused' /\ Woken'
  BY <1>1, ZenonT(60) DEF OneForRng, Excused, Woken, TypeOK
<1> QED BY <1>1, <1>2, <1>3, <1>4, ZenonT(30)

LEMMA WriteAckKeeps == IInv /\ WriteAck => IInv'
<1> SUFFICES ASSUME IInv, WriteAck PROVE IInv'
  BY ZenonT(30)
<1> USE DEF IInv, WriteAck, availVars, usedVars
<1>1. RingsOK' /\ Pending' = Pending /\ Back' = Back
  BY RingsStay, ZenonT(30)
<1>2. TypeOK'
  <2>1. line' \in BOOLEAN
    BY Zenon DEF SetLine
  <2> QED BY <2>1, ZenonT(60) DEF TypeOK
<1>3. RegistersOK'
  BY ZenonT(60) DEF RegistersOK, TypeOK
<1>4. OneForRng' /\ Excused' /\ Woken'
  BY <1>1, ZenonT(60) DEF OneForRng, Excused, Woken, TypeOK
<1> QED BY <1>1, <1>2, <1>3, <1>4, ZenonT(30)

LEMMA DisableKeeps == IInv /\ DisableInterrupts => IInv'
<1> SUFFICES ASSUME IInv, DisableInterrupts PROVE IInv'
  OBVIOUS
<1> USE DEF IInv, DisableInterrupts, regVars, availVars, usedVars, drvVars
<1>1. RingsOK' /\ Pending' = Pending /\ Back' = Back
  BY RingsStay, ZenonT(30)
<1>2. TypeOK'
  BY ZenonT(60) DEF TypeOK
<1>3. RegistersOK'
  BY ZenonT(60) DEF RegistersOK, TypeOK
<1>4. OneForRng' /\ Excused' /\ Woken'
  BY <1>1, ZenonT(60) DEF OneForRng, Excused, Woken, TypeOK
<1> QED BY <1>1, <1>2, <1>3, <1>4, ZenonT(30)

LEMMA EnableKeeps == IInv /\ EnableInterrupts => IInv'
<1> SUFFICES ASSUME IInv, EnableInterrupts PROVE IInv'
  BY ZenonT(30)
<1> USE DEF IInv, EnableInterrupts, regVars, availVars, usedVars
<1>1. RingsOK' /\ Pending' = Pending /\ Back' = Back
  BY RingsStay, ZenonT(60)
<1>2. TypeOK'
  BY ZenonT(60) DEF TypeOK
<1>3. RegistersOK'
  BY ZenonT(30) DEF RegistersOK, TypeOK
<1>4. OneForRng' /\ Excused' /\ Woken'
  BY <1>1, ZenonT(60) DEF OneForRng, Excused, Woken, TypeOK
<1> QED BY <1>1, <1>2, <1>3, <1>4, ZenonT(60)

\* The driver sleeps only if the used ring held nothing new.
LEMMA RecheckKeeps == IInv /\ Recheck => IInv'
<1> SUFFICES ASSUME IInv, Recheck PROVE IInv'
  BY ZenonT(30)
<1> USE DEF IInv, Recheck, regVars, availVars, usedVars
<1>1. RingsOK' /\ Pending' = Pending /\ Back' = Back
  BY RingsStay, ZenonT(30)
<1>2. TypeOK'
  BY ZenonT(60) DEF TypeOK
<1>3. RegistersOK'
  BY ZenonT(60) DEF RegistersOK, TypeOK
<1>4. OneForRng' /\ Excused'
  BY <1>1, ZenonT(60) DEF OneForRng, Excused, TypeOK
<1>5. Woken'
  <2>1. Back \in Nat /\ (Back = 0 <=> used_idx = seen)
    BY Distance, ZenonT(60) DEF Back, TypeOK
  <2> QED BY <1>1, <2>1 DEF Woken, TypeOK
<1> QED BY <1>1, <1>2, <1>3, <1>4, <1>5, ZenonT(60)

LEMMA TickKeeps == IInv /\ Tick => IInv'
<1> SUFFICES ASSUME IInv, Tick PROVE IInv'
  OBVIOUS
<1> USE DEF IInv, Tick, availVars, usedVars, drvVars
<1>1. RingsOK' /\ OneForRng' /\ Back' = Back
  <2>1. UNCHANGED <<last_avail, avail_idx, avail, used_idx, used, seen, free, drv, dev, owe>>
    BY ZenonT(30)
  <2>2. Pending' = Pending /\ Back' = Back /\ \A i : Chain(i)' = Chain(i)
    BY <2>1, ZenonT(60) DEF Pending, Back, Chain
  <2> QED BY <2>1, <2>2 DEF RingsOK, OneForRng
<1>2. TypeOK'
  BY DEF TypeOK
<1>3. RegistersOK'
  BY ZenonT(60) DEF RegistersOK, TypeOK
<1>4. Excused' /\ Woken'
  BY <1>1, ZenonT(60) DEF Excused, Woken, TypeOK
<1> QED BY <1>1, <1>2, <1>3, <1>4, ZenonT(60)

LEMMA CollectKeeps == IInv /\ Collect => IInv'
<1> SUFFICES ASSUME IInv, Collect PROVE IInv'
  BY ZenonT(30)
<1> USE DEF IInv
<1> DEFINE b == used[seen % QNum]
<1>1. /\ drv = "reap" /\ seen # used_idx /\ free' = free \cup {b}
      /\ kind' = [kind EXCEPT ![b] = "ok"] /\ seen' = U16(seen + 1)
      /\ UNCHANGED <<dev, driver_ok, needs_reset, isr, ready, last_avail, fd_ready, line,
                     shared_dir, avail_idx, avail, no_intr, used_idx, used, drv, got,
                     owe, excuse>>
  BY ZenonT(60) DEF Collect, regVars, availVars, usedVars
<1>2. /\ Pending \in Nat /\ Back \in Nat /\ Count(free) \in Nat
      /\ Pending + Back + Count(free) <= QNum /\ seen \in Idx /\ used_idx \in Idx
  BY <1>1, NeverTooMany, ZenonT(60) DEF TypeOK
<1>3. Back > 0
  BY <1>1, <1>2, Distance DEF Back
<1>4. seen' \in Idx /\ Back' = Back - 1
  <2>1. 1 \in 0 .. U16(used_idx - seen)
    BY <1>2, <1>3, SMTT(60) DEF Back
  <2> QED BY <1>1, <1>2, <2>1, DistanceDown, ZenonT(60) DEF Back
<1>5. seen % QNum = Entry(seen + 0)
  BY <1>2, EntryMod, RingSizes, SMTT(60) DEF Idx
<1>6. b \in Buf
  BY <1>1, <1>2, <1>3, <1>5 DEF RingsOK
<1> HIDE DEF b
<1>7. TypeOK'
  BY <1>1, <1>4, <1>6 DEF TypeOK, Kind
<1>8. Pending' = Pending /\ \A i : Chain(i)' = Chain(i)
  BY <1>1, ZenonT(60) DEF Pending, Chain
<1>9. RingsOK'
  <2>1. Count(free') <= Count(free) + 1 /\ Count(free') \in Nat
    <3>1. \/ Count(free \cup {b}) = Count(free)
          \/ Count(free \cup {b}) = Count(free) + 1
      BY <1>6, CountAdd, ConstAssumption, ZenonT(30) DEF Ring
    <3> QED BY <1>1, <1>2, <3>1
  <2>2. Pending' + Back' + Count(free') <= QNum
    BY <1>2, <1>3, <1>4, <1>8, <2>1, RingSizes
  <2>3. ASSUME NEW i \in 0 .. Back' - 1
        PROVE  used'[Entry(seen' + i)] \in Buf
    <3>1. i \in Nat /\ 1 + i \in 0 .. Back - 1 /\ 1 + i <= QNum
      BY <1>2, <1>4, RingSizes, SMTT(60)
    <3>2. Entry(seen' + i) = Entry(seen + (1 + i))
      BY <1>1, <1>2, <3>1, Shift
    <3> QED BY <1>1, <3>1, <3>2, ZenonT(60) DEF RingsOK
  <2> QED BY <1>1, <1>8, <2>2, <2>3, ZenonT(60) DEF RingsOK
<1>10. RegistersOK' /\ OneForRng' /\ Woken'
  BY <1>1, <1>8, ZenonT(60) DEF RegistersOK, OneForRng, Woken
<1>11. Excused'
  <2>1. \A c \in Buf : kind'[c] # "ok" => kind[c] # "ok"
    BY <1>1, <1>6, ZenonT(60) DEF TypeOK
  <2> QED BY <1>1, <2>1, ZenonT(60) DEF Excused, TypeOK
<1> QED BY <1>7, <1>9, <1>10, <1>11, ZenonT(30)

\* What an added buffer does to the available ring.
LEMMA Added ==
  ASSUME TypeOK, RingsOK, NEW b \in Buf, NEW k \in Kinds, Add(b, k)
  PROVE  /\ avail' \in [Ring -> Ring] /\ avail_idx' \in Idx
         /\ Pending' = Pending + 1 /\ Back' = Back
         /\ \A i \in 0 .. Pending - 1 : Chain(i)' = Chain(i)
         /\ avail'[Entry(last_avail' + Pending)] = b
         /\ Count(free') + 1 = Count(free) /\ Count(free') \in Nat
<1>1. /\ drv # "down" /\ b \in free /\ avail' = [avail EXCEPT ![avail_idx % QNum] = b]
      /\ avail_idx' = U16(avail_idx + 1) /\ free' = free \ {b}
      /\ UNCHANGED <<last_avail, used_idx, used, seen>>
  BY ZenonT(60) DEF Add, regVars, usedVars
<1>2. /\ Pending \in Nat /\ Back \in Nat /\ Count(free) \in Nat
      /\ Pending + Back + Count(free) <= QNum
      /\ avail_idx \in Idx /\ last_avail \in Idx /\ avail \in [Ring -> Ring]
  BY <1>1, NeverTooMany, ZenonT(60) DEF TypeOK
<1>3. Count(free') + 1 = Count(free) /\ Count(free') \in Nat
  <2>1. Count(free \ {b}) + 1 = Count(free)
    BY <1>1, CountRemove, ConstAssumption, ZenonT(30) DEF Ring
  <2>2. Count(free \ {b}) \in Nat
    BY CountRange
  <2> QED BY <1>1, <2>1, <2>2, Zenon
<1>4. Pending < QNum
  BY <1>2, <1>3, RingSizes, SMTT(60)
<1>5. avail_idx' \in Idx /\ Pending' = Pending + 1
  <2>1. 1 \in 0 .. QNum /\ U16(avail_idx - last_avail) + 1 < IdxMod
    BY <1>2, <1>4, RingSizes, SMTT(60) DEF Pending
  <2> QED BY <1>1, <1>2, <2>1, DistanceUp, ZenonT(60) DEF Pending
<1>6. avail_idx % QNum = Entry(last_avail + Pending)
  <2>1. avail_idx % QNum = Entry(avail_idx)
    BY <1>2, EntryMod, RingSizes, SMTT(60) DEF Idx
  <2>2. U16(last_avail + Pending) = avail_idx
    BY <1>2, Distance, ZenonT(60) DEF Pending
  <2>3. Entry(U16(last_avail + Pending) + 0) = Entry(last_avail + (Pending + 0))
    BY <1>2, <1>4, Shift, RingSizes
  <2>4. avail_idx + 0 = avail_idx /\ Pending + 0 = Pending
    BY <1>2, SMTT(60) DEF Idx
  <2> QED BY <2>1, <2>2, <2>3, <2>4, ZenonT(30)
<1>7. Entry(last_avail + Pending) \in Ring
  BY <1>2, EntryInRing DEF Idx
<1>8. avail' \in [Ring -> Ring]
  BY <1>1, <1>2, ConstAssumption, ZenonT(60) DEF Ring
<1>9. avail'[Entry(last_avail' + Pending)] = b
  BY <1>1, <1>2, <1>6, <1>7, ZenonT(60)
<1>10. ASSUME NEW i \in 0 .. Pending - 1
       PROVE  Chain(i)' = Chain(i)
  <2>1. Entry(last_avail + i) # Entry(last_avail + Pending)
    BY <1>2, <1>4, EntryDistinct, RingSizes
  <2>2. Entry(last_avail + i) \in Ring
    BY <1>2, EntryInRing DEF Idx
  <2> QED BY <1>1, <1>2, <1>6, <2>1, <2>2, ZenonT(60) DEF Chain
<1> QED BY <1>1, <1>3, <1>5, <1>8, <1>9, <1>10, ZenonT(60) DEF Back

LEMMA AddKeeps ==
  ASSUME IInv, NEW b \in Buf, NEW k \in Kinds, Add(b, k)
  PROVE  IInv'
<1> USE DEF IInv
<1>1. /\ drv \notin {"down", "setup"} /\ b \in free /\ (dev = "rng" => ~owe)
      /\ free' = free \ {b} /\ kind' = [kind EXCEPT ![b] = k] /\ owe' = TRUE
      /\ excuse' = (excuse \/ k # "ok")
      /\ UNCHANGED <<dev, driver_ok, needs_reset, isr, ready, last_avail, fd_ready, line,
                     shared_dir, no_intr, used_idx, used, drv, got, seen>>
  BY ZenonT(60) DEF Add, regVars, usedVars
<1>2. /\ avail' \in [Ring -> Ring] /\ avail_idx' \in Idx
      /\ Pending' = Pending + 1 /\ Back' = Back
      /\ \A i \in 0 .. Pending - 1 : Chain(i)' = Chain(i)
      /\ avail'[Entry(last_avail' + Pending)] = b
      /\ Count(free') + 1 = Count(free) /\ Count(free') \in Nat
  BY Added, ZenonT(60)
<1>3. /\ Pending \in Nat /\ Back \in Nat
      /\ Pending + Back + Count(free) <= QNum
  BY <1>1, NeverTooMany
<1>4. excuse' \in BOOLEAN /\ (excuse => excuse') /\ (k # "ok" => excuse')
      /\ (excuse' => excuse \/ k # "ok")
  BY <1>1, Zenon DEF TypeOK
<1>5. k \in Kind /\ (k # "ok" => dev \in {"blk", "gpu"})
  BY DEF Kinds, Kind
<1>6. TypeOK'
  BY <1>1, <1>2, <1>4, <1>5 DEF TypeOK
<1>7. RingsOK'
  <2>1. Pending' + Back' + Count(free') <= QNum
    BY <1>2, <1>3, RingSizes
  <2>2. ASSUME NEW i \in 0 .. Pending' - 1
        PROVE  Chain(i)' \in Buf
    <3>1. CASE i = Pending
      BY <1>2, <3>1 DEF Chain
    <3>2. CASE i # Pending
      <4>1. i \in 0 .. Pending - 1
        BY <1>2, <1>3, <3>2
      <4> QED BY <1>1, <1>2, <4>1 DEF RingsOK
    <3> QED BY <3>1, <3>2
  <2>3. \A i \in 0 .. Back' - 1 : used'[Entry(seen' + i)] \in Buf
    BY <1>1, <1>2 DEF RingsOK
  <2> QED BY <2>1, <2>2, <2>3 DEF RingsOK
<1>8. RegistersOK'
  BY <1>1 DEF RegistersOK
<1>9. OneForRng'
  BY <1>1, <1>2 DEF OneForRng, TypeOK
<1>10. Excused'
  <2>1. (\E c \in Buf : kind'[c] # "ok") => excuse'
    <3> SUFFICES ASSUME NEW c \in Buf, kind'[c] # "ok" PROVE excuse'
      OBVIOUS
    <3>1. c = b => kind'[c] = k
      BY <1>1 DEF TypeOK
    <3>2. c # b => kind'[c] = kind[c]
      BY <1>1 DEF TypeOK
    <3> QED BY <1>4, <3>1, <3>2 DEF Excused
  <2>2. needs_reset' => excuse'
    BY <1>1, <1>4 DEF Excused
  <2>3. excuse' => dev \in {"blk", "gpu", "rx"}
    BY <1>4, <1>5 DEF Excused
  <2> QED BY <1>1, <2>1, <2>2, <2>3 DEF Excused
<1>11. Woken'
  BY <1>1, <1>2 DEF Woken
<1> QED BY <1>6, <1>7, <1>8, <1>9, <1>10, <1>11, ZenonT(60)

LEMMA StatusZeroKeeps == IInv /\ WriteStatusZero => IInv'
<1> SUFFICES ASSUME IInv, WriteStatusZero PROVE IInv'
  OBVIOUS
<1> USE DEF IInv, WriteStatusZero, availVars, usedVars
<1>1. TypeOK'
  <2>1. line' \in BOOLEAN
    BY Zenon DEF SetLine
  <2>2. last_avail' \in Idx
    BY RingSizes DEF TypeOK, Idx
  <2> QED BY <2>1, <2>2 DEF TypeOK, Kind
<1>2. RingsOK' /\ OneForRng' /\ Woken'
  BY DEF RingsOK, OneForRng, Woken
<1>3. RegistersOK'
  BY DEF RegistersOK, TypeOK
<1>4. Excused'
  <2>1. ~needs_reset'
    BY DEF RegistersOK, Excused, TypeOK
  <2> QED BY <2>1 DEF Excused
<1> QED BY <1>1, <1>2, <1>3, <1>4

LEMMA QueueReadyKeeps == IInv /\ WriteQueueReady => IInv'
<1> SUFFICES ASSUME IInv, WriteQueueReady PROVE IInv'
  OBVIOUS
<1> USE DEF IInv, WriteQueueReady
<1>1. 0 \in Idx /\ 0 \in Ring
  BY RingSizes DEF Idx, Ring
<1>2. TypeOK'
  <2>1. no_intr' \in BOOLEAN
    BY Zenon
  <2> QED BY <1>1, <2>1 DEF TypeOK
<1>3. Pending' = 0 /\ Back' = 0
  <2>1. U16(0 - 0) = 0
    BY Wrap, RingSizes
  <2> QED BY <2>1 DEF Pending, Back
<1>4. RingsOK'
  BY <1>3, CountRange DEF RingsOK
<1>5. RegistersOK' /\ OneForRng'
  BY <1>3 DEF RegistersOK, OneForRng, TypeOK
<1>6. Excused' /\ Woken'
  BY <1>3 DEF Excused, Woken
<1> QED BY <1>2, <1>4, <1>5, <1>6

LEMMA InitInv == Init => IInv
<1> SUFFICES ASSUME Init PROVE IInv
  OBVIOUS
<1>1. 0 \in Idx /\ 0 \in Ring
  BY RingSizes DEF Idx, Ring
<1>2. TypeOK
  BY <1>1 DEF Init, TypeOK, Kind
<1> QED BY <1>2 DEF Init, IInv, RingsOK, RegistersOK, OneForRng, Excused, Woken

LEMMA NextInv == IInv /\ [Next]_vars => IInv'
<1> SUFFICES ASSUME IInv, [Next]_vars PROVE IInv'
  OBVIOUS
<1>1. CASE DriverStep
  BY <1>1, QueueReadyKeeps, DriverOkKeeps, ReadIsrKeeps, WriteAckKeeps, CollectKeeps,
     EnableKeeps, RecheckKeeps DEF DriverStep
<1>2. CASE Kick \/ WriteStatusZero \/ DisableInterrupts \/ Tick
  BY <1>2, KickIsHandler, HandlerKeeps, StatusZeroKeeps, DisableKeeps, TickKeeps
<1>3. CASE \E b \in Buf, k \in Kinds : Add(b, k)
  BY <1>3, AddKeeps
<1>4. CASE \E n \in 0 .. QNum : Refresh(n) \/ RecvFromPeer(n)
  BY <1>4, RefreshIsHandler, RecvIsHandler, HandlerKeeps
<1>5. CASE \E n \in Packets : HostEvent(n)
  BY <1>5, HostEventIsHandler, HandlerKeeps
<1>6. CASE UNCHANGED vars
  <2> USE DEF vars, IInv
  <2>1. Pending' = Pending /\ Back' = Back /\ \A i : Chain(i)' = Chain(i)
    BY <1>6 DEF Pending, Back, Chain
  <2>2. TypeOK' /\ RegistersOK' /\ Excused'
    BY <1>6 DEF TypeOK, RegistersOK, Excused
  <2>3. RingsOK'
    BY <1>6, <2>1 DEF RingsOK
  <2>4. OneForRng' /\ Woken'
    BY <1>6, <2>1 DEF OneForRng, Woken
  <2> QED BY <2>2, <2>3, <2>4
<1> QED BY <1>1, <1>2, <1>3, <1>4, <1>5, <1>6, Zenon DEF Next

(***************************************************************************)
(* The inductive invariant of a virtqueue, over every handler, the driver, *)
(* resets and the tick.                                                    *)
(***************************************************************************)
THEOREM Invariant == Spec => []IInv
<1> QED BY InitInv, NextInv, PTL DEF Spec

\* Every index, register and ring entry stays in its range.
THEOREM TypeCorrect == Spec => []TypeOK
<1>1. IInv => TypeOK
  BY DEF IInv
<1> QED BY <1>1, Invariant, PTL

\* A device gives up only with an excuse, whatever wraps and interleaves.
THEOREM FailsExcused == Spec => []FailsOnlyIfRefused
<1>1. IInv => FailsOnlyIfRefused
  BY DEF IInv, Excused, FailsOnlyIfRefused
<1> QED BY <1>1, Invariant, PTL

\* A sleeping driver has its line up for everything it has not collected.
THEOREM SleeperWoken == Spec => []UsedRaisesLine
<1>1. IInv => UsedRaisesLine
  <2> SUFFICES ASSUME IInv, drv = "idle", Returned # <<>>
               PROVE  "used" \in isr /\ (line \/ dev = "rx")
    BY DEF UsedRaisesLine
  <2>1. Back \in Nat
    BY NeverTooMany DEF IInv
  <2>2. Back # 0
    BY DEF Returned, Back
  <2> QED BY <2>1, <2>2 DEF IInv, Woken
<1> QED BY <1>1, Invariant, PTL

-----------------------------------------------------------------------------
(* The refinement of BufferLoop.  First the sequences it moves.             *)

LEMMA EqualSeqs ==
  ASSUME NEW S, NEW s \in Seq(S), NEW t \in Seq(S), Len(s) = Len(t),
         \A i \in 1 .. Len(s) : s[i] = t[i]
  PROVE  s = t
<1>1. s = [i \in 1 .. Len(s) |-> s[i]] /\ t = [i \in 1 .. Len(t) |-> t[i]]
  OBVIOUS
<1> QED BY <1>1

LEMMA TableIsSeq ==
  ASSUME NEW S, NEW n \in Nat, NEW e \in [1 .. n -> S]
  PROVE  e \in Seq(S) /\ Len(e) = n
OBVIOUS

Dropped(g, h, n) ==
  /\ n \in 0 .. Len(g) /\ Len(h) = Len(g) - n
  /\ \A i \in 1 .. Len(h) : h[i] = g[n + i]

LEMMA DropSeq ==
  ASSUME NEW S, NEW g \in Seq(S), NEW h \in Seq(S), NEW n, Dropped(g, h, n)
  PROVE  h = SubSeq(g, n + 1, Len(g))
<1> USE DEF Dropped
<1> DEFINE d == SubSeq(g, n + 1, Len(g))
<1>1. Len(g) \in Nat /\ n \in Nat /\ n + 1 \in Int /\ Len(g) \in Int
  OBVIOUS
<1>2. \A i \in n + 1 .. Len(g) : g[i] \in S
  BY <1>1
<1>3. /\ d \in Seq(S) /\ Len(d) = (IF n + 1 <= Len(g) THEN Len(g) - (n + 1) + 1 ELSE 0)
      /\ \A i \in 1 .. Len(g) - (n + 1) + 1 : d[i] = g[(n + 1) + i - 1]
  <2> USE <1>1
  <2>1. d \in Seq(S)
    BY <1>2
  <2>2. Len(d) = IF n + 1 <= Len(g) THEN Len(g) - (n + 1) + 1 ELSE 0
    OBVIOUS
  <2>3. \A i \in 1 .. Len(g) - (n + 1) + 1 : d[i] = g[(n + 1) + i - 1]
    OBVIOUS
  <2> QED BY <2>1, <2>2, <2>3, Zenon
<1> HIDE DEF d
<1>4. Len(d) = Len(h) /\ \A i \in 1 .. Len(h) : d[i] = h[i]
  BY <1>1, <1>3
<1>5. h = d
  BY <1>3, <1>4, EqualSeqs
<1> QED BY <1>5 DEF d

Moved(r, g, s, n) ==
  /\ n \in 0 .. Len(g) /\ Len(s) = Len(r) + n
  /\ \A i \in 1 .. Len(r) : s[i] = r[i]
  /\ \A i \in 1 .. n : s[Len(r) + i] = g[i]

LEMMA MoveSeq ==
  ASSUME NEW S, NEW r \in Seq(S), NEW g \in Seq(S), NEW s \in Seq(S), NEW n,
         Moved(r, g, s, n)
  PROVE  s = r \o SubSeq(g, 1, n)
<1> USE DEF Moved
<1> DEFINE d == SubSeq(g, 1, n)  t == r \o d
<1>1. Len(g) \in Nat /\ n \in Nat /\ Len(r) \in Nat
  OBVIOUS
<1>2. \A i \in 1 .. n : g[i] \in S
  BY <1>1
<1>3. /\ d \in Seq(S) /\ Len(d) = (IF 1 <= n THEN n - 1 + 1 ELSE 0)
      /\ \A i \in 1 .. n - 1 + 1 : d[i] = g[1 + i - 1]
  BY <1>1, <1>2
<1>4. Len(d) = n /\ \A i \in 1 .. n : d[i] = g[i]
  BY <1>1, <1>3
<1> HIDE DEF d
<1>5. /\ t \in Seq(S) /\ Len(t) = Len(r) + n
      /\ \A i \in 1 .. Len(r) + n : t[i] = IF i <= Len(r) THEN r[i] ELSE d[i - Len(r)]
  <2>1. d \in Seq(S) /\ Len(d) = n
    BY <1>3, <1>4
  <2>2. t \in Seq(S) /\ Len(t) = Len(r) + Len(d)
    BY <2>1
  <2>3. ASSUME NEW i \in 1 .. Len(r) + Len(d)
        PROVE  t[i] = IF i <= Len(r) THEN r[i] ELSE d[i - Len(r)]
    BY <2>1
  <2> QED BY <2>1, <2>2, <2>3
<1> HIDE DEF t
<1>6. ASSUME NEW i \in 1 .. Len(s)
      PROVE  s[i] = t[i]
  <2>1. CASE i <= Len(r)
    BY <1>1, <1>5, <2>1
  <2>2. CASE i > Len(r)
    <3>1. i - Len(r) \in 1 .. n /\ i = Len(r) + (i - Len(r))
      BY <1>1, <2>2
    <3> QED BY <1>1, <1>4, <1>5, <2>2, <3>1
  <2> QED BY <1>1, <2>1, <2>2
<1>7. s = t
  BY <1>5, <1>6, EqualSeqs
<1> QED BY <1>7 DEF t, d

Appended(g, h, b) ==
  /\ Len(h) = Len(g) + 1 /\ h[Len(g) + 1] = b
  /\ \A i \in 1 .. Len(g) : h[i] = g[i]

LEMMA AppendSeq ==
  ASSUME NEW S, NEW g \in Seq(S), NEW h \in Seq(S), NEW b \in S, Appended(g, h, b)
  PROVE  h = Append(g, b)
<1> USE DEF Appended
<1> DEFINE t == Append(g, b)
<1>1. Len(g) \in Nat
  OBVIOUS
<1>2. /\ t \in Seq(S) /\ Len(t) = Len(g) + 1 /\ t[Len(g) + 1] = b
      /\ \A i \in 1 .. Len(g) : t[i] = g[i]
  OBVIOUS
<1> HIDE DEF t
<1>3. \A i \in 1 .. Len(h) : h[i] = t[i]
  BY <1>1, <1>2
<1>4. h = t
  BY <1>2, <1>3, EqualSeqs
<1> QED BY <1>4 DEF t

Shortened(r, s) ==
  /\ Len(r) # 0 /\ Len(s) = Len(r) - 1
  /\ \A i \in 1 .. Len(s) : s[i] = r[i + 1]

LEMMA TailSeq ==
  ASSUME NEW S, NEW r \in Seq(S), NEW s \in Seq(S), Shortened(r, s)
  PROVE  r # <<>> /\ s = Tail(r)
<1> USE DEF Shortened
<1>1. r # <<>>
  OBVIOUS
<1> DEFINE t == Tail(r)
<1>2. t \in Seq(S) /\ Len(t) = Len(r) - 1 /\ \A i \in 1 .. Len(t) : t[i] = r[i + 1]
  BY <1>1
<1> HIDE DEF t
<1>3. s = t
  BY <1>2, EqualSeqs
<1> QED BY <1>1, <1>3 DEF t

LEMMA FullSeq ==
  ASSUME NEW S, NEW s \in Seq(S)
  PROVE  s = SubSeq(s, 0 + 1, Len(s)) /\ 0 \in 0 .. Len(s)
<1>1. Len(s) \in Nat
  OBVIOUS
<1>2. Dropped(s, s, 0)
  BY <1>1 DEF Dropped
<1> QED BY <1>1, <1>2, DropSeq

LEMMA ViewNow ==
  ASSUME TypeOK, RingsOK, drv # "down"
  PROVE  /\ Given \in Seq(Buf) /\ Len(Given) = Pending
         /\ \A i \in 1 .. Pending : Given[i] = Chain(i - 1)
         /\ Returned \in Seq(Buf) /\ Len(Returned) = Back
         /\ \A i \in 1 .. Back : Returned[i] = used[Entry(seen + (i - 1))]
<1>1. Pending \in Nat /\ Back \in Nat /\ seen \in Int
  BY NeverTooMany DEF TypeOK, Idx
<1>2. Given \in [1 .. Pending -> Buf] /\ \A i \in 1 .. Pending : Given[i] = Chain(i - 1)
  <2>1. \A i \in 1 .. Pending : Chain(i - 1) \in Buf
    BY <1>1 DEF RingsOK
  <2> QED BY <2>1 DEF Given
<1>3. /\ Returned \in [1 .. Back -> Buf]
      /\ \A i \in 1 .. Back : Returned[i] = used[Entry(seen + (i - 1))]
  <2>1. \A i \in 1 .. Back : seen + i - 1 = seen + (i - 1) /\ i - 1 \in 0 .. Back - 1
    BY <1>1
  <2>2. \A i \in 1 .. Back : used[Entry(seen + i - 1)] \in Buf
    BY <2>1 DEF RingsOK
  <2> QED BY <2>1, <2>2 DEF Returned, Back
<1> QED BY <1>1, <1>2, <1>3, TableIsSeq

LEMMA ViewNext ==
  ASSUME TypeOK', RingsOK', drv' # "down",
         NEW p \in Nat, Pending' = p, NEW q \in Nat, Back' = q
  PROVE  /\ Given' \in Seq(Buf) /\ Len(Given') = p
         /\ \A i \in 1 .. p : Given'[i] = Chain(i - 1)'
         /\ Returned' \in Seq(Buf) /\ Len(Returned') = q
         /\ \A i \in 1 .. q : Returned'[i] = used'[Entry(seen' + (i - 1))]
<1>1. seen' \in Int
  BY DEF TypeOK, Idx
<1>2. Given' \in [1 .. p -> Buf] /\ \A i \in 1 .. p : Given'[i] = Chain(i - 1)'
  <2>1. \A i \in 0 .. p - 1 : Chain(i)' \in Buf
    BY DEF RingsOK
  <2>2. \A i \in 1 .. p : i - 1 \in 0 .. p - 1
    OBVIOUS
  <2> QED BY <2>1, <2>2 DEF Given
<1>3. /\ Returned' \in [1 .. q -> Buf]
      /\ \A i \in 1 .. q : Returned'[i] = used'[Entry(seen' + (i - 1))]
  <2>1. \A i \in 1 .. q : seen' + i - 1 = seen' + (i - 1) /\ i - 1 \in 0 .. q - 1
    BY <1>1
  <2>2. \A i \in 1 .. q : used'[Entry(seen' + i - 1)] \in Buf
    BY <2>1 DEF RingsOK
  <2> QED BY <2>1, <2>2 DEF Returned, Back
<1> QED BY <1>2, <1>3, TableIsSeq

LEMMA ServeStep ==
  ASSUME IInv, IInv', HandlerStep
  PROVE  [Loop!Next]_(Loop!vars)
<1> USE DEF IInv
<1>1. CASE Ignore
  <2>1. UNCHANGED <<last_avail, used_idx, used, avail_idx, avail, seen, free, drv, needs_reset>>
    BY <1>1 DEF HandlerStep, Ignore, availVars, usedVars
  <2>2. Given' = Given /\ Returned' = Returned
    BY <2>1 DEF Given, Returned, Pending, Chain
  <2> QED BY <2>1, <2>2 DEF Loop!vars
<1>2. CASE GivesUp
  <2>1. UNCHANGED <<last_avail, used_idx, used, avail_idx, avail, seen, free, drv>>
    BY <1>2 DEF HandlerStep, GivesUp, Refuse, availVars, usedVars
  <2>2. Given' = Given /\ Returned' = Returned
    BY <2>1 DEF Given, Returned, Pending, Chain
  <2>3. Given \in Seq(Buf)
    <3>1. CASE drv = "down"
      BY <3>1 DEF Given
    <3>2. CASE drv # "down"
      BY <3>2, ViewNow
    <3> QED BY <3>1, <3>2
  <2>4. Given = SubSeq(Given, 0 + 1, Len(Given)) /\ 0 \in 0 .. Len(Given)
    BY <2>3, FullSeq
  <2>5. ~needs_reset /\ needs_reset' = TRUE
    BY <1>2 DEF GivesUp, Refuse, SetFail
  <2>6. Loop!Serve(0)
    BY <2>1, <2>2, <2>4, <2>5 DEF Loop!Serve
  <2> QED BY <2>4, <2>6 DEF Loop!Next
<1>3. ASSUME NEW n \in 0 .. Pending, Serves(n)
      PROVE  Loop!Next
  <2>1. /\ drv \notin {"down", "setup"} /\ Consume(n) /\ UNCHANGED <<avail_idx, avail, seen>>
        /\ UNCHANGED <<drv, free>>
    BY <1>3 DEF Serves, HandlerStep, availVars
  <2>2. Pending \in Nat /\ Back \in Nat /\ n \in Nat
    BY <2>1, NeverTooMany
  <2>3. /\ \A i \in 0 .. Back - 1 : used'[Entry(seen + i)] = used[Entry(seen + i)]
        /\ \A j \in 0 .. n - 1 : used'[Entry(seen + (Back + j))] = Chain(j)
    BY <2>1, UsedWritten
  <2>4. /\ Pending' = Pending - n
        /\ \A i \in 0 .. (Pending - n) - 1 : Chain(i)' = Chain(n + i)
    BY <2>1, AvailRead
  <2>5. /\ used_idx' = U16(used_idx + n) => Back' = Back + n
        /\ used_idx' = used_idx => Back' = Back
    BY <1>3, <2>1, UsedMoves
  <2>6. /\ Given \in Seq(Buf) /\ Len(Given) = Pending
        /\ \A i \in 1 .. Pending : Given[i] = Chain(i - 1)
        /\ Returned \in Seq(Buf) /\ Len(Returned) = Back
        /\ \A i \in 1 .. Back : Returned[i] = used[Entry(seen + (i - 1))]
    BY <2>1, ViewNow
  <2>7. /\ Given' \in Seq(Buf) /\ Len(Given') = Pending'
        /\ \A i \in 1 .. Pending' : Given'[i] = Chain(i - 1)'
        /\ Returned' \in Seq(Buf) /\ Len(Returned') = Back'
        /\ \A i \in 1 .. Back' : Returned'[i] = used'[Entry(seen + (i - 1))]
    <3>1. Pending' \in Nat /\ Back' \in Nat
      BY <1>3, <2>2, <2>4, <2>5 DEF Serves
    <3> QED BY <2>1, <3>1, ViewNext
  <2>8. Given' = SubSeq(Given, n + 1, Len(Given))
    <3>1. \A i \in 1 .. Len(Given') : Given'[i] = Given[n + i]
      <4> SUFFICES ASSUME NEW i \in 1 .. Len(Given')
                   PROVE  Given'[i] = Given[n + i]
        OBVIOUS
      <4>1. /\ i \in 1 .. Pending' /\ i - 1 \in 0 .. (Pending - n) - 1
            /\ n + i \in 1 .. Pending /\ (n + i) - 1 = n + (i - 1)
        BY <2>2, <2>4, <2>7
      <4> QED BY <2>4, <2>6, <2>7, <4>1
    <3>2. n \in 0 .. Len(Given) /\ Len(Given') = Len(Given) - n
      BY <2>4, <2>6, <2>7
    <3>3. Dropped(Given, Given', n)
      BY <3>1, <3>2 DEF Dropped
    <3> QED BY <2>6, <2>7, <3>3, DropSeq, ZenonT(30)
  <2>9. \A i \in 1 .. Back : i \in 1 .. Back' => Returned'[i] = Returned[i]
    <3> SUFFICES ASSUME NEW i \in 1 .. Back, i \in 1 .. Back'
                 PROVE  Returned'[i] = Returned[i]
      OBVIOUS
    <3>1. i - 1 \in 0 .. Back - 1
      BY <2>2
    <3> QED BY <2>3, <2>6, <2>7, <3>1
  <2>10. CASE used_idx' = U16(used_idx + n)
    <3>1. Back' = Back + n
      BY <2>5, <2>10
    <3>2. \A i \in 1 .. Len(Returned) : Returned'[i] = Returned[i]
      BY <2>2, <2>6, <2>9, <3>1
    <3>3. \A i \in 1 .. n : Returned'[Len(Returned) + i] = Given[i]
      <4> SUFFICES ASSUME NEW i \in 1 .. n
                   PROVE  Returned'[Back + i] = Given[i]
        BY <2>6
      <4>1. /\ Back + i \in 1 .. Back' /\ (Back + i) - 1 = Back + (i - 1)
            /\ i - 1 \in 0 .. n - 1 /\ i \in 1 .. Pending
        BY <2>2, <3>1
      <4> QED BY <2>3, <2>6, <2>7, <4>1
    <3>4. n \in 0 .. Len(Given) /\ Len(Returned') = Len(Returned) + n
      BY <2>6, <2>7, <3>1
    <3>5. Returned' = Returned \o SubSeq(Given, 1, n)
      <4>1. Moved(Returned, Given, Returned', n)
        BY <3>2, <3>3, <3>4 DEF Moved
      <4> QED BY <2>6, <2>7, <4>1, MoveSeq, ZenonT(30)
    <3>6. Loop!Serve(n)
      BY <1>3, <2>1, <2>8, <3>5 DEF Loop!Serve, Serves
    <3> QED BY <3>4, <3>6 DEF Loop!Next
  <2>11. CASE used_idx' = used_idx /\ needs_reset'
    <3>1. Back' = Back
      BY <2>5, <2>11
    <3>2. Returned' = Returned
      BY <2>6, <2>7, <2>9, <3>1, EqualSeqs
    <3>3. needs_reset' = TRUE
      BY <2>11 DEF TypeOK
    <3>4. Loop!Serve(n)
      BY <1>3, <2>1, <2>8, <3>2, <3>3 DEF Loop!Serve, Serves
    <3>5. n \in 0 .. Len(Given)
      BY <2>6
    <3> QED BY <3>4, <3>5 DEF Loop!Next
  <2> QED BY <1>3, <2>10, <2>11 DEF Serves
<1> QED BY <1>1, <1>2, <1>3 DEF HandlerStep, Handled

LEMMA GiveStep ==
  ASSUME IInv, IInv', NEW b \in Buf, NEW k \in Kinds, Add(b, k)
  PROVE  Loop!Next
<1> USE DEF IInv
<1>1. /\ drv # "down" /\ b \in free /\ free' = free \ {b}
      /\ UNCHANGED <<last_avail, used_idx, used, seen, needs_reset, drv>>
  BY DEF Add, regVars, usedVars
<1>2. /\ Pending' = Pending + 1 /\ Back' = Back
      /\ \A i \in 0 .. Pending - 1 : Chain(i)' = Chain(i)
      /\ avail'[Entry(last_avail' + Pending)] = b
  BY Added
<1>3. Pending \in Nat /\ Back \in Nat
  BY <1>1, NeverTooMany
<1>4. /\ Given \in Seq(Buf) /\ Len(Given) = Pending
      /\ \A i \in 1 .. Pending : Given[i] = Chain(i - 1)
  BY <1>1, ViewNow
<1>5. /\ Given' \in Seq(Buf) /\ Len(Given') = Pending + 1
      /\ \A i \in 1 .. Pending + 1 : Given'[i] = Chain(i - 1)'
  <2>1. drv' # "down" /\ Pending + 1 \in Nat
    BY <1>1, <1>3
  <2> QED BY <1>2, <1>3, <2>1, ViewNext, ZenonT(30)
<1>6. \A i \in 1 .. Pending : Given'[i] = Given[i]
  <2> SUFFICES ASSUME NEW i \in 1 .. Pending
               PROVE  Given'[i] = Given[i]
    OBVIOUS
  <2>1. i \in 1 .. Pending + 1 /\ i - 1 \in 0 .. Pending - 1
    BY <1>3
  <2> QED BY <1>2, <1>4, <1>5, <2>1
<1>7. Given'[Pending + 1] = b
  <2>1. Pending + 1 \in 1 .. Pending + 1 /\ (Pending + 1) - 1 = Pending
    BY <1>3
  <2>2. \A i \in Nat : i - 1 = Pending => Chain(i - 1)' = b
    BY <1>2 DEF Chain
  <2> QED BY <1>3, <1>5, <2>1, <2>2
<1>8. Given' = Append(Given, b)
  <2>1. Appended(Given, Given', b)
    BY <1>4, <1>5, <1>6, <1>7 DEF Appended
  <2> QED BY <1>4, <1>5, <2>1, AppendSeq, ZenonT(30)
<1>9. Returned' = Returned
  BY <1>1 DEF Returned
<1>10. Loop!Give(b)
  BY <1>1, <1>8, <1>9 DEF Loop!Give
<1> QED BY <1>1, <1>10 DEF Loop!Next

LEMMA CollectStep ==
  ASSUME IInv, IInv', Collect
  PROVE  Loop!Next
<1> USE DEF IInv
<1>1. /\ drv = "reap" /\ seen # used_idx /\ free' = free \cup {used[seen % QNum]}
      /\ seen' = U16(seen + 1)
      /\ UNCHANGED <<needs_reset, last_avail, avail_idx, avail, used_idx, used, drv>>
  BY DEF Collect, regVars, availVars, usedVars
<1>2. /\ Pending \in Nat /\ Back \in Nat /\ Back <= QNum /\ seen \in Idx /\ used_idx \in Idx
  BY <1>1, NeverTooMany, RingSizes DEF TypeOK
<1>3. Back # 0
  BY <1>1, <1>2, Distance DEF Back
<1>4. Back' = Back - 1
  <2>1. 1 \in 0 .. U16(used_idx - seen)
    BY <1>2, <1>3 DEF Back
  <2> QED BY <1>1, <1>2, <2>1, DistanceDown DEF Back
<1>5. Given' = Given /\ Pending' = Pending
  BY <1>1 DEF Given, Pending, Chain
<1>6. /\ Returned \in Seq(Buf) /\ Len(Returned) = Back
      /\ \A i \in 1 .. Back : Returned[i] = used[Entry(seen + (i - 1))]
  BY <1>1, ViewNow
<1>7. /\ Returned' \in Seq(Buf) /\ Len(Returned') = Back - 1
      /\ \A i \in 1 .. Back - 1 : Returned'[i] = used'[Entry(seen' + (i - 1))]
  <2>1. Back - 1 \in Nat
    BY <1>2, <1>3
  <2>2. drv' # "down"
    BY <1>1
  <2> QED BY <1>2, <1>4, <1>5, <2>1, <2>2, ViewNext
<1>8. \A i \in 1 .. Back - 1 : Returned'[i] = Returned[i + 1]
  <2> SUFFICES ASSUME NEW i \in 1 .. Back - 1
               PROVE  Returned'[i] = Returned[i + 1]
    OBVIOUS
  <2>1. /\ i - 1 \in Nat /\ 1 \in Nat /\ 1 + (i - 1) <= QNum
        /\ i + 1 \in 1 .. Back /\ (i + 1) - 1 = 1 + (i - 1)
    BY <1>2, RingSizes
  <2>2. Entry(seen' + (i - 1)) = Entry(seen + (1 + (i - 1)))
    BY <1>1, <1>2, <2>1, Shift
  <2>3. Returned[i + 1] = used[Entry(seen + (1 + (i - 1)))]
    BY <1>6, <2>1
  <2>4. Returned'[i] = used'[Entry(seen' + (i - 1))]
    BY <1>7
  <2> QED BY <1>1, <2>2, <2>3, <2>4
<1>9. Returned # <<>> /\ Returned' = Tail(Returned)
  <2>1. Shortened(Returned, Returned')
    BY <1>3, <1>6, <1>7, <1>8 DEF Shortened
  <2> QED BY <1>6, <1>7, <2>1, TailSeq, ZenonT(30)
<1>10. Head(Returned) = used[seen % QNum]
  <2>1. seen % QNum = Entry(seen + (1 - 1))
    BY <1>2, EntryMod, RingSizes DEF Idx
  <2>2. Returned[1] = used[Entry(seen + (1 - 1))]
    BY <1>2, <1>3, <1>6
  <2>3. Head(Returned) = Returned[1]
    BY <1>6
  <2> QED BY <2>1, <2>2, <2>3
<1>11. Loop!Collect
  BY <1>1, <1>5, <1>9, <1>10 DEF Loop!Collect
<1> QED BY <1>11 DEF Loop!Next

\* Steps that leave the rings, the driver's buffers and the failure alone.
LEMMA QuietStep ==
  ASSUME drv # "down" <=> drv' # "down",
         UNCHANGED <<last_avail, avail_idx, avail, used_idx, used, seen, free, needs_reset>>
  PROVE  UNCHANGED Loop!vars
<1>1. Given' = Given /\ Returned' = Returned
  BY DEF Given, Returned, Pending, Chain
<1> QED BY <1>1 DEF Loop!vars

LEMMA LoopStep == IInv /\ IInv' /\ [Next]_vars => [Loop!Next]_(Loop!vars)
<1> SUFFICES ASSUME IInv, IInv', [Next]_vars PROVE [Loop!Next]_(Loop!vars)
  OBVIOUS
<1>1. CASE WriteQueueReady
  <2>1. Given = <<>> /\ Returned = <<>>
    BY <1>1 DEF WriteQueueReady, Given, Returned
  <2>2. Given' = <<>> /\ Returned' = <<>>
    <3>1. U16(0 - 0) = 0
      BY Wrap, RingSizes
    <3> QED BY <1>1, <3>1 DEF WriteQueueReady, Given, Returned, Pending
  <2> QED BY <1>1, <2>1, <2>2 DEF WriteQueueReady, Loop!vars
<1>2. CASE WriteDriverOk \/ ReadIsr \/ WriteAck \/ EnableInterrupts \/ Recheck
           \/ DisableInterrupts \/ Tick
  BY <1>2, QuietStep DEF WriteDriverOk, ReadIsr, WriteAck, EnableInterrupts, Recheck,
     DisableInterrupts, Tick, regVars, availVars, usedVars, drvVars
<1>3. CASE Collect
  BY <1>3, CollectStep
<1>4. CASE WriteStatusZero
  <2>1. Given' = <<>> /\ Returned' = <<>> /\ free' = Buf /\ needs_reset' \in {FALSE, needs_reset}
    BY <1>4 DEF WriteStatusZero, Given, Returned
  <2> QED BY <2>1 DEF Loop!Next, Loop!Reset
<1>5. CASE \E b \in Buf, k \in Kinds : Add(b, k)
  BY <1>5, GiveStep
<1>6. CASE \/ Kick
           \/ \E n \in 0 .. QNum : Refresh(n) \/ RecvFromPeer(n)
           \/ \E n \in Packets : HostEvent(n)
  <2>1. HandlerStep
    BY <1>6, KickIsHandler, RefreshIsHandler, RecvIsHandler, HostEventIsHandler
  <2> QED BY <2>1, ServeStep
<1>7. CASE UNCHANGED vars
  BY <1>7, QuietStep DEF vars
<1> QED BY <1>1, <1>2, <1>3, <1>4, <1>5, <1>6, <1>7, Zenon DEF Next, DriverStep

\* Each of the eight devices' queues is a buffer loop: whatever is made
\* available comes back once and in order until the device gives up.
THEOREM QueueIsBufferLoop == Spec => ImplementsBufferLoop
<1>1. Init => Loop!Init
  BY DEF Init, Loop!Init, Given, Returned
<1> QED BY <1>1, LoopStep, Invariant, PTL DEF Spec, ImplementsBufferLoop, Loop!Spec

-----------------------------------------------------------------------------
(* The PLIC.                                                               *)

RaisedIsMasked == active \subseteq masked

PlicInv == PlicTypeOK /\ ServedOnce /\ RaisedIsMasked /\ NoMissedInterrupt

\* Every hart has a context of its own, so ie[h] is defined.
LEMMA HartIsCtx == Hart \subseteq Ctx
BY PlicAssumption DEF Hart, Ctx

(***************************************************************************)
(* The common tail of every store and of every line update:                *)
(* plic_update_interrupts re-establishes the invariant from any register   *)
(* values in which each masked source is pending or served, once.          *)
(***************************************************************************)
LEMMA UpdateKeepsInv ==
  ASSUME PlicTypeOK,
         NEW act \in SUBSET Src, NEW msk \in SUBSET Src,
         NEW en \in [Ctx -> SUBSET Src],
         active' = act, ie' = en,
         claimed' \in [Hart -> SUBSET Src],
         \A s \in Src :
           s \in msk <=> s \in ip \/ \E h \in Hart : s \in claimed'[h],
         \A h \in Hart : claimed'[h] \cap ip = {},
         \A h, k \in Hart : h # k => claimed'[h] \cap claimed'[k] = {},
         plic_update_interrupts(act, ip, msk, en)
  PROVE  PlicInv'
<1>1. PlicTypeOK'
  <2>1. ip' \subseteq Src /\ masked' \subseteq Src /\ active' \subseteq Src
    BY DEF PlicTypeOK, plic_update_interrupts
  <2>2. sei' \in [Hart -> BOOLEAN]
    BY Zenon DEF plic_update_interrupts
  <2>3. in_wfi' \in [Hart -> BOOLEAN]
    <3>1. \A h \in Hart : (in_wfi[h] /\ ip' \cap en[h] = {}) \in BOOLEAN
      BY Zenon
    <3> QED BY <3>1, Zenon DEF plic_update_interrupts
  <2> QED BY <2>1, <2>2, <2>3 DEF PlicTypeOK
<1>2. ServedOnce'
  <2>1. \A s \in Src :
          s \in masked' <=> s \in ip' \/ \E h \in Hart : s \in claimed'[h]
    BY DEF plic_update_interrupts
  <2>2. \A h \in Hart : claimed'[h] \cap ip' = {}
    <3> SUFFICES ASSUME NEW h \in Hart, NEW s \in claimed'[h]
                 PROVE  s \notin ip'
      OBVIOUS
    <3>1. s \in Src /\ s \in msk
      OBVIOUS
    <3> QED BY <3>1 DEF plic_update_interrupts
  <2> QED BY <2>1, <2>2 DEF ServedOnce
<1>3. RaisedIsMasked'
  BY DEF RaisedIsMasked, plic_update_interrupts
<1>4. NoMissedInterrupt'
  BY DEF NoMissedInterrupt, plic_update_interrupts
<1> QED BY <1>1, <1>2, <1>3, <1>4 DEF PlicInv

LEMMA PlicInitInv == PlicInit => PlicInv
<1> SUFFICES ASSUME PlicInit PROVE PlicInv
  OBVIOUS
<1>1. PlicTypeOK
  BY DEF PlicInit, PlicTypeOK
<1>2. ServedOnce /\ RaisedIsMasked
  BY DEF PlicInit, ServedOnce, RaisedIsMasked
<1>3. NoMissedInterrupt
  BY HartIsCtx DEF PlicInit, NoMissedInterrupt
<1> QED BY <1>1, <1>2, <1>3 DEF PlicInv

LEMMA PlicNextInv == PlicInv /\ [PlicNext]_plicVars => PlicInv'
<1> SUFFICES ASSUME PlicInv, [PlicNext]_plicVars PROVE PlicInv'
  OBVIOUS
<1> USE DEF PlicInv
<1>1. ASSUME NEW s \in Src, NEW level \in BOOLEAN, UpdateLine(s, level)
      PROVE  PlicInv'
  <2> DEFINE act == IF level THEN active \cup {s} ELSE active \ {s}
  <2>1. act \in SUBSET Src
    BY DEF PlicTypeOK
  <2>2. /\ active' = act /\ ie' = ie /\ claimed' = claimed
        /\ plic_update_interrupts(act, ip, masked, ie)
    BY <1>1 DEF UpdateLine
  <2> HIDE DEF act
  <2> QED BY <2>1, <2>2, UpdateKeepsInv DEF PlicTypeOK, ServedOnce
<1>2. ASSUME NEW h \in Hart, NEW mask \in SUBSET (Src \cup {0}),
             EnableWrite(h, mask)
      PROVE  PlicInv'
  <2> DEFINE en == IF EnableCtx[h] \in Ctx
                   THEN [ie EXCEPT ![EnableCtx[h]] = mask \ {0}] ELSE ie
  <2>1. en \in [Ctx -> SUBSET Src]
    BY DEF PlicTypeOK
  <2>2. /\ active' = active /\ ie' = en /\ claimed' = claimed
        /\ plic_update_interrupts(active, ip, masked, en)
    BY <1>2 DEF EnableWrite
  <2> HIDE DEF en
  <2> QED BY <2>1, <2>2, UpdateKeepsInv DEF PlicTypeOK, ServedOnce
<1>3. ASSUME NEW h \in Hart, NEW s \in Src, Complete(h, s)
      PROVE  PlicInv'
  <2> DEFINE open == ClaimCtx[h] \in Ctx /\ s \in ie[ClaimCtx[h]]
  <2>1. CASE open
    <3> DEFINE msk == masked \ {s}
    <3>1. /\ active' = active /\ ie' = ie
          /\ claimed' = [claimed EXCEPT ![h] = @ \ {s}]
          /\ s \in claimed[h]
          /\ plic_update_interrupts(active, ip, msk, ie)
      BY <1>3, <2>1 DEF Complete
    <3>2. claimed' \in [Hart -> SUBSET Src]
      BY <3>1 DEF PlicTypeOK
    <3>3. \A t \in Src :
            t \in msk <=> t \in ip \/ \E k \in Hart : t \in claimed'[k]
      BY <3>1 DEF PlicTypeOK, ServedOnce
    <3>4. \A k \in Hart : claimed'[k] \cap ip = {}
      BY <3>1 DEF PlicTypeOK, ServedOnce
    <3>5. \A j, k \in Hart : j # k => claimed'[j] \cap claimed'[k] = {}
      BY <3>1 DEF PlicTypeOK, ServedOnce
    <3>6. msk \in SUBSET Src
      BY DEF PlicTypeOK
    <3>7. active \in SUBSET Src /\ ie \in [Ctx -> SUBSET Src]
      BY DEF PlicTypeOK
    <3> HIDE DEF msk, PlicInv
    <3>8. PlicTypeOK
      BY DEF PlicInv
    <3> QED
      BY <3>1, <3>2, <3>3, <3>4, <3>5, <3>6, <3>7, <3>8, UpdateKeepsInv
  <2>2. CASE ~open
    <3>1. /\ active' = active /\ ie' = ie /\ claimed' = claimed
          /\ plic_update_interrupts(active, ip, masked, ie)
      BY <1>3, <2>2 DEF Complete
    <3> QED BY <3>1, UpdateKeepsInv DEF PlicTypeOK, ServedOnce
  <2> QED BY <2>1, <2>2
<1>4. ASSUME OtherWrite PROVE PlicInv'
  BY <1>4, UpdateKeepsInv DEF OtherWrite, PlicTypeOK, ServedOnce
<1>5. ASSUME NEW h \in Hart, NEW s \in Src, Claim(h, s)
      PROVE  PlicInv'
  <2>1. /\ s \in ip /\ ip' = ip \ {s}
        /\ claimed' = [claimed EXCEPT ![h] = @ \cup {s}]
        /\ UNCHANGED <<active, masked, ie, sei, in_wfi>>
    BY <1>5 DEF Claim
  <2>2. PlicTypeOK'
    BY <2>1 DEF PlicTypeOK
  <2>3. ServedOnce'
    BY <2>1 DEF PlicTypeOK, ServedOnce
  <2>4. RaisedIsMasked' /\ NoMissedInterrupt'
    BY <2>1 DEF RaisedIsMasked, NoMissedInterrupt
  <2> QED BY <2>2, <2>3, <2>4
<1>6. ASSUME NEW h \in Hart, Wfi(h) PROVE PlicInv'
  <2>1. PlicTypeOK'
    BY <1>6, Zenon DEF PlicTypeOK, Wfi
  <2>2. ServedOnce' /\ RaisedIsMasked'
    BY <1>6 DEF Wfi, ServedOnce, RaisedIsMasked
  <2>3. NoMissedInterrupt'
    BY <1>6 DEF Wfi, NoMissedInterrupt, PlicTypeOK
  <2> QED BY <2>1, <2>2, <2>3
<1>7. CASE UNCHANGED plicVars
  BY <1>7 DEF plicVars, PlicTypeOK, ServedOnce, RaisedIsMasked, NoMissedInterrupt
<1> QED BY <1>1, <1>2, <1>3, <1>4, <1>5, <1>6, <1>7 DEF PlicNext

(***************************************************************************)
(* The inductive invariant holds in every reachable state of plic.c.       *)
(***************************************************************************)
THEOREM PlicInvariant == PlicSpec => []PlicInv
BY PlicInitInv, PlicNextInv, PTL DEF PlicSpec

(***************************************************************************)
(* The registers hold sources that exist, and source 0 is never enabled    *)
(* (plic_reg_write clears its bit).                                        *)
(***************************************************************************)
THEOREM PlicTypeCorrect == PlicSpec => []PlicTypeOK
<1>1. PlicInv => PlicTypeOK
  BY DEF PlicInv
<1> QED BY <1>1, PlicInvariant, PTL

(***************************************************************************)
(* Every masked source is pending or served by exactly one hart.           *)
(***************************************************************************)
THEOREM EverySourceServedOnce == PlicSpec => []ServedOnce
<1>1. PlicInv => ServedOnce
  BY DEF PlicInv
<1> QED BY <1>1, PlicInvariant, PTL

(***************************************************************************)
(* A raised line is pending or in service.                                 *)
(***************************************************************************)
THEOREM RaisedLineCovered == PlicSpec => []LineCovered
<1>1. PlicInv => LineCovered
  BY DEF PlicInv, PlicTypeOK, ServedOnce, RaisedIsMasked, LineCovered
<1> QED BY <1>1, PlicInvariant, PTL

(***************************************************************************)
(* A hart with a pending enabled source has SEI up and is not marked as    *)
(* waiting.                                                                *)
(***************************************************************************)
THEOREM NoInterruptMissed == PlicSpec => []NoMissedInterrupt
<1>1. PlicInv => NoMissedInterrupt
  BY DEF PlicInv
<1> QED BY <1>1, PlicInvariant, PTL
=============================================================================
