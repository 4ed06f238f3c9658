------------------------------ MODULE CBusProofs ------------------------------
(***************************************************************************)
(* The cache bus, for memories and bursts of any size.  First addresses,   *)
(* blocks and slots; then the device with one master (DeviceSpec): its     *)
(* assertions hold and it is a cache bus; the arbiter before it, for any   *)
(* number of masters: the device meets one master there too, and each      *)
(* master a cache bus of its own; and last CBusToAXI (BridgeSpec), over a  *)
(* slave that answers whenever it likes: its bursts are what AXI asks for, *)
(* and to its master it is a cache bus.                                    *)
(***************************************************************************)
EXTENDS SharedBus, AXIBridge, Arithmetic

(* The fields of a request.                                                *)
LEMMA RequestTypes ==
  ASSUME NEW r \in Request
  PROVE  /\ r.valid \in BOOLEAN /\ r.is_write \in BOOLEAN /\ r.addr \in Nat
         /\ r.beats \in Nat \ {0} /\ BeatBytes \in Nat \ {0}
<1>1. /\ r.valid \in BOOLEAN /\ r.is_write \in BOOLEAN
      /\ r.addr \in Addrs /\ r.beats \in Beats
  BY DEF Request
<1>2. /\ Beats \subseteq Nat \ {0} /\ BeatBytes \in Nat \ {0}
      /\ Addrs \subseteq 0..(AddrTop - 1) /\ AddrTop \in Nat
  BY BusAssumption
<1>3. r.addr \in Nat
  <2>1. r.addr \in 0..(AddrTop - 1)
    BY <1>1, <1>2, Zenon
  <2> QED
    BY <2>1, <1>2
<1> QED
  BY <1>1, <1>2, <1>3

(* The slot and the block of a request, as SlotOf has them.                *)
First(r) == r.addr \div BeatBytes
Block(r) == (First(r) \div r.beats) * r.beats

(* The block in slots is the block in bytes.                               *)
LEMMA BlockOfBytes ==
  ASSUME NEW r \in Request
  PROVE  /\ First(r) \in Nat /\ Block(r) \in Nat
         /\ Block(r) <= First(r) /\ First(r) < Block(r) + r.beats
         /\ (r.addr \div (BeatBytes * r.beats)) * (BeatBytes * r.beats) = Block(r) * BeatBytes
<1> DEFINE a == r.addr
           b == BeatBytes
           n == r.beats
           f == a \div b
           q == f \div n
<1>1. a \in Nat /\ b \in Nat \ {0} /\ n \in Nat \ {0}
  BY RequestTypes
<1> HIDE DEF a, b, n
<1>2. f \in Nat /\ f * b \in Nat /\ f * b <= a /\ a < f * b + b
  BY <1>1, Euclid, RoundDown
<1> HIDE DEF f
<1>3. q \in Nat /\ q * n \in Nat /\ q * n <= f /\ f < q * n + n
  BY <1>1, <1>2, Euclid, RoundDown
<1> HIDE DEF q
<1>4. (q * n) * b = q * (b * n) /\ (q * n + n) * b = q * (b * n) + b * n
  BY <1>1, <1>3, Products
<1>5. (q * n) * b <= f * b
  BY <1>1, <1>2, <1>3, TimesMonotone
<1>6. f * b + b = (f + 1) * b /\ f + 1 \in Nat
  BY <1>1, <1>2, SMTT(30)
<1>7. f + 1 <= q * n + n /\ q * n + n \in Nat
  BY <1>1, <1>2, <1>3
<1>8. (f + 1) * b <= (q * n + n) * b
  BY <1>1, <1>6, <1>7, TimesMonotone
<1>9. b * n \in Nat \ {0} /\ q * (b * n) \in Nat
  BY <1>1, <1>3, Positive, Products
<1>10. q * (b * n) <= a /\ a < q * (b * n) + b * n
  <2> DEFINE m == q * (b * n)
             s == b * n
             u == f * b
             v == (f + 1) * b
             w == (q * n + n) * b
  <2>1. m <= u /\ u <= a /\ a < u + b /\ u + b = v /\ v <= w /\ w = m + s
    BY <1>2, <1>4, <1>5, <1>6, <1>8
  <2>2. m \in Nat /\ s \in Nat /\ u \in Nat
    BY <1>2, <1>9
  <2> HIDE DEF m, s, u, v, w
  <2>3. m <= a /\ a < m + s
    BY <1>1, <2>1, <2>2
  <2> QED
    BY <2>3 DEF m, s
<1>11. a \div (b * n) = q
  BY <1>1, <1>3, <1>9, <1>10, DivUnique
<1> QED
  BY <1>2, <1>3, <1>4, <1>11 DEF First, Block, a, b, n, f, q

(* The words of a burst in the order of its beats: from the one that is    *)
(* addressed, upwards, and from the end of the block to its start.         *)
LEMMA SlotsInOrder ==
  ASSUME NEW r \in Request
  PROVE  /\ SlotOf(r, 0) = First(r)
         /\ \A i \in Nat :
              /\ SlotOf(r, i) \in Block(r) .. Block(r) + r.beats - 1
              /\ SlotOf(r, i + 1) = IF SlotOf(r, i) + 1 = Block(r) + r.beats
                                   THEN Block(r) ELSE SlotOf(r, i) + 1
<1> DEFINE f == First(r)
           b == Block(r)
           n == r.beats
<1>1. f \in Nat /\ b \in Nat /\ b <= f /\ f < b + n /\ n \in Nat \ {0}
  BY BlockOfBytes, RequestTypes
<1>2. \A i \in Nat : SlotOf(r, i) = b + ((f - b + i) % n)
  BY DEF SlotOf, First, Block
<1> HIDE DEF f, b, n
<1>3. f - b \in Nat /\ f - b \in 0 .. n - 1 /\ f - b = 0 * n + (f - b)
  BY <1>1
<1>4. (f - b + 0) % n = f - b
  <2>1. f - b + 0 = f - b
    BY <1>1
  <2> QED
    BY <1>1, <1>3, <2>1, ModUnique
<1>5. SlotOf(r, 0) = f
  BY <1>1, <1>2, <1>4
<1>6. ASSUME NEW i \in Nat
      PROVE  /\ SlotOf(r, i) \in b .. b + n - 1
             /\ SlotOf(r, i + 1) = IF SlotOf(r, i) + 1 = b + n THEN b ELSE SlotOf(r, i) + 1
  <2> DEFINE x == f - b + i
             m == x % n
  <2>1. x \in Nat /\ f - b + (i + 1) = x + 1
    BY <1>3
  <2>2. SlotOf(r, i) = b + m /\ SlotOf(r, i + 1) = b + ((x + 1) % n)
    <3>1. i + 1 \in Nat
      OBVIOUS
    <3> QED
      BY <1>2, <2>1, <3>1
  <2> HIDE DEF x
  <2>3. m \in 0 .. n - 1 /\ (x + 1) % n = IF m = n - 1 THEN 0 ELSE m + 1
    BY <1>1, <2>1, ModStep
  <2> HIDE DEF m
  <2> QED
    BY <1>1, <2>2, <2>3
<1> QED
  BY <1>5, <1>6 DEF f, b, n

(* No two beats of a burst are at the same word.                           *)
LEMMA Wraps ==
  ASSUME NEW x \in Nat, NEW y \in Nat, NEW n \in Nat \ {0}, x < y, y < x + n
  PROVE  x % n # y % n
<1> DEFINE p == x \div n
           q == y \div n
<1>1. /\ p \in Nat /\ p * n \in Nat /\ x = p * n + (x % n) /\ x % n \in 0 .. n - 1
      /\ q \in Nat /\ q * n \in Nat /\ y = q * n + (y % n) /\ y % n \in 0 .. n - 1
  BY Euclid
<1> HIDE DEF p, q
<1>2. CASE q <= p
  <2>1. q * n <= p * n
    BY <1>1, <1>2, TimesMonotone
  <2> QED
    BY <1>1, <2>1
<1>3. CASE p + 1 <= q
  <2>1. (p + 1) * n <= q * n /\ p + 1 \in Nat
    BY <1>1, <1>3, TimesMonotone
  <2>2. (p + 1) * n = p * n + n
    BY <1>1, SMTT(30)
  <2> QED
    BY <1>1, <2>1, <2>2
<1> QED
  BY <1>1, <1>2, <1>3

(* The beats of a burst are in different slots.                            *)
LEMMA SlotsDiffer ==
  ASSUME NEW r \in Request, NEW i \in Nat, NEW j \in Nat, i < j, j < r.beats
  PROVE  SlotOf(r, i) # SlotOf(r, j)
<1> DEFINE o == First(r) - Block(r)
           n == r.beats
           b == Block(r)
<1>1. o \in Nat /\ b \in Nat /\ n \in Nat \ {0}
  BY BlockOfBytes, RequestTypes
<1>2. SlotOf(r, i) = b + ((o + i) % n) /\ SlotOf(r, j) = b + ((o + j) % n)
  BY DEF SlotOf, First, Block
<1> HIDE DEF o, b
<1>3. o + i \in Nat /\ o + j \in Nat /\ o + i < o + j /\ o + j < (o + i) + n
  BY <1>1
<1>4. (o + i) % n # (o + j) % n
  BY <1>1, <1>3, Wraps
<1>5. (o + i) % n \in Nat /\ (o + j) % n \in Nat
  <2>1. (o + i) % n \in 0 .. n - 1 /\ (o + j) % n \in 0 .. n - 1
    BY <1>1, <1>3, Euclid
  <2> HIDE DEF n
  <2> QED
    BY <1>1, <2>1
<1> QED
  BY <1>1, <1>2, <1>4, <1>5
-----------------------------------------------------------------------------
(* CBusDevice and CBusArbiter.                                             *)

TxType == [busy : BOOLEAN, is_write : BOOLEAN, aligned : BOOLEAN, N : Nat, addr : Nat,
           Start_Address : Nat, Burst_Length : Nat, Aligned_Address : Nat,
           Lower : Nat, Upper : Nat]

(* The invariant: besides the assertions, that the first step of an        *)
(* unaligned burst does not fall back below the block.                     *)
TxInv ==
  /\ tx \in TxType /\ req \in Request /\ enable \in BOOLEAN
  /\ tx.busy => /\ tx.N >= 1 /\ tx.Lower < tx.Upper
                /\ tx.Aligned_Address + BeatBytes > tx.Lower
  /\ SanityChecks

(* A transaction starts within its block.                                  *)
LEMMA InitInBlock ==
  ASSUME NEW r \in Request
  PROVE  LET t == TxInit(r) IN
         /\ t \in TxType /\ t.busy /\ t.N = 1 /\ t.N <= t.Burst_Length
         /\ t.is_write = r.is_write /\ t.addr = r.addr /\ t.Start_Address = r.addr
         /\ t.Burst_Length = r.beats
         /\ t.Lower <= t.addr /\ t.addr < t.Upper /\ t.Lower < t.Upper
         /\ t.Aligned_Address + BeatBytes > t.Lower
<1> DEFINE size == BeatBytes * r.beats
           lower == (r.addr \div size) * size
           start == (r.addr \div BeatBytes) * BeatBytes
<1>1. /\ r.addr \in Nat /\ r.beats \in Nat \ {0} /\ BeatBytes \in Nat \ {0}
      /\ r.is_write \in BOOLEAN
  BY RequestTypes
<1>2. size \in Nat \ {0}
  BY <1>1, Positive
<1>3. lower \in Nat /\ lower <= r.addr /\ r.addr < lower + size
  BY <1>1, <1>2, RoundDown
<1>4. start \in Nat /\ r.addr < start + BeatBytes
  BY <1>1, RoundDown
<1>5. TxInit(r) =
        [busy |-> TRUE, is_write |-> r.is_write, aligned |-> FALSE, N |-> 1,
         addr |-> r.addr, Start_Address |-> r.addr, Burst_Length |-> r.beats,
         Aligned_Address |-> start, Lower |-> lower, Upper |-> lower + size]
  BY DEF TxInit
<1> HIDE DEF size, lower, start
<1> QED
  BY <1>1, <1>2, <1>3, <1>4, <1>5 DEF TxType

(* It stays within it.                                                     *)
LEMMA SyncInBlock ==
  ASSUME NEW t \in TxType, t.addr >= t.Lower, t.addr < t.Upper, t.Lower < t.Upper,
         t.Aligned_Address + BeatBytes > t.Lower,
         t.N <= t.Burst_Length, ~TxLast(t)
  PROVE  LET u == TxSync(t) IN
         /\ u \in TxType /\ u.busy = t.busy /\ u.N = t.N + 1 /\ u.N <= u.Burst_Length
         /\ u.is_write = t.is_write /\ u.Start_Address = t.Start_Address
         /\ u.Burst_Length = t.Burst_Length
         /\ u.Aligned_Address = t.Aligned_Address /\ u.Lower = t.Lower /\ u.Upper = t.Upper
         /\ u.addr >= u.Lower /\ u.addr < u.Upper
<1>1. BeatBytes \in Nat
  BY BusAssumption
<1> DEFINE next == (IF t.aligned THEN t.addr ELSE t.Aligned_Address) + BeatBytes
<1>2. next \in Nat /\ next >= t.Lower
  BY <1>1 DEF TxType
<1>3. TxSync(t) = [t EXCEPT !.N = @ + 1, !.aligned = TRUE,
                            !.addr = IF next >= t.Upper THEN t.Lower ELSE next]
  BY DEF TxSync
<1>4. t.N # t.Burst_Length
  BY DEF TxLast
<1> HIDE DEF next
<1> DEFINE u == TxSync(t)
           addr == IF next >= t.Upper THEN t.Lower ELSE next
<1>5. /\ t.N \in Nat /\ t.Burst_Length \in Nat /\ t.Lower \in Nat /\ t.Upper \in Nat
  BY DEF TxType
<1>6. addr \in Nat /\ addr >= t.Lower /\ addr < t.Upper
  BY <1>2, <1>5
<1>7. t.N + 1 \in Nat /\ t.N + 1 <= t.Burst_Length
  BY <1>4, <1>5
<1> HIDE DEF addr
<1>8. u = [t EXCEPT !.N = @ + 1, !.aligned = TRUE, !.addr = addr]
  BY <1>3 DEF addr
<1>9. /\ u \in TxType /\ u.N = t.N + 1 /\ u.addr = addr
      /\ u.busy = t.busy /\ u.is_write = t.is_write
      /\ u.Start_Address = t.Start_Address /\ u.Burst_Length = t.Burst_Length
      /\ u.Aligned_Address = t.Aligned_Address
      /\ u.Lower = t.Lower /\ u.Upper = t.Upper
  BY <1>6, <1>7, <1>8 DEF TxType
<1> HIDE DEF u
<1> QED
  BY <1>6, <1>7, <1>9 DEF u
-----------------------------------------------------------------------------
(* A cycle without the memory.                                             *)
LEMMA QuietKeeps == TxInv /\ Quiet /\ enable' \in BOOLEAN /\ Hold => TxInv'
<1> SUFFICES ASSUME TxInv, Quiet, enable' \in BOOLEAN, Hold PROVE TxInv'
  OBVIOUS
<1>1. tx' = tx /\ ~resp'.ready /\ ~resp'.last
  BY DEF Quiet, NoResponse
<1>2. req' \in Request /\ (req.valid => req' = req)
  BY <1>1 DEF Hold, Ask, TxInv
<1> QED
  BY <1>1, <1>2 DEF TxInv, SanityChecks

(* A cycle that accepts a request.                                         *)
LEMMA StartKeeps == TxInv /\ Start /\ enable' \in BOOLEAN /\ Hold => TxInv'
<1> SUFFICES ASSUME TxInv, Start, enable' \in BOOLEAN, Hold PROVE TxInv'
  OBVIOUS
<1>1. req.valid /\ tx' = TxInit(req) /\ ~resp'.ready /\ ~resp'.last
  BY DEF Start, NoResponse
<1>2. req' = req /\ req \in Request
  BY <1>1 DEF Hold, TxInv
<1> QED
  BY <1>1, <1>2, InitInBlock DEF TxInv, SanityChecks

(* A cycle that moves a beat.                                              *)
LEMMA TransferKeeps == TxInv /\ Transfer /\ enable' \in BOOLEAN /\ Hold => TxInv'
<1> SUFFICES ASSUME TxInv, Transfer, enable' \in BOOLEAN, Hold PROVE TxInv'
  OBVIOUS
<1>1. /\ tx.busy /\ req.valid /\ resp'.ready /\ resp'.last = TxLast(tx)
      /\ tx' = IF TxLast(tx) THEN NoTx ELSE TxSync(tx)
  BY DEF Transfer, TxInv, SanityChecks
<1>2. CASE TxLast(tx)
  <2>1. req' \in Request
    BY <1>1, <1>2 DEF Hold, Ask
  <2>2. tx' = NoTx /\ NoTx \in TxType /\ ~NoTx.busy
    BY <1>1, <1>2 DEF NoTx, TxType
  <2> QED
    BY <2>1, <2>2 DEF TxInv, SanityChecks
<1>3. CASE ~TxLast(tx)
  <2>1. PICK d \in Data : req' = [req EXCEPT !.data = d]
    BY <1>1, <1>3 DEF Hold
  <2>2. /\ req' \in Request /\ req'.valid = req.valid /\ req'.is_write = req.is_write
        /\ req'.addr = req.addr /\ req'.beats = req.beats
    BY <2>1 DEF TxInv, Request
  <2>3. tx' = TxSync(tx)
    BY <1>1, <1>3
  <2>4. /\ tx \in TxType /\ tx.addr >= tx.Lower /\ tx.addr < tx.Upper
        /\ tx.Lower < tx.Upper /\ tx.Aligned_Address + BeatBytes > tx.Lower
        /\ tx.N \in Nat /\ tx.N >= 1 /\ tx.N <= tx.Burst_Length
    BY <1>1 DEF TxInv, SanityChecks, TxType
  <2> QED
    BY <1>1, <1>3, <2>2, <2>3, <2>4, SyncInBlock DEF TxInv, SanityChecks
<1> QED
  BY <1>2, <1>3

(* There is no transaction at power-up.                                    *)
LEMMA TxStart == DeviceInit => TxInv
BY DEF DeviceInit, PortInit, NoTx, TxInv, TxType, SanityChecks

(* The invariant of the transaction is kept in every cycle.                *)
LEMMA TxStep == TxInv /\ [Cycle]_vars => TxInv'
<1> SUFFICES ASSUME TxInv, [Cycle]_vars PROVE TxInv'
  OBVIOUS
<1>1. CASE Cycle
  BY <1>1, QuietKeeps, StartKeeps, TransferKeeps DEF Cycle
<1>2. CASE UNCHANGED vars
  BY <1>2 DEF vars, TxInv, SanityChecks
<1> QED
  BY <1>1, <1>2

(* No assertion of CBusDevice::eval_req fires, and no beat's address       *)
(* leaves its block, for bursts of any length from any address, with       *)
(* pauses anywhere (cbus_device.cpp:39-43, axi.h:51-64).                   *)
THEOREM AssertionsHold == DeviceSpec => []SanityChecks
<1>1. TxInv => SanityChecks
  BY DEF TxInv
<1> QED
  BY <1>1, TxStart, TxStep, PTL DEF DeviceSpec
-----------------------------------------------------------------------------
(* Where in its block a transaction is: besides TxInv, what a cache bus    *)
(* needs of it.  The first beat of an unaligned burst is at an address     *)
(* that is no multiple of BeatBytes (axi.h:33-48).                         *)
AtSlot(t, r) ==
  /\ t.Lower = Block(r) * BeatBytes
  /\ t.Upper = (Block(r) + r.beats) * BeatBytes
  /\ t.Aligned_Address = First(r) * BeatBytes
  /\ t.addr \div BeatBytes = SlotOf(r, t.N - 1)
  /\ IF t.aligned THEN t.addr = SlotOf(r, t.N - 1) * BeatBytes ELSE t.N = 1

SlotInv == TxInv /\ (tx.busy => AtSlot(tx, req))

(* A new transaction is at the first slot of its request.                  *)
LEMMA InitAtSlot == ASSUME NEW r \in Request PROVE AtSlot(TxInit(r), r)
<1> DEFINE size == BeatBytes * r.beats
           lower == (r.addr \div size) * size
           start == (r.addr \div BeatBytes) * BeatBytes
           t == TxInit(r)
<1>1. t =
        [busy |-> TRUE, is_write |-> r.is_write, aligned |-> FALSE, N |-> 1,
         addr |-> r.addr, Start_Address |-> r.addr, Burst_Length |-> r.beats,
         Aligned_Address |-> start, Lower |-> lower, Upper |-> lower + size]
  BY DEF TxInit
<1>2. /\ r.beats \in Nat \ {0} /\ BeatBytes \in Nat \ {0} /\ Block(r) \in Nat
      /\ lower = Block(r) * BeatBytes /\ start = First(r) * BeatBytes
  BY RequestTypes, BlockOfBytes DEF First
<1>3. Block(r) * BeatBytes + size = (Block(r) + r.beats) * BeatBytes
  BY <1>2, SMTT(30)
<1>4. SlotOf(r, 0) = r.addr \div BeatBytes
  BY SlotsInOrder DEF First
<1> HIDE DEF size, lower, start
<1>5. /\ t.Lower = lower /\ t.Upper = lower + size /\ t.Aligned_Address = start
      /\ t.addr = r.addr /\ t.N = 1 /\ t.aligned = FALSE /\ t.N - 1 = 0
  BY <1>1
<1> HIDE DEF t
<1> QED
  BY <1>2, <1>3, <1>4, <1>5 DEF AtSlot, t

(* sync moves it to the slot after.                                        *)
LEMMA SyncAtSlot ==
  ASSUME NEW r \in Request, NEW t \in TxType, AtSlot(t, r), t.N >= 1
  PROVE  AtSlot(TxSync(t), r)
<1> DEFINE b == BeatBytes
           B == Block(r)
           n == r.beats
           s == SlotOf(r, t.N - 1)
           next == (IF t.aligned THEN t.addr ELSE t.Aligned_Address) + BeatBytes
           addr == IF next >= t.Upper THEN t.Lower ELSE next
           u == TxSync(t)
<1>1. /\ b \in Nat \ {0} /\ n \in Nat \ {0} /\ B \in Nat /\ t.N - 1 \in Nat
      /\ (t.N - 1) + 1 = t.N
  BY RequestTypes, BlockOfBytes DEF TxType
<1>2. /\ s \in B .. B + n - 1
      /\ SlotOf(r, t.N) = IF s + 1 = B + n THEN B ELSE s + 1
  BY <1>1, SlotsInOrder
<1>3. t.Lower = B * b /\ t.Upper = (B + n) * b /\ t.Aligned_Address = First(r) * b
  BY DEF AtSlot
<1>4. next = s * b + b
  <2>1. CASE t.aligned
    BY <2>1 DEF AtSlot
  <2>2. CASE ~t.aligned
    <3>1. t.N = 1
      BY <2>2 DEF AtSlot
    <3>2. s = First(r)
      BY <3>1, SlotsInOrder
    <3> QED
      BY <1>3, <2>2, <3>2
  <2> QED
    BY <2>1, <2>2
<1>5. u = [t EXCEPT !.N = @ + 1, !.aligned = TRUE, !.addr = addr]
  BY DEF TxSync
<1> HIDE DEF addr, next
<1>6. /\ u.N = t.N + 1 /\ u.N - 1 = t.N /\ u.aligned = TRUE /\ u.addr = addr
      /\ u.Lower = t.Lower /\ u.Upper = t.Upper
      /\ u.Aligned_Address = t.Aligned_Address
  BY <1>5 DEF TxType
<1> HIDE DEF s, B, n, b, u
<1>7. s \in Nat /\ s * b + b = (s + 1) * b
  BY <1>1, <1>2, SMTT(30)
<1>8. next >= t.Upper <=> B + n <= s + 1
  BY <1>1, <1>3, <1>4, <1>7, TimesMonotone
<1>9. addr = SlotOf(r, t.N) * b /\ SlotOf(r, t.N) \in Nat
  <2>1. CASE s + 1 = B + n
    <3>1. next >= t.Upper
      BY <1>1, <1>2, <1>8, <2>1
    <3> QED
      BY <1>1, <1>2, <1>3, <2>1, <3>1 DEF addr
  <2>2. CASE s + 1 # B + n
    <3>1. ~(next >= t.Upper)
      BY <1>1, <1>2, <1>7, <1>8, <2>2
    <3> QED
      BY <1>2, <1>4, <1>7, <2>2, <3>1 DEF addr
  <2> QED
    BY <2>1, <2>2
<1>10. addr \div b = SlotOf(r, t.N)
  <2> DEFINE z == SlotOf(r, t.N)
  <2>1. z \in Nat /\ addr = z * b
    BY <1>9
  <2> HIDE DEF z
  <2>2. z * b \in Nat /\ z * b <= z * b /\ z * b < z * b + b
    BY <1>1, <2>1, SMTT(30)
  <2>3. (z * b) \div b = z
    BY <1>1, <2>1, <2>2, DivUnique
  <2> QED
    BY <2>1, <2>3 DEF z
<1> QED
  BY <1>3, <1>6, <1>9, <1>10 DEF AtSlot, b, B, n, u
-----------------------------------------------------------------------------
(* The beats a master has seen.                                            *)
beatsDone == IF tx.busy THEN tx.N - 1 ELSE 0

(* To the master a cycle without the memory is a pause.                    *)
LEMMA QuietPauses ==
  ASSUME SlotInv, Quiet, enable' \in BOOLEAN, Hold
  PROVE  SlotInv' /\ Bus!Pause
<1>1. /\ tx' = tx /\ store' = store /\ ~resp'.ready /\ ~resp'.last
  BY DEF Quiet, NoResponse
<1>2. tx.busy => req' = req
  BY <1>1 DEF Hold, SlotInv, TxInv, SanityChecks
<1>3. TxInv'
  BY QuietKeeps DEF SlotInv
<1> QED
  BY <1>1, <1>2, <1>3 DEF SlotInv, AtSlot, SlotOf, First, Block, Bus!Pause

(* So is the cycle that accepts its request.                               *)
LEMMA StartPauses ==
  ASSUME SlotInv, Start, enable' \in BOOLEAN, Hold
  PROVE  SlotInv' /\ Bus!Pause
<1>1. /\ ~tx.busy /\ req.valid /\ tx' = TxInit(req) /\ store' = store
      /\ ~resp'.ready /\ ~resp'.last
  BY DEF Start, NoResponse
<1>2. req' = req /\ req \in Request
  BY <1>1 DEF Hold, SlotInv, TxInv
<1>3. TxInv'
  BY StartKeeps DEF SlotInv
<1>4. tx'.busy /\ tx'.N = 1
  BY <1>1, <1>2, InitInBlock
<1>5. AtSlot(tx', req')
  BY <1>1, <1>2, InitAtSlot
<1> QED
  BY <1>1, <1>3, <1>4, <1>5 DEF SlotInv, Bus!Pause

(* A cycle that moves a beat is a beat of the bus.                         *)
LEMMA TransferIsBeat ==
  ASSUME SlotInv, Transfer, enable' \in BOOLEAN, Hold
  PROVE  SlotInv' /\ Bus!Beat
<1> DEFINE s == tx.addr \div BeatBytes
<1>1. /\ tx.busy /\ AtSlot(tx, req) /\ tx \in TxType /\ req \in Request
      /\ req.valid /\ req.is_write = tx.is_write /\ req.beats = tx.Burst_Length
      /\ tx.N \in Nat /\ tx.N >= 1
  BY DEF Transfer, SlotInv, TxInv, SanityChecks, TxType
<1>2. s = SlotOf(req, tx.N - 1)
  BY <1>1 DEF AtSlot
<1> HIDE DEF s
<1>3. /\ resp' = [ready |-> TRUE, last |-> TxLast(tx),
                  data |-> IF tx.is_write THEN NoData ELSE store[s]]
      /\ tx' = IF TxLast(tx) THEN NoTx ELSE TxSync(tx)
      /\ store' = IF tx.is_write THEN [store EXCEPT ![s] = req.data] ELSE store
  BY DEF Transfer, s
<1>4. /\ resp'.ready /\ resp'.last = TxLast(tx)
      /\ ~tx.is_write => resp'.data = store[s]
  BY <1>3
<1>5. TxInv'
  BY TransferKeeps DEF SlotInv
<1>6. TxLast(tx) = ((tx.N - 1) + 1 = req.beats)
  BY <1>1 DEF TxLast
<1>7. /\ tx'.busy => AtSlot(tx', req')
      /\ IF tx'.busy THEN tx'.N - 1 = (tx.N - 1) + 1 ELSE TxLast(tx)
      /\ TxLast(tx) => ~tx'.busy
  <2>1. CASE TxLast(tx)
    BY <1>3, <2>1 DEF NoTx
  <2>2. CASE ~TxLast(tx)
    <3>1. PICK d \in Data : req' = [req EXCEPT !.data = d]
      BY <1>1, <1>4, <2>2 DEF Hold
    <3>2. req'.addr = req.addr /\ req'.beats = req.beats
      BY <1>1, <3>1 DEF Request
    <3>3. tx' = TxSync(tx) /\ AtSlot(TxSync(tx), req)
      BY <1>1, <1>3, <2>2, SyncAtSlot
    <3>4. AtSlot(tx', req')
      BY <3>2, <3>3 DEF AtSlot, SlotOf, First, Block
    <3>5. tx'.N = tx.N + 1 /\ tx'.busy
      BY <1>1, <3>3 DEF TxSync, TxType
    <3> QED
      BY <1>1, <2>2, <3>4, <3>5
  <2> QED
    BY <2>1, <2>2
<1>8. SlotInv'
  BY <1>5, <1>7 DEF SlotInv
<1>9. Bus!SlotOf(req, beatsDone) = s
  BY <1>1, <1>2 DEF Bus!SlotOf, SlotOf, beatsDone
<1>10. Bus!Beat
  BY <1>1, <1>3, <1>4, <1>6, <1>7, <1>9 DEF Bus!Beat, beatsDone
<1> QED
  BY <1>8, <1>10

(* Every cycle of the device is one of the bus.                            *)
LEMMA DeviceStep == SlotInv /\ [Cycle]_vars => SlotInv' /\ [Bus!Next]_<<req, resp, beatsDone, store>>
<1> SUFFICES ASSUME SlotInv, [Cycle]_vars
             PROVE  SlotInv' /\ [Bus!Next]_<<req, resp, beatsDone, store>>
  OBVIOUS
<1>1. CASE Cycle
  <2>1. SlotInv' /\ (Bus!Pause \/ Bus!Beat)
    BY <1>1, QuietPauses, StartPauses, TransferIsBeat DEF Cycle
  <2>2. Bus!Hold
    BY <1>1 DEF Cycle, Bus!Hold, Hold, Bus!Ask, Ask, Bus!Request, Request
  <2> QED
    BY <2>1, <2>2 DEF Bus!Next
<1>2. CASE UNCHANGED vars
  BY <1>2 DEF vars, SlotInv, TxInv, SanityChecks, AtSlot, SlotOf, First, Block, beatsDone
<1> QED
  BY <1>1, <1>2

(* So are its initial states.                                              *)
LEMMA DeviceStart == DeviceInit => SlotInv /\ Bus!Init
<1> SUFFICES ASSUME DeviceInit PROVE SlotInv /\ Bus!Init
  OBVIOUS
<1>1. TxInv /\ ~tx.busy
  BY TxStart DEF DeviceInit, NoTx
<1> QED
  BY <1>1 DEF SlotInv, DeviceInit, Bus!Init, Bus!PortInit, PortInit, Bus!Request, Request,
              Bus!NoResponse, NoResponse, Bus!Slot, Slot

(* To its master the device is a cache bus: it answers a request of any    *)
(* length beat by beat with the words of its block, from the one that is   *)
(* addressed and wrapping at the end, whether or not the address is a      *)
(* multiple of a beat, and stores what is written there and nowhere else   *)
(* (cbus_device.cpp:7-74, axi.h:25-64; memory.h:87).                       *)
THEOREM DeviceIsACBus == DeviceSpec => ImplementsCBus
<1> QED
  BY DeviceStart, DeviceStep, PTL DEF DeviceSpec, ImplementsCBus, Bus!Spec, beatsDone
-----------------------------------------------------------------------------
(* The request on the bus is the owner's, which is valid.                  *)
SharedInv ==
  /\ NoReq \in Request /\ ~NoReq.valid
  /\ direct \in BOOLEAN /\ busy \in BOOLEAN
  /\ ireqs \in [Inputs -> Request]
  /\ ~direct => /\ req = Oreq(ireqs, busy, index)
                /\ busy => index \in Inputs /\ ireqs[index].valid

(* The search of CBusArbiter.sv:36-45 ends at a valid input, if any is.    *)
LEMMA SelectValid ==
  ASSUME NEW rqs, NEW k \in Inputs, rqs[k].valid
  PROVE  Select(rqs) \in Inputs /\ rqs[Select(rqs)].valid
<1> DEFINE S == {i \in Inputs : rqs[i].valid}
<1>1. Inputs \subseteq Nat
  BY NumInputs DEF Inputs
<1>2. PICK i \in S : \A j \in S : i <= j
  BY <1>1, Smallest
<1> QED
  BY <1>2 DEF Select

(* What a master does while it gets no response, and in the middle of one. *)
LEMMA MastersHold ==
  ASSUME SharedInv, Arbitrate, NEW i \in Inputs, ireqs[i].valid
  PROVE  /\ ~iresps'[i].ready /\ ~iresps'[i].last => ireqs'[i] = ireqs[i]
         /\ ~iresps'[i].last => ireqs'[i].valid
         /\ iresps'[i].ready /\ ~iresps'[i].last =>
              \E d \in Data : ireqs'[i] = [ireqs[i] EXCEPT !.data = d]
<1>1. Port(i)!Hold
  BY DEF Arbitrate
<1>2. ireqs[i] \in Request
  BY DEF SharedInv
<1> QED
  BY <1>1, <1>2 DEF Port!Hold, Port!Ask, Request

(* Each port carries a request.                                            *)
LEMMA WishesAreRequests ==
  ASSUME SharedInv, Arbitrate
  PROVE  ireqs' \in [Inputs -> Request]
<1>1. /\ ireqs' \in [Inputs -> UNION {PortRequests[i] : i \in Inputs} \cup {NoReq}]
      /\ \A i \in Inputs : ireqs'[i] \in PortRequests[i] \cup {NoReq}
  BY DEF Arbitrate, Wishes
<1>2. \A i \in Inputs : PortRequests[i] \subseteq Request
  BY PortsAssumption
<1> QED
  BY <1>1, <1>2 DEF SharedInv

(* What the arbiter does at a clock edge, and its bus after it.            *)
LEMMA OwnerKeepsBus ==
  ASSUME SharedInv, ~direct, Arbitrate
  PROVE  /\ busy' \in BOOLEAN
         /\ busy' => index' \in Inputs /\ ireqs'[index'].valid
         /\ busy /\ ~resp'.last => busy' /\ index' = index
<1>1. ArbiterPosedge(FALSE, ireqs, resp'.last) /\ iresps' = Feedback
  BY DEF Arbitrate
<1>2. CASE busy /\ resp'.last
  BY <1>1, <1>2 DEF ArbiterPosedge, ArbiterReset
<1>3. CASE busy /\ ~resp'.last
  <2>1. busy' /\ index' = index /\ index \in Inputs /\ ireqs[index].valid
    BY <1>1, <1>3 DEF ArbiterPosedge, ArbiterReset, arbiterVars, SharedInv
  <2>2. iresps'[index] = resp'
    BY <1>1, <1>3, <2>1 DEF Feedback, Granted
  <2>3. ireqs'[index].valid
    BY <1>3, <2>1, <2>2, MastersHold
  <2> QED
    BY <2>1, <2>3 DEF SharedInv
<1>4. CASE ~busy
  <2>1. busy' = ireqs[Select(ireqs)].valid /\ index' = Select(ireqs)
    BY <1>1, <1>4 DEF ArbiterPosedge, ArbiterReset
  <2>2. CASE \E i \in Inputs : ireqs[i].valid
    <3>1. index' \in Inputs /\ ireqs[index'].valid
      BY <2>1, <2>2, SelectValid
    <3>2. iresps'[index'] = NoResponse
      BY <1>1, <1>4, <3>1 DEF Feedback, Granted
    <3>3. ireqs'[index'] = ireqs[index']
      BY <3>1, <3>2, MastersHold DEF NoResponse
    <3>4. ireqs[index'].valid \in BOOLEAN
      BY <3>1 DEF SharedInv, Request
    <3> QED
      BY <1>4, <2>1, <3>1, <3>3, <3>4
  <2>3. CASE ~ \E i \in Inputs : ireqs[i].valid
    <3>1. 0 \in Inputs /\ Select(ireqs) = 0
      BY <2>3, NumInputs DEF Inputs, Select
    <3>2. ireqs[0].valid \in BOOLEAN /\ ~ireqs[0].valid
      BY <2>3, <3>1 DEF SharedInv, Request
    <3> QED
      BY <1>4, <2>1, <3>1, <3>2
  <2> QED
    BY <2>2, <2>3
<1> QED
  BY <1>2, <1>3, <1>4 DEF SharedInv

(* So the bus looks like one master's port.                                *)
LEMMA ArbitratedHold ==
  ASSUME SharedInv, ~direct, Arbitrate
  PROVE  Hold /\ req' \in Request
<1>1. req' = Oreq(ireqs', busy', index') /\ iresps' = Feedback
  BY DEF Arbitrate
<1>2. req' \in Request
  BY <1>1, OwnerKeepsBus, WishesAreRequests DEF Oreq, SharedInv
<1>3. CASE ~req.valid \/ resp'.last
  BY <1>2, <1>3 DEF Hold, Ask
<1>4. CASE req.valid /\ ~resp'.last
  <2>1. busy /\ req = ireqs[index] /\ index \in Inputs
    BY <1>4 DEF SharedInv, Oreq
  <2>2. iresps'[index] = resp'
    BY <1>1, <2>1 DEF Feedback, Granted
  <2>3. req' = ireqs'[index]
    BY <1>1, <1>4, <2>1, OwnerKeepsBus DEF Oreq
  <2> QED
    <3>1. /\ ~resp'.ready => req' = req
          /\ resp'.ready => \E d \in Data : req' = [req EXCEPT !.data = d]
      BY <1>4, <2>1, <2>2, <2>3, MastersHold
    <3> QED
      BY <1>2, <1>4, <3>1 DEF Hold
<1> QED
  BY <1>2, <1>3, <1>4

(* A cycle of the shared bus is one of the device and one master.          *)
LEMMA SharedStep == SharedInv /\ [SharedCycle]_sharedVars => SharedInv' /\ [Cycle]_vars
<1> SUFFICES ASSUME SharedInv, [SharedCycle]_sharedVars PROVE SharedInv' /\ [Cycle]_vars
  OBVIOUS
<1>1. CASE SharedCycle /\ direct
  <2>1. Cycle /\ direct' = direct /\ UNCHANGED <<arbiterVars, ireqs, iresps>>
    BY <1>1 DEF SharedCycle, Cycle
  <2> QED
    BY <1>1, <2>1 DEF SharedInv, arbiterVars
<1>2. CASE SharedCycle /\ ~direct
  <2>1. Arbitrate /\ direct' = direct
    BY <1>2 DEF SharedCycle
  <2>2. Cycle
    BY <1>2, <2>1, ArbitratedHold DEF SharedCycle, Cycle
  <2>3. req' = Oreq(ireqs', busy', index')
    BY <2>1 DEF Arbitrate
  <2>4. SharedInv'
    BY <1>2, <2>1, <2>3, OwnerKeepsBus, WishesAreRequests DEF SharedInv
  <2> QED
    BY <2>2, <2>4
<1>3. CASE UNCHANGED sharedVars
  BY <1>3 DEF sharedVars, vars, arbiterVars, SharedInv
<1> QED
  BY <1>1, <1>2, <1>3

(* Its initial states are theirs.                                          *)
LEMMA SharedStart == SharedInit => SharedInv /\ DeviceInit
<1> SUFFICES ASSUME SharedInit PROVE SharedInv
  BY DEF SharedInit
<1>1. \E r \in Request : ~r.valid
  BY DEF SharedInit, DeviceInit, PortInit
<1>2. NoReq \in Request /\ ~NoReq.valid
  BY <1>1 DEF NoReq
<1> QED
  BY <1>2 DEF SharedInit, ArbiterInit, SharedInv, Oreq

(* Behind the arbiter of CBusArbiter.sv, with any number of masters, the   *)
(* device meets one that obeys the protocol.                               *)
THEOREM OneMaster == SharedSpec => BusHasOneMaster
BY SharedStart, SharedStep, PTL DEF SharedSpec, BusHasOneMaster

(* So the assertions of cbus_device.cpp:39-43 hold on a shared bus too.    *)
THEOREM SharedAssertionsHold == SharedSpec => []SanityChecks
<1>1. TxInv => SanityChecks
  BY DEF TxInv
<1> QED
  BY <1>1, OneMaster, TxStart, TxStep, PTL DEF BusHasOneMaster
-----------------------------------------------------------------------------
(* A cycle without a beat on the device is one without a response, and     *)
(* nothing is stored.                                                      *)
LEMMA NoBeatNoResponse ==
  ASSUME Arbitrate, Quiet \/ Start
  PROVE  (\A i \in Inputs : iresps'[i] = NoResponse) /\ UNCHANGED store
<1>1. resp' = NoResponse /\ store' = store
  BY DEF Quiet, Start
<1>2. iresps' = Feedback
  BY DEF Arbitrate
<1> QED
  BY <1>1, <1>2 DEF Feedback

(* A beat on the device is one of the owner's, and nobody else's.          *)
LEMMA BeatIsOwners ==
  ASSUME SharedInv, SlotInv, ~direct, Transfer, enable' \in BOOLEAN, Arbitrate,
         NEW i \in Inputs
  PROVE  /\ index \in Inputs
         /\ i = index => Port(i)!Beat /\ iresps'[i] # NoResponse
         /\ i # index => iresps'[i] = NoResponse
<1>1. tx.busy /\ req.valid
  BY DEF Transfer, SlotInv, TxInv, SanityChecks
<1>2. busy /\ index \in Inputs /\ req = ireqs[index]
  BY <1>1 DEF SharedInv, Oreq
<1>3. iresps'[i] = IF Granted(i) THEN resp' ELSE NoResponse
  BY DEF Arbitrate, Feedback
<1>4. CASE i = index
  <2>1. Granted(i) /\ iresps'[i] = resp' /\ req = ireqs[i]
    BY <1>2, <1>3, <1>4 DEF Granted
  <2>2. Bus!Beat /\ resp'.ready
    BY ArbitratedHold, TransferIsBeat DEF Bus!Beat
  <2>3. ~resp'.last => Granted(i)'
    BY <1>2, <1>4, OwnerKeepsBus DEF Granted
  <2>4. resp'.last => ~tx'.busy
    BY <1>1 DEF Transfer, NoTx
  <2>5. resp'.last <=> (tx.N - 1) + 1 = req.beats
    BY <1>1, <2>2 DEF Bus!Beat
  <2>6. Port(i)!SlotOf(req, tx.N - 1) = Bus!SlotOf(req, tx.N - 1)
    BY DEF Port!SlotOf, Bus!SlotOf
  <2>7. Port(i)!Beat
    BY <1>1, <2>1, <2>2, <2>3, <2>4, <2>5, <2>6 DEF Bus!Beat, Port!Beat
  <2> QED
    BY <1>2, <1>4, <2>1, <2>2, <2>7 DEF NoResponse
<1>5. CASE i # index
  BY <1>2, <1>3, <1>5 DEF Granted
<1> QED
  BY <1>4, <1>5

(* What a cycle is to each of the masters.                                 *)
PortsCycle ==
  ~direct =>
    /\ \A i \in Inputs : Port(i)!Beat \/ iresps'[i] = NoResponse
    /\ (\A i \in Inputs : iresps'[i] = NoResponse) => UNCHANGED store

(* To each port it is a cycle of a bus of its own.                         *)
LEMMA PortsStep == SharedInv /\ SlotInv /\ [SharedCycle]_sharedVars => [PortsCycle]_sharedVars
<1> SUFFICES ASSUME SharedInv, SlotInv, SharedCycle, ~direct PROVE PortsCycle
  BY DEF PortsCycle
<1>1. Arbitrate /\ enable' \in BOOLEAN /\ (Quiet \/ Start \/ Transfer)
  BY DEF SharedCycle
<1>2. CASE Quiet \/ Start
  BY <1>1, <1>2, NoBeatNoResponse DEF PortsCycle
<1>3. CASE Transfer
  <2>1. \A i \in Inputs : /\ i = index => Port(i)!Beat /\ iresps'[i] # NoResponse
                          /\ i # index => iresps'[i] = NoResponse
    BY <1>1, <1>3, BeatIsOwners
  <2>2. \E i \in Inputs : i = index
    <3>1. 0 \in Inputs
      BY NumInputs DEF Inputs
    <3> QED
      BY <1>1, <1>3, <3>1, BeatIsOwners
  <2> QED
    BY <2>1, <2>2 DEF PortsCycle
<1> QED
  BY <1>1, <1>2, <1>3

(* Each of any number of masters gets through the arbiter of               *)
(* CBusArbiter.sv what it would from a device of its own: the beats of its *)
(* own request, in order, of the block it asked for; and nothing is stored *)
(* in a cycle in which no master is answered.                              *)
THEOREM EveryPortIsABus == SharedSpec => EachPortIsABus
<1>1. SharedInit => SharedInv /\ SlotInv
  BY SharedStart, DeviceStart
<1> QED
  BY <1>1, SharedStep, DeviceStep, PortsStep, PTL DEF SharedSpec, EachPortIsABus, PortsCycle

(* And the device is to what is on its port, one master or the arbiter's   *)
(* output, a cache bus.                                                    *)
THEOREM SharedDeviceIsACBus == SharedSpec => ImplementsCBus
BY SharedStart, DeviceStart, DeviceStep, OneMaster, PTL
   DEF BusHasOneMaster, ImplementsCBus, Bus!Spec, beatsDone
-----------------------------------------------------------------------------
(* CBusToAXI.                                                              *)

(* The invariant: nothing is in progress, or a read is whose beats the     *)
(* slave and the bridge count alike, or a write whose data is on its way.  *)
(* After its last beat a write still waits, and the master may ask anew.   *)
Idle == in_issue = {} /\ sread = NoRead /\ swrite = Nowhere /\ sw = <<>>

Reading ==
  /\ "R" \in in_issue /\ in_issue \subseteq {"AR", "R"}
  /\ req.valid /\ ~req.is_write /\ saved_req = Where(req) /\ count \in 0 .. req.beats - 1
  /\ IF "AR" \in in_issue
     THEN sread = NoRead /\ count = req.beats - 1
     ELSE sread = [at |-> saved_req, beats |-> req.beats - 1 - count]
  /\ swrite = Nowhere /\ sw = <<>>

Sending ==
  /\ req.valid /\ req.is_write /\ saved_req = Where(req)
  /\ count \in 0 .. req.beats - 1 /\ Len(sw) = req.beats - 1 - count

Writing ==
  /\ "B" \in in_issue /\ in_issue \subseteq {"AW", "W", "B"}
  /\ saved_req.beats \in Nat \ {0}
  /\ swrite = IF "AW" \in in_issue THEN Nowhere ELSE saved_req
  /\ IF "W" \in in_issue THEN Sending ELSE Len(sw) = saved_req.beats
  /\ sread = NoRead

BridgeInv ==
  /\ req \in Request /\ store \in [Slot -> Data] /\ sw \in Seq(Data)
  /\ Idle \/ Reading \/ Writing

(* What saved_req keeps of a request.                                      *)
LEMMA WhereType ==
  ASSUME NEW r \in Request
  PROVE  /\ Where(r).addr = r.addr /\ Where(r).beats = r.beats
         /\ r.beats \in Nat \ {0} /\ Where(r) # Nowhere
         /\ \A i : SlotOf(Where(r), i) = SlotOf(r, i)
<1>1. r.beats \in Nat \ {0} /\ Where(r).addr = r.addr /\ Where(r).beats = r.beats
  BY RequestTypes DEF Where
<1>2. Nowhere.beats = 0
  BY DEF Nowhere
<1> QED
  BY <1>1, <1>2 DEF SlotOf

(* The master's part of a cycle.                                           *)
LEMMA MasterHolds ==
  ASSUME req \in Request, Hold
  PROVE  /\ req' \in Request
         /\ req.valid /\ ~resp'.last =>
              /\ req'.valid = req.valid /\ req'.is_write = req.is_write
              /\ req'.beats = req.beats /\ Where(req') = Where(req)
         /\ req.valid /\ ~resp'.last /\ ~resp'.ready => req' = req
<1>1. CASE ~req.valid \/ resp'.last
  BY <1>1 DEF Hold, Ask
<1>2. CASE req.valid /\ ~resp'.last /\ ~resp'.ready
  BY <1>2 DEF Hold
<1>3. CASE req.valid /\ ~resp'.last /\ resp'.ready
  <2>1. PICK d \in Data : req' = [req EXCEPT !.data = d]
    BY <1>3 DEF Hold
  <2> QED
    BY <1>3, <2>1 DEF Request, Where
<1> QED
  BY <1>1, <1>2, <1>3
-----------------------------------------------------------------------------
(* Memory with the data of a write in it.                                  *)
LEMMA NothingWritten ==
  ASSUME NEW s \in [Slot -> Data], NEW r
  PROVE  Written(s, r, <<>>) = s
<1>1. DOMAIN <<>> = {}
  OBVIOUS
<1>2. Written(s, r, <<>>) = [x \in Slot |-> s[x]]
  BY <1>1 DEF Written
<1> QED
  BY <1>2

(* A memory with data written is a memory.                                 *)
LEMMA WrittenType ==
  ASSUME NEW s \in [Slot -> Data], NEW r, NEW data \in Seq(Data)
  PROVE  Written(s, r, data) \in [Slot -> Data]
<1> DEFINE at(x) == {i \in DOMAIN data : SlotOf(r, i - 1) = x}
<1>1. ASSUME NEW x \in Slot
      PROVE  (IF at(x) = {} THEN s[x] ELSE data[CHOOSE i \in at(x) : TRUE]) \in Data
  <2>1. CASE at(x) = {}
    BY <2>1
  <2>2. CASE at(x) # {}
    <3>1. (CHOOSE i \in at(x) : TRUE) \in DOMAIN data
      BY <2>2
    <3> QED
      BY <2>2, <3>1
  <2> QED
    BY <2>1, <2>2
<1>2. Written(s, r, data) =
        [x \in Slot |-> IF at(x) = {} THEN s[x] ELSE data[CHOOSE i \in at(x) : TRUE]]
  BY DEF Written
<1> HIDE DEF at
<1> QED
  BY <1>1, <1>2

(* One beat more of a write changes the word of that beat.                 *)
LEMMA WrittenBeat ==
  ASSUME NEW s \in [Slot -> Data], NEW r \in Request, NEW data \in Seq(Data), NEW d \in Data,
         Len(data) < r.beats
  PROVE  Written(s, Where(r), Append(data, d)) =
           [Written(s, Where(r), data) EXCEPT ![SlotOf(r, Len(data))] = d]
<1> DEFINE n == Len(data)
           more == Append(data, d)
           at(x) == {i \in DOMAIN data : SlotOf(Where(r), i - 1) = x}
           atMore(x) == {i \in DOMAIN more : SlotOf(Where(r), i - 1) = x}
           old(x) == IF at(x) = {} THEN s[x] ELSE data[CHOOSE i \in at(x) : TRUE]
           new(x) == IF atMore(x) = {} THEN s[x] ELSE more[CHOOSE i \in atMore(x) : TRUE]
           z == SlotOf(r, n)
<1>1. /\ n \in Nat /\ DOMAIN data = 1 .. n /\ more \in Seq(Data) /\ DOMAIN more = 1 .. n + 1
      /\ more[n + 1] = d /\ \A i \in 1 .. n : more[i] = data[i]
  OBVIOUS
<1>2. r.beats \in Nat /\ \A i \in 1 .. n + 1 : SlotOf(Where(r), i - 1) = SlotOf(r, i - 1)
  BY WhereType
<1>3. \A i \in 1 .. n : SlotOf(r, i - 1) # z
  <2> TAKE i \in 1 .. n
  <2>1. i - 1 \in Nat /\ i - 1 < n
    BY <1>1
  <2> QED
    BY <1>1, <2>1, SlotsDiffer
<1>4. ASSUME NEW x \in Slot PROVE new(x) = IF x = z THEN d ELSE old(x)
  <2>1. CASE x = z
    <3>1. atMore(x) = {n + 1}
      BY <1>1, <1>2, <1>3, <2>1
    <3>2. (CHOOSE i \in atMore(x) : TRUE) = n + 1
      BY <3>1
    <3> HIDE DEF atMore
    <3> QED
      BY <1>1, <2>1, <3>1, <3>2
  <2>2. CASE x # z
    <3>1. atMore(x) = at(x)
      BY <1>1, <1>2, <2>2
    <3>2. CASE at(x) = {}
      BY <2>2, <3>1, <3>2
    <3>3. CASE at(x) # {}
      <4>1. (CHOOSE i \in at(x) : TRUE) \in 1 .. n
        BY <1>1, <3>3
      <4> QED
        BY <1>1, <2>2, <3>1, <3>3, <4>1
    <3> QED
      BY <3>2, <3>3
  <2> QED
    BY <2>1, <2>2
<1>5. /\ Written(s, Where(r), data) = [x \in Slot |-> old(x)]
      /\ Written(s, Where(r), more) = [x \in Slot |-> new(x)]
  BY DEF Written
<1> HIDE DEF old, new, n, z, at, atMore
<1>6. [[x \in Slot |-> old(x)] EXCEPT ![z] = d] = [x \in Slot |-> IF x = z THEN d ELSE old(x)]
  OBVIOUS
<1> QED
  BY <1>4, <1>5, <1>6 DEF more, n, z
-----------------------------------------------------------------------------
(* What the master has seen: the beats, and the memory.                    *)
beatsMoved == IF Moving THEN saved_req.beats - 1 - count ELSE 0
seen == Written(store, saved_req, sw)

(* A cycle without a transaction is a pause.                               *)
LEMMA TakeStep ==
  ASSUME BridgeInv, Take, Hold
  PROVE  BridgeInv' /\ Front!Pause
<1>1. /\ in_issue = {} /\ in_issue' = (IF req.valid THEN next_issue ELSE {})
      /\ saved_req' = Where(req) /\ count' = req.beats - 1 /\ resp' = NoResponse
      /\ store' = store /\ sread' = sread /\ swrite' = swrite /\ sw' = sw
  BY DEF Take, slaveVars
<1>2. sread = NoRead /\ swrite = Nowhere /\ sw = <<>>
  BY <1>1 DEF BridgeInv, Idle, Reading, Writing
<1>3. req \in Request /\ store \in [Slot -> Data] /\ req.beats \in Nat \ {0}
  BY WhereType DEF BridgeInv
<1>4. ~resp'.ready /\ ~resp'.last
  BY <1>1 DEF NoResponse
<1>5. req' \in Request /\ (req.valid => req' = req)
  BY <1>3, <1>4, MasterHolds
<1>6. /\ Where(req).beats = req.beats
      /\ count' \in 0 .. req.beats - 1 /\ req.beats - 1 - count' = 0
      /\ Len(sw') = 0
  BY <1>1, <1>2, <1>3, WhereType
<1>7. BridgeInv'
  <2>1. req' \in Request /\ store' \in [Slot -> Data] /\ sw' \in Seq(Data)
    BY <1>1, <1>2, <1>3, <1>5
  <2>2. CASE ~req.valid
    <3>1. Idle'
      BY <1>1, <1>2, <2>2 DEF Idle
    <3> QED
      BY <2>1, <3>1 DEF BridgeInv
  <2>3. CASE req.valid /\ req.is_write
    <3>1. in_issue' = {"AW", "W", "B"} /\ req' = req
      BY <1>1, <1>5, <2>3 DEF next_issue
    <3>2. Sending' /\ saved_req'.beats \in Nat \ {0}
      BY <1>1, <1>3, <1>6, <2>3, <3>1 DEF Sending
    <3>3. Writing'
      BY <1>1, <1>2, <3>1, <3>2 DEF Writing
    <3> QED
      BY <2>1, <3>3 DEF BridgeInv
  <2>4. CASE req.valid /\ ~req.is_write
    <3>1. in_issue' = {"AR", "R"} /\ req' = req
      BY <1>1, <1>5, <2>4 DEF next_issue
    <3>2. Reading'
      BY <1>1, <1>2, <1>6, <2>4, <3>1 DEF Reading
    <3> QED
      BY <2>1, <3>2 DEF BridgeInv
  <2> QED
    BY <2>2, <2>3, <2>4
<1>8. beatsMoved = 0 /\ beatsMoved' = 0
  BY <1>1, <1>6 DEF beatsMoved, Moving
<1>9. seen' = seen
  <2>1. seen = store
    BY <1>2, <1>3, NothingWritten DEF seen
  <2>2. seen' = store
    BY <1>1, <1>2, <1>3, NothingWritten DEF seen
  <2> QED
    BY <2>1, <2>2
<1> QED
  BY <1>4, <1>7, <1>8, <1>9 DEF Front!Pause, beatsMoved, seen
-----------------------------------------------------------------------------
(* A cycle of a read without a word of it.                                 *)
LEMMA ReadWaits ==
  ASSUME BridgeInv, Reading, NEW h \in SUBSET in_issue, "R" \notin h, Exchange(h), Hold
  PROVE  BridgeInv' /\ Front!Pause
<1>1. h \subseteq {"AR"} /\ "R" \in in_issue /\ in_issue \subseteq {"AR", "R"}
  BY DEF Reading
<1>2. ~ready(h) /\ ~last(h, RLast) /\ ended(h, RLast) = h
  BY <1>1 DEF ready, last, ended
<1>3. /\ in_issue' = in_issue \ h /\ count' = count /\ saved_req' = saved_req
      /\ store' = store /\ swrite' = swrite /\ sw' = sw
      /\ sread' = IF "AR" \in h THEN [at |-> saved_req, beats |-> 0] ELSE sread
  BY <1>1, <1>2 DEF Exchange, count_next, SlaveWrite, SlaveRead, NoRead, axaddr
<1>4. ~resp'.ready /\ ~resp'.last
  BY <1>2 DEF Exchange
<1>5. req' = req /\ req \in Request
  BY <1>4, MasterHolds DEF BridgeInv, Reading
<1>6. req.beats \in Nat \ {0} /\ count \in Nat
  BY <1>5, WhereType DEF Reading
<1>7. Reading'
  <2>1. CASE "AR" \in in_issue'
    BY <1>1, <1>3, <1>5, <2>1 DEF Reading
  <2>2. CASE "AR" \notin in_issue' /\ "AR" \notin in_issue
    BY <1>1, <1>3, <1>5, <2>2 DEF Reading
  <2>3. CASE "AR" \notin in_issue' /\ "AR" \in in_issue
    <3>1. "AR" \in h /\ count = req.beats - 1 /\ req.beats - 1 - count = 0
      BY <1>3, <1>6, <2>3 DEF Reading
    <3> QED
      BY <1>1, <1>3, <1>5, <2>3, <3>1 DEF Reading
  <2> QED
    BY <2>1, <2>2, <2>3
<1>8. BridgeInv'
  BY <1>3, <1>5, <1>7 DEF BridgeInv
<1>9. beatsMoved' = beatsMoved /\ seen' = seen
  BY <1>1, <1>3 DEF beatsMoved, Moving, seen, Written
<1> QED
  BY <1>4, <1>8, <1>9 DEF Front!Pause, beatsMoved, seen

(* A word of a read.                                                       *)
LEMMA ReadBeat ==
  ASSUME BridgeInv, Reading, NEW h \in SUBSET in_issue, "R" \in h, Exchange(h), Hold
  PROVE  BridgeInv' /\ Front!Beat
<1>1. "AR" \notin in_issue
  BY DEF Exchange, SlaveMay, Reading, NoRead
<1>2. h = {"R"} /\ in_issue = {"R"}
  BY <1>1 DEF Reading
<1>3. /\ req \in Request /\ req.beats \in Nat \ {0} /\ saved_req = Where(req)
      /\ saved_req.beats = req.beats
      /\ count \in 0 .. req.beats - 1 /\ req.valid /\ ~req.is_write
      /\ sread = [at |-> saved_req, beats |-> req.beats - 1 - count]
      /\ store \in [Slot -> Data] /\ sw = <<>> /\ swrite = Nowhere
  BY <1>1, WhereType DEF BridgeInv, Reading
<1>4. RLast <=> count = 0
  BY <1>3 DEF RLast
<1>5. /\ ready(h) /\ last(h, RLast) = (count = 0)
      /\ ended(h, RLast) = IF count = 0 THEN {"R"} ELSE {}
  BY <1>2, <1>4 DEF ready, last, ended, is_last
<1>6. /\ in_issue' = (IF count = 0 THEN {} ELSE {"R"}) /\ saved_req' = saved_req
      /\ count' = (IF count = 0 THEN 0 ELSE count - 1)
      /\ store' = store /\ swrite' = swrite /\ sw' = sw
      /\ resp' = [ready |-> ready(h), last |-> last(h, RLast), data |-> RData]
  BY <1>2, <1>3, <1>5 DEF Exchange, count_next, SlaveWrite
<1>7. sread' = IF count = 0 THEN NoRead
              ELSE [at |-> saved_req, beats |-> req.beats - 1 - (count - 1)]
  <2>1. sread' = IF RLast THEN NoRead ELSE [sread EXCEPT !.beats = @ + 1]
    BY <1>2 DEF Exchange, SlaveRead
  <2>2. req.beats - 1 - count + 1 = req.beats - 1 - (count - 1)
    BY <1>3
  <2> QED
    BY <1>3, <1>4, <2>1, <2>2
<1>8. resp'.ready /\ resp'.last = (count = 0) /\ resp'.data = RData
  BY <1>5, <1>6
<1>9. /\ req' \in Request
      /\ count # 0 => /\ req'.valid = req.valid /\ req'.is_write = req.is_write
                      /\ req'.beats = req.beats /\ Where(req') = Where(req)
  BY <1>3, <1>8, MasterHolds
<1>10. BridgeInv'
  <2>1. CASE count = 0
    <3>1. Idle'
      BY <1>3, <1>6, <1>7, <2>1 DEF Idle
    <3> QED
      BY <1>3, <1>6, <1>9, <3>1 DEF BridgeInv
  <2>2. CASE count # 0
    <3>1. /\ in_issue' = {"R"} /\ count' = count - 1 /\ count - 1 \in 0 .. req.beats - 1
          /\ sread' = [at |-> saved_req, beats |-> req.beats - 1 - (count - 1)]
      BY <1>3, <1>6, <1>7, <2>2
    <3>2. Reading'
      BY <1>3, <1>6, <1>9, <2>2, <3>1 DEF Reading
    <3> QED
      BY <1>3, <1>6, <1>9, <3>2 DEF BridgeInv
  <2> QED
    BY <2>1, <2>2
<1>11. seen = store /\ seen' = store
  BY <1>3, <1>6, NothingWritten DEF seen
<1>12. RData = store[Front!SlotOf(req, beatsMoved)]
  <2>1. beatsMoved = req.beats - 1 - count
    BY <1>2, <1>3 DEF beatsMoved, Moving
  <2>2. Front!SlotOf(req, beatsMoved) = SlotOf(Where(req), beatsMoved)
    BY <1>3 DEF Front!SlotOf, SlotOf, Where
  <2> QED
    BY <1>3, <2>1, <2>2 DEF RData
<1>13. /\ (beatsMoved + 1 = req.beats) = (count = 0)
       /\ beatsMoved' = IF beatsMoved + 1 = req.beats THEN 0 ELSE beatsMoved + 1
  BY <1>2, <1>3, <1>6 DEF beatsMoved, Moving
<1>14. Front!Beat
  BY <1>3, <1>8, <1>11, <1>12, <1>13 DEF Front!Beat, beatsMoved, seen
<1> QED
  BY <1>10, <1>14
-----------------------------------------------------------------------------
(* A cycle of a write in which only its address may go.                    *)
LEMMA WriteWaits ==
  ASSUME BridgeInv, Writing, NEW h \in SUBSET in_issue, h \cap {"W", "B"} = {},
         Exchange(h), Hold
  PROVE  BridgeInv' /\ Front!Pause
<1>1. h \subseteq {"AW"} /\ "B" \in in_issue /\ in_issue \subseteq {"AW", "W", "B"}
  BY DEF Writing
<1>2. ~ready(h) /\ ~last(h, RLast) /\ ended(h, RLast) = h
  BY <1>1 DEF ready, last, ended
<1>3. /\ in_issue' = in_issue \ h /\ count' = count /\ saved_req' = saved_req
      /\ store' = store /\ sread' = sread /\ sw' = sw
      /\ swrite' = IF "AW" \in h THEN saved_req ELSE swrite
  BY <1>1, <1>2 DEF Exchange, count_next, SlaveWrite, SlaveRead, axaddr
<1>4. ~resp'.ready /\ ~resp'.last
  BY <1>2 DEF Exchange
<1>5. req' \in Request /\ (req.valid => req' = req)
  BY <1>4, MasterHolds DEF BridgeInv
<1>6. ("W" \in in_issue' <=> "W" \in in_issue) /\ (Sending => Sending')
  BY <1>1, <1>3, <1>5 DEF Sending
<1>7. Writing'
  BY <1>1, <1>3, <1>6 DEF Writing
<1>8. BridgeInv'
  BY <1>3, <1>5, <1>7 DEF BridgeInv
<1>9. beatsMoved' = beatsMoved /\ seen' = seen
  BY <1>1, <1>3 DEF beatsMoved, Moving, seen, Written
<1> QED
  BY <1>4, <1>8, <1>9 DEF Front!Pause, beatsMoved, seen

(* A word of a write goes to the slave.                                    *)
LEMMA WriteBeat ==
  ASSUME BridgeInv, Writing, NEW h \in SUBSET in_issue, "W" \in h, Exchange(h), Hold
  PROVE  BridgeInv' /\ Front!Beat
<1>1. /\ req \in Request /\ req.beats \in Nat \ {0} /\ saved_req = Where(req)
      /\ saved_req.beats = req.beats /\ sw \in Seq(Data) /\ Len(sw) \in Nat
      /\ count \in 0 .. req.beats - 1 /\ req.valid /\ req.is_write
      /\ Len(sw) = req.beats - 1 - count
      /\ store \in [Slot -> Data] /\ "W" \in in_issue /\ sread = NoRead
  BY WhereType DEF BridgeInv, Writing, Sending
<1>2. "B" \notin h
  <2>1. CASE "AW" \in in_issue
    BY <2>1 DEF Exchange, SlaveMay, Writing
  <2>2. CASE "AW" \notin in_issue
    <3>1. swrite.beats = req.beats
      BY <1>1, <2>2 DEF Writing
    <3> QED
      BY <1>1, <3>1 DEF Exchange, SlaveMay
  <2> QED
    BY <2>1, <2>2
<1>3. /\ "W" \in h /\ h \subseteq {"AW", "W"} /\ "B" \in in_issue
      /\ in_issue \subseteq {"AW", "W", "B"}
  BY <1>2 DEF Writing
<1>4. /\ ready(h) /\ last(h, RLast) = (count = 0)
      /\ ended(h, RLast) = IF count = 0 THEN h ELSE h \ {"W"}
  BY <1>3 DEF ready, last, ended, is_last
<1>5. /\ in_issue' = in_issue \ (IF count = 0 THEN h ELSE h \ {"W"})
      /\ count' = (IF count = 0 THEN 0 ELSE count - 1) /\ saved_req' = saved_req
      /\ store' = store /\ sread' = sread /\ sw' = Append(sw, req.data)
      /\ swrite' = IF "AW" \in h THEN saved_req ELSE swrite
  BY <1>1, <1>3, <1>4 DEF Exchange, count_next, SlaveWrite, SlaveRead, axaddr
<1>6. resp'.ready /\ resp'.last = (count = 0)
  BY <1>4 DEF Exchange
<1>7. /\ req' \in Request
      /\ count # 0 => /\ req'.valid = req.valid /\ req'.is_write = req.is_write
                      /\ req'.beats = req.beats /\ Where(req') = Where(req)
  BY <1>1, <1>6, MasterHolds
<1>8. req.data \in Data /\ sw' \in Seq(Data) /\ Len(sw') = Len(sw) + 1
  BY <1>1, <1>5 DEF Request
<1>9. /\ "B" \in in_issue' /\ in_issue' \subseteq {"AW", "W", "B"}
      /\ "W" \in in_issue' <=> count # 0
      /\ swrite' = IF "AW" \in in_issue' THEN Nowhere ELSE saved_req'
  <2>1. /\ "B" \in in_issue' /\ in_issue' \subseteq {"AW", "W", "B"}
        /\ "W" \in in_issue' <=> count # 0
        /\ "AW" \in in_issue' <=> "AW" \in in_issue /\ "AW" \notin h
    BY <1>1, <1>3, <1>5
  <2> QED
    BY <1>5, <2>1 DEF Writing
<1>10. BridgeInv'
  <2>1. CASE count = 0
    <3>1. Len(sw') = saved_req'.beats /\ saved_req'.beats \in Nat \ {0}
      BY <1>1, <1>5, <1>8, <2>1
    <3>2. Writing'
      BY <1>1, <1>5, <1>9, <2>1, <3>1 DEF Writing
    <3> QED
      BY <1>1, <1>5, <1>7, <1>8, <3>2 DEF BridgeInv
  <2>2. CASE count # 0
    <3>1. /\ count' = count - 1 /\ count - 1 \in 0 .. req.beats - 1
          /\ Len(sw') = req.beats - 1 - (count - 1)
      BY <1>1, <1>5, <1>8, <2>2
    <3>2. Sending' /\ saved_req'.beats \in Nat \ {0}
      BY <1>1, <1>5, <1>7, <2>2, <3>1 DEF Sending
    <3>3. Writing'
      BY <1>1, <1>5, <1>9, <2>2, <3>2 DEF Writing
    <3> QED
      BY <1>1, <1>5, <1>7, <1>8, <3>3 DEF BridgeInv
  <2> QED
    BY <2>1, <2>2
<1>11. beatsMoved = Len(sw)
  BY <1>1 DEF beatsMoved, Moving
<1>12. /\ (beatsMoved + 1 = req.beats) = (count = 0)
       /\ beatsMoved' = IF beatsMoved + 1 = req.beats THEN 0 ELSE beatsMoved + 1
  <2>1. Moving' <=> count # 0
    BY <1>9 DEF Moving
  <2> QED
    BY <1>1, <1>5, <1>11, <2>1 DEF beatsMoved
<1>13. seen' = [seen EXCEPT ![Front!SlotOf(req, beatsMoved)] = req.data]
  <2>1. seen' = Written(store, Where(req), Append(sw, req.data))
    BY <1>1, <1>5 DEF seen
  <2>2. Front!SlotOf(req, beatsMoved) = SlotOf(req, Len(sw))
    BY <1>11 DEF Front!SlotOf, SlotOf
  <2>3. Len(sw) < req.beats
    BY <1>1
  <2> QED
    BY <1>1, <1>8, <2>1, <2>2, <2>3, WrittenBeat DEF seen
<1>14. Front!Beat
  BY <1>1, <1>6, <1>12, <1>13 DEF Front!Beat, beatsMoved, seen
<1> QED
  BY <1>10, <1>14

(* The slave acknowledges a write: it is in the memory.                    *)
LEMMA WriteDone ==
  ASSUME BridgeInv, Writing, NEW h \in SUBSET in_issue, "B" \in h, Exchange(h), Hold
  PROVE  BridgeInv' /\ Front!Pause
<1>1. swrite # Nowhere /\ Len(sw) = swrite.beats
  BY DEF Exchange, SlaveMay
<1>2. "AW" \notin in_issue /\ swrite = saved_req
  BY <1>1 DEF Writing
<1>3. "W" \notin in_issue
  <2>1. SUFFICES ASSUME Sending PROVE FALSE
    BY DEF Writing
  <2>2. saved_req.beats = req.beats /\ req.beats \in Nat
    BY <2>1, WhereType DEF Sending, BridgeInv
  <2> QED
    BY <1>1, <1>2, <2>1, <2>2 DEF Sending
<1>4. h = {"B"} /\ in_issue = {"B"}
  BY <1>2, <1>3 DEF Writing
<1>5. ~ready(h) /\ ~last(h, RLast) /\ ended(h, RLast) = {"B"}
  BY <1>4 DEF ready, last, ended
<1>6. /\ in_issue' = {} /\ saved_req' = saved_req /\ sread' = sread
      /\ store' = seen /\ swrite' = Nowhere /\ sw' = <<>>
  BY <1>2, <1>4, <1>5 DEF Exchange, SlaveWrite, SlaveRead, seen
<1>7. ~resp'.ready /\ ~resp'.last
  BY <1>5 DEF Exchange
<1>8. req' \in Request
  BY MasterHolds DEF BridgeInv
<1>9. seen \in [Slot -> Data]
  BY WrittenType DEF seen, BridgeInv
<1>10. Idle' /\ sw' \in Seq(Data)
  BY <1>6 DEF Idle, Writing
<1>11. BridgeInv'
  BY <1>6, <1>8, <1>9, <1>10 DEF BridgeInv
<1>12. beatsMoved = 0 /\ beatsMoved' = 0
  BY <1>4, <1>6 DEF beatsMoved, Moving
<1>13. seen' = seen
  <2>1. seen' = Written(seen, saved_req, <<>>)
    BY <1>6 DEF seen
  <2> QED
    BY <1>9, <2>1, NothingWritten
<1> QED
  BY <1>7, <1>11, <1>12, <1>13 DEF Front!Pause, beatsMoved, seen
-----------------------------------------------------------------------------
(* The bridge's initial states are those of the bus.                       *)
LEMMA BridgeStart == BridgeInit => BridgeInv /\ Front!Init
<1> SUFFICES ASSUME BridgeInit PROVE BridgeInv /\ Front!Init
  OBVIOUS
<1>1. /\ req \in Request /\ ~req.valid /\ resp = NoResponse /\ store \in [Slot -> Data]
      /\ in_issue = {} /\ sread = NoRead /\ swrite = Nowhere /\ sw = <<>>
  BY DEF BridgeInit, PortInit
<1>2. BridgeInv
  BY <1>1 DEF BridgeInv, Idle
<1>3. beatsMoved = 0 /\ seen = store
  BY <1>1, NothingWritten DEF beatsMoved, Moving, seen
<1> QED
  BY <1>1, <1>2, <1>3 DEF Front!Init, Front!PortInit, Front!Request, Request,
                          Front!NoResponse, NoResponse, Front!Slot, Slot, beatsMoved, seen

(* Every cycle of the bridge is one of the bus.                            *)
LEMMA BridgeStep ==
  BridgeInv /\ [BridgeNext]_bridgeVars => BridgeInv' /\ [Front!Next]_<<req, resp, beatsMoved, seen>>
<1> SUFFICES ASSUME BridgeInv, [BridgeNext]_bridgeVars
             PROVE  BridgeInv' /\ [Front!Next]_<<req, resp, beatsMoved, seen>>
  OBVIOUS
<1>1. CASE BridgeNext
  <2>1. BridgeInv' /\ (Front!Pause \/ Front!Beat)
    <3>1. CASE Take
      BY <1>1, <3>1, TakeStep DEF BridgeNext
    <3>2. CASE \E h \in SUBSET in_issue : Exchange(h)
      <4>1. PICK h \in SUBSET in_issue : Exchange(h)
        BY <3>2
      <4>2. Hold /\ in_issue # {}
        BY <1>1, <4>1 DEF BridgeNext, Exchange
      <4>3. CASE Reading
        BY <4>1, <4>2, <4>3, ReadWaits, ReadBeat
      <4>4. CASE Writing
        BY <4>1, <4>2, <4>4, WriteWaits, WriteBeat, WriteDone
      <4> QED
        BY <4>2, <4>3, <4>4 DEF BridgeInv, Idle
    <3> QED
      BY <1>1, <3>1, <3>2 DEF BridgeNext
  <2>2. Front!Hold
    BY <1>1 DEF BridgeNext, Front!Hold, Hold, Front!Ask, Ask, Front!Request, Request
  <2> QED
    BY <2>1, <2>2 DEF Front!Next
<1>2. CASE UNCHANGED bridgeVars
  <2>1. beatsMoved' = beatsMoved /\ seen' = seen
    BY <1>2 DEF bridgeVars, slaveVars, beatsMoved, Moving, seen, Written
  <2> QED
    BY <1>2, <2>1 DEF bridgeVars, slaveVars, BridgeInv, Idle, Reading, Writing, Sending
<1> QED
  BY <1>1, <1>2

(* Whatever the length of a burst and whenever the slave takes or answers: *)
(* the bridge sends exactly the beats it announced and marks the last, and *)
(* has nothing open before it starts again (CBusToAXI.sv:61-165).          *)
THEOREM BurstsAreWellFormed == BridgeSpec => []BurstsWellFormed
<1>1. BridgeInv => BurstsWellFormed
  <2> SUFFICES ASSUME BridgeInv PROVE BurstsWellFormed
    OBVIOUS
  <2>1. req.beats \in Nat \ {0} /\ (saved_req = Where(req) => saved_req.beats = req.beats)
    BY WhereType DEF BridgeInv
  <2>2. CASE Idle
    BY <2>2 DEF BurstsWellFormed, Idle
  <2>3. CASE Reading
    <3>1. /\ "W" \notin in_issue /\ in_issue # {}
          /\ sread.beats = saved_req.beats - 1 - count
          /\ saved_req.beats \in Nat \ {0} /\ count \in 0 .. saved_req.beats - 1
      BY <2>1, <2>3 DEF Reading, NoRead
    <3> QED
      BY <3>1 DEF BurstsWellFormed, is_last
  <2>4. CASE Writing
    <3>1. "R" \notin in_issue /\ in_issue # {}
      BY <2>4 DEF Writing
    <3>2. ASSUME "W" \in in_issue
          PROVE  Len(sw) < saved_req.beats /\ (is_last <=> Len(sw) + 1 = saved_req.beats)
      BY <2>1, <2>4, <3>2 DEF Writing, Sending, is_last
    <3> QED
      BY <3>1, <3>2 DEF BurstsWellFormed
  <2> QED
    BY <2>2, <2>3, <2>4 DEF BridgeInv
<1> QED
  BY <1>1, BridgeStart, BridgeStep, PTL DEF BridgeSpec

(* To its master the bridge is a cache bus, although it answers a write    *)
(* when the slave takes the data, before its acknowledgement and perhaps   *)
(* before its address: no later read can tell.  It "serves as a spec for   *)
(* cache bus" (CBusToAXI.sv:13), for bursts and memories of any size.      *)
THEOREM BridgeIsACBus == BridgeSpec => BridgeImplementsCBus
BY BridgeStart, BridgeStep, PTL DEF BridgeSpec, BridgeImplementsCBus, Front!Spec, beatsMoved, seen
=============================================================================
