--------------------------- MODULE TwiEeprom_proofs ---------------------------
(***************************************************************************)
(* Reads and writes of the memory chips, for every number of chips, size   *)
(* of chip, block and byte, room in the output ring and data, with and     *)
(* without auto-banking, and whichever transfers fail: what Write reports  *)
(* is stored, Read returns what is stored, and nothing is left over.       *)
(***************************************************************************)
EXTENDS TwiEeprom, SequenceTheorems, TLAPS

Remainders == INSTANCE RemainderTheorems

-----------------------------------------------------------------------------
(* The inductive invariant.                                                *)

\* The addresses the program may use are below this one.
Limit == IF auto_banking THEN Chips * EepromSize ELSE EepromSize

\* What a call may hold.
Calls == {NoCall}
         \cup [op : {"SetAddress"}, pc : {"put", "send"},
               address : Nat, bytes : Seq(Byte)]
         \cup [op : {"Write"}, pc : {"block", "put", "send"},
               address : Nat, data : Seq(Byte), bytes : Seq(Byte)]
         \cup [op : {"Read"}, size : Nat, data : Seq(Byte)]

\* A transfer has been prepared, and is put into the output ring or sent.
Prepared == call.op \in {"SetAddress", "Write"} /\ call.pc \in {"put", "send"}

\* The data that goes with the address in a transfer.
Data == IF call.op = "Write"
        THEN SubSeq(call.data, 1, Writable(call.address, Len(call.data)))
        ELSE <<>>

\* A call stays within the addresses there are; a transfer is for the chip of
\* the call's address, and holds what the call has for the block.
CallInv ==
  /\ call \in Calls
  /\ call.op = "SetAddress" => call.address < Limit
  /\ call.op = "Write" => call.address + Len(call.data) <= Limit
  /\ Prepared /\ call.op = "Write" => call.data # <<>>
  /\ Prepared => /\ bank = Place(call.address)[1]
                 /\ call.bytes = Header(call.address) \o Data

\* The output ring holds one transfer, while it is sent.
OutputInv == output = IF Sending THEN call.bytes ELSE <<>>

\* How much the Read that is in progress has read.
Got == IF call.op = "Read" THEN Len(call.data) ELSE 0

\* While the program knows the place it reads from: the input ring holds what
\* is stored from there on, and the chip is to send what comes after.
PlaceInv ==
  position # Nowhere =>
    /\ call.op \in {"none", "Read"}
    /\ bank = position[1]
    /\ pointer[bank] = (position[2] + Got + Len(input)) % EepromSize
    /\ \A i \in 1 .. Len(input) :
         position[2] + Got + i <= EepromSize =>
           input[i] = memory[bank][position[2] + Got + i - 1]

EepromInv == /\ TypeOK /\ CallInv /\ OutputInv /\ PlaceInv
             /\ WrittenIsStored /\ ReadIsStored

-----------------------------------------------------------------------------
(* Addresses, blocks and chips.                                            *)

LEMMA Sizes ==
  /\ BlockSize \in Nat \ {0} /\ EepromSize \in Nat \ {0} /\ ByteSize \in Nat \ {0}
  /\ EepromSize \div BlockSize \in Nat
  /\ EepromSize = BlockSize * (EepromSize \div BlockSize)
<1>1. /\ BlockSize \in Nat \ {0} /\ EepromSize \in Nat \ {0}
      /\ ByteSize \in Nat \ {0} /\ EepromSize % BlockSize = 0
  BY ChipAssumption
<1> DEFINE k == EepromSize \div BlockSize
           r == EepromSize % BlockSize
<1>2. k \in Nat /\ EepromSize = BlockSize * k + r
  BY <1>1, SMT
<1> QED
  BY <1>1, <1>2

\* A block begins at a multiple of its size, and ends within the chip.
LEMMA InBlock ==
  ASSUME NEW x \in Address
  PROVE  /\ BlockOf(x) \in Nat /\ x % BlockSize \in 0 .. BlockSize - 1
         /\ x = BlockSize * BlockOf(x) + (x % BlockSize)
         /\ BlockSize * BlockOf(x) + BlockSize <= EepromSize
<1> DEFINE q == x \div BlockSize
           r == x % BlockSize
           k == EepromSize \div BlockSize
<1>1. /\ BlockSize \in Nat \ {0} /\ k \in Nat /\ EepromSize = BlockSize * k
      /\ x \in Nat /\ x < EepromSize
  BY Sizes DEF Address
<1>2. q \in Nat /\ r \in 0 .. BlockSize - 1 /\ x = BlockSize * q + r
  BY <1>1, SMT
<1>3. BlockSize * q + BlockSize <= EepromSize
  <2> HIDE DEF q, r, k
  <2>1. BlockSize * q < BlockSize * k
    BY <1>1, <1>2
  <2>2. q < k
    BY <2>1, <1>1, <1>2
  <2>3. BlockSize * (q + 1) <= BlockSize * k
    BY <2>2, <1>1, <1>2
  <2> QED
    BY <2>3, <1>1, <1>2
<1> QED
  BY <1>2, <1>3 DEF BlockOf

\* Writing goes on within the block, and starts at the address itself.
LEMMA FollowStays ==
  ASSUME NEW x \in Address, NEW n \in Nat
  PROVE  Follow(x, n) \in Address /\ Follow(x, 0) = x
<1> DEFINE q == BlockOf(x)
           y == x + n
           r == y % BlockSize
<1>1. /\ q \in Nat /\ x = BlockSize * q + (x % BlockSize)
      /\ BlockSize * q + BlockSize <= EepromSize
      /\ BlockSize \in Nat \ {0} /\ EepromSize \in Nat \ {0}
      /\ x % BlockSize \in Nat
  BY InBlock, Sizes
<1>2. y \in Nat /\ x + 0 = x
  BY DEF Address
<1>3. r \in 0 .. BlockSize - 1
  <2> HIDE DEF y
  <2> QED
    BY <1>1, <1>2
<1>4. Follow(x, n) = q * BlockSize + r
  BY DEF Follow
<1>5. Follow(x, 0) = q * BlockSize + (x % BlockSize)
  BY <1>2 DEF Follow
<1>6. q * BlockSize = BlockSize * q /\ BlockSize * q \in Nat
  BY <1>1
<1> HIDE DEF q, y, r
<1> QED
  BY <1>1, <1>3, <1>4, <1>5, <1>6 DEF Address

\* An address of the program and the one in its chip are as far in a block.
LEMMA SameInBlock ==
  ASSUME NEW a \in Nat
  PROVE  a % EepromSize \in Address /\ (a % EepromSize) % BlockSize = a % BlockSize
<1> DEFINE p == a \div EepromSize
           x == a % EepromSize
           k == EepromSize \div BlockSize
<1>1. /\ BlockSize \in Nat \ {0} /\ k \in Nat /\ EepromSize = BlockSize * k
      /\ EepromSize \in Nat \ {0}
  BY Sizes
<1>2. p \in Nat /\ x \in 0 .. EepromSize - 1 /\ a = EepromSize * p + x
  BY <1>1, SMT
<1>3. x \in Address
  BY <1>2 DEF Address
<1> DEFINE q == BlockOf(x)
           r == x % BlockSize
<1>4. q \in Nat /\ r \in 0 .. BlockSize - 1 /\ x = BlockSize * q + r
  BY <1>3, InBlock
<1> HIDE DEF p, x, k, q, r
<1>5. EepromSize * p = BlockSize * (k * p)
  BY <1>1, <1>2
<1>6. k * p + q \in Int /\ BlockSize * (k * p + q) = BlockSize * (k * p) + BlockSize * q
  BY <1>1, <1>2, <1>4
<1>7. a = BlockSize * (k * p + q) + r
  BY <1>1, <1>2, <1>4, <1>5, <1>6
<1>8. a % BlockSize = r
  BY <1>1, <1>4, <1>6, <1>7, Remainders!RemainderIs
<1> QED
  BY <1>3, <1>8 DEF x, r

LEMMA PlaceExists ==
  ASSUME auto_banking \in BOOLEAN, bank \in Chip, NEW a \in Nat, a < Limit
  PROVE  /\ Place(a)[1] \in Chip /\ Place(a)[2] \in Address
         /\ Place(a) = <<Place(a)[1], Place(a)[2]>>
         /\ Place(a)[2] = a % EepromSize
         /\ BankFor(a) = Place(a)[1]
         /\ BankFor(a) \in Chip
<1>1. a % EepromSize \in Address
  BY SameInBlock
<1>2. CASE auto_banking
  <2> DEFINE p == a \div EepromSize
             x == a % EepromSize
  <2>1. /\ EepromSize \in Nat \ {0} /\ Chips \in Nat \ {0}
        /\ a < Chips * EepromSize
    BY <1>2, ChipAssumption DEF Limit
  <2>2. p \in Nat /\ x \in Nat /\ a = EepromSize * p + x
    BY <2>1, SMT
  <2>3. p < Chips
    <3> HIDE DEF p, x
    <3> SUFFICES ASSUME p >= Chips PROVE FALSE
      BY <2>1, <2>2
    <3>1. EepromSize * p >= EepromSize * Chips
      BY <2>1, <2>2
    <3> QED
      BY <3>1, <2>1, <2>2
  <2>4. p \in Chip
    BY <2>1, <2>2, <2>3 DEF Chip
  <2> QED
    BY <1>1, <1>2, <2>4 DEF Place, BankFor
<1>3. CASE ~auto_banking
  BY <1>1, <1>3 DEF Place, BankFor
<1> QED
  BY <1>2, <1>3

\* The addresses that follow, up to the end of the block, are in the same chip.
LEMMA PlacesInBlock ==
  ASSUME NEW a \in Nat, NEW i \in Nat, (a % BlockSize) + i < BlockSize
  PROVE  /\ Place(a + i) = <<Place(a)[1], Place(a)[2] + i>>
         /\ Place(a)[2] + i \in Address
<1> DEFINE p == a \div EepromSize
           x == a % EepromSize
<1>1. EepromSize \in Nat \ {0} /\ BlockSize \in Nat \ {0}
  BY Sizes
<1>2. p \in Nat /\ x \in 0 .. EepromSize - 1 /\ a = EepromSize * p + x
  BY <1>1, SMT
<1>3. x \in Address /\ x % BlockSize = a % BlockSize
  BY SameInBlock
<1>4. Place(a)[2] = x
  BY DEF Place
<1>5. Place(a)[1] = IF auto_banking THEN p ELSE bank
  BY DEF Place
<1>6. x + i \in 0 .. EepromSize - 1
  <2>1. /\ BlockOf(x) \in Nat /\ x = BlockSize * BlockOf(x) + (x % BlockSize)
        /\ x % BlockSize \in Nat
        /\ BlockSize * BlockOf(x) + BlockSize <= EepromSize
    BY <1>3, InBlock
  <2> DEFINE b == BlockSize * BlockOf(x)
             r == x % BlockSize
  <2>2. b \in Nat /\ r \in Nat /\ x = b + r /\ b + BlockSize <= EepromSize /\ r + i < BlockSize
    BY <2>1, <1>1, <1>3
  <2> HIDE DEF b, r, x
  <2> QED
    BY <2>2, <1>1
<1>7. (a + i) % EepromSize = x + i /\ (a + i) \div EepromSize = p
  <2> DEFINE y == x + i
  <2>1. a + i = EepromSize * p + y /\ y \in 0 .. EepromSize - 1
    <3> HIDE DEF x, p
    <3> QED
      BY <1>1, <1>2, <1>6
  <2> HIDE DEF x, p, y
  <2>2. (EepromSize * p + y) % EepromSize = y /\ (EepromSize * p + y) \div EepromSize = p
    BY <1>1, <1>2, <2>1, Remainders!Digits
  <2> QED
    BY <2>1, <2>2 DEF y
<1>8. Place(a + i) = IF auto_banking
                     THEN <<(a + i) \div EepromSize, (a + i) % EepromSize>>
                     ELSE <<bank, (a + i) % EepromSize>>
  BY DEF Place
<1> QED
  <2> HIDE DEF x, p
  <2> QED
    BY <1>4, <1>5, <1>6, <1>7, <1>8 DEF Address

\* An address fits in two bytes.
LEMMA HeaderGives ==
  ASSUME NEW a \in Nat
  PROVE  /\ Header(a) \in Seq(Byte) /\ Len(Header(a)) = 2
         /\ Header(a)[1] * ByteSize + Header(a)[2] = a % EepromSize
<1> DEFINE x == Place(a)[2]
           h == x \div ByteSize
           l == x % ByteSize
<1>1. x = a % EepromSize /\ x \in Address
  BY SameInBlock DEF Place
<1>2. /\ ByteSize \in Nat \ {0} /\ EepromSize \in Nat
      /\ EepromSize <= ByteSize * ByteSize /\ x \in Nat /\ x < EepromSize
  BY <1>1, ChipAssumption DEF Address
<1>3. h \in Nat /\ l \in 0 .. ByteSize - 1 /\ x = ByteSize * h + l
  <2> HIDE DEF x
  <2> QED
    BY <1>2, SMT
<1>4. Header(a) = <<h, l>>
  BY DEF Header
<1> HIDE DEF x, h, l
<1>5. h < ByteSize
  <2> SUFFICES ASSUME h >= ByteSize PROVE FALSE
    BY <1>2, <1>3
  <2>1. ByteSize * h >= ByteSize * ByteSize
    BY <1>2, <1>3
  <2> QED
    BY <2>1, <1>2, <1>3
<1>6. h \in Byte /\ l \in Byte
  BY <1>2, <1>3, <1>5 DEF Byte
<1>7. h * ByteSize + l = x
  BY <1>2, <1>3
<1> QED
  BY <1>1, <1>4, <1>6, <1>7

-----------------------------------------------------------------------------
(* What a chip does with a transfer.                                       *)

\* Data that ends within the block is stored from the address on, in order.
LEMMA StoredIs ==
  ASSUME NEW cells \in [Address -> Byte], NEW bytes \in Seq(Byte),
         Len(bytes) >= 2, AddressIn(bytes) \in Address,
         (AddressIn(bytes) % BlockSize) + (Len(bytes) - 2) <= BlockSize
  PROVE  /\ Stored(cells, bytes) \in [Address -> Byte]
         /\ \A x \in Address :
              Stored(cells, bytes)[x] =
                IF x \in AddressIn(bytes) .. AddressIn(bytes) + Len(bytes) - 3
                THEN bytes[x - AddressIn(bytes) + 3] ELSE cells[x]
<1> DEFINE a == AddressIn(bytes)
           m == Len(bytes) - 2
           off(x) == (x - a) % BlockSize
           In(x) == BlockOf(x) = BlockOf(a) /\ off(x) < m
<1>1. /\ BlockSize \in Nat \ {0} /\ EepromSize \in Nat \ {0}
      /\ a \in Address /\ a \in Nat /\ m \in Nat /\ Len(bytes) \in Nat
  BY Sizes, LenProperties DEF Address
<1>2. Stored(cells, bytes) =
        [x \in Address |-> IF In(x) THEN bytes[off(x) + 3] ELSE cells[x]]
  BY DEF Stored
<1>3. ASSUME NEW x \in Address
      PROVE  /\ In(x) <=> x \in a .. a + m - 1
             /\ x \in a .. a + m - 1 => off(x) = x - a
  <2> DEFINE qa == BlockOf(a)
             ra == a % BlockSize
             qx == BlockOf(x)
             rx == x % BlockSize
             o == off(x)
  <2>1. /\ x \in Nat /\ qa \in Nat /\ qx \in Nat
        /\ ra \in 0 .. BlockSize - 1 /\ rx \in 0 .. BlockSize - 1
        /\ a = BlockSize * qa + ra /\ x = BlockSize * qx + rx
    <3>1. x \in Nat
      BY DEF Address
    <3>2. qx \in Nat /\ rx \in 0 .. BlockSize - 1 /\ x = BlockSize * qx + rx
      BY InBlock
    <3> HIDE DEF qx, rx
    <3>3. qa \in Nat /\ ra \in 0 .. BlockSize - 1 /\ a = BlockSize * qa + ra
      <4> HIDE DEF a
      <4> QED
        BY <1>1, InBlock
    <3> QED
      BY <3>1, <3>2, <3>3
  <2>2. ra + m <= BlockSize
    OBVIOUS
  <2>3. In(x) <=> qx = qa /\ o < m
    OBVIOUS
  <2> HIDE DEF a, m, In, qa, ra, qx, rx
  <2>4. CASE qx = qa /\ x >= a
    <3>1. x - a \in 0 .. BlockSize - 1
      BY <2>1, <2>4, <1>1
    <3>2. o = x - a
      BY <3>1, <1>1
    <3> QED
      BY <3>2, <2>1, <2>3, <2>4, <1>1
  <2>5. CASE qx = qa /\ x < a
    <3>1. x - a + BlockSize \in 0 .. BlockSize - 1
      BY <2>1, <2>5, <1>1
    <3> DEFINE e == x - a + BlockSize
               z == -1
    <3>2. e \in 0 .. BlockSize - 1 /\ z \in Int
      BY <3>1
    <3>3. BlockSize * z + e = x - a
      BY <1>1, <2>1
    <3>4. o = e
      <4> HIDE DEF e, z
      <4>1. (BlockSize * z + e) % BlockSize = e
        BY <3>2, <1>1, Remainders!RemainderIs
      <4> QED
        BY <4>1, <3>3
    <3>5. x - a = rx - ra
      BY <2>1, <2>5, <1>1
    <3> QED
      BY <3>4, <3>5, <2>1, <2>2, <2>3, <2>5, <1>1
  <2>6. CASE qx # qa
    <3> SUFFICES x \notin a .. a + m - 1
      BY <2>3, <2>6
    <3>1. CASE qx < qa
      <4>1. BlockSize * (qx + 1) <= BlockSize * qa
        BY <3>1, <2>1, <1>1
      <4> QED
        BY <4>1, <2>1, <1>1
    <3>2. CASE qx > qa
      <4>1. BlockSize * (qa + 1) <= BlockSize * qx
        BY <3>2, <2>1, <1>1
      <4> QED
        BY <4>1, <2>1, <2>2, <1>1
    <3> QED
      BY <3>1, <3>2, <2>1, <2>6
  <2> QED
    BY <2>1, <2>4, <2>5, <2>6, <1>1
<1>4. ASSUME NEW x \in Address
      PROVE  Stored(cells, bytes)[x] =
               IF x \in a .. a + m - 1 THEN bytes[x - a + 3] ELSE cells[x]
  <2>1. Stored(cells, bytes)[x] = IF In(x) THEN bytes[off(x) + 3] ELSE cells[x]
    BY <1>2
  <2> HIDE DEF In, off
  <2> QED
    BY <1>3, <2>1
<1>5. \A x \in Address : Stored(cells, bytes)[x] \in Byte
  <2> SUFFICES ASSUME NEW x \in Address PROVE Stored(cells, bytes)[x] \in Byte
    OBVIOUS
  <2>1. CASE x \in a .. a + m - 1
    <3>1. x - a + 3 \in 1 .. Len(bytes)
      <4> HIDE DEF a
      <4> QED
        BY <2>1, <1>1 DEF Address
    <3> QED
      BY <3>1, <2>1, <1>4, ElementOfSeq
  <2>2. CASE x \notin a .. a + m - 1
    BY <2>2, <1>4
  <2> QED
    BY <2>1, <2>2
<1>6. a + m - 1 = a + Len(bytes) - 3
  BY <1>1
<1> HIDE DEF In, off, m, a
<1> QED
  <2>1. Stored(cells, bytes) \in [Address -> Byte]
    BY <1>2, <1>5
  <2> QED
    BY <2>1, <1>4, <1>6 DEF a

-----------------------------------------------------------------------------
(* What a call puts in a transfer.                                         *)

LEMMA WritableFits ==
  ASSUME NEW a \in Nat, NEW n \in Nat \ {0}
  PROVE  /\ Writable(a, n) \in 1 .. n
         /\ (a % BlockSize) + Writable(a, n) <= BlockSize
<1> DEFINE r == a % BlockSize
<1>1. BlockSize \in Nat \ {0} /\ r \in 0 .. BlockSize - 1
  BY Sizes
<1>2. Writable(a, n) = IF BlockSize - r > n THEN n ELSE BlockSize - r
  BY DEF Writable
<1> HIDE DEF r
<1>3. /\ Writable(a, n) \in 1 .. n /\ r + Writable(a, n) <= BlockSize
  BY <1>1, <1>2
<1> QED
  BY <1>3 DEF r

LEMMA FirstOf ==
  ASSUME NEW S, NEW s \in Seq(S), NEW n \in 0 .. Len(s)
  PROVE  /\ SubSeq(s, 1, n) \in Seq(S) /\ Len(SubSeq(s, 1, n)) = n
         /\ \A i \in 1 .. n : SubSeq(s, 1, n)[i] = s[i]
<1>1. Len(s) \in Nat /\ n \in Nat
  BY LenProperties
<1>2. \A i \in 1 .. n : s[i] \in S
  BY <1>1, ElementOfSeq
<1>3. /\ SubSeq(s, 1, n) \in Seq(S)
      /\ Len(SubSeq(s, 1, n)) = IF 1 <= n THEN n - 1 + 1 ELSE 0
      /\ \A i \in 1 .. n - 1 + 1 : SubSeq(s, 1, n)[i] = s[1 + i - 1]
  BY <1>1, <1>2, SubSeqProperties
<1> QED
  BY <1>1, <1>3

LEMMA RestOf ==
  ASSUME NEW S, NEW s \in Seq(S), NEW n \in 0 .. Len(s)
  PROVE  /\ SubSeq(s, n + 1, Len(s)) \in Seq(S)
         /\ Len(SubSeq(s, n + 1, Len(s))) = Len(s) - n
         /\ \A i \in 1 .. Len(s) - n : SubSeq(s, n + 1, Len(s))[i] = s[n + i]
<1> DEFINE m == n + 1
           k == Len(s)
<1>1. k \in Nat /\ n \in Nat /\ n <= k /\ m \in Int /\ m = n + 1
  BY LenProperties
<1>2. \A i \in m .. k : s[i] \in S
  BY <1>1, ElementOfSeq
<1> HIDE DEF m, k
<1>3. /\ SubSeq(s, m, k) \in Seq(S)
      /\ Len(SubSeq(s, m, k)) = IF m <= k THEN k - m + 1 ELSE 0
      /\ \A i \in 1 .. k - m + 1 : SubSeq(s, m, k)[i] = s[m + i - 1]
  BY <1>1, <1>2, SubSeqProperties
<1>4. \A i \in 1 .. k - n : i \in 1 .. k - m + 1 /\ m + i - 1 = n + i
  BY <1>1
<1>5. SubSeq(s, m, k) \in Seq(S) /\ Len(SubSeq(s, m, k)) = k - n
      /\ \A i \in 1 .. k - n : SubSeq(s, m, k)[i] = s[n + i]
  BY <1>1, <1>3, <1>4
<1> QED
  BY <1>5 DEF m, k

\* A prepared transfer has the address, then the data for the block.
LEMMA TransferIs ==
  ASSUME TypeOK, CallInv, Prepared
  PROVE  /\ call.address \in Nat /\ call.address < Limit
         /\ call.bytes \in Seq(Byte) /\ Len(call.bytes) = Payload + 2
         /\ Payload \in Nat
         /\ (call.address % BlockSize) + Payload <= BlockSize
         /\ call.bytes[1] * ByteSize + call.bytes[2] = call.address % EepromSize
         /\ call.op = "Write" =>
              /\ call.data \in Seq(Byte)
              /\ Payload \in 1 .. Len(call.data)
              /\ \A i \in 1 .. Payload : call.bytes[i + 2] = call.data[i]
         /\ call.op = "SetAddress" => Payload = 0
<1> DEFINE a == call.address
           header == Header(a)
<1>1. /\ a \in Nat /\ call.bytes = header \o Data
      /\ call.bytes \in Seq(Byte)
  BY DEF CallInv, Calls, NoCall, Prepared
<1>2. /\ header \in Seq(Byte) /\ Len(header) = 2
      /\ header[1] * ByteSize + header[2] = a % EepromSize
  BY <1>1, HeaderGives
<1>3. (a % BlockSize) \in 0 .. BlockSize - 1 /\ BlockSize \in Nat \ {0}
  BY <1>1, Sizes
<1>4. ASSUME Data \in Seq(Byte)
      PROVE  /\ Len(call.bytes) = Len(Data) + 2 /\ Payload = Len(Data)
             /\ call.bytes[1] = header[1] /\ call.bytes[2] = header[2]
             /\ \A i \in 1 .. Payload : call.bytes[i + 2] = Data[i]
  <2> HIDE DEF header
  <2>1. /\ Len(header \o Data) = Len(header) + Len(Data)
        /\ \A i \in 1 .. Len(header) + Len(Data) :
             (header \o Data)[i] = IF i <= Len(header) THEN header[i]
                                   ELSE Data[i - Len(header)]
    BY <1>2, <1>4, ConcatProperties
  <2>2. Len(Data) \in Nat
    BY <1>4, LenProperties
  <2>3. Len(call.bytes) = Len(Data) + 2 /\ Payload = Len(Data)
    BY <1>1, <1>2, <2>1, <2>2 DEF Payload
  <2> QED
    BY <1>1, <1>2, <2>1, <2>2, <2>3
<1>5. CASE call.op = "SetAddress"
  <2>1. Data = <<>> /\ a < Limit
    BY <1>5 DEF Data, CallInv
  <2>2. Data \in Seq(Byte) /\ Len(Data) = 0
    BY <2>1, EmptySeq
  <2>3. Payload = 0
    BY <2>2, <1>4
  <2> QED
    BY <1>1, <1>2, <1>3, <1>4, <1>5, <2>1, <2>2, <2>3
<1>6. CASE call.op = "Write"
  <2> DEFINE m == Writable(a, Len(call.data))
  <2>1. /\ call.data \in Seq(Byte) /\ Len(call.data) \in Nat \ {0}
        /\ a + Len(call.data) <= Limit
    <3>1. call.data \in Seq(Byte) /\ call.data # <<>>
      BY <1>6 DEF CallInv, Calls, NoCall, Prepared
    <3> QED
      BY <1>6, <3>1, EmptySeq DEF CallInv
  <2>2. m \in 1 .. Len(call.data) /\ (a % BlockSize) + m <= BlockSize
    BY <1>1, <2>1, WritableFits
  <2>3. Data = SubSeq(call.data, 1, m)
    BY <1>6 DEF Data
  <2> HIDE DEF m
  <2>4. /\ Data \in Seq(Byte) /\ Len(Data) = m
        /\ \A i \in 1 .. m : Data[i] = call.data[i]
    BY <2>1, <2>2, <2>3, FirstOf
  <2>5. a < Limit
    <3>1. Limit \in Nat
      BY ChipAssumption DEF Limit
    <3> QED
      BY <1>1, <2>1, <3>1
  <2> QED
    BY <1>1, <1>2, <1>4, <1>6, <2>1, <2>2, <2>4, <2>5
<1> QED
  BY <1>5, <1>6 DEF Prepared

\* What a chip makes of the first n bytes of a prepared transfer: the data it
\* has taken, at the places of the call.
Here == Place(call.address)[2]

LEMMA TakenIs ==
  ASSUME TypeOK, CallInv, Prepared, NEW n \in 2 .. Len(call.bytes),
         NEW cells \in [Address -> Byte]
  PROVE  /\ AddressIn(SubSeq(call.bytes, 1, n)) = Here
         /\ Follow(Here, n - 2) \in Address
         /\ Stored(cells, SubSeq(call.bytes, 1, n)) \in [Address -> Byte]
         /\ \A x \in Address :
              Stored(cells, SubSeq(call.bytes, 1, n))[x] =
                IF x \in Here .. Here + n - 3
                THEN call.data[x - Here + 1] ELSE cells[x]
<1> DEFINE a == call.address
           taken == SubSeq(call.bytes, 1, n)
           l == Here
<1>1. /\ a \in Nat /\ call.bytes \in Seq(Byte)
      /\ Len(call.bytes) = Payload + 2 /\ Payload \in Nat
      /\ (a % BlockSize) + Payload <= BlockSize
      /\ call.bytes[1] * ByteSize + call.bytes[2] = a % EepromSize
  BY TransferIs
<1>2. n \in 0 .. Len(call.bytes) /\ n \in Nat /\ n >= 2 /\ n - 2 \in Nat
  BY <1>1
<1>3. /\ taken \in Seq(Byte) /\ Len(taken) = n
      /\ \A i \in 1 .. n : taken[i] = call.bytes[i]
  BY <1>1, <1>2, FirstOf
<1>4. /\ l = a % EepromSize /\ l \in Address /\ l % BlockSize = a % BlockSize
  BY <1>1, SameInBlock DEF Place, Here
<1>5. AddressIn(taken) = l
  <2>1. taken[1] = call.bytes[1] /\ taken[2] = call.bytes[2]
    BY <1>2, <1>3
  <2>2. AddressIn(taken) = (a % EepromSize) % EepromSize
    <3> HIDE DEF taken, a
    <3> QED
      BY <1>1, <2>1 DEF AddressIn
  <2>3. l \in 0 .. EepromSize - 1 /\ EepromSize \in Nat \ {0}
    BY <1>4, Sizes DEF Address
  <2>4. l % EepromSize = l
    <3> HIDE DEF l
    <3> QED
      BY <2>3
  <2> QED
    BY <2>2, <2>4, <1>4
<1>6. Follow(l, n - 2) \in Address
  <2> DEFINE k == n - 2
  <2>1. k \in Nat
    BY <1>2
  <2> HIDE DEF k, l
  <2>2. Follow(l, k) \in Address
    BY <2>1, <1>4, FollowStays
  <2> QED
    BY <2>2 DEF k
<1>7. (l % BlockSize) + (n - 2) <= BlockSize
  <2>1. a % BlockSize \in Nat /\ BlockSize \in Nat
    BY <1>1, Sizes
  <2> HIDE DEF a, l
  <2> QED
    BY <1>1, <1>2, <1>4, <2>1
<1>8. /\ Stored(cells, taken) \in [Address -> Byte]
      /\ \A x \in Address :
           Stored(cells, taken)[x] = IF x \in l .. l + n - 3
                                     THEN taken[x - l + 3] ELSE cells[x]
  <2> HIDE DEF taken, l
  <2> QED
    BY <1>2, <1>3, <1>4, <1>5, <1>7, StoredIs
<1>9. ASSUME NEW x \in Address, x \in l .. l + n - 3
      PROVE  taken[x - l + 3] = call.data[x - l + 1]
  <2>1. l \in Nat /\ x \in Nat
    BY <1>4 DEF Address
  <2> DEFINE i == x - l + 1
  <2>2. /\ i \in 1 .. Payload /\ i + 2 \in 1 .. n /\ x - l + 3 = i + 2
    <3> HIDE DEF l
    <3> QED
      BY <1>1, <1>2, <1>9, <2>1
  <2>3. call.op = "Write"
    <3>1. Payload # 0
      BY <2>2
    <3> QED
      BY <3>1, TransferIs DEF Prepared
  <2>4. call.bytes[i + 2] = call.data[i]
    BY <2>2, <2>3, TransferIs
  <2> HIDE DEF taken, l
  <2> QED
    BY <1>3, <2>2, <2>4
<1> HIDE DEF taken
<1> QED
  <2>1. \A x \in Address :
          Stored(cells, taken)[x] = IF x \in l .. l + n - 3
                                    THEN call.data[x - l + 1] ELSE cells[x]
    <3> HIDE DEF l
    <3> QED
      BY <1>8, <1>9
  <2> QED
    BY <1>5, <1>6, <1>8, <2>1 DEF taken

\* The places of a transfer's data are those from the call's address on, in
\* one chip.
LEMMA PlacesOfTransfer ==
  ASSUME TypeOK, CallInv, Prepared
  PROVE  /\ bank \in Chip /\ Here \in Address
         /\ Place(call.address) = <<bank, Here>>
         /\ \A i \in 1 .. Payload : PlaceOf(i) = <<bank, Here + i - 1>>
         /\ \A i \in 1 .. Payload : Here + i - 1 \in Address
<1> DEFINE a == call.address
<1>1. /\ a \in Nat /\ a < Limit /\ Payload \in Nat
      /\ (a % BlockSize) + Payload <= BlockSize
  BY TransferIs
<1>2. /\ Place(a)[1] \in Chip /\ Here \in Address /\ Place(a) = <<Place(a)[1], Here>>
  BY <1>1, PlaceExists DEF TypeOK, Here
<1>3. Place(a)[1] = bank
  BY DEF CallInv
<1>4. ASSUME NEW i \in 1 .. Payload
      PROVE  PlaceOf(i) = <<bank, Here + i - 1>> /\ Here + i - 1 \in Address
  <2> DEFINE j == i - 1
             r == a % BlockSize
  <2>1. /\ BlockSize \in Nat \ {0} /\ r \in Nat /\ Here \in Nat
        /\ r + Payload <= BlockSize
    BY <1>1, <1>2, Sizes DEF Address
  <2>2. j \in Nat /\ r + j < BlockSize /\ a + i - 1 = a + j /\ Here + i - 1 = Here + j
    <3> HIDE DEF r, a
    <3> QED
      BY <1>1, <2>1
  <2> HIDE DEF j
  <2>3. Place(a + j) = <<Place(a)[1], Place(a)[2] + j>> /\ Place(a)[2] + j \in Address
    BY <1>1, <2>2, PlacesInBlock
  <2> QED
    BY <1>3, <2>2, <2>3 DEF PlaceOf, Here
<1> QED
  BY <1>2, <1>3, <1>4

\* The byte of a transfer that is for a place, if there is one.
LEMMA KnownPlaces ==
  ASSUME TypeOK, CallInv, Prepared, NEW c \in Chip, NEW x \in Address
  PROVE  LET in == \E i \in 1 .. Payload : PlaceOf(i) = <<c, x>>
             at == CHOOSE i \in 1 .. Payload : PlaceOf(i) = <<c, x>>
         IN  /\ in <=> c = bank /\ x \in Here .. Here + Payload - 1
             /\ in => at = x - Here + 1
<1>1. /\ bank \in Chip /\ Here \in Nat /\ x \in Nat /\ Payload \in Nat
      /\ \A i \in 1 .. Payload : PlaceOf(i) = <<bank, Here + i - 1>>
  BY PlacesOfTransfer, TransferIs DEF Address
<1>2. ASSUME NEW i \in 1 .. Payload
      PROVE  PlaceOf(i) = <<c, x>> <=> c = bank /\ i = x - Here + 1
  BY <1>1
<1>3. (x - Here + 1 \in 1 .. Payload) <=> x \in Here .. Here + Payload - 1
  BY <1>1
<1> QED
  BY <1>1, <1>2, <1>3

-----------------------------------------------------------------------------
(* The invariant, one call after the other.                                *)

LEMMA InitKeeps == ASSUME Init PROVE EepromInv
<1>1. 0 \in Chip /\ 0 \in Address /\ 0 \in Byte
  BY ChipAssumption DEF Chip, Address, Byte
<1>2. /\ memory \in [Chip -> [Address -> Byte]]
      /\ pointer \in [Chip -> Address]
      /\ known \in [Chip -> [Address -> Byte \cup {Unknown}]]
  BY <1>1 DEF Init
<1>3. <<>> \in Seq(Byte) /\ Len(<<>>) = 0
  BY EmptySeq
<1>4. TypeOK
  BY <1>1, <1>2, <1>3, ChipAssumption, OutputAssumption DEF Init, TypeOK
<1>5. call.op = "none" /\ call = NoCall /\ position = Nowhere
      /\ output = <<>> /\ known = memory
  BY DEF Init, NoCall
<1>6. CallInv /\ OutputInv /\ PlaceInv /\ ReadIsStored /\ WrittenIsStored
  BY <1>5 DEF CallInv, Calls, Prepared, OutputInv, Sending, PlaceInv, ReadIsStored,
     WrittenIsStored
<1> QED
  BY <1>4, <1>6 DEF EepromInv

\* A step that leaves the chips and what is known of them.
LEMMA SameChips ==
  ASSUME EepromInv, UNCHANGED <<memory, known>>
  PROVE  WrittenIsStored'
BY DEF EepromInv, WrittenIsStored

\* The program reads from no known place during other calls than Read.
LEMMA NoPlace ==
  ASSUME EepromInv, call.op \notin {"none", "Read"}
  PROVE  position = Nowhere
BY DEF EepromInv, PlaceInv

LEMMA SetBankKeeps ==
  ASSUME EepromInv, NEW b \in Chip, SetBank(b) PROVE EepromInv'
<1>1. /\ call = NoCall /\ call' = call /\ output' = output /\ position' = Nowhere
      /\ bank' = b
      /\ UNCHANGED <<auto_banking, memory, pointer, input, stale, known>>
  BY DEF SetBank
<1>2. TypeOK'
  BY <1>1 DEF EepromInv, TypeOK
<1>3. call'.op = "none" /\ call.op = "none"
  BY <1>1 DEF NoCall
<1>4. CallInv' /\ OutputInv' /\ PlaceInv' /\ ReadIsStored'
  BY <1>1, <1>3 DEF EepromInv, CallInv, Calls, Prepared, OutputInv, Sending,
     PlaceInv, ReadIsStored
<1> QED
  BY <1>1, <1>2, <1>4, SameChips DEF EepromInv

LEMMA AddressesFit ==
  ASSUME EepromInv, NEW n \in Nat, NEW a \in Addresses(n)
  PROVE  a \in Nat /\ a + n <= Limit
BY ProgramAssumption DEF Addresses, Limit

LEMMA SetAddressKeeps ==
  ASSUME EepromInv, NEW a \in Addresses(1), SetAddressCall(a)
  PROVE  EepromInv'
<1>1. /\ call = NoCall /\ bank' = BankFor(a) /\ position' = Nowhere
      /\ call' = [op |-> "SetAddress", pc |-> "put", address |-> a,
                  bytes |-> Header(a)]
      /\ UNCHANGED <<auto_banking, memory, pointer, input, output, stale, known>>
  BY DEF SetAddressCall
<1>2. a \in Nat /\ a < Limit /\ auto_banking \in BOOLEAN /\ bank \in Chip
  <2>1. a \in Nat /\ a + 1 <= Limit
    BY AddressesFit
  <2>2. Limit \in Nat
    BY ChipAssumption DEF Limit
  <2> QED
    BY <2>1, <2>2 DEF EepromInv, TypeOK
<1>3. bank' \in Chip
  BY <1>1, <1>2, PlaceExists
<1>4. TypeOK'
  BY <1>1, <1>3 DEF EepromInv, TypeOK
<1>5. /\ call'.op = "SetAddress" /\ call'.pc = "put" /\ call'.address = a
      /\ call'.bytes = Header(a)
  BY <1>1
<1>6. Header(a) \in Seq(Byte)
  BY <1>2, HeaderGives
<1>7. call' \in Calls
  BY <1>1, <1>2, <1>6 DEF Calls
<1>8. Place(a)'[1] = bank' /\ Header(a)' = Header(a) /\ Limit' = Limit
  BY <1>1 DEF Place, BankFor, Header, Limit
<1>9. Data' = <<>> /\ Header(a) \o <<>> = Header(a)
  BY <1>5, <1>6, ConcatEmptySeq DEF Data
<1>10. CallInv'
  BY <1>2, <1>5, <1>7, <1>8, <1>9 DEF CallInv, Prepared
<1>11. OutputInv' /\ PlaceInv' /\ ReadIsStored'
  BY <1>1, <1>5 DEF EepromInv, OutputInv, Sending, PlaceInv, ReadIsStored, NoCall
<1> QED
  BY <1>1, <1>4, <1>10, <1>11, SameChips DEF EepromInv

LEMMA WriteKeeps ==
  ASSUME EepromInv, NEW data \in Texts, NEW a \in Addresses(Len(data)),
         WriteCall(a, data)
  PROVE  EepromInv'
<1>1. /\ call = NoCall /\ position' = Nowhere
      /\ call' = [op |-> "Write", pc |-> "block", address |-> a, data |-> data,
                  bytes |-> <<>>]
      /\ UNCHANGED <<auto_banking, bank, memory, pointer, input, output, stale,
                     known>>
  BY DEF WriteCall
<1>2. data \in Seq(Byte) /\ Len(data) \in Nat
  BY ProgramAssumption, LenProperties
<1>3. a \in Nat /\ a + Len(data) <= Limit
  BY <1>2, AddressesFit
<1>4. <<>> \in Seq(Byte)
  BY EmptySeq
<1>5. call' \in Calls
  BY <1>1, <1>2, <1>3, <1>4 DEF Calls
<1>6. /\ call'.op = "Write" /\ call'.pc = "block" /\ call'.address = a
      /\ call'.data = data /\ Limit' = Limit
  BY <1>1 DEF Limit
<1>7. TypeOK'
  BY <1>1 DEF EepromInv, TypeOK
<1>8. CallInv'
  BY <1>3, <1>5, <1>6 DEF CallInv, Prepared
<1>9. OutputInv' /\ PlaceInv' /\ ReadIsStored'
  BY <1>1, <1>6 DEF EepromInv, OutputInv, Sending, PlaceInv, ReadIsStored, NoCall
<1> QED
  BY <1>1, <1>7, <1>8, <1>9, SameChips DEF EepromInv

LEMMA NextBlockKeeps == ASSUME EepromInv, NextBlock PROVE EepromInv'
<1>1. /\ call.op = "Write" /\ call.pc = "block"
      /\ UNCHANGED <<auto_banking, memory, pointer, input, output, stale, known,
                     position>>
  BY DEF NextBlock
<1>2. position = Nowhere /\ position' = Nowhere
  BY <1>1, NoPlace
<1> DEFINE a == call.address
<1>3. /\ a \in Nat /\ call.data \in Seq(Byte) /\ Len(call.data) \in Nat
      /\ a + Len(call.data) <= Limit /\ call \in Calls
      /\ auto_banking \in BOOLEAN /\ bank \in Chip
  <2>1. call \in [op : {"Write"}, pc : {"block", "put", "send"},
                  address : Nat, data : Seq(Byte), bytes : Seq(Byte)]
    BY <1>1 DEF EepromInv, CallInv, Calls, NoCall
  <2> QED
    BY <1>1, <2>1, LenProperties DEF EepromInv, CallInv, TypeOK
<1>4. output = <<>>
  BY <1>1 DEF EepromInv, OutputInv, Sending
<1>5. CASE call.data = <<>>
  <2>1. call' = NoCall /\ bank' = bank
    BY <1>5 DEF NextBlock
  <2>2. TypeOK'
    BY <1>1, <2>1 DEF EepromInv, TypeOK
  <2>3. call'.op = "none" /\ call' \in Calls
    BY <2>1 DEF NoCall, Calls
  <2>4. CallInv' /\ OutputInv' /\ PlaceInv' /\ ReadIsStored'
    BY <1>1, <1>2, <1>4, <2>3 DEF CallInv, Prepared, OutputInv, Sending, PlaceInv,
       ReadIsStored
  <2> QED
    BY <1>1, <2>2, <2>4, SameChips DEF EepromInv
<1>6. CASE call.data # <<>>
  <2> DEFINE first == SubSeq(call.data, 1, Writable(a, Len(call.data)))
             bytes == Header(a) \o first
  <2>1. /\ bank' = BankFor(a)
        /\ call' = [call EXCEPT !.pc = "put", !.bytes = bytes]
    BY <1>6 DEF NextBlock
  <2>2. Len(call.data) \in Nat \ {0}
    BY <1>3, <1>6, EmptySeq
  <2>3. a < Limit
    <3>1. Limit \in Nat
      BY ChipAssumption DEF Limit
    <3> QED
      BY <1>3, <2>2, <3>1
  <2>4. bank' \in Chip
    BY <1>3, <2>1, <2>3, PlaceExists
  <2>5. TypeOK'
    BY <1>1, <2>4 DEF EepromInv, TypeOK
  <2>6. bytes \in Seq(Byte)
    <3> DEFINE n == Writable(a, Len(call.data))
    <3>1. n \in 0 .. Len(call.data)
      <4> DEFINE len == Len(call.data)
      <4>1. a \in Nat /\ len \in Nat \ {0}
        BY <1>3, <2>2
      <4> HIDE DEF a, len
      <4>2. Writable(a, len) \in 1 .. len
        BY <4>1, WritableFits
      <4> QED
        BY <4>1, <4>2 DEF len
    <3> HIDE DEF n
    <3>2. SubSeq(call.data, 1, n) \in Seq(Byte)
      BY <1>3, <3>1, FirstOf
    <3>3. Header(a) \in Seq(Byte) /\ first \in Seq(Byte)
      BY <1>3, <3>2, HeaderGives DEF n
    <3> HIDE DEF first
    <3> QED
      BY <3>3, ConcatProperties
  <2> HIDE DEF bytes
  <2>7. /\ call' \in Calls /\ call'.op = "Write" /\ call'.pc = "put"
        /\ call'.address = a /\ call'.data = call.data /\ call'.bytes = bytes
    <3>1. call \in [op : {"Write"}, pc : {"block", "put", "send"},
                    address : Nat, data : Seq(Byte), bytes : Seq(Byte)]
      BY <1>1, <1>3 DEF Calls, NoCall
    <3>2. call' \in [op : {"Write"}, pc : {"block", "put", "send"},
                     address : Nat, data : Seq(Byte), bytes : Seq(Byte)]
      BY <2>1, <2>6, <3>1
    <3> QED
      BY <1>1, <2>1, <3>1, <3>2 DEF Calls
  <2>8. Place(a)'[1] = bank' /\ Header(a)' = Header(a) /\ Limit' = Limit
    BY <1>1, <2>1 DEF Place, BankFor, Header, Limit
  <2>9. Data' = first
    BY <2>7 DEF Data, Writable
  <2>10. CallInv'
    BY <1>3, <1>6, <2>7, <2>8, <2>9 DEF CallInv, Prepared, bytes
  <2>11. OutputInv' /\ PlaceInv' /\ ReadIsStored'
    BY <1>1, <1>2, <1>4, <2>7 DEF OutputInv, Sending, PlaceInv, ReadIsStored
  <2> QED
    BY <1>1, <2>5, <2>10, <2>11, SameChips DEF EepromInv
<1> QED
  BY <1>5, <1>6

LEMMA PutBytesKeeps == ASSUME EepromInv, PutBytes PROVE EepromInv'
<1>1. /\ call.op \in {"SetAddress", "Write"} /\ call.pc = "put"
      /\ OutputRoom - Len(output) >= Len(call.bytes)
      /\ output' = output \o call.bytes /\ call' = [call EXCEPT !.pc = "send"]
      /\ UNCHANGED <<auto_banking, bank, memory, pointer, input, stale, known,
                     position>>
  BY DEF PutBytes
<1>2. position = Nowhere /\ position' = Nowhere
  BY <1>1, NoPlace
<1>3. output = <<>> /\ Len(output) = 0
  BY <1>1, EmptySeq DEF EepromInv, OutputInv, Sending
<1>4. /\ call' \in Calls /\ call'.op = call.op /\ call'.pc = "send"
      /\ call'.address = call.address /\ call'.bytes = call.bytes
      /\ call.op = "Write" => call'.data = call.data
      /\ call.bytes \in Seq(Byte)
  BY <1>1 DEF EepromInv, CallInv, Calls, NoCall
<1>5. output' = call.bytes /\ Len(call.bytes) \in Nat
  BY <1>1, <1>3, <1>4, ConcatEmptySeq, LenProperties
<1>6. TypeOK'
  BY <1>1, <1>3, <1>4, <1>5, OutputAssumption DEF EepromInv, TypeOK
<1>7. /\ Place(call.address)' = Place(call.address)
      /\ Header(call.address)' = Header(call.address) /\ Limit' = Limit
      /\ Data' = Data
  BY <1>1, <1>4 DEF Place, Header, Limit, Data, Writable
<1>8. Prepared
  BY <1>1 DEF Prepared
<1>9. CallInv'
  BY <1>1, <1>4, <1>7, <1>8 DEF EepromInv, CallInv, Prepared, Place, Header
<1>10. OutputInv' /\ PlaceInv' /\ ReadIsStored'
  BY <1>1, <1>2, <1>4, <1>5 DEF OutputInv, Sending, PlaceInv, ReadIsStored
<1> QED
  BY <1>1, <1>6, <1>9, <1>10, SameChips DEF EepromInv

\* What the chip of the call is sent is the transfer that was prepared.
LEMMA SentIsPrepared ==
  ASSUME EepromInv, Sending
  PROVE  /\ Prepared /\ TypeOK /\ CallInv
         /\ output = call.bytes /\ position = Nowhere
         /\ Payload + 2 = Len(call.bytes) /\ Payload \in Nat
         /\ Len(call.bytes) \in 2 .. Len(call.bytes)
         /\ SubSeq(call.bytes, 1, Len(call.bytes)) = call.bytes
<1>1. Prepared /\ TypeOK /\ CallInv /\ output = call.bytes
  BY DEF EepromInv, Sending, Prepared, OutputInv
<1>2. position = Nowhere
  BY NoPlace DEF Sending
<1>3. /\ call.bytes \in Seq(Byte) /\ Len(call.bytes) = Payload + 2
      /\ Payload \in Nat
  BY <1>1, TransferIs
<1>4. SubSeq(call.bytes, 1, Len(call.bytes)) = call.bytes
  BY <1>3, SubSeqFull
<1> QED
  BY <1>1, <1>2, <1>3, <1>4

\* The chip takes the whole transfer.
LEMMA AllTaken ==
  ASSUME EepromInv, Sending, ChipTakes(bank, output)
  PROVE  /\ memory' \in [Chip -> [Address -> Byte]]
         /\ pointer' \in [Chip -> Address]
         /\ pointer'[bank] = Follow(Here, Payload)
         /\ \A c \in Chip : \A x \in Address :
              memory'[c][x] = IF c = bank /\ x \in Here .. Here + Payload - 1
                              THEN call.data[x - Here + 1] ELSE memory[c][x]
<1> DEFINE n == Len(call.bytes)
           cells == memory[bank]
           new == Stored(cells, call.bytes)
<1>1. /\ TypeOK /\ CallInv /\ Prepared
      /\ output = call.bytes /\ n \in 2 .. Len(call.bytes)
      /\ SubSeq(call.bytes, 1, n) = call.bytes
      /\ n - 2 = Payload /\ Payload \in Nat /\ n = Payload + 2
  BY SentIsPrepared
<1>2. bank \in Chip /\ Here \in Address
  BY <1>1, PlacesOfTransfer
<1>3. cells \in [Address -> Byte]
  BY <1>1, <1>2 DEF TypeOK
<1>4. /\ AddressIn(call.bytes) = Here
      /\ Follow(Here, Payload) \in Address
      /\ new \in [Address -> Byte]
      /\ \A x \in Address :
           new[x] = IF x \in Here .. Here + n - 3
                    THEN call.data[x - Here + 1] ELSE cells[x]
  <2> HIDE DEF n, cells
  <2>1. /\ AddressIn(SubSeq(call.bytes, 1, n)) = Here
        /\ Follow(Here, n - 2) \in Address
        /\ Stored(cells, SubSeq(call.bytes, 1, n)) \in [Address -> Byte]
        /\ \A x \in Address :
             Stored(cells, SubSeq(call.bytes, 1, n))[x] =
               IF x \in Here .. Here + n - 3
               THEN call.data[x - Here + 1] ELSE cells[x]
    BY <1>1, <1>3, TakenIs
  <2> QED
    BY <1>1, <2>1
<1>5. /\ memory' = [memory EXCEPT ![bank] = new]
      /\ pointer' = [pointer EXCEPT ![bank] = Follow(Here, Payload)]
  BY <1>1, <1>4 DEF ChipTakes
<1>6. Here + n - 3 = Here + Payload - 1
  BY <1>1, <1>2 DEF Address
<1> HIDE DEF new, n
<1>7. /\ memory' \in [Chip -> [Address -> Byte]]
      /\ pointer' \in [Chip -> Address]
      /\ pointer'[bank] = Follow(Here, Payload)
  BY <1>1, <1>2, <1>4, <1>5 DEF TypeOK
<1>8. ASSUME NEW c \in Chip, NEW x \in Address
      PROVE  memory'[c][x] = IF c = bank /\ x \in Here .. Here + Payload - 1
                             THEN call.data[x - Here + 1] ELSE memory[c][x]
  <2>1. memory'[c] = IF c = bank THEN new ELSE memory[c]
    BY <1>1, <1>2, <1>5 DEF TypeOK
  <2> QED
    BY <1>4, <1>6, <2>1
<1> QED
  BY <1>7, <1>8

\* The chip takes part of it: nothing changes but at the places of the call.
LEMMA SomeTaken ==
  ASSUME EepromInv, Sending, ChipTakesSome(bank, output)
  PROVE  /\ memory' \in [Chip -> [Address -> Byte]]
         /\ pointer' \in [Chip -> Address]
         /\ \A c \in Chip : \A x \in Address :
              \/ c = bank /\ x \in Here .. Here + Payload - 1
              \/ memory'[c][x] = memory[c][x]
<1>1. /\ TypeOK /\ CallInv /\ Prepared /\ output = call.bytes
      /\ Payload \in Nat /\ Len(call.bytes) = Payload + 2
  BY SentIsPrepared
<1>2. bank \in Chip /\ Here \in Address /\ Here \in Nat
  BY <1>1, PlacesOfTransfer DEF Address
<1>3. CASE UNCHANGED <<memory, pointer>>
  BY <1>1, <1>3 DEF TypeOK
<1>4. CASE ~UNCHANGED <<memory, pointer>>
  <2> DEFINE cells == memory[bank]
             taken(n) == SubSeq(call.bytes, 1, n)
  <2>1. PICK n \in 2 .. Len(call.bytes) :
          /\ pointer' = [pointer EXCEPT ![bank] =
                           Follow(AddressIn(SubSeq(call.bytes, 1, n)), n - 2)]
          /\ memory' \in {memory, [memory EXCEPT ![bank] =
                                     Stored(cells, SubSeq(call.bytes, 1, n))]}
    BY <1>1, <1>4 DEF ChipTakesSome
  <2>2. cells \in [Address -> Byte]
    BY <1>1, <1>2 DEF TypeOK
  <2> HIDE DEF cells
  <2> DEFINE new == Stored(cells, SubSeq(call.bytes, 1, n))
  <2>3. /\ AddressIn(SubSeq(call.bytes, 1, n)) = Here
        /\ Follow(Here, n - 2) \in Address
        /\ new \in [Address -> Byte]
        /\ \A x \in Address :
             new[x] = IF x \in Here .. Here + n - 3
                      THEN call.data[x - Here + 1] ELSE cells[x]
    BY <1>1, <2>2, TakenIs
  <2> HIDE DEF new
  <2>4. /\ pointer' = [pointer EXCEPT ![bank] = Follow(Here, n - 2)]
        /\ memory' \in {memory, [memory EXCEPT ![bank] = new]}
    BY <2>1, <2>3 DEF new
  <2>5. /\ memory' \in [Chip -> [Address -> Byte]]
        /\ pointer' \in [Chip -> Address]
    BY <1>1, <1>2, <2>3, <2>4 DEF TypeOK
  <2>6. Here .. Here + n - 3 \subseteq Here .. Here + Payload - 1
    BY <1>1, <1>2
  <2>7. ASSUME NEW c \in Chip, NEW x \in Address
        PROVE  \/ c = bank /\ x \in Here .. Here + Payload - 1
               \/ memory'[c][x] = memory[c][x]
    <3>1. CASE memory' = memory
      BY <3>1
    <3>2. CASE memory' = [memory EXCEPT ![bank] = new]
      <4>1. memory'[c] = IF c = bank THEN new ELSE memory[c]
        BY <1>1, <1>2, <3>2 DEF TypeOK
      <4> QED
        BY <2>3, <2>6, <4>1 DEF cells
    <3> QED
      BY <2>4, <3>1, <3>2
  <2> QED
    BY <2>5, <2>7
<1> QED
  BY <1>3, <1>4

LEMMA SetAddressDoneKeeps == ASSUME EepromInv, SetAddressDone PROVE EepromInv'
<1>1. /\ Sending /\ call.op = "SetAddress" /\ ChipTakes(bank, output)
      /\ output' = <<>> /\ input' = <<>> /\ position' = Place(call.address)
      /\ call' = NoCall /\ UNCHANGED <<auto_banking, bank, stale, known>>
  BY DEF SetAddressDone
<1>2. /\ TypeOK /\ CallInv /\ Prepared
  BY <1>1, SentIsPrepared
<1>3. Payload = 0
  BY <1>1, <1>2, TransferIs
<1>4. /\ bank \in Chip /\ Here \in Address /\ Place(call.address) = <<bank, Here>>
  BY <1>2, PlacesOfTransfer
<1>5. /\ Here \in 0 .. EepromSize - 1 /\ EepromSize \in Nat \ {0}
      /\ Follow(Here, 0) = Here
  BY <1>4, FollowStays, Sizes DEF Address
<1>6. /\ memory' \in [Chip -> [Address -> Byte]]
      /\ pointer' \in [Chip -> Address] /\ pointer'[bank] = Here
      /\ \A c \in Chip : \A x \in Address : memory'[c][x] = memory[c][x]
  <2>1. Here .. Here + 0 - 1 = {}
    BY <1>5
  <2> QED
    BY <1>1, <1>3, <1>5, <2>1, AllTaken
<1>7. <<>> \in Seq(Byte) /\ Len(<<>>) = 0
  BY EmptySeq
<1>8. position' = <<bank, Here>>
  BY <1>1, <1>4
<1>9. TypeOK'
  BY <1>1, <1>2, <1>4, <1>6, <1>7, <1>8, ChipAssumption, OutputAssumption DEF TypeOK
<1>10. call'.op = "none" /\ call' \in Calls
  BY <1>1 DEF NoCall, Calls
<1>11. CallInv' /\ OutputInv' /\ ReadIsStored'
  BY <1>1, <1>10 DEF CallInv, Prepared, OutputInv, Sending, ReadIsStored
<1>12. PlaceInv'
  <2>1. position'[1] = bank' /\ position'[2] = Here /\ Got' = 0 /\ Len(input') = 0
    BY <1>1, <1>7, <1>8, <1>10 DEF Got
  <2>2. (Here + 0 + 0) % EepromSize = Here
    BY <1>5
  <2> QED
    BY <1>1, <1>6, <1>10, <2>1, <2>2 DEF PlaceInv
<1>13. WrittenIsStored'
  BY <1>1, <1>6 DEF EepromInv, WrittenIsStored
<1> QED
  BY <1>9, <1>11, <1>12, <1>13 DEF EepromInv

\* What is known when the transfer is reported as done: the data of the call.
LEMMA KnownWhenDone ==
  ASSUME EepromInv, Prepared, known' = KnownAfter(Payload, LAMBDA i : call.data[i])
  PROVE  \A c \in Chip : \A x \in Address :
           known'[c][x] = IF c = bank /\ x \in Here .. Here + Payload - 1
                          THEN call.data[x - Here + 1] ELSE known[c][x]
<1> SUFFICES ASSUME NEW c \in Chip, NEW x \in Address
             PROVE  known'[c][x] = IF c = bank /\ x \in Here .. Here + Payload - 1
                                   THEN call.data[x - Here + 1] ELSE known[c][x]
  OBVIOUS
<1> DEFINE in == \E i \in 1 .. Payload : PlaceOf(i) = <<c, x>>
           at == CHOOSE i \in 1 .. Payload : PlaceOf(i) = <<c, x>>
<1>1. known'[c][x] = IF in THEN call.data[at] ELSE known[c][x]
  BY DEF KnownAfter
<1>2. /\ in <=> c = bank /\ x \in Here .. Here + Payload - 1
      /\ in => at = x - Here + 1
  BY KnownPlaces DEF EepromInv
<1> HIDE DEF in, at
<1> QED
  BY <1>1, <1>2

\* And when it is not: nothing, at the places of the call.
LEMMA KnownWhenFailed ==
  ASSUME EepromInv, Prepared, known' = KnownAfter(Payload, LAMBDA i : Unknown)
  PROVE  \A c \in Chip : \A x \in Address :
           known'[c][x] = IF c = bank /\ x \in Here .. Here + Payload - 1
                          THEN Unknown ELSE known[c][x]
<1> SUFFICES ASSUME NEW c \in Chip, NEW x \in Address
             PROVE  known'[c][x] = IF c = bank /\ x \in Here .. Here + Payload - 1
                                   THEN Unknown ELSE known[c][x]
  OBVIOUS
<1> DEFINE in == \E i \in 1 .. Payload : PlaceOf(i) = <<c, x>>
<1>1. known'[c][x] = IF in THEN Unknown ELSE known[c][x]
  BY DEF KnownAfter
<1>2. in <=> c = bank /\ x \in Here .. Here + Payload - 1
  BY KnownPlaces DEF EepromInv
<1> HIDE DEF in
<1> QED
  BY <1>1, <1>2

LEMMA BlockDoneKeeps == ASSUME EepromInv, BlockDone PROVE EepromInv'
<1>1. /\ Sending /\ call.op = "Write" /\ ChipTakes(bank, output)
      /\ output' = <<>>
      /\ known' = KnownAfter(Payload, LAMBDA i : call.data[i])
      /\ call' = [op |-> "Write", pc |-> "block",
                  address |-> call.address + Payload,
                  data |-> SubSeq(call.data, Payload + 1, Len(call.data)),
                  bytes |-> <<>>]
      /\ UNCHANGED <<auto_banking, bank, input, stale, position>>
  BY DEF BlockDone
<1>2. /\ TypeOK /\ CallInv /\ Prepared /\ position = Nowhere /\ position' = Nowhere
  BY <1>1, SentIsPrepared
<1>3. /\ call.address \in Nat /\ call.data \in Seq(Byte)
      /\ Payload \in 1 .. Len(call.data) /\ Len(call.data) \in Nat
      /\ call.address + Len(call.data) <= Limit
  BY <1>1, <1>2, TransferIs, LenProperties DEF CallInv
<1>4. /\ memory' \in [Chip -> [Address -> Byte]]
      /\ pointer' \in [Chip -> Address]
      /\ \A c \in Chip : \A x \in Address :
           memory'[c][x] = IF c = bank /\ x \in Here .. Here + Payload - 1
                           THEN call.data[x - Here + 1] ELSE memory[c][x]
  BY <1>1, AllTaken
<1>5. \A c \in Chip : \A x \in Address :
        known'[c][x] = IF c = bank /\ x \in Here .. Here + Payload - 1
                       THEN call.data[x - Here + 1] ELSE known[c][x]
  BY <1>1, <1>2, KnownWhenDone
<1>6. WrittenIsStored'
  BY <1>4, <1>5 DEF EepromInv, WrittenIsStored
<1>7. known' \in [Chip -> [Address -> Byte \cup {Unknown}]]
  <2>1. known' = [c \in Chip |-> [x \in Address |-> known'[c][x]]]
    BY <1>1 DEF KnownAfter
  <2>2. ASSUME NEW c \in Chip, NEW x \in Address
        PROVE  known'[c][x] \in Byte \cup {Unknown}
    BY <1>4, <1>6 DEF WrittenIsStored
  <2> QED
    BY <2>1, <2>2
<1>8. <<>> \in Seq(Byte) /\ Len(<<>>) = 0
  BY EmptySeq
<1>9. TypeOK'
  <2>1. output' \in Seq(Byte) /\ Len(output') <= OutputRoom
    BY <1>1, <1>8, OutputAssumption
  <2>2. /\ input' \in Seq(Byte) /\ Len(input') <= BlockSize
        /\ auto_banking' \in BOOLEAN /\ stale' \in BOOLEAN /\ bank' \in Chip
    BY <1>1, <1>2 DEF TypeOK
  <2> QED
    BY <1>2, <1>4, <1>7, <2>1, <2>2 DEF TypeOK
<1> DEFINE rest == SubSeq(call.data, Payload + 1, Len(call.data))
<1>10. rest \in Seq(Byte) /\ Len(rest) = Len(call.data) - Payload
  <2> DEFINE n == Payload
  <2>1. n \in 0 .. Len(call.data)
    BY <1>3
  <2> HIDE DEF n
  <2>2. /\ SubSeq(call.data, n + 1, Len(call.data)) \in Seq(Byte)
        /\ Len(SubSeq(call.data, n + 1, Len(call.data))) = Len(call.data) - n
    BY <1>3, <2>1, RestOf
  <2> QED
    BY <2>2 DEF n
<1>11. /\ call'.op = "Write" /\ call'.pc = "block" /\ call'.data = rest
       /\ call'.address = call.address + Payload /\ Limit' = Limit
  BY <1>1 DEF Limit
<1> HIDE DEF rest
<1>12. call.address + Payload \in Nat
  BY <1>3
<1>13. call' \in Calls
  BY <1>1, <1>8, <1>10, <1>12 DEF Calls, rest
<1>14. call'.address + Len(call'.data) <= Limit'
  BY <1>3, <1>10, <1>11
<1>15. CallInv' /\ OutputInv' /\ PlaceInv' /\ ReadIsStored'
  BY <1>1, <1>2, <1>11, <1>13, <1>14 DEF CallInv, Prepared, OutputInv, Sending,
     PlaceInv, ReadIsStored
<1> QED
  BY <1>6, <1>9, <1>15 DEF EepromInv

LEMMA SendFailsKeeps == ASSUME EepromInv, SendFails PROVE EepromInv'
<1>1. /\ Sending /\ ChipTakesSome(bank, output) /\ output' = <<>>
      /\ known' = KnownAfter(Payload, LAMBDA i : Unknown)
      /\ call' = NoCall
      /\ UNCHANGED <<auto_banking, bank, input, stale, position>>
  BY DEF SendFails
<1>2. /\ TypeOK /\ CallInv /\ Prepared /\ position = Nowhere /\ position' = Nowhere
  BY <1>1, SentIsPrepared
<1>3. /\ memory' \in [Chip -> [Address -> Byte]]
      /\ pointer' \in [Chip -> Address]
      /\ \A c \in Chip : \A x \in Address :
           \/ c = bank /\ x \in Here .. Here + Payload - 1
           \/ memory'[c][x] = memory[c][x]
  BY <1>1, SomeTaken
<1>4. \A c \in Chip : \A x \in Address :
        known'[c][x] = IF c = bank /\ x \in Here .. Here + Payload - 1
                       THEN Unknown ELSE known[c][x]
  BY <1>1, <1>2, KnownWhenFailed
<1>5. WrittenIsStored'
  BY <1>3, <1>4 DEF EepromInv, WrittenIsStored
<1>6. known' \in [Chip -> [Address -> Byte \cup {Unknown}]]
  <2>1. known' = [c \in Chip |-> [x \in Address |-> known'[c][x]]]
    BY <1>1 DEF KnownAfter
  <2>2. ASSUME NEW c \in Chip, NEW x \in Address
        PROVE  known'[c][x] \in Byte \cup {Unknown}
    BY <1>3, <1>5 DEF WrittenIsStored
  <2> QED
    BY <2>1, <2>2
<1>7. <<>> \in Seq(Byte) /\ Len(<<>>) = 0
  BY EmptySeq
<1>8. TypeOK'
  <2>1. output' \in Seq(Byte) /\ Len(output') <= OutputRoom
    BY <1>1, <1>7, OutputAssumption
  <2>2. /\ input' \in Seq(Byte) /\ Len(input') <= BlockSize
        /\ auto_banking' \in BOOLEAN /\ stale' \in BOOLEAN /\ bank' \in Chip
    BY <1>1, <1>2 DEF TypeOK
  <2> QED
    BY <1>2, <1>3, <1>6, <2>1, <2>2 DEF TypeOK
<1>9. call'.op = "none" /\ call' \in Calls
  BY <1>1 DEF NoCall, Calls
<1>10. CallInv' /\ OutputInv' /\ PlaceInv' /\ ReadIsStored'
  BY <1>1, <1>2, <1>9 DEF CallInv, Prepared, OutputInv, Sending, PlaceInv,
     ReadIsStored
<1> QED
  BY <1>5, <1>8, <1>10 DEF EepromInv

LEMMA MinOfTwo ==
  ASSUME NEW m \in Nat, NEW n \in Nat
  PROVE  Min({m, n}) = IF m <= n THEN m ELSE n
<1>1. CASE m <= n
  BY <1>1 DEF Min
<1>2. CASE ~(m <= n)
  BY <1>2 DEF Min
<1> QED
  BY <1>1, <1>2

LEMMA ReadCallIs ==
  ASSUME EepromInv, call.op = "Read"
  PROVE  /\ call \in [op : {"Read"}, size : Nat, data : Seq(Byte)]
         /\ call.size \in Nat /\ call.data \in Seq(Byte)
         /\ Len(call.data) \in Nat /\ Got = Len(call.data)
         /\ input \in Seq(Byte) /\ Len(input) \in Nat /\ output = <<>>
<1>1. call \in [op : {"Read"}, size : Nat, data : Seq(Byte)]
  BY DEF EepromInv, CallInv, Calls, NoCall
<1>2. input \in Seq(Byte) /\ output = <<>>
  BY DEF EepromInv, TypeOK, OutputInv, Sending
<1> QED
  BY <1>1, <1>2, LenProperties DEF Got

LEMMA ReadCallKeeps ==
  ASSUME EepromInv, NEW n \in Nat, ReadCall(n)
  PROVE  EepromInv'
<1>1. /\ call = NoCall /\ call' = [op |-> "Read", size |-> n, data |-> <<>>]
      /\ UNCHANGED <<auto_banking, bank, memory, pointer, input, output, stale,
                     known, position>>
  BY DEF ReadCall
<1>2. <<>> \in Seq(Byte) /\ Len(<<>>) = 0
  BY EmptySeq
<1>3. /\ call.op = "none" /\ call'.op = "Read" /\ call'.data = <<>>
      /\ call' \in Calls
  BY <1>1, <1>2 DEF NoCall, Calls
<1>4. Got = 0 /\ Got' = 0
  BY <1>2, <1>3 DEF Got
<1>5. TypeOK'
  BY <1>1 DEF EepromInv, TypeOK
<1>6. CallInv' /\ OutputInv'
  BY <1>1, <1>3 DEF EepromInv, CallInv, Prepared, OutputInv, Sending
<1>7. PlaceInv'
  BY <1>1, <1>3, <1>4 DEF EepromInv, PlaceInv
<1>8. ReadIsStored'
  BY <1>2, <1>3 DEF ReadIsStored
<1> QED
  BY <1>1, <1>5, <1>6, <1>7, <1>8, SameChips DEF EepromInv

\* What is read from the ring goes on where the data read before ends.
LEMMA ReadBufferKeeps == ASSUME EepromInv, ReadBuffer PROVE EepromInv'
<1> DEFINE n == Min({call.size, Len(input)})
<1>1. /\ call.op = "Read" /\ call.size > 0 /\ input # <<>>
      /\ input' = SubSeq(input, n + 1, Len(input))
      /\ call' = [call EXCEPT !.size = @ - n, !.data = @ \o SubSeq(input, 1, n)]
      /\ UNCHANGED <<auto_banking, bank, memory, pointer, output, stale, known,
                     position>>
  BY DEF ReadBuffer
<1>2. /\ call \in [op : {"Read"}, size : Nat, data : Seq(Byte)]
      /\ call.size \in Nat /\ call.data \in Seq(Byte)
      /\ Len(call.data) \in Nat /\ Got = Len(call.data)
      /\ input \in Seq(Byte) /\ Len(input) \in Nat /\ output = <<>>
  BY <1>1, ReadCallIs
<1>3. n \in 0 .. Len(input) /\ n <= call.size /\ n \in Nat
  BY <1>2, MinOfTwo
<1> HIDE DEF n
<1> DEFINE first == SubSeq(input, 1, n)
           data == call.data \o first
<1>4. /\ first \in Seq(Byte) /\ Len(first) = n
      /\ \A i \in 1 .. n : first[i] = input[i]
  BY <1>2, <1>3, FirstOf
<1>5. /\ input' \in Seq(Byte) /\ Len(input') = Len(input) - n
      /\ \A i \in 1 .. Len(input) - n : input'[i] = input[n + i]
  BY <1>1, <1>2, <1>3, RestOf
<1> HIDE DEF first
<1>6. /\ data \in Seq(Byte) /\ Len(data) = Got + n
      /\ \A i \in 1 .. Got : data[i] = call.data[i]
      /\ \A i \in 1 .. n : data[Got + i] = input[i]
  <2>1. /\ data \in Seq(Byte) /\ Len(data) = Len(call.data) + Len(first)
        /\ \A i \in 1 .. Len(call.data) + Len(first) :
             data[i] = IF i <= Len(call.data) THEN call.data[i]
                       ELSE first[i - Len(call.data)]
    <3> DEFINE old == call.data
    <3>1. old \in Seq(Byte) /\ data = old \o first
      BY <1>2
    <3> HIDE DEF old
    <3>2. /\ old \o first \in Seq(Byte)
          /\ Len(old \o first) = Len(old) + Len(first)
          /\ \A i \in 1 .. Len(old) + Len(first) :
               (old \o first)[i] = IF i <= Len(old) THEN old[i]
                                   ELSE first[i - Len(old)]
      BY <1>4, <3>1, ConcatProperties
    <3> QED
      BY <3>1, <3>2 DEF old
  <2> HIDE DEF data
  <2>2. \A i \in 1 .. n : Got + i \in 1 .. Got + n /\ ~(Got + i <= Got)
                          /\ Got + i - Got = i
    BY <1>2, <1>3
  <2>3. \A i \in 1 .. Got : data[i] = call.data[i]
    BY <1>2, <1>3, <1>4, <2>1
  <2>4. \A i \in 1 .. n : data[Got + i] = first[i]
    BY <1>2, <1>4, <2>1, <2>2
  <2> QED
    BY <1>2, <1>4, <2>1, <2>3, <2>4
<1> HIDE DEF data
<1>7. call' = [op |-> "Read", size |-> call.size - n, data |-> data]
  BY <1>1, <1>2 DEF data, first
<1>8. call.size - n \in Nat
  BY <1>2, <1>3
<1>9. /\ call'.op = "Read" /\ call'.data = data /\ call' \in Calls
      /\ Got' = Got + n
  BY <1>6, <1>7, <1>8 DEF Calls, Got
<1>10. TypeOK'
  <2>1. Len(input') <= BlockSize
    BY <1>2, <1>3, <1>5, Sizes DEF EepromInv, TypeOK
  <2> QED
    BY <1>1, <1>5, <2>1 DEF EepromInv, TypeOK
<1>11. CallInv' /\ OutputInv'
  BY <1>1, <1>2, <1>9 DEF CallInv, Prepared, OutputInv, Sending
<1>12. ASSUME position # Nowhere
       PROVE  /\ bank = position[1] /\ position[2] \in Nat
              /\ pointer[bank] = (position[2] + Got + Len(input)) % EepromSize
              /\ \A i \in 1 .. Len(input) :
                   position[2] + Got + i <= EepromSize =>
                     input[i] = memory[bank][position[2] + Got + i - 1]
              /\ \A i \in 1 .. Got :
                   position[2] + i <= EepromSize =>
                     call.data[i] = memory[bank][position[2] + i - 1]
  BY <1>1, <1>2, <1>12 DEF EepromInv, PlaceInv, ReadIsStored, TypeOK, Address
<1>13. PlaceInv'
  <2> SUFFICES ASSUME position # Nowhere
               PROVE  /\ bank = position[1]
                      /\ pointer[bank] =
                           (position[2] + Got' + Len(input')) % EepromSize
                      /\ \A i \in 1 .. Len(input') :
                           position[2] + Got' + i <= EepromSize =>
                             input'[i] = memory[bank][position[2] + Got' + i - 1]
    BY <1>1, <1>9 DEF PlaceInv
  <2> DEFINE p == position[2]
  <2>1. p \in Nat /\ Got \in Nat
    BY <1>2, <1>12
  <2>2. p + Got' + Len(input') = p + Got + Len(input)
    <3> HIDE DEF p
    <3> QED
      BY <2>1, <1>2, <1>3, <1>5, <1>9
  <2>3. ASSUME NEW i \in 1 .. Len(input'), p + Got' + i <= EepromSize
        PROVE  input'[i] = memory[bank][p + Got' + i - 1]
    <3> DEFINE j == n + i
    <3>1. /\ j \in 1 .. Len(input) /\ i \in 1 .. Len(input) - n
          /\ p + Got + j = p + Got' + i
      <4> HIDE DEF p
      <4> QED
        BY <2>1, <1>2, <1>3, <1>5, <1>9
    <3>2. input'[i] = input[j]
      BY <3>1, <1>5
    <3> HIDE DEF j
    <3>3. input[j] = memory[bank][p + Got + j - 1]
      BY <1>12, <2>3, <3>1
    <3> HIDE DEF p
    <3>4. p + Got + j - 1 = p + Got' + i - 1
      BY <1>3, <1>9, <2>1, <3>1
    <3> QED
      BY <3>2, <3>3, <3>4
  <2> QED
    BY <1>12, <2>2, <2>3
<1>14. ReadIsStored'
  <2> SUFFICES ASSUME position # Nowhere, NEW i \in 1 .. Got + n,
                      position[2] + i <= EepromSize
               PROVE  data[i] = memory[bank][position[2] + i - 1]
    BY <1>1, <1>6, <1>9, <1>12 DEF ReadIsStored
  <2>1. CASE i <= Got
    BY <1>2, <1>6, <1>12, <2>1
  <2>2. CASE i > Got
    <3> DEFINE j == i - Got
    <3>1. j \in 1 .. n /\ j \in 1 .. Len(input) /\ i = Got + j
      BY <1>2, <1>3, <2>2
    <3> HIDE DEF j
    <3>2. data[Got + j] = input[j]
      BY <1>6, <3>1
    <3> DEFINE p == position[2]
    <3>3. p + Got + j = p + i /\ p + Got + j - 1 = p + i - 1
      <4>1. p \in Nat /\ Got \in Nat
        BY <1>2, <1>12
      <4> HIDE DEF p
      <4> QED
        BY <3>1, <4>1
    <3>4. input[j] = memory[bank][p + Got + j - 1]
      <4>1. p + Got + j <= EepromSize
        BY <3>3
      <4> QED
        BY <1>12, <3>1, <4>1
    <3> HIDE DEF p
    <3>5. data[i] = memory[bank][p + i - 1]
      BY <3>1, <3>2, <3>3, <3>4
    <3> QED
      BY <3>5 DEF p
  <2> QED
    BY <1>2, <1>3, <2>1, <2>2
<1> QED
  BY <1>1, <1>10, <1>11, <1>13, <1>14, SameChips DEF EepromInv

\* A chip sends what it has stored from its pointer on.
LEMMA SentIs ==
  ASSUME TypeOK, NEW c \in Chip, NEW n \in Nat
  PROVE  /\ SentBy(c, n) \in Seq(Byte) /\ Len(SentBy(c, n)) = n
         /\ \A i \in 1 .. n :
              SentBy(c, n)[i] = memory[c][(pointer[c] + i - 1) % EepromSize]
<1> DEFINE p == pointer[c]
<1>1. p \in Nat /\ EepromSize \in Nat \ {0}
  BY Sizes DEF TypeOK, Address
<1>2. ASSUME NEW i \in 1 .. n
      PROVE  (p + i - 1) % EepromSize \in Address
  <2> DEFINE k == p + i - 1
  <2>1. k \in Nat
    <3> HIDE DEF p
    <3> QED
      BY <1>1
  <2> HIDE DEF k
  <2>2. k % EepromSize \in Address
    BY <2>1, SameInBlock
  <2> QED
    BY <2>2 DEF k
<1> HIDE DEF p
<1>3. SentBy(c, n) = [i \in 1 .. n |-> memory[c][(p + i - 1) % EepromSize]]
  BY DEF SentBy, p
<1>4. SentBy(c, n) \in [1 .. n -> Byte]
  BY <1>2, <1>3 DEF TypeOK
<1>5. SentBy(c, n) \in Seq(Byte)
  BY <1>4, SeqDef
<1>6. Len(SentBy(c, n)) = n
  BY <1>3
<1> QED
  BY <1>3, <1>5, <1>6 DEF p

LEMMA RequestedFits ==
  ASSUME EepromInv, call.op = "Read"
  PROVE  Requested \in Nat /\ Requested <= BlockSize
BY ReadCallIs, MinOfTwo, Sizes DEF Requested

\* What arrives after a complete Request follows what has been read.
LEMMA RequestCompletesKeeps ==
  ASSUME EepromInv, RequestCompletes
  PROVE  EepromInv'
<1> DEFINE n == Requested
<1>1. /\ call.op = "Read" /\ input = <<>> /\ input' = SentBy(bank, n)
      /\ pointer' = [pointer EXCEPT ![bank] = (@ + n) % EepromSize]
      /\ stale' = FALSE
      /\ UNCHANGED <<auto_banking, bank, memory, output, call, known, position>>
  BY DEF RequestCompletes
<1>2. /\ Got \in Nat /\ Got = Len(call.data) /\ Len(input) = 0
  BY <1>1, ReadCallIs, EmptySeq
<1>3. n \in Nat /\ n <= BlockSize
  BY <1>1, RequestedFits
<1> HIDE DEF n
<1>4. /\ TypeOK /\ bank \in Chip /\ pointer[bank] \in Nat
      /\ EepromSize \in Nat \ {0}
  BY Sizes DEF EepromInv, TypeOK, Address
<1>5. /\ input' \in Seq(Byte) /\ Len(input') = n
      /\ \A i \in 1 .. n :
           input'[i] = memory[bank][(pointer[bank] + i - 1) % EepromSize]
  BY <1>1, <1>3, <1>4, SentIs
<1>6. /\ (pointer[bank] + n) % EepromSize \in Address
  <2> DEFINE k == pointer[bank] + n
  <2>1. k \in Nat
    BY <1>3, <1>4
  <2> HIDE DEF k
  <2>2. k % EepromSize \in Address
    BY <2>1, SameInBlock
  <2> QED
    BY <2>2 DEF k
<1>7. /\ pointer' \in [Chip -> Address]
      /\ pointer'[bank] = (pointer[bank] + n) % EepromSize
  BY <1>1, <1>4, <1>6 DEF TypeOK
<1>8. TypeOK'
  BY <1>1, <1>3, <1>5, <1>7 DEF EepromInv, TypeOK
<1>9. call' = call /\ Got' = Got
  BY <1>1 DEF Got
<1>10. CallInv' /\ OutputInv' /\ ReadIsStored'
  BY <1>1 DEF EepromInv, CallInv, Calls, Limit, Prepared, Data, Place, Header, Writable,
     OutputInv, Sending, ReadIsStored
<1>11. PlaceInv'
  <2> SUFFICES ASSUME position # Nowhere
               PROVE  /\ bank = position[1]
                      /\ pointer'[bank] = (position[2] + Got + n) % EepromSize
                      /\ \A i \in 1 .. n :
                           position[2] + Got + i <= EepromSize =>
                             input'[i] = memory[bank][position[2] + Got + i - 1]
    BY <1>1, <1>5, <1>9 DEF PlaceInv
  <2> DEFINE q == position[2] + Got
  <2>1. /\ bank = position[1] /\ position[2] \in Nat
        /\ pointer[bank] = (position[2] + Got + Len(input)) % EepromSize
    BY DEF EepromInv, PlaceInv, TypeOK, Address
  <2>2. q \in Nat /\ pointer[bank] = q % EepromSize
    <3>1. position[2] + Got + Len(input) = q
      BY <1>2, <2>1
    <3> QED
      BY <1>2, <2>1, <3>1
  <2> HIDE DEF q
  <2>3. pointer'[bank] = (q + n) % EepromSize
    <3> DEFINE m == -n
    <3>1. /\ m \in Int /\ q \in Int /\ EepromSize \in Nat \ {0}
          /\ (q % EepromSize) - m = pointer[bank] + n /\ q - m = q + n
      BY <1>3, <1>4, <2>2
    <3> HIDE DEF m
    <3>2. ((q % EepromSize) - m) % EepromSize = (q - m) % EepromSize
      BY <3>1, Remainders!ModuloDifference
    <3> QED
      BY <1>7, <3>1, <3>2
  <2>4. ASSUME NEW i \in 1 .. n, q + i <= EepromSize
        PROVE  input'[i] = memory[bank][q + i - 1]
    <3>1. q \in 0 .. EepromSize - 1 /\ q + i - 1 \in 0 .. EepromSize - 1
      BY <1>4, <2>2, <2>4
    <3>2. q % EepromSize = q
      BY <1>4, <3>1
    <3> DEFINE k == q + i - 1
    <3>3. k % EepromSize = k /\ pointer[bank] + i - 1 = k
      <4>1. k \in 0 .. EepromSize - 1 /\ pointer[bank] + i - 1 = k
        BY <2>2, <3>1, <3>2
      <4> HIDE DEF k
      <4> QED
        BY <1>4, <4>1
    <3> QED
      BY <1>5, <3>3
  <2> QED
    BY <2>1, <2>3, <2>4 DEF q
<1> QED
  BY <1>1, <1>8, <1>10, <1>11, SameChips DEF EepromInv

LEMMA RequestFailsKeeps == ASSUME EepromInv, RequestFails PROVE EepromInv'
<1>1. /\ call.op = "Read" /\ input = <<>>
      /\ stale' = TRUE /\ call' = NoCall /\ position' = Nowhere
      /\ UNCHANGED <<auto_banking, bank, memory, output, known>>
  BY DEF RequestFails
<1>2. Requested \in Nat /\ Requested <= BlockSize /\ output = <<>>
  BY <1>1, RequestedFits, ReadCallIs
<1>3. PICK n \in 0 .. Requested - 1 :
        /\ input' = SentBy(bank, n)
        /\ \E sent \in n .. n + 1 :
             pointer' = [pointer EXCEPT ![bank] = (@ + sent) % EepromSize]
  BY DEF RequestFails
<1>4. PICK sent \in n .. n + 1 :
        pointer' = [pointer EXCEPT ![bank] = (@ + sent) % EepromSize]
  BY <1>3
<1>5. /\ TypeOK /\ bank \in Chip /\ pointer[bank] \in Nat
      /\ EepromSize \in Nat \ {0} /\ BlockSize \in Nat
  BY Sizes DEF EepromInv, TypeOK, Address
<1>6. n \in Nat /\ n <= BlockSize /\ sent \in Nat
  BY <1>2, <1>5
<1>7. input' \in Seq(Byte) /\ Len(input') = n
  BY <1>3, <1>5, <1>6, SentIs
<1>8. pointer' \in [Chip -> Address]
  <2> DEFINE k == pointer[bank] + sent
  <2>1. k \in Nat
    BY <1>5, <1>6
  <2>2. pointer' = [pointer EXCEPT ![bank] = k % EepromSize]
    BY <1>4
  <2> HIDE DEF k
  <2>3. k % EepromSize \in Address
    BY <2>1, SameInBlock
  <2> QED
    BY <1>5, <2>2, <2>3 DEF TypeOK
<1>9. TypeOK'
  BY <1>1, <1>6, <1>7, <1>8 DEF EepromInv, TypeOK
<1>10. call'.op = "none" /\ call' \in Calls
  BY <1>1 DEF NoCall, Calls
<1>11. CallInv' /\ OutputInv' /\ PlaceInv' /\ ReadIsStored'
  BY <1>1, <1>2, <1>10 DEF CallInv, Prepared, OutputInv, Sending, PlaceInv,
     ReadIsStored
<1> QED
  BY <1>1, <1>9, <1>11, SameChips DEF EepromInv

LEMMA ReadReturnsKeeps == ASSUME EepromInv, ReadReturns PROVE EepromInv'
<1>1. /\ call.op = "Read" /\ call' = NoCall
      /\ position' = IF position = Nowhere
                        \/ position[2] + Len(call.data) >= EepromSize
                     THEN Nowhere
                     ELSE <<position[1], position[2] + Len(call.data)>>
      /\ UNCHANGED <<auto_banking, bank, memory, pointer, input, output, stale,
                     known>>
  BY DEF ReadReturns
<1>2. /\ Got \in Nat /\ Got = Len(call.data) /\ Len(input) \in Nat
      /\ output = <<>>
  BY <1>1, ReadCallIs
<1>3. call'.op = "none" /\ call' \in Calls /\ Got' = 0
  BY <1>1 DEF NoCall, Calls, Got
<1>4. CallInv' /\ OutputInv' /\ ReadIsStored'
  BY <1>1, <1>2, <1>3 DEF CallInv, Prepared, OutputInv, Sending, ReadIsStored
<1>5. CASE position' = Nowhere
  <2>1. TypeOK'
    BY <1>1, <1>5 DEF EepromInv, TypeOK
  <2>2. PlaceInv'
    BY <1>5 DEF PlaceInv
  <2> QED
    BY <1>1, <1>4, <2>1, <2>2, SameChips DEF EepromInv
<1>6. CASE position' # Nowhere
  <2> DEFINE p == position[2]
  <2>1. /\ position # Nowhere /\ ~(p + Got >= EepromSize)
        /\ position' = <<position[1], p + Got>>
    BY <1>1, <1>2, <1>6
  <2>2. /\ p \in Nat /\ position[1] \in Chip /\ bank = position[1]
        /\ EepromSize \in Nat
        /\ pointer[bank] = (p + Got + Len(input)) % EepromSize
        /\ \A i \in 1 .. Len(input) :
             p + Got + i <= EepromSize => input[i] = memory[bank][p + Got + i - 1]
    BY <2>1, Sizes DEF EepromInv, PlaceInv, TypeOK, Address
  <2> HIDE DEF p
  <2> DEFINE q == p + Got
  <2>3. q \in Address
    BY <1>2, <2>1, <2>2 DEF Address
  <2>4. TypeOK'
    BY <1>1, <2>1, <2>2, <2>3 DEF EepromInv, TypeOK
  <2>5. /\ position'[1] = bank /\ position'[2] = q /\ q \in Nat /\ q + 0 = q
    BY <2>1, <2>2, <2>3 DEF Address
  <2>6. PlaceInv'
    BY <1>1, <1>3, <2>2, <2>5 DEF PlaceInv
  <2> QED
    BY <1>1, <1>4, <2>4, <2>6, SameChips DEF EepromInv
<1> QED
  BY <1>5, <1>6

-----------------------------------------------------------------------------
\* The invariant holds in every state.
LEMMA EepromInvariance == Spec => []EepromInv
<1>1. Init => EepromInv
  BY InitKeeps
<1>2. ASSUME EepromInv, [Next]_vars PROVE EepromInv'
  <2>1. CASE \E b \in Chip : SetBank(b)
    BY <1>2, <2>1, SetBankKeeps
  <2>2. CASE \E a \in Addresses(1) : SetAddressCall(a)
    BY <1>2, <2>2, SetAddressKeeps
  <2>3. CASE \E data \in Texts : \E a \in Addresses(Len(data)) : WriteCall(a, data)
    BY <1>2, <2>3, WriteKeeps
  <2>4. CASE \E n \in 1 .. MaxRead : ReadCall(n)
    <3>1. PICK n \in 1 .. MaxRead : ReadCall(n)
      BY <2>4
    <3>2. n \in Nat
      BY ProgramAssumption
    <3> QED
      BY <1>2, <3>1, <3>2, ReadCallKeeps
  <2>5. CASE CallStep
    <3>1. CASE NextBlock
      BY <1>2, <3>1, NextBlockKeeps
    <3>2. CASE PutBytes
      BY <1>2, <3>2, PutBytesKeeps
    <3>3. CASE SetAddressDone
      BY <1>2, <3>3, SetAddressDoneKeeps
    <3>4. CASE BlockDone
      BY <1>2, <3>4, BlockDoneKeeps
    <3>5. CASE ReadBuffer
      BY <1>2, <3>5, ReadBufferKeeps
    <3>6. CASE RequestCompletes
      BY <1>2, <3>6, RequestCompletesKeeps
    <3>7. CASE ReadReturns
      BY <1>2, <3>7, ReadReturnsKeeps
    <3> QED
      BY <2>5, <3>1, <3>2, <3>3, <3>4, <3>5, <3>6, <3>7 DEF CallStep
  <2>6. CASE SendFails
    BY <1>2, <2>6, SendFailsKeeps
  <2>7. CASE RequestFails
    BY <1>2, <2>7, RequestFailsKeeps
  <2>8. CASE UNCHANGED vars
    BY <1>2, <2>8 DEF vars, EepromInv, TypeOK, CallInv, Calls, Limit, Prepared, Data,
       Place, Header, Writable, OutputInv, Sending, PlaceInv, Got,
       WrittenIsStored, ReadIsStored
  <2> QED
    BY <1>2, <2>1, <2>2, <2>3, <2>4, <2>5, <2>6, <2>7, <2>8 DEF Next
<1> QED
  BY <1>1, <1>2, PTL DEF Spec

\* What Write reports as written is in the chips, where the program has
\* written it and nowhere else, and an error leaves no other block in doubt:
\* for every size of chip and block, across blocks and chips (Write,
\* WriteWithinBlock).
THEOREM WrittenStaysStored == Spec => []WrittenIsStored
<1>1. EepromInv => WrittenIsStored
  BY DEF EepromInv
<1> QED
  BY <1>1, EepromInvariance, PTL

\* Read returns what is stored from the address that was set, or from where the
\* Read before it has ended, whatever the bank, the sizes and the transfers
\* that have failed (Read, SetAddress).
THEOREM ReadStaysTrue == Spec => []ReadIsStored
<1>1. EepromInv => ReadIsStored
  BY DEF EepromInv
<1> QED
  BY <1>1, EepromInvariance, PTL

\* Calls keep every variable in its type, the input ring within a block, and
\* leave nothing in the output ring that a later transfer would send with its
\* own bytes (FlushOutputBuffer in SetAddress and WriteWithinBlock).
THEOREM NothingIsLeftOver == Spec => []CallsLeaveNothing
<1>1. EepromInv => CallsLeaveNothing
  BY DEF EepromInv, OutputInv, Sending, CallsLeaveNothing, NothingLeftToSend
<1> QED
  BY <1>1, EepromInvariance, PTL
=============================================================================
