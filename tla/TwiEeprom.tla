------------------------------ MODULE TwiEeprom ------------------------------
(***************************************************************************)
(* avrlibx::TwiEeprom (devices/twi_eeprom.h): reads and writes of the      *)
(* memory chips on a two-wire bus, through TwiMaster's two rings.          *)
(*                                                                         *)
(* A transfer of TwiMaster (Send or Request, with the Waits around it) is  *)
(* one step here.  Twi shows what such a step may do: it moves every byte, *)
(* or it ends with an error in the middle; and a Send that comes after a   *)
(* failed Request cannot end well, which is the variable stale.            *)
(* Left out: a transfer started while the flag of a bus fault is still up, *)
(* which Twi calls untracked and whose end no Wait tells.                  *)
(*                                                                         *)
(* The chips are external: two address bytes set a chip's pointer, data    *)
(* bytes are written within a block, reads go on to the next address and   *)
(* start over at the end of the chip.                                      *)
(***************************************************************************)
EXTENDS Integers, Sequences, FiniteSetsExt

CONSTANTS Chips,        \* how many chips are on the bus
          EepromSize,   \* eeprom_size: bytes in a chip
          BlockSize,    \* block_size
          ByteSize,     \* 256 in the code: a byte is 0 .. ByteSize - 1
          OutputRoom,   \* what the output ring of the bus holds
          Texts,        \* the data the program writes
          Starts,       \* the addresses it uses
          MaxRead       \* bound on the bytes asked for in one Read

ASSUME ChipAssumption ==
  /\ Chips \in Nat \ {0} /\ BlockSize \in Nat \ {0} /\ ByteSize \in Nat \ {0}
  /\ EepromSize \in Nat \ {0} /\ EepromSize % BlockSize = 0
  /\ EepromSize <= ByteSize * ByteSize

\* A block and its address fit in the output ring: otherwise every Write of a
\* whole block is refused.
ASSUME OutputAssumption == OutputRoom \in Nat /\ BlockSize + 2 <= OutputRoom

Byte == 0 .. ByteSize - 1
Address == 0 .. EepromSize - 1
Chip == 0 .. Chips - 1

ASSUME ProgramAssumption ==
  /\ \A text \in Texts : text \in Seq(Byte) \ {<<>>}
  /\ Starts \subseteq Nat /\ MaxRead \in Nat

VARIABLES auto_banking,    \* template parameter, the same for ever
          bank,            \* bank_
          memory, pointer, \* the chips
          input, output,   \* the rings of the bus
          stale,           \* received_ < requested_ in TwiMaster
          call,            \* the call the program is in
          known,           \* what the program may rely on in memory
          position         \* the place it is reading from, if it is known

vars == <<auto_banking, bank, memory, pointer, input, output, stale, call,
          known, position>>

NoCall == [op |-> "none"]
Unknown == -1
Nowhere == <<Unknown, Unknown>>

Init == /\ auto_banking \in BOOLEAN
        /\ bank = 0
        /\ memory = [c \in Chip |-> [a \in Address |-> 0]]
        /\ pointer = [c \in Chip |-> 0]
        /\ input = <<>> /\ output = <<>> /\ stale = FALSE
        /\ call = NoCall
        /\ known = memory /\ position = Nowhere

-----------------------------------------------------------------------------
(* The chips.                                                              *)

BlockOf(a) == a \div BlockSize
Follow(a, n) == BlockOf(a) * BlockSize + ((a + n) % BlockSize)

\* The address the first two bytes of a Send give.
AddressIn(bytes) == (bytes[1] * ByteSize + bytes[2]) % EepromSize

\* A chip's bytes after a Send: the data fills the block from the address on,
\* and goes on at the start of the block.
Stored(cells, bytes) ==
  LET a == AddressIn(bytes)
      offset(x) == (x - a) % BlockSize
  IN  [x \in Address |->
         IF BlockOf(x) = BlockOf(a) /\ offset(x) < Len(bytes) - 2
         THEN bytes[offset(x) + 3]
         ELSE cells[x]]

\* A chip takes the bytes of a Send that completes.
ChipTakes(c, bytes) ==
  /\ memory' = [memory EXCEPT ![c] = Stored(memory[c], bytes)]
  /\ pointer' = [pointer EXCEPT ![c] = Follow(AddressIn(bytes), Len(bytes) - 2)]

\* It takes the first n of them only, and the data it took may have been
\* written or not.
ChipTakesSome(c, bytes) ==
  \/ UNCHANGED <<memory, pointer>>
  \/ \E n \in 2 .. Len(bytes) :
       LET taken == SubSeq(bytes, 1, n)
       IN  /\ pointer' = [pointer EXCEPT ![c] = Follow(AddressIn(taken), n - 2)]
           /\ memory' \in {memory, [memory EXCEPT ![c] = Stored(memory[c], taken)]}

\* The next n bytes a chip sends: after its last byte comes its first.
SentBy(c, n) ==
  [i \in 1 .. n |-> memory[c][(pointer[c] + i - 1) % EepromSize]]

-----------------------------------------------------------------------------
(* The calls.                                                              *)

\* The chip and the address in it of the program's address a.
Place(a) == IF auto_banking
            THEN <<a \div EepromSize, a % EepromSize>>
            ELSE <<bank, a % EepromSize>>

\* The addresses at which the program reads and writes n bytes.
Addresses(n) ==
  LET size == IF auto_banking THEN Chips * EepromSize ELSE EepromSize
  IN  {a \in Starts : a + n <= size}

\* The two bytes of an address, as SetAddress and WriteWithinBlock put them.
Header(a) == LET local == Place(a)[2]
             IN  <<local \div ByteSize, local % ByteSize>>

BankKept(a) == bank                  \* faulty: bank_ is not updated
BankFor(a) == IF auto_banking THEN a \div EepromSize ELSE bank

\* set_bank, of use without auto-banking.
SetBank(b) ==
  /\ call = NoCall /\ ~auto_banking /\ b # bank
  /\ bank' = b /\ position' = Nowhere
  /\ UNCHANGED <<auto_banking, memory, pointer, input, output, stale, call,
                 known>>

SetAddressCall(a) ==
  /\ call = NoCall
  /\ bank' = BankFor(a)
  /\ call' = [op |-> "SetAddress", pc |-> "put", address |-> a,
              bytes |-> Header(a)]
  /\ position' = Nowhere
  /\ UNCHANGED <<auto_banking, memory, pointer, input, output, stale, known>>

WriteCall(a, data) ==
  /\ call = NoCall
  /\ call' = [op |-> "Write", pc |-> "block", address |-> a, data |-> data,
              bytes |-> <<>>]
  /\ position' = Nowhere
  /\ UNCHANGED <<auto_banking, bank, memory, pointer, input, output, stale,
                 known>>

\* Write: as much as remains in the block of the address.
WholeBlock(a, n) == IF n < BlockSize THEN n ELSE BlockSize       \* faulty
Writable(a, n) == LET rest == BlockSize - (a % BlockSize)
                  IN  IF rest > n THEN n ELSE rest

\* Write, WriteWithinBlock: the next block.
NextBlock ==
  /\ call.op = "Write" /\ call.pc = "block"
  /\ IF call.data = <<>>
     THEN call' = NoCall /\ bank' = bank
     ELSE /\ bank' = BankFor(call.address)
          /\ call' = [call EXCEPT !.pc = "put", !.bytes = Header(call.address) \o
               SubSeq(call.data, 1, Writable(call.address, Len(call.data)))]
  /\ UNCHANGED <<auto_banking, memory, pointer, input, output, stale, known,
                 position>>

\* The private Write: it waits for room for all the bytes, and puts them.
PutBytes ==
  /\ call.op \in {"SetAddress", "Write"} /\ call.pc = "put"
  /\ OutputRoom - Len(output) >= Len(call.bytes)
  /\ output' = output \o call.bytes
  /\ call' = [call EXCEPT !.pc = "send"]
  /\ UNCHANGED <<auto_banking, bank, memory, pointer, input, stale, known,
                 position>>

\* The place of the i-th byte of the data being written.
PlaceOf(i) == Place(call.address + i - 1)

\* What the program knows of the memory when it is told that the first n bytes
\* of its data are written, and when it is told that they are not.
KnownAfter(n, Value(_)) ==
  [c \in Chip |-> [x \in Address |->
     IF \E i \in 1 .. n : PlaceOf(i) = <<c, x>>
     THEN Value(CHOOSE i \in 1 .. n : PlaceOf(i) = <<c, x>>)
     ELSE known[c][x]]]

Sending == call.op \in {"SetAddress", "Write"} /\ call.pc = "send"

\* Bytes of data, without the address, in the Send that is in progress.
Payload == Len(call.bytes) - 2

SetAddressDone ==
  /\ Sending /\ call.op = "SetAddress" /\ ~stale
  /\ ChipTakes(bank, output)
  /\ output' = <<>> /\ input' = <<>>
  /\ position' = Place(call.address)
  /\ call' = NoCall
  /\ UNCHANGED <<auto_banking, bank, stale, known>>

BlockDone ==
  /\ Sending /\ call.op = "Write" /\ ~stale
  /\ ChipTakes(bank, output)
  /\ output' = <<>>
  /\ known' = KnownAfter(Payload, LAMBDA i : call.data[i])
  /\ call' = [op |-> "Write", pc |-> "block",
              address |-> call.address + Payload,
              data |-> SubSeq(call.data, Payload + 1, Len(call.data)),
              bytes |-> <<>>]
  /\ UNCHANGED <<auto_banking, bank, input, stale, position>>

SendFailsUnflushed ==                \* faulty: the rest stays in the output ring
  /\ Sending
  /\ ChipTakesSome(bank, output)
  /\ \E n \in 0 .. Len(output) : output' = SubSeq(output, n + 1, Len(output))
  /\ known' = KnownAfter(Payload, LAMBDA i : Unknown)
  /\ call' = NoCall
  /\ UNCHANGED <<auto_banking, bank, input, stale, position>>

\* The transfer ends in an error: what has not been sent is flushed.
SendFails ==
  /\ Sending
  /\ ChipTakesSome(bank, output)
  /\ output' = <<>>
  /\ known' = KnownAfter(Payload, LAMBDA i : Unknown)
  /\ call' = NoCall
  /\ UNCHANGED <<auto_banking, bank, input, stale, position>>

ReadCall(n) ==
  /\ call = NoCall
  /\ call' = [op |-> "Read", size |-> n, data |-> <<>>]
  /\ UNCHANGED <<auto_banking, bank, memory, pointer, input, output, stale,
                 known, position>>

\* Read: what the input ring holds comes first.
ReadBuffer ==
  /\ call.op = "Read" /\ call.size > 0 /\ input # <<>>
  /\ LET n == Min({call.size, Len(input)})
     IN  /\ input' = SubSeq(input, n + 1, Len(input))
         /\ call' = [call EXCEPT !.size = @ - n,
                                 !.data = @ \o SubSeq(input, 1, n)]
  /\ UNCHANGED <<auto_banking, bank, memory, pointer, output, stale, known,
                 position>>

\* Read: then no more than the size of a block is requested, which must fit in
\* the input ring (Request would refuse, and Read try again for ever).
RequestedAll == call.size                                     \* faulty
WholeBlocks == (call.size \div BlockSize) * BlockSize         \* faulty
Requested == Min({call.size, BlockSize})

RequestCompletes ==
  /\ call.op = "Read" /\ call.size > 0 /\ input = <<>>
  /\ input' = SentBy(bank, Requested)
  /\ pointer' = [pointer EXCEPT ![bank] = (@ + Requested) % EepromSize]
  /\ stale' = FALSE
  /\ UNCHANGED <<auto_banking, bank, memory, output, call, known, position>>

\* The bytes that did arrive stay in the input ring.
RequestFails ==
  /\ call.op = "Read" /\ call.size > 0 /\ input = <<>>
  /\ \E n \in 0 .. Requested - 1 :
       /\ input' = SentBy(bank, n)
       /\ \E sent \in n .. n + 1 :
            pointer' = [pointer EXCEPT ![bank] = (@ + sent) % EepromSize]
  /\ stale' = TRUE
  /\ call' = NoCall /\ position' = Nowhere
  /\ UNCHANGED <<auto_banking, bank, memory, output, known>>

\* All has been read: the program goes on from there, unless that is the end
\* of the chip.
ReadReturns ==
  /\ call.op = "Read" /\ call.size = 0
  /\ call' = NoCall
  /\ position' = IF position = Nowhere \/ position[2] + Len(call.data) >= EepromSize
                 THEN Nowhere
                 ELSE <<position[1], position[2] + Len(call.data)>>
  /\ UNCHANGED <<auto_banking, bank, memory, pointer, input, output, stale,
                 known>>

-----------------------------------------------------------------------------
\* What a call does by itself, when the bus gives no error.
CallStep == \/ NextBlock
            \/ PutBytes
            \/ SetAddressDone
            \/ BlockDone
            \/ ReadBuffer
            \/ RequestCompletes
            \/ ReadReturns

Next == \/ \E b \in Chip : SetBank(b)
        \/ \E a \in Addresses(1) : SetAddressCall(a)
        \/ \E data \in Texts : \E a \in Addresses(Len(data)) : WriteCall(a, data)
        \/ \E n \in 1 .. MaxRead : ReadCall(n)
        \/ CallStep
        \/ SendFails
        \/ RequestFails

Spec == Init /\ [][Next]_vars

\* A call goes on as long as it does not wait for the bus, and the bus ends
\* every transfer, well or not; but not a Send that is stale.
FairSpec == Spec /\ WF_vars(CallStep)

-----------------------------------------------------------------------------
(* Properties.                                                             *)

TypeOK ==
  /\ auto_banking \in BOOLEAN /\ stale \in BOOLEAN
  /\ bank \in Chip
  /\ memory \in [Chip -> [Address -> Byte]]
  /\ pointer \in [Chip -> Address]
  /\ known \in [Chip -> [Address -> Byte \cup {Unknown}]]
  /\ position \in (Chip \X Address) \cup {Nowhere}
  /\ input \in Seq(Byte) /\ Len(input) <= BlockSize
  /\ output \in Seq(Byte) /\ Len(output) <= OutputRoom

\* What Write says it has written is in the chips, at the places where the
\* program has written it and nowhere else, whatever has failed before: after
\* an error, only the block it is about is uncertain.
WrittenIsStored ==
  \A c \in Chip : \A a \in Address : known[c][a] \in {Unknown, memory[c][a]}

\* A Read that follows a SetAddress, or another Read, returns what is stored
\* there, up to the end of the chip, whatever the bank and the sizes: bytes of
\* transfers that have failed, or were for another place, are not mixed in.
ReadIsStored ==
  call.op = "Read" /\ position # Nowhere =>
    \A i \in 1 .. Len(call.data) :
      position[2] + i <= EepromSize =>
        call.data[i] = memory[position[1]][position[2] + i - 1]

\* Between two calls nothing is left to be sent.
NothingLeftToSend == call.op \in {"none", "Read"} => output = <<>>

\* Calls return, unless the bus is stuck in a Send that comes after a Request
\* that has failed.
CallsReturn == \/ []<>(call = NoCall)
               \/ <>[](stale /\ Sending)

\* Every variable keeps its type, and between two calls nothing is left over.
CallsLeaveNothing == TypeOK /\ NothingLeftToSend
=============================================================================
