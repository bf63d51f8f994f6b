--------------------------- MODULE Display_proofs ---------------------------
(***************************************************************************)
(* Proofs about Display, for a text and a ring of every size: the scan     *)
(* variables agree, the ring never holds more than it has room for, and    *)
(* remote_ is what the LCD will show.                                      *)
(***************************************************************************)
EXTENDS Display, SequenceTheorems, TLAPS

Remainders == INSTANCE RemainderTheorems

-----------------------------------------------------------------------------
(* The cells of the text.                                                  *)

\* A row and a column designate a cell.
LEMMA CellOf ==
  ASSUME NEW r \in Nat, NEW c \in Nat, r < Height, c < Width
  PROVE  r * Width + c \in Cells
<1> USE SizeAssumption
<1>1. r + 1 <= Height
  OBVIOUS
<1>2. (r + 1) * Width <= Height * Width
  BY <1>1, Z3
<1>3. (r + 1) * Width = r * Width + Width
  BY Z3
<1>4. /\ r * Width \in Nat
      /\ Height * Width = Width * Height
      /\ Width * Height \in Nat
  BY Z3
<1> QED
  BY <1>2, <1>3, <1>4 DEF Cells

\* The first line and the first cell are in the text.
LEMMA FirstCell == 0 \in Cells
<1>1. 0 * Width + 0 \in Cells
  BY CellOf, SizeAssumption
<1>2. 0 * Width + 0 = 0
  BY SizeAssumption
<1> QED
  BY <1>1, <1>2

-----------------------------------------------------------------------------
(* The scan.                                                               *)

ScanInv == /\ scan_row \in Nat /\ scan_column \in Nat
           /\ ScanAgrees

\* The next cell of the scan: the next column, or the start of the next line,
\* or of the text.
LEMMA ScanNextAgrees ==
  ASSUME ScanInv, ScanNext
  PROVE  ScanInv'
<1> USE SizeAssumption DEF ScanInv, ScanAgrees
<1>1. CASE scan_column + 1 # Width
  BY <1>1 DEF ScanNext
<1>2. CASE scan_column + 1 = Width /\ scan_row + 1 # Height
  <2>1. /\ scan_column' = 0 /\ scan_row' = scan_row + 1
        /\ scan_position' = scan_row * Width + scan_column + 1
    BY <1>2 DEF ScanNext
  <2>2. (scan_row + 1) * Width = scan_row * Width + Width
    BY Z3
  <2> QED
    BY <1>2, <2>1, <2>2
<1>3. CASE scan_column + 1 = Width /\ scan_row + 1 = Height
  BY <1>3 DEF ScanNext
<1> QED
  BY <1>1, <1>2, <1>3

LEMMA InitScanInv == Init => ScanInv
  BY SizeAssumption DEF Init, ScanInv, ScanAgrees

LEMMA NextScanInv == ScanInv /\ [Next]_vars => ScanInv'
<1> SUFFICES ASSUME ScanInv, [Next]_vars PROVE ScanInv'
  OBVIOUS
<1>1. CASE TickDraw
  BY <1>1, ScanNextAgrees DEF TickDraw
<1>2. CASE ForceStatus
  BY <1>2, SizeAssumption DEF ForceStatus, ScanInv, ScanAgrees
<1>3. CASE \/ LcdTick \/ TickBlink \/ PrintCharacter \/ Clear
           \/ SetCursorPosition \/ SetStatus \/ SetCustomCharMap
           \/ UNCHANGED vars
  <2>1. UNCHANGED scan
    BY <1>3 DEF LcdTick, TickEndWrite, TickStartWrite, TickBlink,
                PrintCharacter, Clear, SetCursorPosition, SetStatus,
                SetCustomCharMap, vars
  <2> QED
    BY <2>1 DEF scan, ScanInv, ScanAgrees
<1> QED
  BY <1>1, <1>2, <1>3 DEF Next, Program

\* The three variables of the scan of BufferedDisplay::Tick designate the same
\* cell for ever, whenever ForceStatus restarts the scan.
THEOREM ScanStaysTrue == Spec => []ScanAgrees
<1>1. ScanInv => ScanAgrees
  BY DEF ScanInv
<1> QED
  BY <1>1, InitScanInv, NextScanInv, PTL DEF Spec

-----------------------------------------------------------------------------
(* The ring.                                                               *)

Command == [op : {"move", "data"}, row : Nat, col : Nat, char : Visible]

\* Between the test of the room and the drawing, the room can only grow.
QueueInv == /\ queue \in Seq(Command)
            /\ RingHolds
            /\ task = "draw" => Writable >= 4

DisplayInv == TypeOK /\ ScanInv /\ QueueInv

LEMMA BitType ==
  /\ Bit(TRUE) = 1 /\ Bit(FALSE) = 0
  /\ \A b \in BOOLEAN : Bit(b) \in {0, 1}
  BY DEF Bit

\* What is counted is a number, at least as many nibbles as the LCD has not
\* yet latched of the first command.
LEMMA NibbleCount ==
  ASSUME TypeOK, queue \in Seq(Command)
  PROVE  /\ Nibbles \in Int /\ Writable \in Int
         /\ Len(queue) \in Nat
         /\ queue # << >> => Len(queue) >= 1
         /\ queue = << >> => Len(queue) = 0
<1>1. Len(queue) \in Nat
  BY LenProperties
<1>2. (queue # << >> => Len(queue) >= 1) /\ (queue = << >> => Len(queue) = 0)
  BY EmptySeq
<1> QED
  BY <1>1, <1>2, SizeAssumption DEF Nibbles, Writable, Bit, TypeOK

\* With room for four nibbles, two commands are both taken.
LEMMA BothTaken ==
  ASSUME TypeOK, queue \in Seq(Command), Writable >= 4,
         NEW c \in Command, NEW d \in Command
  PROVE  /\ WithCommand(queue, c) = Append(queue, c)
         /\ WithCommand(WithCommand(queue, c), d) = Append(Append(queue, c), d)
<1>1. Nibbles \in Int /\ Len(queue) \in Nat
  BY NibbleCount
<1>2. RingSize - 1 - Nibbles >= 4
  BY DEF Writable
<1>3. WithCommand(queue, c) = Append(queue, c)
  BY <1>1, <1>2, SizeAssumption DEF WithCommand
<1>4. Len(Append(queue, c)) = Len(queue) + 1
  BY AppendProperties
<1>5. WithCommand(Append(queue, c), d) = Append(Append(queue, c), d)
  BY <1>1, <1>2, <1>4, SizeAssumption DEF WithCommand
<1> QED
  BY <1>3, <1>5

LEMMA CommandType ==
  ASSUME NEW r \in Nat, NEW k \in Nat, NEW v \in Visible
  PROVE  Move(r, k) \in Command /\ Data(v) \in Command
  BY DEF Move, Data, Command, Visible, Printed

\* What is drawn is one of the characters the LCD may show.
LEMMA WantedType ==
  ASSUME TypeOK
  PROVE  Wanted \in Visible
<1>1. local[scan_position] \in Visible
  BY DEF TypeOK, Visible
<1> QED
  BY <1>1 DEF Wanted, TypeOK, Visible

LEMMA DrawnCount ==
  ASSUME DisplayInv, Writable >= 4
  PROVE  /\ WithDrawn \in Seq(Command)
         /\ WithDrawn # << >>
         /\ Len(WithDrawn) \in {Len(queue) + 1, Len(queue) + 2}
<1> DEFINE m == Move(scan_row, scan_column)
           d == Data(Wanted)
<1> HIDE DEF m, d
<1>1. m \in Command /\ d \in Command
  BY CommandType, WantedType DEF DisplayInv, ScanInv, m, d
<1>2. queue \in Seq(Command) /\ TypeOK
  BY DEF DisplayInv, QueueInv
<1>3. WithDrawn \in {Append(queue, d), Append(Append(queue, m), d)}
  <2>1. /\ WithCommand(queue, d) = Append(queue, d)
        /\ WithCommand(WithCommand(queue, m), d) = Append(Append(queue, m), d)
    BY <1>1, <1>2, BothTaken
  <2> QED
    BY <2>1 DEF WithDrawn, Adjacent, m, d
<1>4. /\ Append(queue, d) \in Seq(Command)
      /\ Append(queue, d) # << >>
      /\ Len(Append(queue, d)) = Len(queue) + 1
  BY <1>1, <1>2, AppendProperties
<1>5. /\ Append(queue, m) \in Seq(Command)
      /\ Len(Append(queue, m)) = Len(queue) + 1
  BY <1>1, <1>2, AppendProperties
<1>6. /\ Append(Append(queue, m), d) \in Seq(Command)
      /\ Append(Append(queue, m), d) # << >>
      /\ Len(Append(Append(queue, m), d)) = Len(queue) + 2
  <2>1. Len(Append(Append(queue, m), d)) = Len(Append(queue, m)) + 1
    BY <1>1, <1>5, AppendProperties
  <2>2. Len(queue) \in Nat
    BY <1>2, LenProperties
  <2>3. /\ Append(Append(queue, m), d) \in Seq(Command)
        /\ Append(Append(queue, m), d) # << >>
    BY <1>1, <1>5, AppendProperties
  <2> QED
    BY <1>5, <2>1, <2>2, <2>3
<1> QED
  BY <1>3, <1>4, <1>6

-----------------------------------------------------------------------------
(* The inductive invariant.                                                *)

LEMMA InitDisplayInv == Init => DisplayInv
<1> SUFFICES ASSUME Init PROVE DisplayInv
  OBVIOUS
<1> USE SizeAssumption DEF Init
<1>1. ScanInv
  BY InitScanInv
<1>2. scan_position \in Cells
  BY FirstCell
<1>3. TypeOK
  BY <1>2 DEF TypeOK, Visible, Printed
<1>4. queue \in Seq(Command) /\ Len(queue) = 0
  BY EmptySeq
<1>5. Nibbles = 0
  BY <1>4 DEF Nibbles, Bit
<1>6. QueueInv
  BY <1>4, <1>5 DEF QueueInv, RingHolds
<1> QED
  BY <1>1, <1>3, <1>6 DEF DisplayInv

\* The two commands of a redraw, or of a forced status, fit.
LEMMA QueueGrows ==
  ASSUME TypeOK, QueueInv, Writable >= 4,
         UNCHANGED <<latched, transmitting>>,
         queue' \in Seq(Command), queue' # << >>,
         Len(queue') \in {Len(queue) + 1, Len(queue) + 2}
  PROVE  RingHolds'
<1>1. /\ Nibbles \in 0 .. RingSize - 1
      /\ RingSize - 1 - Nibbles >= 4
      /\ Len(queue) \in Nat
  BY NibbleCount DEF QueueInv, RingHolds, Writable
<1>2. /\ Bit(latched') = Bit(latched) /\ Bit(latched) \in {0, 1}
      /\ Bit(transmitting') = Bit(transmitting) /\ Bit(transmitting) \in {0, 1}
  BY BitType DEF TypeOK
<1>3. Nibbles' = 2 * Len(queue') - Bit(latched) - Bit(transmitting)
  BY <1>2 DEF Nibbles
<1>4. CASE Len(queue') = Len(queue) + 1
  <2>1. Nibbles' = Nibbles + 2
    BY <1>1, <1>2, <1>3, <1>4 DEF Nibbles
  <2> QED
    BY <1>1, <2>1, SizeAssumption DEF RingHolds
<1>5. CASE Len(queue') = Len(queue) + 2
  <2>1. Nibbles' = Nibbles + 4
    BY <1>1, <1>2, <1>3, <1>5 DEF Nibbles
  <2> QED
    BY <1>1, <2>1, SizeAssumption DEF RingHolds
<1> QED
  BY <1>4, <1>5

LEMMA TickEndWriteKeeps ==
  ASSUME TypeOK, QueueInv, TickEndWrite
  PROVE  TypeOK' /\ QueueInv'
<1> USE SizeAssumption
<1>1. queue # << >> /\ Len(queue) \in Nat /\ Len(queue) >= 1
  BY NibbleCount DEF QueueInv, RingHolds, TickEndWrite
<1>2. /\ Head(queue) \in Command
      /\ Tail(queue) \in Seq(Command)
      /\ Len(Tail(queue)) = Len(queue) - 1
  BY <1>1, HeadTailProperties DEF QueueInv
<1>3. ddram' \in [Cells -> Visible]
  <2>1. CASE latched
    <3>1. Head(queue).char \in Visible /\ ddram \in [Cells -> Visible]
      BY <1>2 DEF Command, TypeOK
    <3>2. Execute(Lcd, Head(queue)).text \in [Cells -> Visible]
      BY <3>1 DEF Execute, Lcd
    <3> QED
      BY <2>1, <3>2 DEF TickEndWrite
  <2>2. CASE ~latched
    BY <2>2 DEF TickEndWrite, TypeOK
  <2> QED
    BY <2>1, <2>2
<1>4. TypeOK'
  <2>1. latched' \in BOOLEAN /\ transmitting' \in BOOLEAN
    BY DEF TickEndWrite
  <2>2. blink_counter' \in 0 .. BlinkPeriod - 1
    BY DEF TypeOK, TickEndWrite
  <2>3. UNCHANGED <<local, remote, scan_position, last_write, blink,
                    previous_blink_counter, cursor_position, status, task,
                    moved, changes>>
    BY DEF TickEndWrite, shown, scan
  <2> QED
    BY <1>3, <2>1, <2>2, <2>3 DEF TypeOK
<1>5. Nibbles' = Nibbles
  <2>1. CASE latched
    <3>1. Len(queue') = Len(queue) - 1 /\ ~latched' /\ transmitting /\ ~transmitting'
      BY <1>2, <2>1 DEF TickEndWrite
    <3>2. Nibbles = 2 * Len(queue) - 1 - 1
      BY <2>1, <3>1, BitType DEF Nibbles, Bit
    <3>3. Nibbles' = 2 * (Len(queue) - 1) - 0 - 0
      BY <3>1, BitType DEF Nibbles, Bit
    <3> QED
      BY <1>1, <3>2, <3>3
  <2>2. CASE ~latched
    <3>1. queue' = queue /\ latched' /\ transmitting /\ ~transmitting'
      BY <2>2 DEF TickEndWrite
    <3>2. Nibbles = 2 * Len(queue) - 0 - 1
      BY <2>2, <3>1 DEF Nibbles, Bit
    <3>3. Nibbles' = 2 * Len(queue) - 1 - 0
      BY <3>1 DEF Nibbles, Bit
    <3> QED
      BY <1>1, <3>2, <3>3
  <2> QED
    BY <2>1, <2>2
<1>6. queue' \in Seq(Command)
  BY <1>2 DEF TickEndWrite, QueueInv
<1>7. queue' = << >> => ~latched'
  <2>1. CASE latched
    BY <2>1 DEF TickEndWrite
  <2>2. CASE ~latched
    BY <1>1, <2>2 DEF TickEndWrite
  <2> QED
    BY <2>1, <2>2
<1>8. RingHolds'
  BY <1>5, <1>7 DEF QueueInv, RingHolds, TickEndWrite
<1>9. task' = "draw" => Writable' >= 4
  BY <1>5 DEF QueueInv, Writable, TickEndWrite
<1> QED
  BY <1>4, <1>6, <1>8, <1>9 DEF QueueInv

LEMMA TickStartWriteKeeps ==
  ASSUME TypeOK, QueueInv, TickStartWrite
  PROVE  TypeOK' /\ QueueInv'
<1> USE SizeAssumption
<1>1. TypeOK'
  BY DEF TypeOK, TickStartWrite, shown, scan
<1>2. /\ Nibbles \in 0 .. RingSize - 1 /\ Len(queue) \in Nat
      /\ queue = << >> => Len(queue) = 0
  BY NibbleCount DEF QueueInv, RingHolds
<1>3. Nibbles' = IF Nibbles > 0 THEN Nibbles - 1 ELSE Nibbles
  <2>1. queue' = queue /\ Bit(latched') = Bit(latched) /\ Bit(latched) \in {0, 1}
    BY BitType DEF TickStartWrite, TypeOK
  <2>2. Nibbles = 2 * Len(queue) - Bit(latched) - 0
    BY DEF TickStartWrite, Nibbles, Bit
  <2>3. Nibbles' = 2 * Len(queue) - Bit(latched) - Bit(transmitting')
    BY <2>1 DEF Nibbles
  <2>4. CASE Nibbles > 0
    <3>1. Bit(transmitting') = 1
      BY <2>4 DEF TickStartWrite, Bit
    <3> QED
      BY <1>2, <2>1, <2>2, <2>3, <2>4, <3>1
  <2>5. CASE ~(Nibbles > 0)
    <3>1. Bit(transmitting') = 0
      BY <2>5 DEF TickStartWrite, Bit
    <3> QED
      BY <1>2, <2>1, <2>2, <2>3, <2>5, <3>1
  <2> QED
    BY <2>4, <2>5
<1>4. queue = << >> => Nibbles = 0 /\ ~latched
  BY <1>2 DEF QueueInv, RingHolds, Nibbles, Bit, TypeOK
<1>5. RingHolds'
  <2>1. Nibbles' \in 0 .. RingSize - 1
    BY <1>2, <1>3
  <2>2. queue' = queue /\ latched' = latched
    BY DEF TickStartWrite
  <2>3. queue = << >> => ~transmitting'
    <3> SUFFICES ASSUME queue = << >> PROVE ~transmitting'
      OBVIOUS
    <3>1. ~(Nibbles > 0)
      BY <1>4
    <3> QED
      BY <3>1 DEF TickStartWrite
  <2> QED
    BY <1>4, <2>1, <2>2, <2>3 DEF RingHolds
<1>6. Writable' >= Writable /\ Writable \in Int
  BY <1>2, <1>3 DEF Writable
<1>7. task' = "draw" => Writable' >= 4
  BY <1>2, <1>3, <1>6 DEF QueueInv, TickStartWrite, Writable
<1> QED
  BY <1>1, <1>5, <1>7 DEF QueueInv, TickStartWrite

LEMMA TickDrawKeeps ==
  ASSUME DisplayInv, TickDraw, scan_position' \in Cells
  PROVE  TypeOK' /\ QueueInv'
<1>1. TypeOK /\ QueueInv /\ Writable >= 4 /\ Wanted \in Visible
  BY WantedType DEF DisplayInv, QueueInv, TickDraw
<1>2. TypeOK'
  BY <1>1 DEF TypeOK, TickDraw, shown, handler
<1>3. UNCHANGED <<latched, transmitting>> /\ task' = "idle"
  BY DEF TickDraw, handler
<1>4. CASE queue' = queue
  <2>1. Nibbles' = Nibbles
    BY <1>3, <1>4 DEF Nibbles
  <2>2. RingHolds'
    BY <1>1, <1>3, <1>4, <2>1 DEF QueueInv, RingHolds
  <2> QED
    BY <1>1, <1>2, <1>3, <1>4, <2>2 DEF QueueInv
<1>5. CASE queue' = WithDrawn
  <2>1. /\ queue' \in Seq(Command) /\ queue' # << >>
        /\ Len(queue') \in {Len(queue) + 1, Len(queue) + 2}
    BY <1>1, <1>5, DrawnCount
  <2>2. RingHolds'
    BY <1>1, <1>3, <2>1, QueueGrows
  <2> QED
    BY <1>2, <1>3, <2>1, <2>2 DEF QueueInv
<1> QED
  BY <1>4, <1>5 DEF TickDraw

LEMMA ForceStatusKeeps ==
  ASSUME DisplayInv, ForceStatus
  PROVE  TypeOK' /\ QueueInv'
<1>1. TypeOK /\ QueueInv /\ Writable >= 4
  BY DEF DisplayInv, ForceStatus, RoomToDraw
<1>2. PICK s \in Statuses :
        /\ status' = s
        /\ queue' = WithCommand(WithCommand(queue, Move(0, 0)), Data(s))
        /\ remote' = [remote EXCEPT ![0] = s]
  BY DEF ForceStatus
<1>3. UNCHANGED <<latched, transmitting>> /\ task' = "idle"
  BY DEF ForceStatus, handler, Change
<1>4. TypeOK'
  BY <1>1, <1>2, FirstCell, SizeAssumption
  DEF TypeOK, ForceStatus, shown, handler, Change, Visible
<1> DEFINE m == Move(0, 0)
           d == Data(s)
<1>5. m \in Command /\ d \in Command
  BY CommandType DEF Visible
<1> HIDE DEF m, d
<1>6. queue \in Seq(Command) /\ Len(queue) \in Nat
  BY <1>1, LenProperties DEF QueueInv
<1>7. queue' = Append(Append(queue, m), d)
  BY <1>1, <1>2, <1>5, <1>6, BothTaken DEF m, d
<1>8. Append(queue, m) \in Seq(Command) /\ Len(Append(queue, m)) = Len(queue) + 1
  BY <1>5, <1>6, AppendProperties
<1>9. /\ queue' \in Seq(Command) /\ queue' # << >>
      /\ Len(queue') = Len(queue) + 2
  <2>1. /\ queue' \in Seq(Command) /\ queue' # << >>
        /\ Len(queue') = Len(Append(queue, m)) + 1
    BY <1>5, <1>7, <1>8, AppendProperties
  <2> QED
    BY <1>6, <1>8, <2>1
<1>10. RingHolds'
  BY <1>1, <1>3, <1>9, QueueGrows
<1> QED
  BY <1>3, <1>4, <1>9, <1>10 DEF QueueInv

LEMMA NextDisplayInv == DisplayInv /\ [Next]_vars => DisplayInv'
<1> SUFFICES ASSUME DisplayInv, [Next]_vars PROVE DisplayInv'
  OBVIOUS
<1>1. TypeOK /\ ScanInv /\ QueueInv
  BY DEF DisplayInv
<1>2. ScanInv'
  BY <1>1, NextScanInv
<1>3. scan_position' \in Cells
  BY <1>2, CellOf DEF ScanInv, ScanAgrees
<1>4. SUFFICES TypeOK' /\ QueueInv'
  BY <1>2 DEF DisplayInv
<1>5. CASE LcdTick
  BY <1>1, <1>5, TickEndWriteKeeps, TickStartWriteKeeps DEF LcdTick
<1>6. CASE TickDraw
  BY <1>3, <1>6, TickDrawKeeps
<1>7. CASE ForceStatus
  BY <1>7, ForceStatusKeeps
<1>8. CASE TickBlink
  <2>1. TypeOK'
    BY <1>1, <1>8 DEF TypeOK, TickBlink, shown, scan, handler
  <2>2. QueueInv'
    BY <1>1, <1>8
    DEF TickBlink, RoomToDraw, handler, QueueInv, RingHolds, Writable, Nibbles
  <2> QED
    BY <2>1, <2>2
<1>9. CASE PrintCharacter \/ Clear \/ SetCursorPosition \/ SetStatus
  <2>1. TypeOK'
    BY <1>1, <1>9, SizeAssumption
    DEF TypeOK, PrintCharacter, Clear, SetCursorPosition, SetStatus, Change,
        Printed, shown, scan, handler
  <2>2. UNCHANGED <<queue, latched, transmitting, task>>
    BY <1>9 DEF PrintCharacter, Clear, SetCursorPosition, SetStatus, handler
  <2> QED
    BY <1>1, <2>1, <2>2 DEF QueueInv, RingHolds, Writable, Nibbles
<1>10. CASE SetCustomCharMap
  <2>1. TypeOK'
    BY <1>1, <1>10, SizeAssumption
    DEF TypeOK, SetCustomCharMap, Change, shown, scan
  <2>2. UNCHANGED <<queue, latched, transmitting, task>>
    BY <1>10 DEF SetCustomCharMap
  <2> QED
    BY <1>1, <2>1, <2>2 DEF QueueInv, RingHolds, Writable, Nibbles
<1>11. CASE UNCHANGED vars
  BY <1>1, <1>11
  DEF vars, shown, scan, handler, TypeOK, QueueInv, RingHolds, Writable, Nibbles
<1> QED
  BY <1>5, <1>6, <1>7, <1>8, <1>9, <1>10, <1>11 DEF Next, Program

LEMMA DisplayInvariance == Spec => []DisplayInv
  BY InitDisplayInv, NextDisplayInv, PTL DEF Spec

\* A command behind another, behind the queue.
LEMMA TwoAppended ==
  ASSUME NEW q \in Seq(Command), NEW c \in Command, NEW d \in Command
  PROVE  /\ Append(q, d) = q \o <<d>>
         /\ Append(Append(q, c), d) = q \o <<c, d>>
  OBVIOUS

\* Tick and ForceStatus test for room once, the handler runs at any moment, and
\* still the ring gets every command that they send: none is dropped.
THEOREM NoCommandDropped == Spec => []NothingDropped
<1>1. ASSUME DisplayInv PROVE NothingDropped
  <2>1. TypeOK /\ queue \in Seq(Command) /\ (task = "draw" => Writable >= 4)
    BY <1>1 DEF DisplayInv, QueueInv
  <2>2. ASSUME Writable >= 4, NEW c \in Command, NEW d \in Command
        PROVE  /\ WithCommand(queue, d) = queue \o <<d>>
               /\ WithCommand(WithCommand(queue, c), d) = queue \o <<c, d>>
    BY <2>1, <2>2, BothTaken, TwoAppended
  <2>3. Move(scan_row, scan_column) \in Command /\ Data(Wanted) \in Command
    BY <1>1, CommandType, WantedType DEF DisplayInv, ScanInv
  <2>4. ASSUME NEW s \in Statuses PROVE Move(0, 0) \in Command /\ Data(s) \in Command
    BY CommandType DEF Visible
  <2>5. CASE Writable >= 4
    BY <2>2, <2>3, <2>4, <2>5 DEF NothingDropped, WithDrawn
  <2>6. CASE ~(Writable >= 4)
    BY <2>1, <2>6 DEF NothingDropped, RoomToDraw
  <2> QED
    BY <2>5, <2>6
<1> QED
  BY <1>1, DisplayInvariance, PTL

\* Every variable keeps its type; in particular the scan never leaves the text.
THEOREM DisplayTypes == Spec => []TypeOK
<1>1. DisplayInv => TypeOK
  BY DEF DisplayInv
<1> QED
  BY <1>1, DisplayInvariance, PTL

\* The three that the run checks together.
THEOREM DisplayStaysSound == Spec => []DisplaySound
<1>1. []TypeOK /\ []ScanAgrees /\ []NothingDropped => []DisplaySound
  BY PTL DEF DisplaySound
<1> QED
  BY <1>1, DisplayTypes, ScanStaysTrue, NoCommandDropped, PTL

-----------------------------------------------------------------------------
(* What the LCD will show.  The states it goes through while a queue of    *)
(* commands is sent make a trace, and what is said of them is said of the  *)
(* last state of every trace: it is kept when a command is appended, and   *)
(* when the first one has been sent.                                       *)

IsTrace(h, lcd, q) ==
  h = [i \in 0 .. Len(q) |-> IF i = 0 THEN lcd ELSE Execute(h[i - 1], q[i])]

EndsIn(e, lcd, q) == \E h : IsTrace(h, lcd, q) /\ e = h[Len(q)]

LEMMA NothingSent ==
  ASSUME NEW lcd
  PROVE  /\ EndsIn(lcd, lcd, << >>)
         /\ \A e : EndsIn(e, lcd, << >>) => e = lcd
<1>1. Len(<< >>) = 0
  BY EmptySeq
<1>2. IsTrace([i \in 0 .. 0 |-> lcd], lcd, << >>)
  BY <1>1 DEF IsTrace
<1>3. ASSUME NEW h, IsTrace(h, lcd, << >>) PROVE h[Len(<< >>)] = lcd
  BY <1>1, <1>3 DEF IsTrace
<1> QED
  BY <1>1, <1>2, <1>3 DEF EndsIn

\* One command more.
LEMMA OneMore ==
  ASSUME NEW lcd, NEW q \in Seq(Command), NEW c \in Command,
         NEW e, EndsIn(e, lcd, q)
  PROVE  EndsIn(Execute(e, c), lcd, Append(q, c))
<1> DEFINE n == Len(q)
           a == Append(q, c)
<1>1. /\ n \in Nat /\ Len(a) = n + 1 /\ a[n + 1] = c
      /\ \A i \in 1 .. n : a[i] = q[i]
  BY AppendProperties, LenProperties
<1> HIDE DEF n, a
<1>2. ASSUME NEW h, IsTrace(h, lcd, q)
      PROVE  EndsIn(Execute(h[n], c), lcd, a)
  <2> DEFINE g == [i \in 0 .. n + 1 |-> IF i <= n THEN h[i] ELSE Execute(h[n], c)]
  <2>1. ASSUME NEW i \in 0 .. n + 1
        PROVE  g[i] = IF i = 0 THEN lcd ELSE Execute(g[i - 1], a[i])
    <3>1. CASE i = 0
      BY <1>1, <1>2, <3>1 DEF IsTrace, n
    <3>2. CASE i \in 1 .. n
      <4>1. h[i] = Execute(h[i - 1], q[i])
        BY <1>1, <1>2, <3>2 DEF IsTrace, n
      <4> QED
        BY <1>1, <3>2, <4>1
    <3>3. CASE i = n + 1
      BY <1>1, <3>3
    <3> QED
      BY <1>1, <3>1, <3>2, <3>3
  <2>2. g = [i \in 0 .. n + 1 |-> IF i = 0 THEN lcd ELSE Execute(g[i - 1], a[i])]
    BY <2>1
  <2>3. g[n + 1] = Execute(h[n], c)
    BY <1>1
  <2> HIDE DEF g
  <2> QED
    BY <1>1, <2>2, <2>3 DEF EndsIn, IsTrace
<1> QED
  BY <1>1, <1>2 DEF EndsIn, n, a

LEMMA OneMoreOnly ==
  ASSUME NEW lcd, NEW q \in Seq(Command), NEW c \in Command,
         NEW e, EndsIn(e, lcd, Append(q, c))
  PROVE  \E d : EndsIn(d, lcd, q) /\ e = Execute(d, c)
<1> DEFINE n == Len(q)
           a == Append(q, c)
<1>1. /\ n \in Nat /\ Len(a) = n + 1 /\ a[n + 1] = c
      /\ \A i \in 1 .. n : a[i] = q[i]
  BY AppendProperties, LenProperties
<1> HIDE DEF n, a
<1>2. ASSUME NEW h, IsTrace(h, lcd, a)
      PROVE  \E d : EndsIn(d, lcd, q) /\ h[n + 1] = Execute(d, c)
  <2> DEFINE g == [i \in 0 .. n |-> h[i]]
  <2>1. \A i \in 0 .. n + 1 : h[i] = IF i = 0 THEN lcd ELSE Execute(h[i - 1], a[i])
    BY <1>1, <1>2 DEF IsTrace
  <2>2. g = [i \in 0 .. n |-> IF i = 0 THEN lcd ELSE Execute(g[i - 1], q[i])]
    BY <1>1, <2>1
  <2>3. h[n + 1] = Execute(g[n], c)
    BY <1>1, <2>1
  <2> HIDE DEF g
  <2> QED
    BY <2>2, <2>3 DEF EndsIn, IsTrace, n
<1>3. PICK h : IsTrace(h, lcd, a) /\ e = h[n + 1]
  BY <1>1 DEF EndsIn, a
<1> QED
  BY <1>2, <1>3

\* The first command less, once it has been sent.
LEMMA OneLess ==
  ASSUME NEW lcd, NEW q \in Seq(Command), q # << >>
  PROVE  \A e : EndsIn(e, Execute(lcd, Head(q)), Tail(q)) <=> EndsIn(e, lcd, q)
<1> DEFINE n == Len(q)
           t == Tail(q)
           s == Execute(lcd, Head(q))
<1>1. /\ n \in Nat /\ n >= 1 /\ Len(t) = n - 1 /\ Head(q) = q[1]
      /\ \A i \in 1 .. n - 1 : t[i] = q[i + 1]
  BY HeadTailProperties, EmptySeq, LenProperties
<1>2. s = Execute(lcd, q[1])
  BY <1>1
<1> HIDE DEF n, t, s
<1>3. ASSUME NEW h, IsTrace(h, s, t) PROVE EndsIn(h[n - 1], lcd, q)
  <2> DEFINE g == [i \in 0 .. n |-> IF i = 0 THEN lcd ELSE h[i - 1]]
  <2>1. \A i \in 0 .. n - 1 : h[i] = IF i = 0 THEN s ELSE Execute(h[i - 1], t[i])
    BY <1>1, <1>3 DEF IsTrace
  <2>2. ASSUME NEW i \in 0 .. n
        PROVE  g[i] = IF i = 0 THEN lcd ELSE Execute(g[i - 1], q[i])
    <3>1. CASE i = 0
      BY <3>1
    <3>2. CASE i = 1
      BY <1>1, <1>2, <2>1, <3>2
    <3>3. CASE i \in 2 .. n
      <4>1. i - 1 \in 1 .. n - 1 /\ i - 1 # 0
        BY <1>1, <3>3
      <4>2. h[i - 1] = Execute(h[i - 1 - 1], t[i - 1])
        BY <1>1, <2>1, <4>1
      <4>3. t[i - 1] = q[i]
        BY <1>1, <4>1
      <4> QED
        BY <1>1, <3>3, <4>1, <4>2, <4>3
    <3> QED
      BY <1>1, <3>1, <3>2, <3>3
  <2>3. g = [i \in 0 .. n |-> IF i = 0 THEN lcd ELSE Execute(g[i - 1], q[i])]
    BY <2>2
  <2>4. g[n] = h[n - 1]
    BY <1>1
  <2> HIDE DEF g
  <2> QED
    BY <2>3, <2>4 DEF EndsIn, IsTrace, n
<1>4. ASSUME NEW h, IsTrace(h, lcd, q) PROVE EndsIn(h[n], s, t)
  <2> DEFINE g == [i \in 0 .. n - 1 |-> h[i + 1]]
  <2>1. \A i \in 0 .. n : h[i] = IF i = 0 THEN lcd ELSE Execute(h[i - 1], q[i])
    BY <1>4 DEF IsTrace, n
  <2>2. ASSUME NEW i \in 0 .. n - 1
        PROVE  g[i] = IF i = 0 THEN s ELSE Execute(g[i - 1], t[i])
    <3>1. CASE i = 0
      BY <1>1, <1>2, <2>1, <3>1
    <3>2. CASE i \in 1 .. n - 1
      <4>1. h[i + 1] = Execute(h[i], q[i + 1])
        BY <1>1, <2>1, <3>2
      <4> QED
        BY <1>1, <3>2, <4>1
    <3> QED
      BY <1>1, <3>1, <3>2
  <2>3. g = [i \in 0 .. n - 1 |-> IF i = 0 THEN s ELSE Execute(g[i - 1], t[i])]
    BY <2>2
  <2>4. g[n - 1] = h[n]
    BY <1>1
  <2> HIDE DEF g
  <2> QED
    BY <1>1, <2>3, <2>4 DEF EndsIn, IsTrace
<1> QED
  BY <1>1, <1>3, <1>4 DEF EndsIn, n, t, s

\* The definition of Sent is the one of a trace, if there is any.
LEMMA SentIsATrace ==
  ASSUME NEW e, EndsIn(e, Lcd, queue)
  PROVE  EndsIn(Drained, Lcd, queue)
<1>1. PICK h : IsTrace(h, Lcd, queue)
  BY DEF EndsIn
<1>2. Sent = CHOOSE h2 : h2 = [i \in 0 .. Len(queue) |->
                IF i = 0 THEN Lcd ELSE Execute(h2[i - 1], queue[i])]
  BY DEF Sent
<1>3. IsTrace(Sent, Lcd, queue)
  BY <1>1, <1>2, Zenon DEF IsTrace
<1> QED
  BY <1>3 DEF EndsIn, Drained

-----------------------------------------------------------------------------
(* remote_ is true of the end of every trace, and the last write tells     *)
(* where the LCD's address will be there.                                  *)

LcdState == [text : [Cells -> Visible], at : [row : Nat, col : Nat]]

Shows(lcd, text) == \A p \in Cells : text[p] # Unknown => lcd.text[p] = text[p]

IsAfter(lcd, write) == write # Nowhere =>
  \E r \in 0 .. Height - 1, c \in 0 .. Width - 1 :
    write = r * Width + c /\ lcd.at = [row |-> r, col |-> c + 1]

RemoteInv == ~moved =>
  /\ \E e : EndsIn(e, Lcd, queue)
  /\ \A e : EndsIn(e, Lcd, queue) =>
       e \in LcdState /\ Shows(e, remote) /\ IsAfter(e, last_write)

\* A cell is on one row and in one column.
LEMMA OneCell ==
  ASSUME NEW r \in Nat, NEW c \in 0 .. Width - 1,
         NEW s \in Nat, NEW d \in 0 .. Width - 1,
         r * Width + c = s * Width + d
  PROVE  r = s /\ c = d
<1>1. Width \in Nat \ {0} /\ r \in Int /\ s \in Int
  BY SizeAssumption
<1>2. Width * r + c = r * Width + c /\ Width * s + d = s * Width + d
  BY <1>1
<1>3. /\ (Width * r + c) % Width = c /\ (Width * r + c) \div Width = r
      /\ (Width * s + d) % Width = d /\ (Width * s + d) \div Width = s
  BY <1>1, Remainders!Digits
<1> QED
  BY <1>2, <1>3

LEMMA MoveExecuted ==
  ASSUME NEW lcd \in LcdState, NEW r \in Nat, NEW c \in Nat
  PROVE  LET after == Execute(lcd, Move(r, c))
         IN /\ after \in LcdState /\ after.text = lcd.text
            /\ after.at = [row |-> r, col |-> c]
  BY DEF Execute, Move, LcdState

LEMMA DataExecuted ==
  ASSUME NEW lcd \in LcdState, NEW v \in Visible,
         NEW r \in Nat, NEW c \in Nat, r < Height, c < Width,
         lcd.at = [row |-> r, col |-> c]
  PROVE  LET after == Execute(lcd, Data(v))
         IN /\ after \in LcdState
            /\ after.text = [lcd.text EXCEPT ![r * Width + c] = v]
            /\ after.at = [row |-> r, col |-> c + 1]
<1>1. r * Width + c \in Cells
  BY CellOf
<1>2. Data(v).op # "move" /\ Data(v).char = v
  BY DEF Data
<1>3. Execute(lcd, Data(v)) =
        [text |-> [p \in Cells |-> IF r * Width + c = p THEN v ELSE lcd.text[p]],
         at |-> [row |-> r, col |-> c + 1]]
  BY <1>2 DEF Execute, LcdState
<1>4. lcd.text \in [Cells -> Visible]
  BY DEF LcdState
<1>5. [p \in Cells |-> IF r * Width + c = p THEN v ELSE lcd.text[p]]
        = [lcd.text EXCEPT ![r * Width + c] = v]
  BY <1>1, <1>4
<1>6. [lcd.text EXCEPT ![r * Width + c] = v] \in [Cells -> Visible]
  BY <1>1, <1>4
<1> HIDE <1>1
<1>7. Execute(lcd, Data(v)) \in LcdState
  BY <1>3, <1>5, <1>6, SizeAssumption DEF LcdState
<1> QED
  BY <1>3, <1>5, <1>7

LEMMA InitRemoteInv == Init => RemoteInv
<1> SUFFICES ASSUME Init PROVE RemoteInv
  OBVIOUS
<1>1. Lcd \in LcdState
  BY DEF Init, Lcd, LcdState, Visible, Printed
<1>2. Shows(Lcd, remote) /\ IsAfter(Lcd, last_write)
  BY DEF Init, Shows, IsAfter
<1>3. queue = << >>
  BY DEF Init
<1> QED
  BY <1>1, <1>2, <1>3, NothingSent DEF RemoteInv

\* The handler changes what the LCD shows, not what it will show.
LEMMA HandlerKeepsRemote ==
  ASSUME RemoteInv, TypeOK, QueueInv, LcdTick
  PROVE  RemoteInv'
<1>1. UNCHANGED <<remote, last_write, moved>>
  BY DEF LcdTick, TickEndWrite, TickStartWrite
<1>2. \A e : EndsIn(e, Lcd', queue') <=> EndsIn(e, Lcd, queue)
  <2>1. CASE TickEndWrite /\ latched
    <3>1. queue # << >> /\ queue \in Seq(Command)
      BY <2>1 DEF QueueInv, RingHolds
    <3>2. Lcd' = Execute(Lcd, Head(queue)) /\ queue' = Tail(queue)
      BY <2>1 DEF TickEndWrite, Lcd, Execute
    <3> QED
      BY <3>1, <3>2, OneLess
  <2>2. CASE ~(TickEndWrite /\ latched)
    <3>1. Lcd' = Lcd /\ queue' = queue
      BY <2>2 DEF LcdTick, TickEndWrite, TickStartWrite, Lcd
    <3> QED
      BY <3>1
  <2> QED
    BY <2>1, <2>2
<1> QED
  BY <1>1, <1>2 DEF RemoteInv

\* Drawing a character where the LCD's address will be.
LEMMA DrawnIsRemote ==
  ASSUME TypeOK, ScanInv, NEW lcd \in LcdState, Shows(lcd, remote),
         lcd.at = [row |-> scan_row, col |-> scan_column],
         remote' = [remote EXCEPT ![scan_position] = Wanted],
         last_write' = scan_position
  PROVE  LET after == Execute(lcd, Data(Wanted))
         IN after \in LcdState /\ Shows(after, remote') /\ IsAfter(after, last_write')
<1> DEFINE after == Execute(lcd, Data(Wanted))
<1>1. /\ scan_row \in Nat /\ scan_column \in Nat
      /\ scan_row < Height /\ scan_column < Width
      /\ scan_position = scan_row * Width + scan_column
      /\ Wanted \in Visible /\ scan_position \in Cells
  BY WantedType DEF ScanInv, ScanAgrees, TypeOK
<1>2. /\ after \in LcdState
      /\ after.text = [lcd.text EXCEPT ![scan_position] = Wanted]
      /\ after.at = [row |-> scan_row, col |-> scan_column + 1]
  BY <1>1, DataExecuted
<1> HIDE DEF after
<1>3. Shows(after, remote')
  <2>1. lcd.text \in [Cells -> Visible] /\ remote \in [Cells -> Visible]
    BY DEF LcdState, TypeOK
  <2>2. ASSUME NEW p \in Cells, remote'[p] # Unknown
        PROVE  after.text[p] = remote'[p]
    BY <1>1, <1>2, <2>1, <2>2 DEF Shows
  <2> QED
    BY <2>2 DEF Shows
<1>4. IsAfter(after, last_write')
  <2>1. scan_row \in 0 .. Height - 1 /\ scan_column \in 0 .. Width - 1
    BY <1>1, SizeAssumption
  <2> QED
    BY <1>1, <1>2, <2>1 DEF IsAfter
<1> QED
  BY <1>2, <1>3, <1>4 DEF after

LEMMA TickDrawKeepsRemote ==
  ASSUME RemoteInv, DisplayInv, TickDraw
  PROVE  RemoteInv'
<1>1. /\ TypeOK /\ ScanInv /\ QueueInv /\ Writable >= 4
      /\ queue \in Seq(Command) /\ Wanted \in Visible
  BY WantedType DEF DisplayInv, QueueInv, TickDraw
<1>2. UNCHANGED moved /\ Lcd' = Lcd
  BY DEF TickDraw, handler, Lcd
<1>3. CASE Wanted = remote[scan_position]
  BY <1>2, <1>3 DEF TickDraw, RemoteInv
<1>4. CASE Wanted # remote[scan_position]
  <2>1. /\ queue' = WithDrawn /\ last_write' = scan_position
        /\ remote' = [remote EXCEPT ![scan_position] = Wanted]
    BY <1>4 DEF TickDraw
  <2>2. SUFFICES ASSUME ~moved PROVE RemoteInv'
    BY <1>2 DEF RemoteInv
  <2>3. /\ \E e : EndsIn(e, Lcd, queue)
        /\ \A e : EndsIn(e, Lcd, queue) =>
             e \in LcdState /\ Shows(e, remote) /\ IsAfter(e, last_write)
    BY <2>2 DEF RemoteInv
  <2> DEFINE m == Move(scan_row, scan_column)
             d == Data(Wanted)
  <2>4. m \in Command /\ d \in Command
    BY <1>1, CommandType DEF ScanInv
  <2>5. /\ WithCommand(queue, d) = Append(queue, d)
        /\ WithCommand(WithCommand(queue, m), d) = Append(Append(queue, m), d)
    <3> HIDE DEF m, d
    <3> QED
      BY <1>1, <2>4, BothTaken
  <2>6. ASSUME NEW lcd \in LcdState, Shows(lcd, remote),
               lcd.at = [row |-> scan_row, col |-> scan_column]
        PROVE  /\ Execute(lcd, d) \in LcdState /\ Shows(Execute(lcd, d), remote')
               /\ IsAfter(Execute(lcd, d), last_write')
    BY <1>1, <2>1, <2>6, DrawnIsRemote
  <2> HIDE DEF m, d
  <2>7. CASE scan_position = last_write + 1 /\ scan_column # 0
    <3>1. queue' = Append(queue, d)
      BY <2>1, <2>5, <2>7 DEF WithDrawn, Adjacent, m, d
    <3>2. ASSUME NEW e, EndsIn(e, Lcd, queue)
          PROVE  e.at = [row |-> scan_row, col |-> scan_column]
      <4>1. IsAfter(e, last_write)
        BY <2>3, <3>2
      <4>2. /\ scan_row \in Nat /\ scan_column \in Nat
            /\ scan_column < Width /\ scan_row < Height
            /\ scan_position = scan_row * Width + scan_column
            /\ scan_position \in Cells /\ last_write \in Cells \cup {Nowhere}
        BY <1>1 DEF ScanInv, ScanAgrees, TypeOK
      <4>3. last_write # Nowhere
        <5>1. Width * Height <= 256 /\ Width * Height \in Int
          BY SizeAssumption
        <5> QED
          BY <2>7, <4>2, <5>1 DEF Cells, Nowhere
      <4>4. PICK r \in 0 .. Height - 1, c \in 0 .. Width - 1 :
              last_write = r * Width + c /\ e.at = [row |-> r, col |-> c + 1]
        BY <4>1, <4>3 DEF IsAfter
      <4>5. r * Width + c = scan_row * Width + (scan_column - 1)
        <5>1. /\ scan_row * Width \in Int /\ r * Width \in Int
          BY <4>2, SizeAssumption
        <5> HIDE DEF Cells
        <5> QED
          BY <2>7, <4>2, <4>4, <5>1
      <4>6. r = scan_row /\ c = scan_column - 1
        <5>1. r \in Nat /\ scan_column - 1 \in 0 .. Width - 1
          BY <2>7, <4>2, SizeAssumption
        <5> QED
          BY <4>2, <4>5, <5>1, OneCell
      <4> QED
        BY <4>2, <4>4, <4>6
    <3>3. \E e : EndsIn(e, Lcd, queue')
      BY <1>1, <2>3, <2>4, <3>1, OneMore
    <3>4. ASSUME NEW e, EndsIn(e, Lcd, queue')
          PROVE  e \in LcdState /\ Shows(e, remote') /\ IsAfter(e, last_write')
      <4>1. PICK x : EndsIn(x, Lcd, queue) /\ e = Execute(x, d)
        <5>1. EndsIn(e, Lcd, Append(queue, d))
          BY <3>1, <3>4
        <5> QED
          BY <1>1, <2>4, <5>1, OneMoreOnly
      <4>2. x \in LcdState /\ Shows(x, remote)
        BY <2>3, <4>1
      <4> QED
        BY <2>6, <3>2, <4>1, <4>2
    <3> QED
      BY <1>2, <3>3, <3>4 DEF RemoteInv
  <2>8. CASE ~(scan_position = last_write + 1 /\ scan_column # 0)
    <3>1. queue' = Append(Append(queue, m), d)
      BY <2>1, <2>5, <2>8 DEF WithDrawn, Adjacent, m, d
    <3>2. Append(queue, m) \in Seq(Command)
      BY <1>1, <2>4, AppendProperties
    <3>3. \E e : EndsIn(e, Lcd, queue')
      BY <1>1, <2>3, <2>4, <3>1, <3>2, OneMore
    <3>4. ASSUME NEW e, EndsIn(e, Lcd, queue')
          PROVE  e \in LcdState /\ Shows(e, remote') /\ IsAfter(e, last_write')
      <4>1. PICK y : EndsIn(y, Lcd, Append(queue, m)) /\ e = Execute(y, d)
        <5> DEFINE q == Append(queue, m)
        <5>1. EndsIn(e, Lcd, Append(q, d)) /\ q \in Seq(Command)
          BY <3>1, <3>2, <3>4
        <5> HIDE DEF q
        <5>2. \E y : EndsIn(y, Lcd, q) /\ e = Execute(y, d)
          BY <2>4, <5>1, OneMoreOnly
        <5> QED
          BY <5>2 DEF q
      <4>2. PICK x : EndsIn(x, Lcd, queue) /\ y = Execute(x, m)
        BY <1>1, <2>4, <4>1, OneMoreOnly
      <4>3. x \in LcdState /\ Shows(x, remote)
        BY <2>3, <4>2
      <4>4. /\ y \in LcdState /\ y.text = x.text
            /\ y.at = [row |-> scan_row, col |-> scan_column]
        BY <1>1, <4>2, <4>3, MoveExecuted DEF ScanInv, m
      <4>5. Shows(y, remote)
        BY <4>3, <4>4 DEF Shows
      <4> QED
        BY <2>6, <4>1, <4>4, <4>5
    <3> QED
      BY <1>2, <3>3, <3>4 DEF RemoteInv
  <2> QED
    BY <2>7, <2>8
<1> QED
  BY <1>3, <1>4

LEMMA NextRemoteInv ==
  RemoteInv /\ DisplayInv /\ [Next]_vars => RemoteInv'
<1> SUFFICES ASSUME RemoteInv, DisplayInv, [Next]_vars PROVE RemoteInv'
  OBVIOUS
<1>1. CASE LcdTick
  BY <1>1, HandlerKeepsRemote DEF DisplayInv
<1>2. CASE TickDraw
  BY <1>2, TickDrawKeepsRemote
<1>3. CASE ForceStatus \/ SetCustomCharMap
  BY <1>3 DEF ForceStatus, SetCustomCharMap, RemoteInv
<1>4. CASE \/ TickBlink \/ PrintCharacter \/ Clear \/ SetCursorPosition
           \/ SetStatus \/ UNCHANGED vars
  <2>1. UNCHANGED <<remote, last_write, moved, queue, ddram, address>>
    BY <1>4 DEF TickBlink, PrintCharacter, Clear, SetCursorPosition, SetStatus,
                vars, handler
  <2> QED
    BY <2>1 DEF RemoteInv, Lcd
<1> QED
  BY <1>1, <1>2, <1>3, <1>4 DEF Next, Program

\* What BufferedDisplay::Tick stores in remote_, as soon as it has queued the
\* commands, is what the LCD will show once its handler has sent them, although
\* a character is sent without its position when the one before it was the
\* last; until ForceStatus or SetCustomCharMap moves the LCD's address.
THEOREM RemoteStaysTrue == Spec => []RemoteIsTrueUnlessMoved
<1>1. RemoteInv => RemoteIsTrueUnlessMoved
  <2>1. SUFFICES ASSUME RemoteInv, ~moved PROVE RemoteIsTrue
    BY DEF RemoteIsTrueUnlessMoved
  <2>2. EndsIn(Drained, Lcd, queue)
    BY <2>1, SentIsATrace DEF RemoteInv
  <2>3. Shows(Drained, remote)
    BY <2>1, <2>2 DEF RemoteInv
  <2> QED
    BY <2>3 DEF RemoteIsTrue, Shows
<1>2. Init => RemoteInv
  BY InitRemoteInv
<1> QED
  BY <1>1, <1>2, NextRemoteInv, DisplayInvariance, PTL DEF Spec
====
