------------------------------- MODULE Display -------------------------------
(***************************************************************************)
(* The text display: avrlibx::BufferedDisplay (devices/buffered_display.h) *)
(* on top of avrlibx::Hd44780Lcd (devices/hd44780_lcd.h), and the LCD.     *)
(*                                                                         *)
(* The main program changes a page of text, local_.  A background task     *)
(* compares it, one character at a time, with remote_, which is meant to   *)
(* be what the LCD shows, and queues commands for the differences.  An     *)
(* interrupt handler takes the commands from a ring of nibbles and clocks  *)
(* them into the LCD, one edge per call.                                   *)
(*                                                                         *)
(* A command is two nibbles.  The ring is modelled by the commands whose   *)
(* second nibble has not reached the LCD, and two bits: whether the LCD    *)
(* has latched the first nibble of the first of them, and transmitting_,   *)
(* whether a nibble is on the wires.  The LCD itself is external.          *)
(***************************************************************************)
EXTENDS Integers, Sequences

CONSTANTS Width, Height,  \* of the text, in characters
          RingSize,       \* buffer_size, in nibbles
          Characters,     \* what the program prints
          Blank,          \* the space character
          Unknown,        \* '?', what Init puts in remote_
          Statuses,       \* the status characters, none of them printed
          Cursor,         \* cursor_character_
          BlinkPeriod,    \* bound: blink_counter_ counts modulo this, not 256
          MaxChanges,     \* bound: how often the program changes something
          Ops             \* what the program does besides printing

\* A position in the text is a byte.
ASSUME SizeAssumption == /\ Width \in Nat \ {0} /\ Height \in Nat \ {0}
                         /\ Width * Height <= 256
                         /\ RingSize \in Nat /\ RingSize > 4
                         /\ BlinkPeriod \in Nat /\ BlinkPeriod > 1
                         /\ MaxChanges \in Nat
ASSUME OpsAssumption == Ops \subseteq
  {"status", "cursor", "force", "custom"}

VARIABLES local, remote,                    \* local_, remote_
          scan_position, scan_row, scan_column,
          last_write,                       \* scan_position_last_write_
          blink, previous_blink_counter,    \* blink_, modulo 4
          cursor_position, status,          \* cursor_position_, status_
          task,                             \* where Tick of the display is
          queue, latched, transmitting,     \* the LCD's ring and its handler
          blink_counter,                    \* blink_counter_
          ddram, address,                   \* the LCD
          moved,                            \* has ForceStatus or
                                            \* SetCustomCharMap been called?
          changes                           \* changes made so far

scan == <<scan_position, scan_row, scan_column>>
shown == <<local, cursor_position>>
handler == <<latched, transmitting, blink_counter, ddram, address>>
vars == <<local, remote, scan, last_write, blink, previous_blink_counter,
          cursor_position, status, task, queue, handler, moved, changes>>

Cells == 0 .. Width * Height - 1
Nowhere == 255        \* kLcdNoCursor, and "no last write"
NoStatus == "none"    \* status_ = 0

-----------------------------------------------------------------------------
(* The LCD.  Data go to the cell the address counter points at, which then *)
(* moves one column on; the columns after the last one are not visible.    *)

Move(row, col) == [op |-> "move", row |-> row, col |-> col, char |-> Blank]
Data(char) == [op |-> "data", row |-> 0, col |-> 0, char |-> char]
CharacterMemory == [row |-> Height, col |-> 0]

\* What a command makes of the LCD's state, [text, at].
Execute(lcd, command) ==
  IF command.op = "move"
  THEN [lcd EXCEPT !.at = [row |-> command.row, col |-> command.col]]
  ELSE [text |-> [p \in Cells |->
                    IF /\ lcd.at.row * Width + lcd.at.col = p
                       /\ lcd.at.col < Width /\ lcd.at.row < Height
                    THEN command.char ELSE lcd.text[p]],
        at |-> [lcd.at EXCEPT !.col = IF @ < Width THEN @ + 1 ELSE @]]

Lcd == [text |-> ddram, at |-> address]

\* What the LCD will be after each of the queued commands, and after the last.
Sent[i \in 0 .. Len(queue)] ==
  IF i = 0 THEN Lcd ELSE Execute(Sent[i - 1], queue[i])
Drained == Sent[Len(queue)]

-----------------------------------------------------------------------------
(* Hd44780Lcd.                                                             *)

Bit(b) == IF b THEN 1 ELSE 0
Nibbles == 2 * Len(queue) - Bit(latched) - Bit(transmitting)
Writable == RingSize - 1 - Nibbles

\* WriteData, WriteCommand: dropped when there is no room for two nibbles.
WithCommand(q, command) ==
  IF RingSize - 1 - (Nibbles + 2 * (Len(q) - Len(queue))) < 2
  THEN q ELSE Append(q, command)

\* Tick, in the handler: the end of a nibble, or the start of the next.
EndWriteSwapped ==              \* faulty: RS is lowered before Enable is
  /\ transmitting
  /\ transmitting' = FALSE
  /\ blink_counter' = (blink_counter + 1) % BlinkPeriod
  /\ latched' = ~latched
  /\ IF latched
     THEN /\ ddram' = ddram
          /\ address' = Execute(Lcd, Head(queue)).at
          /\ queue' = Tail(queue)
     ELSE UNCHANGED <<ddram, address, queue>>
  /\ UNCHANGED <<shown, remote, scan, last_write, blink,
                 previous_blink_counter, status, task, moved, changes>>

TickEndWrite ==
  /\ transmitting
  /\ transmitting' = FALSE
  /\ blink_counter' = (blink_counter + 1) % BlinkPeriod
  /\ latched' = ~latched
  /\ IF latched
     THEN /\ ddram' = Execute(Lcd, Head(queue)).text
          /\ address' = Execute(Lcd, Head(queue)).at
          /\ queue' = Tail(queue)
     ELSE UNCHANGED <<ddram, address, queue>>
  /\ UNCHANGED <<shown, remote, scan, last_write, blink,
                 previous_blink_counter, status, task, moved, changes>>

TickStartWrite ==
  /\ ~transmitting
  /\ transmitting' = (Nibbles > 0)
  /\ blink_counter' = (blink_counter + 1) % BlinkPeriod
  /\ UNCHANGED <<shown, remote, scan, last_write, blink,
                 previous_blink_counter, status, task, queue, latched,
                 ddram, address, moved, changes>>

LcdTick == TickEndWrite \/ TickStartWrite

-----------------------------------------------------------------------------
(* BufferedDisplay::Tick: a step up to the first reading of the blink      *)
(* counter, and a step from the second reading on.                         *)

RoomForTwo == Writable >= 2             \* faulty: the test is for four
RoomToDraw == Writable >= 4

TickBlink ==
  /\ task = "idle"
  /\ RoomToDraw
  /\ task' = "draw"
  /\ IF previous_blink_counter > blink_counter
     THEN blink' = (blink + 1) % 4 /\ status' = NoStatus
     ELSE UNCHANGED <<blink, status>>
  /\ UNCHANGED <<shown, remote, scan, last_write, previous_blink_counter,
                 queue, handler, moved, changes>>

\* The character to show at the scan position: the cursor, in the half of the
\* time it is visible; a status, in the first or the last cell of the first
\* line if that is blank; or the text.
Wanted ==
  IF scan_position = cursor_position /\ blink \in {2, 3} THEN Cursor
  ELSE IF /\ status # NoStatus
          /\ scan_position \in {0, Width - 1}
          /\ local[scan_position] = Blank
       THEN status
       ELSE local[scan_position]

\* The cursor of the LCD is already there if the character before, on the same
\* line, was the last one drawn.
Adjacent == scan_position = last_write + 1 /\ scan_column # 0

\* The ring with the commands that draw it.
WithDrawn ==
  IF Adjacent
  THEN WithCommand(queue, Data(Wanted))
  ELSE WithCommand(WithCommand(queue, Move(scan_row, scan_column)), Data(Wanted))

ScanWithoutReset ==              \* faulty: scan_position_ is not reset
  LET end == scan_column + 1 = Width
      page == end /\ scan_row + 1 = Height
  IN  /\ scan_column' = IF end THEN 0 ELSE scan_column + 1
      /\ scan_row' = IF page THEN 0 ELSE IF end THEN scan_row + 1 ELSE scan_row
      /\ scan_position' = scan_position + 1

ScanNext ==
  LET end == scan_column + 1 = Width
      page == end /\ scan_row + 1 = Height
  IN  /\ scan_column' = IF end THEN 0 ELSE scan_column + 1
      /\ scan_row' = IF page THEN 0 ELSE IF end THEN scan_row + 1 ELSE scan_row
      /\ scan_position' = IF page THEN 0 ELSE scan_position + 1

TickDraw ==
  /\ task = "draw"
  /\ task' = "idle"
  /\ previous_blink_counter' = blink_counter
  /\ IF Wanted # remote[scan_position]
     THEN /\ queue' = WithDrawn
          /\ remote' = [remote EXCEPT ![scan_position] = Wanted]
          /\ last_write' = scan_position
     ELSE UNCHANGED <<queue, remote, last_write>>
  /\ ScanNext
  /\ UNCHANGED <<shown, blink, status, handler, moved, changes>>

-----------------------------------------------------------------------------
(* The main program.  The background task is not running meanwhile.        *)

Change == task = "idle" /\ changes < MaxChanges /\ changes' = changes + 1

\* Print: the characters are stored one after the other.
PrintCharacter ==
  /\ Change
  /\ \E p \in Cells, c \in Characters : local' = [local EXCEPT ![p] = c]
  /\ UNCHANGED <<remote, scan, last_write, blink, previous_blink_counter,
                 cursor_position, status, task, queue, handler, moved>>

Clear ==
  /\ Change
  /\ local' = [p \in Cells |-> Blank]
  /\ UNCHANGED <<remote, scan, last_write, blink, previous_blink_counter,
                 cursor_position, status, task, queue, handler, moved>>

SetCursorPosition ==
  /\ "cursor" \in Ops
  /\ Change
  /\ cursor_position' \in Cells \cup {Nowhere}
  /\ UNCHANGED <<local, remote, scan, last_write, blink,
                 previous_blink_counter, status, task, queue, handler, moved>>

SetStatus ==
  /\ "status" \in Ops
  /\ Change
  /\ status' \in Statuses
  /\ UNCHANGED <<shown, remote, scan, last_write, blink,
                 previous_blink_counter, task, queue, handler, moved>>

ForceKeepsColumn ==             \* faulty: scan_column_ is not reset
  /\ "force" \in Ops
  /\ Change
  /\ RoomToDraw
  /\ \E s \in Statuses :
       /\ status' = s
       /\ queue' = WithCommand(WithCommand(queue, Move(0, 0)), Data(s))
       /\ remote' = [remote EXCEPT ![0] = s]
  /\ moved' = TRUE
  /\ scan_position' = 0 /\ scan_row' = 0
  /\ UNCHANGED <<shown, scan_column, last_write, blink,
                 previous_blink_counter, task, handler>>

\* The scan restarts from the first cell, which is drawn at once; the position
\* of the last write is left as it was.
ForceStatus ==
  /\ "force" \in Ops
  /\ Change
  /\ RoomToDraw
  /\ \E s \in Statuses :
       /\ status' = s
       /\ queue' = WithCommand(WithCommand(queue, Move(0, 0)), Data(s))
       /\ remote' = [remote EXCEPT ![0] = s]
  /\ moved' = TRUE
  /\ scan_position' = 0 /\ scan_row' = 0 /\ scan_column' = 0
  /\ UNCHANGED <<shown, last_write, blink, previous_blink_counter, task,
                 handler>>

\* SetCustomCharMap writes to the LCD without the ring, which Flush has
\* drained: the address counter is left in the character memory.
SetCustomCharMap ==
  /\ "custom" \in Ops
  /\ Change
  /\ queue = << >> /\ ~transmitting
  /\ address' = CharacterMemory
  /\ moved' = TRUE
  /\ UNCHANGED <<shown, remote, scan, last_write, blink,
                 previous_blink_counter, status, task, queue, latched,
                 transmitting, blink_counter, ddram>>

-----------------------------------------------------------------------------
\* Both Init: the LCD is cleared, and remote_ holds a character that makes the
\* first scan draw the whole page.
Init ==
  /\ local = [p \in Cells |-> Blank]
  /\ remote = [p \in Cells |-> Unknown]
  /\ scan_position = 0 /\ scan_row = 0 /\ scan_column = 0
  /\ last_write = Nowhere
  /\ blink = 0 /\ previous_blink_counter = 0
  /\ cursor_position = Nowhere /\ status = NoStatus
  /\ task = "idle"
  /\ queue = << >> /\ latched = FALSE /\ transmitting = FALSE
  /\ blink_counter = 0
  /\ ddram = [p \in Cells |-> Blank]
  /\ address = [row |-> 0, col |-> 0]
  /\ moved = FALSE
  /\ changes = 0

Program == \/ PrintCharacter
           \/ Clear
           \/ SetCursorPosition
           \/ SetStatus
           \/ ForceStatus
           \/ SetCustomCharMap

Next == LcdTick \/ TickBlink \/ TickDraw \/ Program

Spec == Init /\ [][Next]_vars

\* The handler is called by a timer, the background task by the main loop or
\* by a slower timer, for ever.
FairSpec == Spec /\ WF_vars(LcdTick) /\ WF_vars(TickBlink \/ TickDraw)

-----------------------------------------------------------------------------
(* Properties.                                                             *)

Printed == Characters \cup {Blank}
Visible == Printed \cup Statuses \cup {Cursor, Unknown}

TypeOK ==
  /\ local \in [Cells -> Printed] /\ remote \in [Cells -> Visible]
  /\ scan_position \in Cells
  /\ last_write \in Cells \cup {Nowhere}
  /\ blink \in 0 .. 3 /\ previous_blink_counter \in 0 .. BlinkPeriod - 1
  /\ cursor_position \in Cells \cup {Nowhere}
  /\ status \in Statuses \cup {NoStatus}
  /\ task \in {"idle", "draw"}
  /\ latched \in BOOLEAN /\ transmitting \in BOOLEAN
  /\ blink_counter \in 0 .. BlinkPeriod - 1
  /\ ddram \in [Cells -> Visible]
  /\ moved \in BOOLEAN
  /\ changes \in 0 .. MaxChanges

\* The nibbles that are counted are a number the ring can hold, and the handler
\* only finds a nibble on the wires when it took it from a command.
RingHolds == /\ Nibbles \in 0 .. RingSize - 1
             /\ queue = << >> => ~latched /\ ~transmitting

\* WriteData and WriteCommand drop what does not fit, and nobody looks at it: the
\* one test for room, made before the handler ran again, must be enough for all
\* that the call sends, so that the ring gets every command and in this order.
NothingDropped ==
  /\ task = "draw" =>
       WithDrawn = queue \o IF Adjacent THEN <<Data(Wanted)>>
                            ELSE <<Move(scan_row, scan_column), Data(Wanted)>>
  /\ task = "idle" /\ RoomToDraw => \A s \in Statuses :
       WithCommand(WithCommand(queue, Move(0, 0)), Data(s))
         = queue \o <<Move(0, 0), Data(s)>>

\* remote_ is what the LCD will show once the queued commands have been sent,
\* cell by cell, whatever is still in the ring or on the wires.
RemoteIsTrue ==
  \A p \in Cells : remote[p] # Unknown => Drained.text[p] = remote[p]

\* The same, up to the first call that moves the LCD's cursor behind Tick's
\* back.
RemoteIsTrueUnlessMoved == ~moved => RemoteIsTrue

\* The three scan variables always designate the same cell, also when a
\* forced status has restarted the scan.
ScanAgrees == /\ scan_position = scan_row * Width + scan_column
              /\ scan_row < Height /\ scan_column < Width

\* When the program has stopped changing the page, the LCD ends up showing
\* it, and goes on showing it, except where the cursor blinks and where a
\* status takes the place of a blank.
Covered(p) == p = cursor_position \/ (status # NoStatus /\ p \in {0, Width - 1})
ShowsPage == <>[](~moved => \A p \in Cells : Covered(p) \/ ddram[p] = local[p])

\* The three together: types, the three scan variables, and the commands.
DisplaySound == TypeOK /\ ScanAgrees /\ NothingDropped
=============================================================================
