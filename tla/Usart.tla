------------------------------- MODULE Usart -------------------------------
(***************************************************************************)
(* The asynchronous serial port (io/usart.h), polled by the program.       *)
(* Init ors its bits into a variable it has not set: whatever was there    *)
(* comes along in the control register.                                    *)
(***************************************************************************)
EXTENDS Integers, Sequences

CONSTANTS UsartBytes   \* values sent and received

VARIABLES control,     \* CTRLB
          uart,        \* external: the transmitter and the receiver
          io,          \* the program: its call, and whether it may go on
          wire         \* history: what is still to be sent

uartVars == <<control, uart, io, wire>>

None == << >>
OtherBits == {"CLK2X", "MPCM"}

\* Init, with both directions enabled.
UartInit ==
  /\ \E rest \in SUBSET OtherBits : control = {"RXEN", "TXEN"} \cup rest
  /\ uart = [shift |-> None, buffer |-> None, received |-> << >>]
  /\ io = [call |-> "none", ready |-> FALSE]
  /\ wire = [toSend |-> << >>, inOrder |-> TRUE]

\* External: a byte has been sent; the next one follows.
ByteSent ==
  /\ uart.shift # None
  /\ uart' = [uart EXCEPT !.shift = uart.buffer, !.buffer = None]
  /\ wire' = [wire EXCEPT !.toSend = Tail(@),
                          !.inOrder = @ /\ wire.toSend # None
                                        /\ uart.shift = <<Head(wire.toSend)>>]
  /\ UNCHANGED <<control, io>>

\* External: a byte has come.  Two are kept; in the mode for several
\* processors, what is no address is dropped.
ByteComes ==
  /\ "RXEN" \in control
  /\ \E b \in UsartBytes :
       uart' = [uart EXCEPT !.received =
                  IF Len(@) = 2 \/ "MPCM" \in control THEN @ ELSE Append(@, b)]
  /\ UNCHANGED <<control, io, wire>>

-----------------------------------------------------------------------------
\* writable(): the data register, not the transmitter, is empty.
WritableAlways == TRUE                               \* faulty: no check
WritableBuffer == uart.buffer = None
ReadableByte == uart.received # << >>

\* Write and NonBlockingWrite, Read and NonBlockingRead: the check.
Polls ==
  /\ ~io.ready
  /\ \E call \in IF io.call = "none"
                 THEN {"Write", "NonBlockingWrite", "Read", "NonBlockingRead"}
                 ELSE {io.call} :
       LET can == IF call \in {"Write", "NonBlockingWrite"} THEN WritableBuffer
                                                            ELSE ReadableByte
       IN io' = [call |-> IF can \/ call \in {"Write", "Read"} THEN call ELSE "none",
                 ready |-> can]
  /\ UNCHANGED <<control, uart, wire>>

Sends ==                                             \* Overwrite
  /\ io.ready /\ io.call \in {"Write", "NonBlockingWrite"}
  /\ \E b \in UsartBytes :
       /\ uart' = IF uart.shift = None THEN [uart EXCEPT !.shift = <<b>>]
                                       ELSE [uart EXCEPT !.buffer = <<b>>]
       /\ wire' = [wire EXCEPT !.toSend = Append(@, b)]
  /\ io' = [call |-> "none", ready |-> FALSE]
  /\ UNCHANGED control

Takes ==                                             \* ImmediateRead
  /\ io.ready /\ io.call \in {"Read", "NonBlockingRead"}
  /\ uart' = [uart EXCEPT !.received = Tail(@)]
  /\ io' = [call |-> "none", ready |-> FALSE]
  /\ UNCHANGED <<control, wire>>

UartNext == ByteSent \/ ByteComes \/ Polls \/ Sends \/ Takes

UartSpec == UartInit /\ [][UartNext]_uartVars

-----------------------------------------------------------------------------
(* Properties.                                                             *)

\* Every byte written goes out, once and in order: Write never stores over a
\* byte that waits behind the one being sent.
BytesInOrder == /\ wire.inOrder
                /\ Len(wire.toSend) = Len(uart.shift) + Len(uart.buffer)
=============================================================================
