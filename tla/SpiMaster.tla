----------------------------- MODULE SpiMaster -----------------------------
(***************************************************************************)
(* The two SPI masters: SPIMaster of io/spi.h, on the SPI peripheral, and  *)
(* UsartSPIMaster of io/usart_spi.h, on a USART.  They have the same       *)
(* operations and differ in the flag that Wait polls: the one of the SPI   *)
(* is cleared by reading the status and then the data, and the transmit    *)
(* complete flag of the USART only by a handler, or by a write that the    *)
(* code does not make.                                                     *)
(***************************************************************************)
EXTENDS Integers, Sequences

CONSTANT Replies       \* what a slave may answer

VARIABLES master,      \* "spi" or "usart"
          hw,          \* external: the peripheral
          slaveSelect, \* the pin: "high" or "low"
          script,      \* the calls the program has yet to make
          step,        \* where it is in the call it makes
          exchange     \* history

spiVars == <<master, hw, slaveSelect, script, step, exchange>>

Idle == "idle"
Scripts == {<<"Begin", "Send", "End">>,                          \* Write
            <<"Begin", "Receive", "End">>,                       \* Read
            <<"Begin", "Send", "Send", "End">>,                  \* WriteWord
            <<"Begin", "Send", "Strobe", "Receive", "End">>}

SpiInit ==
  /\ master \in {"spi", "usart"}
  /\ hw = [shifting |-> FALSE, buffered |-> FALSE, flag |-> FALSE,
           statusRead |-> FALSE, received |-> << >>]
  /\ slaveSelect = "high"
  /\ script = << >> /\ step = Idle
  /\ exchange = [sends |-> 0, reply |-> Idle, result |-> Idle, cut |-> FALSE]

\* External: the last bit is shifted.  A SPI has one byte to read, the last
\* one, and a USART two, the first ones.
ExchangeEnds ==
  /\ hw.shifting
  /\ \E reply \in Replies :
       /\ hw' = [hw EXCEPT
            !.shifting = hw.buffered, !.buffered = FALSE,
            !.flag = @ \/ ~hw.buffered,
            !.received = IF master = "spi" THEN <<reply>>
                         ELSE IF Len(@) = 2 THEN @ ELSE Append(@, reply)]
       /\ exchange' = [exchange EXCEPT !.reply = IF hw.buffered THEN @ ELSE reply]
  /\ UNCHANGED <<master, slaveSelect, script, step>>

\* External: what reading or writing the data register does to the flag.
Acknowledged(h) == IF master = "spi" /\ h.statusRead
                   THEN [h EXCEPT !.flag = FALSE, !.statusRead = FALSE] ELSE h

-----------------------------------------------------------------------------
ScriptStarts ==
  /\ script = << >> /\ step = Idle
  /\ script' \in Scripts
  /\ UNCHANGED <<master, hw, slaveSelect, step, exchange>>

Calls(call) == step = Idle /\ script # << >> /\ Head(script) = call

Selects(level) ==
  /\ slaveSelect' = level
  /\ exchange' = [exchange EXCEPT !.cut = @ \/ (level = "high" /\ hw.shifting)]

Begin == /\ Calls("Begin") /\ Selects("low")
         /\ script' = Tail(script)
         /\ UNCHANGED <<master, hw, step>>

End == /\ Calls("End") /\ Selects("high")
       /\ script' = Tail(script)
       /\ UNCHANGED <<master, hw, step>>

StrobeHigh == /\ Calls("Strobe") /\ Selects("high")
              /\ step' = "strobing"
              /\ UNCHANGED <<master, hw, script>>

StrobeLow == /\ step = "strobing" /\ Selects("low")
             /\ step' = Idle /\ script' = Tail(script)
             /\ UNCHANGED <<master, hw>>

\* Overwrite, with which Send and Receive start.
Overwrite_ ==
  /\ Calls("Send") \/ Calls("Receive")
  /\ step' = "wait"
  /\ hw' = [Acknowledged(hw) EXCEPT !.shifting = TRUE,
                                    !.buffered = hw.shifting /\ master = "usart"]
  /\ exchange' = [exchange EXCEPT !.reply = Idle,
                                  !.sends = IF @ < 2 THEN @ + 1 ELSE @]
  /\ UNCHANGED <<master, slaveSelect, script>>

\* Wait: while (!writable()).
WaitSkipped == step = "wait"                         \* faulty: no wait
WaitIsOver == step = "wait" /\ hw.flag

Sent ==
  /\ WaitIsOver /\ Head(script) = "Send"
  /\ hw' = [hw EXCEPT !.statusRead = hw.flag]
  /\ step' = Idle /\ script' = Tail(script)
  /\ UNCHANGED <<master, slaveSelect, exchange>>

\* Receive goes on with ImmediateRead.
Received ==
  /\ WaitIsOver /\ Head(script) = "Receive"
  /\ LET h == Acknowledged([hw EXCEPT !.statusRead = hw.flag])
         got == h.received
     IN /\ exchange' = [exchange EXCEPT !.result = IF got = << >> THEN "nothing"
                                                   ELSE IF got[1] = exchange.reply
                                                   THEN "right" ELSE "wrong"]
        /\ hw' = [h EXCEPT !.received = IF got = << >> \/ master = "spi" THEN got
                                        ELSE Tail(got)]
  /\ step' = Idle /\ script' = Tail(script)
  /\ UNCHANGED <<master, slaveSelect>>

SpiNext == \/ ExchangeEnds \/ ScriptStarts \/ Begin \/ End
           \/ StrobeHigh \/ StrobeLow \/ Overwrite_ \/ Sent \/ Received

SpiSpec == SpiInit /\ [][SpiNext]_spiVars

-----------------------------------------------------------------------------
(* Properties.                                                             *)

\* The slave stays selected until the last bit of each exchange, Receive
\* returns what the slave answered to the byte that Receive sent, and no
\* exchange is left when a call returns.  Of UsartSPIMaster this is true of
\* the first byte after Init only: from the second on, the flag is still set
\* when Wait looks at it.
ExchangesComplete ==
  master = "spi" \/ exchange.sends < 2 =>
    /\ ~exchange.cut
    /\ exchange.result \in {Idle, "right"}
    /\ step = Idle => ~hw.shifting
=============================================================================
