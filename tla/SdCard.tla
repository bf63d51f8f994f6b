------------------------------- MODULE SdCard -------------------------------
(***************************************************************************)
(* The SD card driver (devices/sd_card.h): Init, ReadSectors,              *)
(* GetNumSectors, and the waits they are made of.  A step is one command   *)
(* with its answer, one attempt of a wait, or one block of data; the clock *)
(* may tick in between.  The card may not answer, may do what it is told   *)
(* and its answer be lost, may be late with its data, or refuse to give    *)
(* them.  A byte of data is the number of the sector it belongs to.        *)
(***************************************************************************)
EXTENDS Integers, Sequences

CONSTANTS Kinds,      \* the cards that may be in the slot
          Csds,       \* kind -> the card-specific data it may have
          Sectors,    \* sectors of the card
          SectorSize, \* 512
          ByteSize,   \* 2^8: num_sectors is a byte
          Word,       \* 2^16: the range of `now`
          Range,      \* 2^32: the range of milliseconds()
          Timeouts,   \* the time-outs of the Config, 0: none timer-based
          MaxTries,   \* 0xffff: attempts when there is no timer
          Starts, Counts   \* what ReadSectors is called with

\* The fields of a CSD that the driver reads, as wide as the card makes them.
CsdData == [ver : {0}, high : 0 .. 3, mid : 0 .. 255, low : 0 .. 3,
            mult : 0 .. 7, read_bl_len : 9 .. 11]
           \cup [ver : {1}, high : 0 .. 63, mid : 0 .. 255, low : 0 .. 255,
                 mult : {0}, read_bl_len : {9}]

ASSUME CardAssumption ==
  /\ \A k \in Kinds : Csds[k] \subseteq CsdData
  /\ Sectors \in Nat /\ SectorSize \in Nat \ {0}

ASSUME DriverAssumption ==
  /\ ByteSize \in Nat \ {0} /\ Word \in Nat \ {0} /\ Range \in Nat \ {0}
  /\ Timeouts \subseteq Nat /\ MaxTries \in Nat \ {0}
  /\ Starts \subseteq Nat /\ Counts \subseteq 0 .. ByteSize - 1

VARIABLES type_,      \* what the driver believes the card to be
          selected,   \* is the card's select line low?
          timeout,    \* the configuration, a template parameter
          clock,      \* milliseconds()
          card,       \* external: the card
          call,       \* the call in progress, and what the last one returned
          wait,       \* the wait in progress
          clean       \* history: was the card silent, and was type_ the kind
                      \* of card it is, when the call began?

sdVars == <<type_, selected, timeout, clock, card, call, wait, clean>>

NoWait == [now |-> 0, tries |-> 0, spent |-> 0, late |-> FALSE]
NoCall == [pc |-> "idle", op |-> "none", start |-> 0, n |-> 0, got |-> << >>,
           answer |-> "none", result |-> "none", size |-> 0]

SdInit ==
  /\ type_ = "SD1" /\ selected = FALSE
  /\ timeout \in Timeouts
  /\ clock = 0
  /\ \E k \in Kinds : \E c \in Csds[k] :
       card = [kind |-> k, csd |-> c, state |-> "idle", sending |-> "no",
               at |-> 0]
  /\ call = NoCall /\ wait = NoWait /\ clean = TRUE

-----------------------------------------------------------------------------
(* The card (external).                                                    *)

\* Addresses count bytes, or blocks in a card of high capacity.
SectorAt(address) == IF card.kind = "SDHC" THEN address
                                           ELSE address \div SectorSize

Sends(what, sector) == [card EXCEPT !.sending = what, !.at = sector]

\* The answer to a command that arrives, and the card afterwards.  A card
\* that is sending data only listens to CMD12 and CMD0: what is taken for
\* its answer is a piece of the data.
Obeys(command, arg) ==
  LET does(answer, c) == {<<answer, c>>} IN
  IF card.kind = "absent" THEN {} ELSE
  CASE command = "GO_IDLE_STATE" ->
         does("idle", [card EXCEPT !.state = "idle", !.sending = "no"])
    [] command = "STOP_TRANSMISSION" -> does("ready", Sends("no", card.at))
    [] card.sending # "no" /\ command \notin {"GO_IDLE_STATE",
                                              "STOP_TRANSMISSION"} ->
         {"ready", "refused"} \X {card}
    [] command = "SEND_IF_COND" /\ card.sending = "no" ->
         does(IF card.kind = "SD1" THEN "illegal" ELSE "idle", card)
    [] command = "SEND_OP_COND" /\ card.sending = "no" ->
         does("idle", card) \cup
         IF card.kind = "SDHC" /\ arg = 0 THEN {}
         ELSE does("ready", [card EXCEPT !.state = "ready"])
    [] command \in {"READ_OCR", "SET_BLOCKLEN"} /\ card.sending = "no" ->
         does("ready", card)
    [] card.sending = "no" /\ card.state = "idle" /\
       command \in {"READ_SINGLE_BLOCK", "READ_MULTIPLE_BLOCK", "SEND_CSD"} ->
         does("refused", card)
    [] card.sending = "no" /\ card.state = "ready" /\
       command \in {"READ_SINGLE_BLOCK", "READ_MULTIPLE_BLOCK", "SEND_CSD"} ->
         does("ready", Sends(command,
                IF command = "SEND_CSD" THEN 0 ELSE SectorAt(arg)))

\* What Command may return: the answer, or nothing in twenty bytes, because
\* the command or its answer was lost.
Answers(command, arg) ==
  Obeys(command, arg) \cup {<<"none", card>>}
                      \cup {<<"none", a[2]>> : a \in Obeys(command, arg)}

\* What may come in place of 0xff while the driver waits for data.
Tokens == IF card.sending = "no" THEN {}
          ELSE IF card.at >= Sectors THEN {"error"} ELSE {"start", "error"}

\* The card after it has sent a block.
NextBlock == IF card.sending = "READ_MULTIPLE_BLOCK"
             THEN Sends(card.sending, card.at + 1) ELSE Sends("no", card.at)

-----------------------------------------------------------------------------
(* The clock, of which only waits see anything.  An attempt takes a few    *)
(* bytes on the bus: the driver looks at the clock before it is far beyond *)
(* the end of a time-out.                                                  *)

Waits == {"reset", "opcond", "token"}

ClockTick ==
  /\ clock' = (clock + 1) % Range
  /\ \/ call.pc = "idle" /\ UNCHANGED wait
     \/ /\ call.pc \in Waits /\ wait.spent <= timeout
        /\ wait' = [wait EXCEPT !.spent = @ + 1]
  /\ UNCHANGED <<type_, selected, timeout, card, call, clean>>

StartWaitWide == wait' = [now |-> clock, tries |-> 0, spent |-> 0,   \* faulty
                          late |-> FALSE]
\* uint16_t now = milliseconds()
StartWait == wait' = [now |-> clock % Word, tries |-> 0, spent |-> 0,
                      late |-> clock >= Word]

\* The condition on which a wait goes round again after an attempt.
TriesLeftShort == (clock - wait.now) % Range < timeout - 1    \* faulty
TriesLeftForever ==                                           \* faulty
  timeout = 0 \/ (clock - wait.now) % Range < timeout
TriesLeft == IF timeout = 0 THEN wait.tries + 1 < MaxTries
             ELSE (clock - wait.now) % Range < timeout

-----------------------------------------------------------------------------
(* Calls.                                                                  *)

ReturnSelected(result) ==          \* faulty: no scoped_resource
  /\ call' = [call EXCEPT !.pc = "idle", !.result = result]
  /\ selected' = (result # "OK")
  /\ wait' = NoWait

\* Every way out of the block: the destructor of spi_session.
Return(result) ==
  /\ call' = [call EXCEPT !.pc = "idle", !.result = result]
  /\ selected' = FALSE
  /\ wait' = NoWait

Goto(pc) == call' = [call EXCEPT !.pc = pc] /\ UNCHANGED selected

Begin(op, pc, start, n) ==
  /\ call.pc = "idle"
  /\ call' = [NoCall EXCEPT !.pc = pc, !.op = op, !.start = start, !.n = n]
  /\ selected' = TRUE
  /\ clean' = (card.sending = "no" /\ (type_ = "SDHC") = (card.kind = "SDHC"))
  /\ UNCHANGED <<timeout, clock, card>>

CallInit == Begin("Init", "reset", 0, 0) /\ type_' = "SD1" /\ StartWait

\* WaitForStatus(SD_CMD_GO_IDLE_STATE, SD_STATE_IDLE)
Reset ==
  /\ call.pc = "reset"
  /\ \E a \in Answers("GO_IDLE_STATE", 0) :
       /\ card' = a[2]
       /\ \/ a[1] = "idle" /\ Goto("ifcond") /\ wait' = NoWait
          \/ a[1] # "idle" /\ TriesLeft /\ Goto("reset")
             /\ wait' = [wait EXCEPT !.tries = (@ + 1) % MaxTries]
          \/ a[1] # "idle" /\ ~TriesLeft /\ Return("ERROR_INIT")
  /\ UNCHANGED <<type_, timeout, clock, clean>>

\* No answer is 0xff, in which the bit of an illegal command is set.
CheckVoltage ==
  /\ call.pc = "ifcond"
  /\ \E a \in Answers("SEND_IF_COND", 0) :
       /\ card' = a[2]
       /\ \/ /\ a[1] \in {"illegal", "none"}
             /\ type_' = "SD1" /\ Goto("opcond") /\ StartWait
          \/ /\ a[1] \notin {"illegal", "none"}
             /\ type_' = "SD2" /\ Goto("opcond") /\ StartWait
          \/ /\ a[1] \notin {"illegal", "none"}   \* the range, or the pattern
             /\ Return("ERROR_INIT") /\ UNCHANGED type_
  /\ UNCHANGED <<timeout, clock, clean>>

\* The argument is the bit that announces a driver for cards of high capacity.
\* WaitForAStatus(SD_AMCD_SD_SEND_OP_COND, ..., SD_STATE_READY)
WaitOpCond ==
  /\ call.pc = "opcond"
  /\ \E a \in Answers("SEND_OP_COND", IF type_ = "SD2" THEN 1 ELSE 0) :
       /\ card' = a[2]
       /\ \/ a[1] = "ready" /\ Goto(IF type_ = "SD2" THEN "ocr" ELSE "blocklen")
             /\ wait' = NoWait
          \/ a[1] # "ready" /\ TriesLeft /\ Goto("opcond")
             /\ wait' = [wait EXCEPT !.tries = (@ + 1) % MaxTries]
          \/ a[1] # "ready" /\ ~TriesLeft /\ Return("ERROR_INIT")
  /\ UNCHANGED <<type_, timeout, clock, clean>>

CapacityIgnored ==                 \* faulty: the OCR is not looked at
  /\ call.pc \in {"ocr", "blocklen"}
  /\ \E a \in Answers("READ_OCR", 0) :
       /\ card' = a[2]
       /\ Return(IF a[1] = "ready" THEN "OK" ELSE "ERROR_INIT")
  /\ UNCHANGED <<type_, timeout, clock, clean>>

\* The capacity bit of the OCR, or a block length of 512 in an old card.
CheckCapacity ==
  /\ call.pc \in {"ocr", "blocklen"}
  /\ \E a \in Answers(IF call.pc = "ocr" THEN "READ_OCR" ELSE "SET_BLOCKLEN", 0) :
       /\ card' = a[2]
       /\ \/ a[1] # "ready" /\ Return("ERROR_INIT") /\ UNCHANGED type_
          \/ /\ a[1] = "ready" /\ Return("OK")
             /\ type_' = IF call.pc = "ocr" /\ card.kind = "SDHC" THEN "SDHC"
                         ELSE type_
  /\ UNCHANGED <<timeout, clock, clean>>

CallReadSectors(start, n) ==
  Begin("ReadSectors", "command", start, n) /\ UNCHANGED <<type_, wait>>
CallGetNumSectors ==
  Begin("GetNumSectors", "command", 0, 0) /\ UNCHANGED <<type_, wait>>

\* start *= 512, but for a card of high capacity.
Address == IF type_ = "SDHC" THEN call.start ELSE call.start * SectorSize

ReadCommand == IF call.op = "GetNumSectors" THEN "SEND_CSD"
               ELSE IF call.n = 1 THEN "READ_SINGLE_BLOCK"
               ELSE "READ_MULTIPLE_BLOCK"

AskForData ==
  /\ call.pc = "command"
  /\ \E a \in Answers(ReadCommand, Address) :
       /\ card' = a[2]
       /\ \/ a[1] = "ready" /\ Goto("token") /\ StartWait
          \/ a[1] # "ready" /\ Return("ERROR_READ")
  /\ UNCHANGED <<type_, timeout, clock, clean>>

\* WaitForData: another 0xff, or the first byte that is not.
WaitForData ==
  /\ call.pc = "token"
  /\ \/ TriesLeft /\ Goto("token")
        /\ wait' = [wait EXCEPT !.tries = (@ + 1) % MaxTries]
     \/ ~TriesLeft /\ Return("ERROR_READ_TIMEOUT")
     \/ "start" \in Tokens /\ Goto("block") /\ wait' = NoWait
     \/ "error" \in Tokens /\ Return("ERROR_READ_TIMEOUT")
  /\ UNCHANGED <<type_, timeout, clock, card, clean>>

\* GetNumSectors: version 1 counts sectors; version 2 counts units of 1024,
\* which the last shift by 10 turns into sectors.  On a 16-bit int the shift
\* of c_size_mid by 8 gives a negative number from 0x80 on, and all the bits
\* above it are set: of those of c_size_high, six outlive the shift by 10.
SizeV1(csd) == (csd.high * 1024 + csd.mid * 4 + csd.low + 1)
               * 2 ^ (csd.mult + csd.read_bl_len - 7)
SizeZeroBased(csd) == csd.high * 65536 + csd.mid * 256 + csd.low  \* faulty
SizeV2(csd) ==
  ((IF csd.mid >= 128 THEN 63 ELSE csd.high) * 65536 + csd.mid * 256
   + csd.low + 1) % 2 ^ 22
NumSectors(csd) == IF csd.ver = 0 THEN SizeV1(csd)
                   ELSE IF csd.ver = 1 THEN SizeV2(csd) ELSE 0

LastBlockPostfix == (call.n - Len(call.got)) % ByteSize = 0   \* faulty
\* --num_sectors: 0 stands for 256.
LastBlock == \/ call.n = 1
             \/ (call.n - Len(call.got) - 1) % ByteSize = 0

\* ReadData after the token: the bytes and their checksum.
ReadBlock ==
  /\ call.pc = "block"
  /\ card' = NextBlock
  /\ LET got == Append(call.got, IF card.sending = "SEND_CSD" THEN -1
                                 ELSE card.at)
         more == call.op = "ReadSectors" /\ ~LastBlock
         stop == call.op = "ReadSectors" /\ LastBlock /\ call.n # 1
     IN /\ call' = [call EXCEPT
              !.got = got,
              !.pc = IF more THEN "token" ELSE IF stop THEN "stop" ELSE "idle",
              !.size = IF call.op = "GetNumSectors" THEN NumSectors(card.csd)
                       ELSE 0,
              !.result = IF more \/ stop THEN @ ELSE "OK"]
        /\ selected' = (more \/ stop)
        /\ IF more THEN StartWait ELSE wait' = NoWait
  /\ UNCHANGED <<type_, timeout, clock, clean>>

ForgetToStop ==                    \* faulty: SD_CMD_STOP_TRANSMISSION
  /\ call.pc = "stop"
  /\ call' = [call EXCEPT !.pc = "idle", !.result = "OK", !.answer = "unsent"]
  /\ selected' = FALSE /\ wait' = NoWait
  /\ UNCHANGED <<type_, timeout, clock, card, clean>>

\* The answer is not looked at.
StopReading ==
  /\ call.pc = "stop"
  /\ \E a \in Answers("STOP_TRANSMISSION", 0) :
       /\ card' = a[2]
       /\ call' = [call EXCEPT !.pc = "idle", !.result = "OK", !.answer = a[1]]
  /\ selected' = FALSE /\ wait' = NoWait
  /\ UNCHANGED <<type_, timeout, clock, clean>>

CallStep == \/ Reset \/ CheckVoltage \/ WaitOpCond \/ CheckCapacity
            \/ AskForData \/ WaitForData \/ ReadBlock \/ StopReading

SdNext == \/ ClockTick
          \/ CallInit
          \/ \E start \in Starts, n \in Counts : CallReadSectors(start, n)
          \/ CallGetNumSectors
          \/ CallStep

SdSpec == SdInit /\ [][SdNext]_sdVars

\* The clock ticks, and the main program goes on.
SdFairness == WF_sdVars(ClockTick) /\ WF_sdVars(CallStep)

-----------------------------------------------------------------------------
(* Properties.                                                             *)

Results == {"none", "OK", "ERROR_INIT", "ERROR_READ", "ERROR_READ_TIMEOUT"}
SdPCs == Waits \cup {"idle", "ifcond", "ocr", "blocklen", "command", "block",
                     "stop"}

SdTypeOK ==
  /\ type_ \in {"SD1", "SD2", "SDHC"}
  /\ selected \in BOOLEAN /\ clean \in BOOLEAN
  /\ timeout \in Timeouts /\ clock \in 0 .. Range - 1
  /\ call.pc \in SdPCs /\ call.result \in Results
  /\ Len(call.got) <= ByteSize
  /\ wait.tries \in 0 .. MaxTries /\ wait.now \in 0 .. Word - 1

\* "This template ensures that any path leaving a block of code will release
\* the resource": whichever way a call ends, the card is deselected, and
\* it stays selected as long as the call lasts.
Deselected == selected = (call.pc # "idle")

\* Init only succeeds when the driver and the card agree on what an address
\* is, whatever commands and answers were lost on the way.
InitFindsType ==
  call.pc = "idle" /\ call.op = "Init" /\ call.result = "OK"
    => (type_ = "SDHC") = (card.kind = "SDHC")

\* A read that says OK has read the sectors it was asked for, in order, each
\* once: provided it found the card silent, and that the type of the card is
\* known.  Neither is sure after a call that failed, as an error leaves the
\* card sending (sd_card.h:336) and a failed Init has reset type_.
ReadIsRight ==
  call.pc = "idle" /\ call.op = "ReadSectors" /\ call.result = "OK" /\ clean
    => call.got = [i \in 1 .. IF call.n = 0 THEN ByteSize ELSE call.n
                   |-> call.start + i - 1]

\* After a read that says OK the card is silent, unless it has not answered
\* the command that stops it, an answer the driver does not look at.
SilentAfterOk ==
  call.pc = "idle" /\ call.op = "ReadSectors" /\ call.result = "OK" /\ clean
    => card.sending = "no" \/ (call.n # 1 /\ call.answer = "none")

\* The size is that of the card, as long as bit 7 of c_size_mid is clear or
\* the bits above it are all set.
SizeIsRight ==
  call.pc = "idle" /\ call.op = "GetNumSectors" /\ call.got = <<-1>>
    => LET csd == card.csd IN
       CASE csd.ver = 0 ->
              call.size = (csd.high * 1024 + csd.mid * 4 + csd.low + 1)
                          * 2 ^ (csd.mult + 2) * 2 ^ (csd.read_bl_len - 9)
         [] csd.ver = 1 /\ csd.mid < 128 ->
              call.size = csd.high * 65536 + csd.mid * 256 + csd.low + 1
         [] OTHER -> TRUE

\* A wait by the clock that gives up has lasted its time-out, if it began
\* while the clock fitted the 16 bits of `now` (sd_card.h:449).
GivesUp == call.pc \in Waits /\ call'.pc = "idle"
           /\ ~(call.pc = "token" /\ "error" \in Tokens)
GivesTheCardItsTime ==
  [][GivesUp /\ timeout # 0 => wait.spent >= timeout \/ wait.late]_sdVars

\* Every call returns, also when there is no card.
SdCallsReturn == (call.pc # "idle") ~> (call.pc = "idle")

\* The driver and the card understand each other: the card is selected while
\* a call lasts, and what a call returns is what the card holds.
CardIsServed == /\ SdTypeOK /\ Deselected
                /\ InitFindsType /\ ReadIsRight /\ SilentAfterOk /\ SizeIsRight
=============================================================================
