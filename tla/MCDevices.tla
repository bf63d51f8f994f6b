------------------------------ MODULE MCDevices ------------------------------
(***************************************************************************)
(* The drivers and utilities that share no state: each behaviour is about  *)
(* one of them, `part`, and the others stay where they start.              *)
(***************************************************************************)
EXTENDS Drivers, Arithmetic, Random, Strings

VARIABLE part

uiVars == <<ctlVars, adcVars, evVars, ledVars, swVars>>
ioVars == <<dmaVars, spiVars, uartVars, portVars, timerVars, startVars, dacVars>>
utilVars == <<arithVars, rngVars, strVars>>
allVars == <<uiVars, ioVars, utilVars, part>>

Parts == {"controls", "adc", "events", "leds", "switches", "dma", "spi", "usart",
          "ports", "timers", "startup", "dac", "arithmetic", "random", "strings"}

\* A reading out of range, two that differ by less than the dead band, one by
\* more.
PotReadings == {-1, 1, 2, 5}
PixelPairs == {<<0, 0>>, <<1, 3>>, <<3, 2>>, <<2, 1>>}
IntegerTypes == {[has_sign |-> FALSE, max_size |-> 3, values |-> 256],
                 [has_sign |-> TRUE, max_size |-> 4, values |-> 256]}
DigitsOfHandler == {<<7>>, <<3, 2, 1>>}

\* What the proof about Strings asks of the types.
ASSUME TypesFit == TextsFit

Init ==
  /\ CtlInit /\ AdcInit /\ EvInit /\ LedInit /\ SwInit
  /\ DmaInit /\ SpiInit /\ UartInit /\ PortInit /\ TimerInit /\ StartInit
  /\ DacInit /\ ArithInit /\ RngInit /\ StrInit
  /\ part \in Parts
  /\ part # "controls" => used = "direct" /\ knob.dir = 1
  /\ part # "leds" => stages[1] = 0
  /\ part # "dma" => dir = "rx"
  /\ part # "spi" => master = "spi"
  /\ part # "usart" => control = {"RXEN", "TXEN"}
  /\ part # "startup" => setup.source = "internal" /\ setup.factor = 0

UiNext ==
  \/ part = "controls" /\ CtlNext /\ UNCHANGED <<adcVars, evVars, ledVars, swVars>>
  \/ part = "adc" /\ AdcNext /\ UNCHANGED <<ctlVars, evVars, ledVars, swVars>>
  \/ part = "events" /\ EvNext /\ UNCHANGED <<ctlVars, adcVars, ledVars, swVars>>
  \/ part = "leds" /\ LedNext /\ UNCHANGED <<ctlVars, adcVars, evVars, swVars>>
  \/ part = "switches" /\ ReadSwitches /\ UNCHANGED <<ctlVars, adcVars, evVars, ledVars>>

IoNext ==
  \/ /\ part = "dma" /\ DmaNext
     /\ UNCHANGED <<spiVars, uartVars, portVars, timerVars, startVars, dacVars>>
  \/ /\ part = "spi" /\ SpiNext
     /\ UNCHANGED <<dmaVars, uartVars, portVars, timerVars, startVars, dacVars>>
  \/ /\ part = "usart" /\ UartNext
     /\ UNCHANGED <<dmaVars, spiVars, portVars, timerVars, startVars, dacVars>>
  \/ /\ part = "ports" /\ PortNext
     /\ UNCHANGED <<dmaVars, spiVars, uartVars, timerVars, startVars, dacVars>>
  \/ /\ part = "timers" /\ TimerNext
     /\ UNCHANGED <<dmaVars, spiVars, uartVars, portVars, startVars, dacVars>>
  \/ /\ part = "startup" /\ StartNext
     /\ UNCHANGED <<dmaVars, spiVars, uartVars, portVars, timerVars, dacVars>>
  \/ /\ part = "dac" /\ DacNext
     /\ UNCHANGED <<dmaVars, spiVars, uartVars, portVars, timerVars, startVars>>

UtilNext ==
  \/ part = "arithmetic" /\ NextOperand /\ UNCHANGED <<rngVars, strVars>>
  \/ part = "random" /\ RngNext /\ UNCHANGED <<arithVars, strVars>>
  \/ part = "strings" /\ StrNext /\ UNCHANGED <<arithVars, rngVars>>

Next == /\ UNCHANGED part
        /\ \/ UiNext /\ UNCHANGED <<ioVars, utilVars>>
           \/ IoNext /\ UNCHANGED <<uiVars, utilVars>>
           \/ UtilNext /\ UNCHANGED <<uiVars, ioVars>>

Spec == Init /\ [][Next]_allVars
=============================================================================
