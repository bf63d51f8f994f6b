------------------------------ MODULE Drivers ------------------------------
(***************************************************************************)
(* The drivers of the controls, the buses, the pins, the timers and the    *)
(* converters, and what a program relies on in several of them.  They      *)
(* share no state: each has its own variables and its own specification.   *)
(***************************************************************************)
EXTENDS Controls, AdcScanner, EventQueue, LedArray, SwitchBank, DmaBuffers,
        SpiMaster, Usart, Ports, Timers, Startup, Dac

\* What is shifted through a chain of registers arrives where it is for: each
\* LED has the duty of its own pixel, and each event is that of its switch,
\* in whichever order the bits come.
ChainsAgree == DutyRight /\ EventsAreSeparate /\ OrdersAgree

\* The program uses the hardware when it is ready: a slave is not deselected,
\* a byte to be sent, a sample or an answer is not overwritten, and the
\* processor does not run on an oscillator, before its time; but for the later
\* bytes of UsartSPIMaster and for channel 1 of the DAC after a Wait for both.
UsedWhenReady == /\ ExchangesComplete /\ BytesInOrder
                 /\ ClockIsStable /\ DacSamplesKept

\* The registers that several users share say what each asked for, but for
\* the pins, the channel and the interrupt levels that the two properties name.
RegistersAsAsked == PinsAsWanted /\ TimerAsAsked
=============================================================================
