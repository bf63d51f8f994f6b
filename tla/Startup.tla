------------------------------ MODULE Startup ------------------------------
(***************************************************************************)
(* SetupClock (system/clock.h): the processor goes from the oscillator it  *)
(* starts on to the one that was asked for, directly or through the PLL.   *)
(* Changing the source of the clock is protected: the write counts only    *)
(* within four cycles of the one to CCP, during which the processor holds  *)
(* interrupts off.                                                         *)
(***************************************************************************)
EXTENDS Integers

CONSTANTS Sources,   \* "internal", and "crystal" at either frequency
          Factors    \* pll_factor, 0 for none

ASSUME SourceAssumption == "pll" \notin Sources

VARIABLES setup,     \* what was asked for, and where the function is
          osc,       \* external: oscillators enabled, ready, the PLL's input
          sclk,      \* what the processor runs on
          unlocked   \* external: has CCP just been written?

startVars == <<setup, osc, sclk, unlocked>>

StartInit ==
  /\ \E source \in Sources, factor \in Factors :
       setup = [source |-> source, factor |-> factor, pc |-> "enable"]
  /\ osc = [enabled |-> {"start"}, ready |-> {"start"}, pllFrom |-> "none"]
  /\ sclk = "start" /\ unlocked = FALSE

\* External: an oscillator is stable; the one in use cannot be disabled.
BecomesReady ==
  /\ \E o \in osc.enabled \ osc.ready :
       osc' = [osc EXCEPT !.ready = @ \cup {o}]
  /\ UNCHANGED <<setup, sclk, unlocked>>

Enabled(set) == [osc EXCEPT !.enabled = set \cup {sclk},
                            !.ready = @ \cap (set \cup {sclk})]

GoesTo(pc) == setup' = [setup EXCEPT !.pc = pc]

\* OSC.CTRL = ...: the only one, besides the one in use.
EnablesSource ==
  /\ setup.pc = "enable" /\ GoesTo("wait")
  /\ osc' = Enabled({setup.source})
  /\ UNCHANGED <<sclk, unlocked>>

\* while (!(OSC.STATUS & ...)), and PLLCTRL.
WaitsForSource ==
  /\ setup.pc = "wait" /\ setup.source \in osc.ready
  /\ GoesTo(IF setup.factor = 0 THEN "unlock" ELSE "pll")
  /\ osc' = [osc EXCEPT !.pllFrom = IF setup.factor = 0 THEN @ ELSE setup.source]
  /\ UNCHANGED <<sclk, unlocked>>

EnablesPll ==
  /\ setup.pc = "pll" /\ GoesTo("wait_pll")
  /\ osc' = [osc EXCEPT !.enabled = @ \cup {"pll"}]
  /\ UNCHANGED <<sclk, unlocked>>

PllNotWaitedFor ==                       \* faulty: the wait is missing
  /\ setup.pc = "wait_pll" /\ GoesTo("unlock")
  /\ UNCHANGED <<osc, sclk, unlocked>>
WaitsForPll ==
  /\ setup.pc = "wait_pll" /\ "pll" \in osc.ready
  /\ GoesTo("unlock")
  /\ UNCHANGED <<osc, sclk, unlocked>>

\* CCP_WRITE(CLK.CTRL, ...)
Unlocks ==
  /\ setup.pc = "unlock" /\ GoesTo("switch") /\ unlocked' = TRUE
  /\ UNCHANGED <<osc, sclk>>

Switches_ ==
  /\ setup.pc = "switch" /\ GoesTo("done") /\ unlocked' = FALSE
  /\ sclk' = IF ~unlocked THEN sclk
             ELSE IF setup.factor = 0 THEN setup.source ELSE "pll"
  /\ UNCHANGED osc

StartupDone == setup.pc = "done" /\ UNCHANGED startVars

StartNext == \/ BecomesReady \/ EnablesSource \/ WaitsForSource \/ EnablesPll
             \/ WaitsForPll \/ Unlocks \/ Switches_ \/ StartupDone

StartSpec == StartInit /\ [][StartNext]_startVars

-----------------------------------------------------------------------------
(* Properties.                                                             *)

\* The processor always runs on something stable: what it runs on, and what
\* feeds the PLL if it runs on that, is enabled and ready.
ClockIsStable ==
  /\ sclk \in osc.ready
  /\ sclk = "pll" => osc.pllFrom \in osc.ready
=============================================================================
