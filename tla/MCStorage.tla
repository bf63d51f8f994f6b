------------------------------ MODULE MCStorage ------------------------------
(***************************************************************************)
(* What stands between a program and a file: the clock of the time-outs,   *)
(* the driver of the SD card, and the sessions on files.  In the code they *)
(* share nothing but the value of the clock, so each behaviour is about    *)
(* one of them, `part`, and the others stay where they are.                *)
(*                                                                         *)
(* A word of the clock has three values and wraps after two ticks; the     *)
(* card has three sectors of two bytes, and num_sectors three values, so   *)
(* that 0 stands for 3; mount numbers wrap after two mounts.               *)
(***************************************************************************)
EXTENDS Timekeeping, SdCard, FileSession

VARIABLE part

allVars == <<timeVars, sdVars, fsVars, part>>

\* Cards of 1 and 2 gigabytes of version 1, of 64 megabytes and of 32
\* gigabytes of version 2, and one whose c_size_mid has bit 7 set.
Csd1(h, m, l, u, b) == [ver |-> 0, high |-> h, mid |-> m, low |-> l,
                        mult |-> u, read_bl_len |-> b]
Csd2(h, m, l) == [ver |-> 1, high |-> h, mid |-> m, low |-> l, mult |-> 0,
                  read_bl_len |-> 9]
CardData == [absent |-> {Csd1(0, 0, 0, 0, 9)},
             SD1 |-> {Csd1(3, 255, 3, 7, 9), Csd1(1, 0, 0, 0, 10)},
             SDHC |-> {Csd2(0, 127, 255), Csd2(1, 128, 0), Csd2(63, 5, 1)}]

Init == /\ TimeInit /\ SdInit /\ FsInit
        /\ part \in {"clock", "card", "files"}
        /\ part # "card" => card.kind = "absent" /\ timeout = 0
        /\ tree.dirs = 0 /\ (part # "files" => ~tree.file)

Next == /\ UNCHANGED part
        /\ \/ part = "clock" /\ TimeNext /\ UNCHANGED <<sdVars, fsVars>>
           \/ part = "card" /\ SdNext /\ UNCHANGED <<timeVars, fsVars>>
           \/ part = "files" /\ FsNext /\ UNCHANGED <<timeVars, sdVars>>

Spec == /\ Init /\ [][Next]_allVars
        /\ WF_sdVars(part = "card" /\ ClockTick)
        /\ WF_sdVars(part = "card" /\ CallStep)

-----------------------------------------------------------------------------
\* Delays and time-outs last as long as they were asked to, with what the
\* wrap of the clock excludes.
TimeIsGiven == DelayLongEnough /\ GivesTheCardItsTime
=============================================================================
