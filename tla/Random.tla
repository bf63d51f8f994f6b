------------------------------- MODULE Random -------------------------------
(***************************************************************************)
(* utils/random.h: a Galois linear feedback shift register of 16 bits,     *)
(* read after each update, whole by GetWord or by its high byte by GetByte.*)
(***************************************************************************)
EXTENDS Integers, Bitwise

CONSTANTS FirstSeed,     \* the value random.cc gives the register
          Seeds          \* the values Seed is called with

VARIABLES rng_state_,
          seed,          \* the value the register was last given
          updates        \* the calls of Update since, 1 to Period
rngVars == <<rng_state_, seed, updates>>

Period == 65535          \* "Period: 65535."
-----------------------------------------------------------------------------
Taps == 46080            \* 0xb400: x^16 + x^14 + x^13 + x^11

\* Mutant of Galois: the taps of another polynomial, 0xb600.
GaloisByOther(s) == (s \div 2) ^^ ((s % 2) * 46592)

Galois(s) == (s \div 2) ^^ ((s % 2) * Taps)

RngInit == rng_state_ = FirstSeed /\ seed = FirstSeed /\ updates = 0

\* updates goes round with the period.
Update == /\ rng_state_' = Galois(rng_state_)
          /\ updates' = (updates % Period) + 1
          /\ UNCHANGED seed

\* A seed is given to a generator that has just started.
Seed == /\ updates = 0 /\ seed = FirstSeed
        /\ \E s \in Seeds : rng_state_' = s /\ seed' = s
        /\ UNCHANGED updates

RngNext == Update \/ Seed
RngSpec == RngInit /\ [][RngNext]_rngVars
-----------------------------------------------------------------------------
(***************************************************************************)
(* "Period: 65535.": from a seed other than 0 the register goes through    *)
(* every value but 0 before it is back at the seed; from 0 it never moves. *)
(***************************************************************************)
PeriodIsWhole ==
  IF seed = 0 THEN rng_state_ = 0
  ELSE /\ rng_state_ \in 1 .. Period
       /\ updates > 0 => (rng_state_ = seed <=> updates = Period)
=============================================================================
