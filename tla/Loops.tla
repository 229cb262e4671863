-------------------------------- MODULE Loops --------------------------------
(***************************************************************************)
(* Loops as operators, evaluated step by step.                             *)
(***************************************************************************)
EXTENDS Integers, Sequences

\* F(e), written so that TLC evaluates e once.
Bind(e, F(_)) == CHOOSE r \in {F(x) : x \in {e}} : TRUE

\* A loop over the elements of s that updates an accumulator.
Accumulate(Step(_, _), base, s) ==
    LET acc[i \in 0..Len(s)] ==
          IF i = 0 THEN base ELSE Bind(acc[i - 1], LAMBDA a : Step(a, s[i]))
    IN  acc[Len(s)]
==============================================================================
