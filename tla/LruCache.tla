------------------------------- MODULE LruCache -------------------------------
(***************************************************************************)
(* What a level of the memory promises to whoever measures it: a set       *)
(* associative cache that keeps, in every set, the lines used last, and    *)
(* answers an access with a hit exactly for those.                         *)
(***************************************************************************)
EXTENDS Integers, Sequences, SequencesExt

VARIABLES sets,      \* the number of sets; a line goes to the set line % sets
          capacity,  \* the lines of one set
          recency,   \* per set, its lines, the one used last first
          request,   \* the last line accessed, -1 before the first access
          wasHit     \* the answer to that access

vars == <<sets, capacity, recency, request, wasHit>>

Init == /\ sets \in Nat \ {0} /\ capacity \in Nat \ {0}
        /\ recency = [s \in 0..(sets - 1) |-> <<>>]
        /\ request = -1 /\ wasHit = FALSE

\* The line comes to the front; its own place becomes free, or a new one, or that of
\* the line used longest ago.
Use(list, line) ==
    LET place == CASE line \in Range(list)      -> CHOOSE i \in 1..Len(list) : list[i] = line
                   [] line \notin Range(list)
                        /\ Len(list) < capacity -> Len(list) + 1
                   [] OTHER                     -> capacity
    IN  [i \in 1..(IF place > Len(list) THEN place ELSE Len(list)) |->
            IF i = 1 THEN line ELSE IF i <= place THEN list[i - 1] ELSE list[i]]

\* An access to the line request'.
Access ==
    /\ request' \in Nat
    /\ wasHit' = (request' \in Range(recency[request' % sets]))
    /\ recency' = [recency EXCEPT ![request' % sets] = Use(@, request')]
    /\ UNCHANGED <<sets, capacity>>

Spec == Init /\ [][Access]_vars
=============================================================================
