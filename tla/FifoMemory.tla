------------------------------ MODULE FifoMemory ------------------------------
(***************************************************************************)
(* What kernel_memory promises its client: the cache operations the client *)
(* issues are executed by one processor, each at most once and in the      *)
(* order in which they were issued, and an instrumented access returns     *)
(* only when everything issued so far, itself included, has been executed. *)
(* Batches, channels, channel switches and the agent are not visible.      *)
(***************************************************************************)
EXTENDS Naturals, Sequences

CONSTANT Op

VARIABLES issued,     \* the operations the client asked for
          executed,   \* the operations the processor performed
          sync,       \* TRUE while the client is inside an instrumented access
          result,     \* the number of the operation the last result is about
          alive       \* FALSE once the client has destroyed its memory object

vars == <<issued, executed, sync, result, alive>>

Init == /\ issued = << >>
        /\ executed = << >>
        /\ sync = FALSE
        /\ result = 0
        /\ alive = TRUE

Issue == /\ alive /\ ~sync
         /\ \E op \in Op, s \in BOOLEAN :
               issued' = Append(issued, op) /\ sync' = s
         /\ UNCHANGED <<executed, result, alive>>

Execute == /\ Len(executed) < Len(issued)
           /\ executed' = Append(executed, issued[Len(executed) + 1])
           /\ UNCHANGED <<issued, sync, result, alive>>

Return == /\ alive /\ sync
          /\ executed = issued
          /\ sync' = FALSE
          /\ result' = Len(issued)
          /\ UNCHANGED <<issued, executed, alive>>

Close == /\ alive
         /\ alive' = FALSE
         /\ sync' = FALSE
         /\ UNCHANGED <<issued, executed, result>>

Next == Issue \/ Execute \/ Return \/ Close

Spec == Init /\ [][Next]_vars
=============================================================================
