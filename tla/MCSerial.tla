------------------------------ MODULE MCSerial ------------------------------
(* Instances of Serial for TLC. *)
EXTENDS Serial, TLC

CONSTANTS d1, d2

\* A request that the code takes without being able to meet it, and one that
\* changes a field whose bits are cleared first and one that is just set.
MCRequests ==
  {[baud |-> 19200, size |-> 6, parity |-> 0, stop |-> 1],
   [baud |-> 9600, size |-> 7, parity |-> 0, stop |-> 2]}

Descriptors == Permutations({d1, d2})
=============================================================================
