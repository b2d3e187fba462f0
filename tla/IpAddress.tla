----------------------------- MODULE IpAddress -----------------------------
\* How Livox-SDK2 reads the addresses it is given as text.  An address is the
\* sequence of its numbers.
EXTENDS Integers, Sequences

\* Four numbers, of which 256 passes the test and becomes 0.
IpToU8(parts) ==
  IF Len(parts) = 4 /\ \A j \in 1..4 : parts[j] \in 0..256
  THEN [j \in 1..4 |-> parts[j] % 256]
  ELSE <<>>
=============================================================================
