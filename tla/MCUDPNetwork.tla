---------------------------- MODULE MCUDPNetwork ----------------------------
(* Small instances of UDPNetwork for TLC.                                  *)
EXTENDS UDPNetwork

CONSTANTS a1, a2, a3, a4

Both == {"public", "private"}

\* Every process has its whole key pair.
AllLoaded == [a \in Addr |-> Both]

\* a1 and a2 have their whole key pair; load_rsa_key_pair left a3 without its
\* private half and a4 without its public half.
SomeLoaded == [a \in Addr |-> CASE a \in {a1, a2} -> Both
                                [] a = a3 -> {"public"}
                                [] a = a4 -> {"private"}]
=============================================================================
