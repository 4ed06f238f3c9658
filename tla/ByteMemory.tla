------------------------------ MODULE ByteMemory ------------------------------
(* What loads and stores promise: a memory of bytes.                       *)
EXTENDS Lanes

VARIABLES bytes,       \* [addresses -> Byte]
          loaded       \* what the last load returned

Store(n, a, v) ==
  /\ bytes' = [b \in DOMAIN bytes |-> IF b \in a .. a + n - 1 THEN v[b - a] ELSE bytes[b]]
  /\ UNCHANGED loaded

Load(n, signed, a) ==
  /\ loaded' = [k \in Lane |-> IF k < n THEN bytes[a + k]
                               ELSE Fill(signed, bytes[a + n - 1])]
  /\ UNCHANGED bytes
=============================================================================
