------------------------ MODULE MCMessageDelivery ------------------------
(* Instances of MessageDelivery for TLC.                                   *)
EXTENDS MessageDelivery, TLC

CONSTANTS a, q, b,   \* an auto message, a manual one, an auto one with a big payload
          t1, t2     \* tabs

MCPolicy == [m \in Msgs |-> IF m = q THEN "manual" ELSE "auto"]
MCBig == Msgs \cap {b}

TabSymmetry == Permutations(Tabs)
=============================================================================
