---------------------------- MODULE MCIngestion ----------------------------
(* Small instances of Ingestion for TLC.                                   *)
EXTENDS Ingestion, TLC

CONSTANTS r1, r2, full, rootless, empty, poison, garbled, w1, w2

KindOf(b) == CASE b = full     -> "full"
               [] b = rootless -> "rootless"
               [] b = empty    -> "empty"
               [] b = poison   -> "poison"
               [] b = garbled  -> "garbled"

AllKinds  == [b \in {full, rootless, empty, poison, garbled} |-> KindOf(b)]
LiveKinds == [b \in {full, poison} |-> KindOf(b)]
=============================================================================
