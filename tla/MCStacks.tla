------------------------------ MODULE MCStacks ------------------------------
(* Two queues.  One has the 128 words of example/include/osek_config.h at  *)
(* an address that is a multiple of 8, the other eight words more at one   *)
(* that is a multiple of 4 only.                                           *)
EXTENDS Stacks, TLC

CONSTANT Bytes   \* bytes that each queue needs

MCQueues == {0, 1}
MCSize == 0 :> 136 @@ 1 :> 128
MCBase == 0 :> 132 @@ 1 :> 680
MCNeeds == 0 :> Bytes @@ 1 :> Bytes
MCMemory == {4 * i : i \in 0 .. 327}
MCMainSP == 1312
=============================================================================
