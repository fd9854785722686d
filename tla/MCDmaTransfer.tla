--------------------------- MODULE MCDmaTransfer ---------------------------
(* Instances of DmaTransfer for TLC: one way clients use the channels each. *)
EXTENDS DmaTransfer

AnyMode    == [c \in Channels |-> Modes]
OneShots   == [c \in Channels |-> {"DEFAULT"}]
\* Channel 0 only streams, the others only run one-shot transfers.
Dedicated  == [c \in Channels |-> IF c = 0 THEN {"STREAM"} ELSE {"DEFAULT"}]
OneMixed   == [c \in Channels |-> IF c = 0 THEN Modes ELSE {"DEFAULT"}]
=============================================================================
