--------------------------- MODULE MCProverInput ---------------------------
(* Transactions whose lists are as long as a short list may be, one longer, and as
   long as needs a length of two bytes; all their bytes look like the marker. *)
EXTENDS ProverInput

Legacy(n, v) == [data |-> [i \in 1 .. n |-> changeL2Block], v |-> v,
                 r |-> Base * changeL2Block + changeL2Block, s |-> changeL2Block]

Raw(tx) == [TxAlreadyEncoded |-> FALSE, Data |-> <<>>, Tx |-> tx,
            EfficiencyPercentage |-> changeL2Block]

Encoded(tx) == [TxAlreadyEncoded |-> TRUE, Data |-> prepareRLPTxData(tx), Tx |-> tx,
                EfficiencyPercentage |-> Base - 1]

MCDeltaTimestamps == {Base * changeL2Block + changeL2Block}

MCRawTxs ==
  {Raw(Legacy(shortRlp - 1, 27)), Raw(Legacy(shortRlp - 4, 38)),
   Raw(Legacy(shortRlp - 3, 35)),
   Encoded(Legacy(Base - 1, 28))}
=============================================================================
