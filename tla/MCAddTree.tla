----------------------------- MODULE MCAddTree ------------------------------
(* Settings and samples of the AddTree run.                                *)
EXTENDS AddTree

\* Every setting check_params accepts, for trees of up to five stages: with and
\* without left-over operands, and with both of one and of two of them.
MCConfigs ==
  {c \in [NUM_INPUTS : {1, 2, 3, 5, 7, 8}, REG_PERIOD : 0 .. 5, REG_IN : BOOLEAN,
          REG_OUT : BOOLEAN, USE_CSA : BOOLEAN, FF_ADD : BOOLEAN] :
     c.REG_PERIOD <= total_stages(c.NUM_INPUTS, c.USE_CSA)}

\* Neighbouring operands: their sums overflow WIDTH bits, and carries come and go
\* in every bit.
MCSamples == {<<255, 129, 254, 3, 200, 255, 77, 128>>,
              <<1, 255, 90, 165, 127, 16, 255, 254>>,
              <<255, 255, 255, 255, 255, 255, 255, 255>>}
=============================================================================
