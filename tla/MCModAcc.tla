------------------------------ MODULE MCModAcc ------------------------------
(* The parameter settings and the samples of the ModAcc runs.              *)
EXTENDS ModAcc

\* Every placement of a cell's registers.
LegacyConfigs ==
  {[USE_ADDTREE |-> FALSE, MAX_COND_SUB |-> NUM_INPUTS - 1, AT_LAT |-> 0,
    CS_REG_PERIOD |-> 0, CS_REG_OUT |-> FALSE, FIXED_Q |-> fixed,
    REG_IN |-> ri, REG_ADD |-> ra, CONC_ADDSUB |-> conc, REG_OUT |-> ro] :
     fixed, ri, ra, conc, ro \in BOOLEAN}

\* Every placement of the chain's registers, with max as MAX_COND_SUB.
AddtreeConfigs(max) ==
  {[USE_ADDTREE |-> TRUE, MAX_COND_SUB |-> max, AT_LAT |-> at,
    CS_REG_PERIOD |-> period, CS_REG_OUT |-> out, FIXED_Q |-> fixed,
    REG_IN |-> FALSE, REG_ADD |-> FALSE, CONC_ADDSUB |-> FALSE,
    REG_OUT |-> FALSE] :
     fixed, out \in BOOLEAN, at \in 0 .. 2, period \in 0 .. 3}

MCConfigs == LegacyConfigs \cup UNION {AddtreeConfigs(m) : m \in {0, 2, 5}}

\* Neighbours on the clock have different moduli and different sums.
MCSamples == {[a |-> <<2, 2, 1>>, q |-> 3], [a |-> <<1, 0, 1>>, q |-> 3],
              [a |-> <<1, 1, 0>>, q |-> 2],
              [a |-> <<3, 3, 2>>, q |-> 3]}
=============================================================================
