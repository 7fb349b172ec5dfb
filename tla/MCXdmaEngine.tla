---------------------------- MODULE MCXdmaEngine ----------------------------
(* Constants for TLC: see MCXdmaEngine.cfg.                                  *)
EXTENDS XdmaEngine, XdmaRequest, TLC

CONSTANTS r1, r2

BlenMax == 2

\* Descriptors are of two units: r1 has two of them and r2 one, or three, so
\* that a request may fill the ring of three or wrap around its end.
Long  == (r1 :> <<3>> @@ r2 :> <<2, 3>>)
Short == (r1 :> <<3>> @@ r2 :> <<1>>)

Setting(async, stream, sg, start, faults) ==
  [async |-> async, stream |-> stream, start |-> start, faults |-> faults,
   sdesc |-> [r \in DOMAIN sg |-> SwDescs(sg[r], BlenMax)]]

Settings ==
  { Setting(FALSE, TRUE,  Long,  2, Faults),
    Setting(FALSE, FALSE, Long,  1, {"signal", "error"}),
    Setting(FALSE, TRUE,  Long,  0, {"busy"}),
    Setting(FALSE, FALSE, Long,  2, {"busy", "error"}),
    Setting(TRUE,  TRUE,  Short, 0, {}),
    Setting(TRUE,  FALSE, Short, 2, {}) }
=============================================================================
