----------------------------- MODULE MCHostTest -----------------------------
(* Constants for TLC: see MCHostTest.cfg and MCHostTestOk.cfg.               *)
EXTENDS HostTest, TLC

Setting(prog, template, old, residue, clear, faults) ==
  [script |-> prog, template |-> template, old |-> old, clearOnRead |-> clear,
   residue |-> (0 :> residue[1] @@ 1 :> residue[2]), faults |-> faults]

sh   == "dma_streaming_test.sh"
main == "main.py"

\* The shell script with everything that can go wrong, the files of an earlier
\* run, and words that are left in the card, up to a whole transfer; main.py where the files
\* of an earlier run are not there or its devices open;
\* and both kinds of kernel.
Settings ==
  { Setting(sh,   "PCI_STREAM",  TRUE,  <<0, 0>>, FALSE, {"open", "dma", "input"}),
    Setting(sh,   "PCI_STREAM",  TRUE,  <<1, 0>>, FALSE, {"open"}),
    Setting(sh,   "PCI_STREAM",  TRUE,  <<1, 1>>, FALSE, {}),
    Setting(sh,   "PCI_STREAM",  TRUE,  <<2, 2>>, FALSE, {"open"}),
    Setting(sh,   "PCI_STREAM",  FALSE, <<2, 0>>, FALSE, {"open"}),
    Setting(sh,   "PCI_STREAM",  FALSE, <<0, 0>>, FALSE, {}),
    Setting(main, "PCI_STREAM",  FALSE, <<0, 1>>, FALSE, {"open", "input"}),
    Setting(main, "PCI_STREAM",  TRUE,  <<0, 0>>, FALSE, {"dma"}) }
  \cup
  { Setting(main, "HBM_DDR_MM", TRUE, <<0, 0>>, clear, faults) :
      clear \in BOOLEAN, faults \in {{}, {"open", "dma", "killed"}} }

\* main.py as it is used: the output files of the last run are still there.
SecondRun == { Setting(main, "PCI_STREAM", TRUE, <<0, 0>>, FALSE, {"open"}) }
=============================================================================
