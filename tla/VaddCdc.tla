------------------------------ MODULE VaddCdc ------------------------------
(***************************************************************************)
(* The streaming shell around the modular multiplier:                      *)
(* fpga_template_u280/hw/rtl/vadd_pci_stream/vadd_cdc.sv, with             *)
(* vadd_cdc_pipeline.sv and shiftreg.sv.                                   *)
(*                                                                         *)
(* Two host-to-card AXI streams (axis_clk) enter two in-FIFOs.  In the     *)
(* rtl_clk domain the words at their heads are presented to a modmul that  *)
(* has no valid, no ready and no reset, so that a shift register as deep   *)
(* as modmul carries {valid, tdest, tlast} beside it.  Results are written *)
(* blindly (the FIFO's tready is unconnected) into two out-FIFOs, which    *)
(* the host drains as two card-to-host streams.  The only back-pressure on *)
(* the pipeline is the prog_full flag of the out-FIFOs.                    *)
(*                                                                         *)
(* One RtlTick is one edge of rtl_clk: the whole combinational handshake   *)
(* and every register behind it.  The axis_clk side is asynchronous to it, *)
(* so a push, a pop and a change of axis_rst may fall between any two rtl  *)
(* edges.  Words of one stream are numbered by the order in which the host *)
(* sends them; a result is the tuple of word numbers it was computed from. *)
(***************************************************************************)
EXTENDS Integers, Sequences, FiniteSets

CONSTANTS
  PIPE_WIDTH,       \* 512: the channels share the pipeline; 1024: they are paired
  PIPELINE_LAT,     \* depth of the {valid, tdest, tlast} shift register
  MODMUL_LAT,       \* depth of the modmul data path
  IN_FIFO_DEPTH,
  OUT_FIFO_DEPTH,
  MIN_MARGIN,       \* the literal 5 of FIFO_PROG_FULL
  FIFO_CAPACITY,    \* words an out-FIFO holds before it drops a write (IP)
  PF_DELAY,         \* rtl edges from a write to its prog_full (IP)
  CDC_SYNC_STAGES,  \* synchroniser stages of a FIFO pointer
  DEST_SYNC_FF,     \* synchroniser stages of rtl_rst
  RST_HOLD,         \* rtl edges the host holds axis_rst low, at least
  PKT,              \* words per DMA packet of each channel
  MAX_WORDS,        \* bound: words a host channel sends
  MAX_RESETS        \* bound: resets after power-up

Channels == {0, 1}
Stages   == 1 .. PIPELINE_LAT

\* vadd_cdc.sv:188
FIFO_PROG_FULL == IF PIPELINE_LAT < MIN_MARGIN
                    THEN OUT_FIFO_DEPTH - MIN_MARGIN
                    ELSE OUT_FIFO_DEPTH - PIPELINE_LAT

ASSUME ConstantsAssumption ==
  /\ PIPE_WIDTH \in {512, 1024}
  /\ PIPELINE_LAT \in Nat \ {0} /\ MODMUL_LAT \in Nat \ {0}
  /\ IN_FIFO_DEPTH \in Nat \ {0} /\ OUT_FIFO_DEPTH \in Nat \ {0}
  /\ MIN_MARGIN \in Nat /\ FIFO_CAPACITY \in Nat
  /\ PF_DELAY \in Nat \ {0}
  /\ CDC_SYNC_STAGES \in Nat \ {0} /\ DEST_SYNC_FF \in Nat \ {0}
  /\ RST_HOLD \in Nat
  /\ PKT \in [Channels -> Nat \ {0}]
  /\ MAX_WORDS \in Nat /\ MAX_RESETS \in Nat

\* XPM rejects a threshold that is not positive.
ASSUME ThresholdAssumption == FIFO_PROG_FULL > 0

\* What the FIFO IP has to provide beyond OUT_FIFO_DEPTH words: a word is
\* accepted on a flag that is PF_DELAY edges old, behind a full pipeline.
ASSUME HeadroomAssumption ==
  FIFO_PROG_FULL + PIPELINE_LAT + PF_DELAY <= FIFO_CAPACITY

\* A word crosses into rtl_clk in no fewer edges than the reset does.
ASSUME ResetAssumption ==
  /\ DEST_SYNC_FF <= CDC_SYNC_STAGES
  /\ RST_HOLD > DEST_SYNC_FF

\* vadd_cdc.sv duplicates modmul's default parameters to compute PIPELINE_LAT.
ASSUME LatencyAssumption == MODMUL_LAT = PIPELINE_LAT

VARIABLES
  axis_rst,   \* the reset of the host side, active low
  held,       \* rtl edges since axis_rst fell, up to RST_HOLD
  resets,     \* resets so far (bounds the model)
  rst_sync,   \* xpm_cdc_sync_rst: ~axis_rst moving into rtl_clk
  sent,       \* in-FIFO write pointers: words the host has sent
  base,       \* write pointers at the last reset
  wr_sync,    \* the write pointers moving into rtl_clk
  taken,      \* in-FIFO read pointers: words the pipeline has taken
  ctl,        \* delay_inst: {valid, tdest, tlast} per stage
  dat,        \* modmul: the operands per stage
  outq,       \* contents of the out-FIFOs
  unseen,     \* words popped whose read pointer has not reached rtl_clk
  pf,         \* the prog_full flags moving to the out-FIFOs' outputs
  rcvd,       \* words the host has received since the last reset
  got         \* the word each host channel received last

vars == <<axis_rst, held, resets, rst_sync, sent, base, wr_sync, taken,
          ctl, dat, outq, unseen, pf, rcvd, got>>

rstVars  == <<axis_rst, held, resets>>
hostVars == <<sent, base, rcvd, got>>

-----------------------------------------------------------------------------
(* Words and results.                                                      *)

Words == Nat
\* 1024: <<word of channel 0, word of channel 1>>; 512: <<channel, word>>.
Operands == Words \X Words
Junk     == <<0, 0>>
Ctl      == [valid : BOOLEAN, dest : Channels, last : BOOLEAN]
Idle     == [valid |-> FALSE, dest |-> 0, last |-> FALSE]
Results  == [data : Operands, last : BOOLEAN]

\* The DMA engine raises tlast on the last word of a packet.
TLast(c, n) == (n - base[c]) % PKT[c] = 0

\* The word at the head of an in-FIFO.
HeadWord(c) == taken[c] + 1

-----------------------------------------------------------------------------
(* The combinational paths of the rtl_clk domain.                          *)

rtl_rst == rst_sync[DEST_SYNC_FF]

\* Wrong: the write pointer is read without its synchroniser.
TValidUnsynchronised(c) == taken[c] < sent[c]

m_tvalid_in_fifo_(c) == taken[c] < wr_sync[c][CDC_SYNC_STAGES]

m_tvalid_in_fifo ==
  IF PIPE_WIDTH = 512 THEN m_tvalid_in_fifo_(0) \/ m_tvalid_in_fifo_(1)
                      ELSE m_tvalid_in_fifo_(0) /\ m_tvalid_in_fifo_(1)

m_tdest_in_fifo == IF m_tvalid_in_fifo_(0) THEN 0 ELSE 1

\* Wrong: channel 1 decides where a packet ends.
TLastOfChannel1First ==
  LET c == IF m_tvalid_in_fifo_(1) THEN 1 ELSE 0 IN TLast(c, HeadWord(c))

m_tlast_in_fifo == TLast(m_tdest_in_fifo, HeadWord(m_tdest_in_fifo))

m_tdata_in_fifo ==
  IF PIPE_WIDTH = 512 THEN <<m_tdest_in_fifo, HeadWord(m_tdest_in_fifo)>>
                      ELSE <<HeadWord(0), HeadWord(1)>>

prog_full_out_fifo_(c) == pf[c][PF_DELAY]

\* Wrong: a full out-FIFO stops the words of the other channel as well.
ProgFullOfEither == prog_full_out_fifo_(0) \/ prog_full_out_fifo_(1)

s_prog_full ==
  IF PIPE_WIDTH = 512 THEN prog_full_out_fifo_(m_tdest_in_fifo)
                      ELSE prog_full_out_fifo_(0) \/ prog_full_out_fifo_(1)

s_handshake == m_tvalid_in_fifo /\ ~s_prog_full

\* Wrong: a channel is popped whenever it has a word and the pipeline may run.
TReadyAlone(c) == m_tvalid_in_fifo_(c) /\ ~s_prog_full

m_tready_in_fifo_(c) ==
  /\ s_handshake
  /\ PIPE_WIDTH = 512 => m_tdest_in_fifo = c

\* What enters the pipeline.  Without a handshake the code shifts in the tdest,
\* tlast and tdata that happen to be at the FIFOs' outputs; nothing reads them
\* behind a low valid, so they are one value here.
PipelineControl ==
  IF s_handshake
    THEN [valid |-> TRUE, dest |-> m_tdest_in_fifo, last |-> m_tlast_in_fifo]
    ELSE Idle

PipelineData == IF s_handshake THEN m_tdata_in_fifo ELSE Junk

\* Wrong: results are routed by tdest even when the channels are paired.
RoutedByDest(x, c) == x.valid /\ x.dest = c

\* Wrong: every result goes to both out-FIFOs.
RoutedToBoth(x, c) == x.valid

\* A stage of the control pipeline holds a result for channel c.
RoutedTo(x, c) == x.valid /\ (PIPE_WIDTH = 512 => x.dest = c)

s_tvalid_out_fifo_(c) == RoutedTo(ctl[PIPELINE_LAT], c)

\* Wrong: modmul is one stage shorter than the valid that travels beside it.
TDataOneEarly(c) ==
  IF PIPE_WIDTH = 1024 /\ c = 1 THEN Junk ELSE dat[MODMUL_LAT - 1]

\* In the paired mode the upper half of m_tdata is tied to zero.
s_tdata_out_fifo_(c) ==
  IF PIPE_WIDTH = 1024 /\ c = 1 THEN Junk ELSE dat[MODMUL_LAT]

\* The out-FIFO's fill level as its write side knows it.
Level(c) == Len(outq[c]) + unseen[c]

-----------------------------------------------------------------------------
(* The registers of the rtl_clk domain.                                    *)

\* One edge of a shift register; stage 1 is loaded with x.
ShiftIn(a, x) == [i \in DOMAIN a |-> IF i = 1 THEN x ELSE a[i - 1]]

\* Wrong: a shift register of PIPELINE_LAT + 1 stages.
DelayOneMore(x) ==
  [i \in 1 .. PIPELINE_LAT + 1 |->
     IF rtl_rst THEN Idle ELSE IF i = 1 THEN x ELSE ctl[i - 1]]

\* shiftreg with RST = 1: every stage is cleared.
delay_inst(x) == IF rtl_rst THEN [i \in Stages |-> Idle] ELSE ShiftIn(ctl, x)

\* A FIFO in reset ignores a write, and a full one drops it.
OutFifoWrite(c) ==
  IF axis_rst /\ s_tvalid_out_fifo_(c) /\ Level(c) < FIFO_CAPACITY
    THEN Append(outq[c], [data |-> s_tdata_out_fifo_(c),
                          last |-> ctl[PIPELINE_LAT].last])
    ELSE outq[c]

\* Wrong: the flag rises one word late.
ProgFullLate(c) == Level(c) > FIFO_PROG_FULL

ProgFull(c) == Level(c) >= FIFO_PROG_FULL

RtlTick ==
  /\ held'     = IF axis_rst \/ held = RST_HOLD THEN held ELSE held + 1
  /\ rst_sync' = ShiftIn(rst_sync, ~axis_rst)
  /\ wr_sync'  = [c \in Channels |-> ShiftIn(wr_sync[c], sent[c])]
  /\ taken'    = [c \in Channels |->
                    IF m_tready_in_fifo_(c) THEN taken[c] + 1 ELSE taken[c]]
  /\ ctl'      = delay_inst(PipelineControl)
  /\ dat'      = ShiftIn(dat, PipelineData)
  /\ outq'     = [c \in Channels |-> OutFifoWrite(c)]
  /\ pf'       = [c \in Channels |-> ShiftIn(pf[c], ProgFull(c))]
  /\ UNCHANGED <<axis_rst, resets, hostVars, unseen>>

-----------------------------------------------------------------------------
(* The host side: axis_clk.                                                *)

\* A word enters an in-FIFO.
AxisPush(c) ==
  /\ axis_rst
  /\ sent[c] < MAX_WORDS
  /\ sent[c] - taken[c] < IN_FIFO_DEPTH
  /\ sent' = [sent EXCEPT ![c] = @ + 1]
  /\ UNCHANGED <<rstVars, rst_sync, base, wr_sync, taken, ctl, dat, outq,
                 unseen, pf, rcvd, got>>

\* A word leaves an out-FIFO.
AxisPop(c) ==
  /\ axis_rst
  /\ outq[c] # <<>>
  /\ got'    = [got EXCEPT ![c] = Head(outq[c])]
  /\ rcvd'   = [rcvd EXCEPT ![c] = @ + 1]
  /\ outq'   = [outq EXCEPT ![c] = Tail(@)]
  /\ unseen' = [unseen EXCEPT ![c] = @ + 1]
  /\ UNCHANGED <<rstVars, rst_sync, sent, base, wr_sync, taken, ctl, dat, pf>>

\* An out-FIFO's read pointer reaches its write side, any time later.
SyncReadPointer(c) ==
  /\ unseen[c] > 0
  /\ \E k \in 0 .. unseen[c] - 1 : unseen' = [unseen EXCEPT ![c] = k]
  /\ UNCHANGED <<rstVars, rst_sync, hostVars, wr_sync, taken, ctl, dat, outq, pf>>

\* axis_rst falls: the four FIFOs are emptied; prog_full takes either value.
AssertReset ==
  /\ axis_rst
  /\ resets < MAX_RESETS
  /\ axis_rst' = FALSE
  /\ held'     = 0
  /\ resets'   = resets + 1
  /\ base'     = sent
  /\ taken'    = sent
  /\ wr_sync'  = [c \in Channels |-> [k \in 1 .. CDC_SYNC_STAGES |-> sent[c]]]
  /\ outq'     = [c \in Channels |-> <<>>]
  /\ unseen'   = [c \in Channels |-> 0]
  /\ rcvd'     = [c \in Channels |-> 0]
  /\ \E b \in BOOLEAN : pf' = [c \in Channels |-> [k \in 1 .. PF_DELAY |-> b]]
  /\ UNCHANGED <<rst_sync, sent, ctl, dat, got>>

ReleaseReset ==
  /\ ~axis_rst
  /\ held = RST_HOLD
  /\ axis_rst' = TRUE
  /\ UNCHANGED <<held, resets, rst_sync, hostVars, wr_sync, taken, ctl, dat,
                 outq, unseen, pf>>

-----------------------------------------------------------------------------

\* Power-up: the host is in reset, rtl_rst comes up asserted (INIT = 1), and the
\* pipeline's registers hold anything.
Init ==
  /\ axis_rst = FALSE /\ held = 0 /\ resets = 0
  /\ rst_sync = [k \in 1 .. DEST_SYNC_FF |-> TRUE]
  /\ sent     = [c \in Channels |-> 0]
  /\ base     = [c \in Channels |-> 0]
  /\ wr_sync  = [c \in Channels |-> [k \in 1 .. CDC_SYNC_STAGES |-> 0]]
  /\ taken    = [c \in Channels |-> 0]
  /\ ctl \in [Stages -> Ctl]
  /\ dat      = [i \in 1 .. MODMUL_LAT |-> Junk]
  /\ outq     = [c \in Channels |-> <<>>]
  /\ unseen   = [c \in Channels |-> 0]
  /\ pf       = [c \in Channels |-> [k \in 1 .. PF_DELAY |-> FALSE]]
  /\ rcvd     = [c \in Channels |-> 0]
  /\ got      = [c \in Channels |-> [data |-> Junk, last |-> FALSE]]

Next ==
  \/ RtlTick
  \/ \E c \in Channels : AxisPush(c)
  \/ \E c \in Channels : AxisPop(c)
  \/ \E c \in Channels : SyncReadPointer(c)
  \/ AssertReset
  \/ ReleaseReset

\* rtl_clk runs, a pointer crosses a synchroniser, a reset ends and the host's
\* C2H transfers, started before the H2C ones, read what is there.
Fairness ==
  /\ WF_vars(RtlTick)
  /\ WF_vars(ReleaseReset)
  /\ \A c \in Channels : WF_vars(AxisPop(c)) /\ WF_vars(SyncReadPointer(c))

\* A host that may stop reading channel 1.
FairnessChannel0 ==
  /\ WF_vars(RtlTick)
  /\ WF_vars(ReleaseReset)
  /\ WF_vars(AxisPop(0)) /\ WF_vars(SyncReadPointer(0))

Spec              == Init /\ [][Next]_vars
FairSpec          == Spec /\ Fairness
FairSpecChannel0  == Spec /\ FairnessChannel0

-----------------------------------------------------------------------------
(* Properties.                                                             *)

\* Every variable has its type: pointers are ordered and the pipeline and the
\* FIFOs hold what their registers and memories can hold.
TypeOK ==
  /\ axis_rst \in BOOLEAN /\ held \in 0 .. RST_HOLD /\ resets \in 0 .. MAX_RESETS
  /\ rst_sync \in [1 .. DEST_SYNC_FF -> BOOLEAN]
  /\ sent \in [Channels -> Nat] /\ base \in [Channels -> Nat]
  /\ taken \in [Channels -> Nat] /\ rcvd \in [Channels -> Nat]
  /\ wr_sync \in [Channels -> [1 .. CDC_SYNC_STAGES -> Nat]]
  /\ ctl \in [Stages -> Ctl]
  /\ dat \in [1 .. MODMUL_LAT -> Operands]
  /\ outq \in [Channels -> Seq(Results)]
  /\ unseen \in [Channels -> Nat]
  /\ pf \in [Channels -> [1 .. PF_DELAY -> BOOLEAN]]
  /\ got \in [Channels -> Results]

\* No result is ever written to an out-FIFO that is full.  The write side does
\* not look at the FIFO's tready (vadd_cdc.sv:434, 487): such a write is a lost
\* word, and every later result of the stream would be one place early.
NoOverflow ==
  \A c \in Channels : axis_rst /\ s_tvalid_out_fifo_(c) => Level(c) < FIFO_CAPACITY

\* No word is taken from an in-FIFO while rtl_rst is high.  s_tready ignores
\* rtl_rst (vadd_cdc_pipeline.sv:66-67) while delay_inst drops the valid of
\* whatever enters under it: such a word would be consumed without a result.
NoHandshakeInReset == rtl_rst => ~s_handshake

\* The packet a result's tlast closes: a pair's is that of channel 0, and goes to
\* both out-FIFOs (vadd_cdc.sv:344).
ResultPacket(c) == PKT[IF PIPE_WIDTH = 1024 THEN 0 ELSE c]

\* The k-th word of host channel c since the last reset.
Expected(c, k) ==
  [data |-> CASE PIPE_WIDTH = 512 -> <<c, base[c] + k>>
              [] PIPE_WIDTH = 1024 /\ c = 0 -> <<base[0] + k, base[1] + k>>
              [] PIPE_WIDTH = 1024 /\ c = 1 -> Junk,
   last |-> k % ResultPacket(c) = 0]

\* An out-FIFO holds the results the host is still to receive, in order, each
\* computed from the words of its own place in the two streams, with tlast where
\* the packet on its channel ends (on channel 0, for both results of a pair, however
\* long channel 1's packets are), and nothing from before the last reset.
ResultsInOrder ==
  \A c \in Channels : \A i \in 1 .. Len(outq[c]) :
    outq[c][i] = Expected(c, rcvd[c] + i)

InFlight(c) == {i \in Stages : RoutedTo(ctl[i], c)}

\* Outside a reset every word the pipeline has taken is in exactly one place: in
\* the pipeline, in the out-FIFO, or with the host.
WordsAccounted ==
  axis_rst => \A c \in Channels :
    taken[c] - base[c] = Cardinality(InFlight(c)) + Len(outq[c]) + rcvd[c]

\* What channel c has been given to compute since the last reset.
Offered(c) ==
  IF PIPE_WIDTH = 512 \/ sent[c] - base[c] <= sent[1 - c] - base[1 - c]
    THEN sent[c] - base[c]
    ELSE sent[1 - c] - base[1 - c]

\* Every word (every pair, in the paired mode) the host has sent comes back as a
\* result, unless a reset wipes it out.
Delivery(c) ==
  \A k \in 1 .. MAX_WORDS : Offered(c) >= k ~> (rcvd[c] >= k \/ ~axis_rst)
Delivered == \A c \in Channels : Delivery(c)

\* With a shared pipeline, a host that reads channel 0 gets all its results even
\* if it never reads channel 1: the full out-FIFO of channel 1 may only hold up
\* the words of channel 1 (vadd_cdc.sv:327-330, 378).  The converse is not true:
\* a word of channel 0 that has to wait keeps channel 1 waiting behind it.
Channel0Delivered == Delivery(0)

-----------------------------------------------------------------------------
(* The promise to the host, and the words of one channel inside the card:   *)
(* those in its in-FIFO, those in the pipeline and the out-FIFO together    *)
(* (prog_full stops the pipeline in time), and none anywhere else.          *)

HostWords == IN_FIFO_DEPTH + FIFO_PROG_FULL + PIPELINE_LAT + PF_DELAY

Stream == INSTANCE ModMulStream
            WITH Paired <- PIPE_WIDTH = 1024, Buffer <- HostWords,
                 None <- Junk, up <- axis_rst

\* The card implements the stream the host programs rely on.
ImplementsStream == Stream!Spec

-----------------------------------------------------------------------------
(* The inductive invariant: what VaddCdcProofs shows every step to keep.    *)

\* A reset has passed through rst_sync and has cleared the pipeline before it is
\* released, and it leaves rst_sync from stage 1 up.
ResetInv ==
  /\ ~axis_rst =>
       /\ \A c \in Channels :
            /\ sent[c] = base[c] /\ taken[c] = base[c] /\ rcvd[c] = 0
            /\ outq[c] = <<>> /\ unseen[c] = 0
            /\ \A k \in 1 .. CDC_SYNC_STAGES : wr_sync[c][k] = base[c]
       /\ \A j \in 1 .. DEST_SYNC_FF : held >= j => rst_sync[j]
       /\ held > DEST_SYNC_FF => \A i \in Stages : ~ctl[i].valid
  /\ axis_rst =>
       /\ \A j, k \in 1 .. DEST_SYNC_FF : j <= k /\ rst_sync[j] => rst_sync[k]
       /\ rtl_rst => /\ \A i \in Stages : ~ctl[i].valid
                     /\ \A c \in Channels : taken[c] = base[c]

\* The write pointers move through wr_sync in order, and while a stage of
\* rst_sync is high they have not come further than the stage below it.
PointerInv ==
  \A c \in Channels :
    /\ base[c] <= taken[c]
    /\ taken[c] <= wr_sync[c][CDC_SYNC_STAGES]
    /\ \A k \in 1 .. CDC_SYNC_STAGES : wr_sync[c][k] <= sent[c]
    /\ \A j, k \in 1 .. CDC_SYNC_STAGES : j <= k => wr_sync[c][k] <= wr_sync[c][j]
    /\ \A j \in 1 .. DEST_SYNC_FF : \A k \in j .. CDC_SYNC_STAGES :
         rst_sync[j] => wr_sync[c][k] = taken[c]
    /\ sent[c] - taken[c] <= IN_FIFO_DEPTH

\* A prog_full flag that is low and k edges old leaves room for k writes since,
\* and a word at stage i was accepted i edges ago on a flag PF_DELAY edges old.
FillInv ==
  \A c \in Channels :
    /\ \A k \in 1 .. PF_DELAY : ~pf[c][k] => Level(c) <= FIFO_PROG_FULL - 1 + k
    /\ axis_rst => \A i \in Stages :
         RoutedTo(ctl[i], c) => Level(c) <= FIFO_PROG_FULL - 1 + PF_DELAY + i

\* Results of channel c since the last reset: accepted, written to its out-FIFO,
\* and the place in that order of the one at stage i.
Accepted(c) == taken[c] - base[c]
Written(c)  == rcvd[c] + Len(outq[c])
Place(c, i) == IF PIPE_WIDTH = 512 THEN dat[i][2] - base[c] ELSE dat[i][1] - base[0]

\* The pipeline holds every result accepted and not written, later ones in
\* earlier stages, with the operands and the tlast of their place.
PipeInv ==
  axis_rst => \A c \in Channels :
    /\ Written(c) <= Accepted(c)
    /\ PIPE_WIDTH = 1024 => Accepted(c) = Accepted(0)
    /\ \A i \in Stages : RoutedTo(ctl[i], c) =>
         /\ Written(c) < Place(c, i) /\ Place(c, i) <= Accepted(c)
         /\ Accepted(c) - Place(c, i) < i
         /\ ctl[i].last = (Place(c, i) % ResultPacket(c) = 0)
         /\ dat[i] = IF PIPE_WIDTH = 512
                       THEN <<c, base[c] + Place(c, i)>>
                       ELSE <<base[0] + Place(c, i), base[1] + Place(c, i)>>
         /\ \A j \in Stages : i < j /\ RoutedTo(ctl[j], c) => Place(c, j) < Place(c, i)
    /\ \A n \in Written(c) + 1 .. Accepted(c) :
         \E i \in Stages : RoutedTo(ctl[i], c) /\ Place(c, i) = n

\* prog_full bounds the pipeline and an out-FIFO together.
BoundInv ==
  axis_rst => \A c \in Channels :
    Level(c) + Accepted(c) - Written(c) <= FIFO_PROG_FULL + PIPELINE_LAT + PF_DELAY

IInv ==
  TypeOK /\ ResetInv /\ PointerInv /\ FillInv /\ PipeInv /\ ResultsInOrder /\ BoundInv

=============================================================================
