--------------------------- MODULE VaddCdcProofs ---------------------------
(***************************************************************************)
(* Proofs about VaddCdc, for every pipeline depth, FIFO depth and flag     *)
(* delay that satisfies the assumptions of that module: types, reset and   *)
(* handshakes; then that the results come back in order, exactly once and  *)
(* with the operands and the tlast of their place; then that VaddCdc       *)
(* implements ModMulStream.                                                *)
(***************************************************************************)
EXTENDS VaddCdc, FiniteSetTheorems, TLAPS

(***************************************************************************)
(* Type correctness.                                                       *)
(***************************************************************************)

\* A shift register keeps its type: what ShiftIn returns, stage by stage.
LEMMA ShiftInType ==
  ASSUME NEW S, NEW n \in Nat, NEW a \in [1 .. n -> S], NEW x \in S
  PROVE  ShiftIn(a, x) \in [1 .. n -> S]
  BY DEF ShiftIn

LEMMA JunkType == Junk \in Operands /\ [data |-> Junk, last |-> FALSE] \in Results
  BY DEF Junk, Operands, Words, Results

\* What enters the pipeline and what is written to an out-FIFO have their types.
LEMMA PathTypes ==
  ASSUME TypeOK
  PROVE  /\ PipelineControl \in Ctl
         /\ Idle \in Ctl
         /\ PipelineData \in Operands
         /\ \A c \in Channels : OutFifoWrite(c) \in Seq(Results)
         /\ \A c \in Channels : ProgFull(c) \in BOOLEAN
  <1>1. Idle \in Ctl
    BY DEF Idle, Ctl, Channels
  <1>2. m_tdest_in_fifo \in Channels /\ m_tlast_in_fifo \in BOOLEAN
    BY DEF m_tdest_in_fifo, m_tlast_in_fifo, TLast, Channels
  <1>3. PipelineControl \in Ctl
    BY <1>1, <1>2 DEF PipelineControl, Ctl
  <1>4. \A c \in Channels : HeadWord(c) \in Nat
    BY DEF HeadWord, TypeOK
  <1>5. m_tdata_in_fifo \in Operands
    BY <1>2, <1>4 DEF m_tdata_in_fifo, Operands, Words, Channels
  <1>6. PipelineData \in Operands
    BY <1>5, JunkType DEF PipelineData
  <1>7. ASSUME NEW c \in Channels PROVE OutFifoWrite(c) \in Seq(Results)
    <2>1. MODMUL_LAT \in 1 .. MODMUL_LAT /\ PIPELINE_LAT \in Stages
      BY ConstantsAssumption DEF Stages
    <2>2. s_tdata_out_fifo_(c) \in Operands
      BY <2>1, JunkType DEF s_tdata_out_fifo_, TypeOK
    <2>3. ctl[PIPELINE_LAT].last \in BOOLEAN
      BY <2>1 DEF TypeOK, Ctl
    <2>4. [data |-> s_tdata_out_fifo_(c), last |-> ctl[PIPELINE_LAT].last] \in Results
      BY <2>2, <2>3 DEF Results
    <2>5. outq[c] \in Seq(Results)
      BY DEF TypeOK
    <2> QED
      BY <2>4, <2>5 DEF OutFifoWrite
  <1>8. \A c \in Channels : ProgFull(c) \in BOOLEAN
    BY DEF ProgFull
  <1> QED
    BY <1>1, <1>3, <1>6, <1>7, <1>8

LEMMA TypeInit == Init => TypeOK
  <1> SUFFICES ASSUME Init PROVE TypeOK
    OBVIOUS
  <1>1. axis_rst \in BOOLEAN
    BY DEF Init
  <1>2. held \in 0 .. RST_HOLD /\ resets \in 0 .. MAX_RESETS
    BY ConstantsAssumption DEF Init
  <1>3. rst_sync \in [1 .. DEST_SYNC_FF -> BOOLEAN]
    BY DEF Init
  <1>4. ctl \in [Stages -> Ctl]
    BY DEF Init
  <1>5. /\ sent \in [Channels -> Nat] /\ base \in [Channels -> Nat]
        /\ taken \in [Channels -> Nat] /\ rcvd \in [Channels -> Nat]
        /\ unseen \in [Channels -> Nat]
    BY DEF Init
  <1>6. /\ wr_sync \in [Channels -> [1 .. CDC_SYNC_STAGES -> Nat]]
        /\ pf \in [Channels -> [1 .. PF_DELAY -> BOOLEAN]]
    BY DEF Init
  <1>7. /\ dat \in [1 .. MODMUL_LAT -> Operands]
        /\ outq \in [Channels -> Seq(Results)]
        /\ got \in [Channels -> Results]
    BY JunkType DEF Init
  <1> QED
    BY <1>1, <1>2, <1>3, <1>4, <1>5, <1>6, <1>7 DEF TypeOK

LEMMA TypeRtlTick == ASSUME TypeOK, RtlTick PROVE TypeOK'
  <1>1. axis_rst' \in BOOLEAN /\ resets' \in 0 .. MAX_RESETS
    BY DEF TypeOK, RtlTick
  <1>2. held' \in 0 .. RST_HOLD
    BY ConstantsAssumption DEF TypeOK, RtlTick
  <1>3. rst_sync' \in [1 .. DEST_SYNC_FF -> BOOLEAN]
    <2>1. DEST_SYNC_FF \in Nat
      BY ConstantsAssumption
    <2>2. (~axis_rst) \in BOOLEAN
      OBVIOUS
    <2>3. rst_sync \in [1 .. DEST_SYNC_FF -> BOOLEAN]
      BY DEF TypeOK
    <2>4. ShiftIn(rst_sync, ~axis_rst) \in [1 .. DEST_SYNC_FF -> BOOLEAN]
      BY <2>1, <2>2, <2>3, ShiftInType, Zenon
    <2> QED
      BY <2>4 DEF RtlTick
  <1>4. /\ sent' \in [Channels -> Nat] /\ base' \in [Channels -> Nat]
        /\ rcvd' \in [Channels -> Nat] /\ unseen' \in [Channels -> Nat]
        /\ got' \in [Channels -> Results]
    BY DEF TypeOK, RtlTick, hostVars
  <1>5. taken' \in [Channels -> Nat]
    BY DEF TypeOK, RtlTick
  <1>6. wr_sync' \in [Channels -> [1 .. CDC_SYNC_STAGES -> Nat]]
    <2>1. CDC_SYNC_STAGES \in Nat
      BY ConstantsAssumption
    <2>2. \A c \in Channels : ShiftIn(wr_sync[c], sent[c]) \in [1 .. CDC_SYNC_STAGES -> Nat]
      BY <2>1, ShiftInType, Zenon DEF TypeOK
    <2> QED
      BY <2>2 DEF RtlTick
  <1>7. ctl' \in [Stages -> Ctl]
    <2>1. PIPELINE_LAT \in Nat
      BY ConstantsAssumption
    <2>2. ShiftIn(ctl, PipelineControl) \in [Stages -> Ctl]
      BY <2>1, PathTypes, ShiftInType, Zenon DEF TypeOK, Stages
    <2> QED
      BY <2>2, PathTypes DEF RtlTick, delay_inst
  <1>8. dat' \in [1 .. MODMUL_LAT -> Operands]
    <2>1. MODMUL_LAT \in Nat
      BY ConstantsAssumption
    <2> QED
      BY <2>1, PathTypes, ShiftInType, Zenon DEF TypeOK, RtlTick
  <1>9. outq' \in [Channels -> Seq(Results)]
    BY PathTypes DEF RtlTick
  <1>10. pf' \in [Channels -> [1 .. PF_DELAY -> BOOLEAN]]
    <2>1. PF_DELAY \in Nat
      BY ConstantsAssumption
    <2>2. \A c \in Channels : ShiftIn(pf[c], ProgFull(c)) \in [1 .. PF_DELAY -> BOOLEAN]
      BY <2>1, PathTypes, ShiftInType, Zenon DEF TypeOK
    <2> QED
      BY <2>2 DEF RtlTick
  <1> QED
    BY <1>1, <1>2, <1>3, <1>4, <1>5, <1>6, <1>7, <1>8, <1>9, <1>10 DEF TypeOK

LEMMA TypeNext == ASSUME TypeOK, [Next]_vars PROVE TypeOK'
  <1>1. CASE RtlTick
    BY <1>1, TypeRtlTick
  <1>2. ASSUME NEW c \in Channels, AxisPush(c) PROVE TypeOK'
    <2>1. sent' \in [Channels -> Nat]
      BY <1>2 DEF AxisPush, TypeOK
    <2> QED
      BY <1>2, <2>1 DEF AxisPush, TypeOK, rstVars
  <1>3. ASSUME NEW c \in Channels, AxisPop(c) PROVE TypeOK'
    <2>1. outq[c] \in Seq(Results) /\ outq[c] # <<>>
      BY <1>3 DEF AxisPop, TypeOK
    <2>2. Head(outq[c]) \in Results /\ Tail(outq[c]) \in Seq(Results)
      BY <2>1
    <2>3. got' \in [Channels -> Results] /\ outq' \in [Channels -> Seq(Results)]
      BY <1>3, <2>2 DEF AxisPop, TypeOK
    <2>4. rcvd' \in [Channels -> Nat] /\ unseen' \in [Channels -> Nat]
      BY <1>3, SMTT(30) DEF AxisPop, TypeOK
    <2> QED
      BY <1>3, <2>3, <2>4 DEF AxisPop, TypeOK, rstVars
  <1>4. ASSUME NEW c \in Channels, SyncReadPointer(c) PROVE TypeOK'
    <2>1. unseen' \in [Channels -> Nat]
      BY <1>4 DEF SyncReadPointer, TypeOK
    <2> QED
      BY <1>4, <2>1 DEF SyncReadPointer, TypeOK, rstVars, hostVars
  <1>5. CASE AssertReset
    <2>1. axis_rst' \in BOOLEAN
      BY <1>5 DEF AssertReset
    <2>2. held' \in 0 .. RST_HOLD /\ resets' \in 0 .. MAX_RESETS
      BY <1>5, ConstantsAssumption DEF AssertReset, TypeOK
    <2>3. /\ base' \in [Channels -> Nat] /\ taken' \in [Channels -> Nat]
          /\ unseen' \in [Channels -> Nat] /\ rcvd' \in [Channels -> Nat]
      BY <1>5 DEF AssertReset, TypeOK
    <2>4. wr_sync' \in [Channels -> [1 .. CDC_SYNC_STAGES -> Nat]]
      BY <1>5 DEF AssertReset, TypeOK
    <2>5. pf' \in [Channels -> [1 .. PF_DELAY -> BOOLEAN]]
      BY <1>5 DEF AssertReset
    <2>6. outq' \in [Channels -> Seq(Results)]
      BY <1>5 DEF AssertReset
    <2> QED
      BY <1>5, <2>1, <2>2, <2>3, <2>4, <2>5, <2>6 DEF AssertReset, TypeOK
  <1>6. CASE ReleaseReset
    BY <1>6 DEF ReleaseReset, TypeOK, hostVars
  <1>7. CASE UNCHANGED vars
    BY <1>7 DEF vars, TypeOK
  <1> QED
    BY <1>1, <1>2, <1>3, <1>4, <1>5, <1>6, <1>7 DEF Next

\* Every variable keeps its type.
THEOREM TypeCorrect == Spec => []TypeOK
  BY TypeInit, TypeNext, PTL DEF Spec

(***************************************************************************)
(* One edge of rtl_clk, register by register.                              *)
(***************************************************************************)

LEMMA TickResets ==
  ASSUME TypeOK, RtlTick
  PROVE  \A j \in 1 .. DEST_SYNC_FF :
           rst_sync'[j] = IF j = 1 THEN ~axis_rst ELSE rst_sync[j - 1]
  <1>1. rst_sync \in [1 .. DEST_SYNC_FF -> BOOLEAN]
    BY DEF TypeOK
  <1>2. DOMAIN rst_sync = 1 .. DEST_SYNC_FF
    BY <1>1
  <1>3. rst_sync' = [j \in DOMAIN rst_sync |->
                       IF j = 1 THEN ~axis_rst ELSE rst_sync[j - 1]]
    BY DEF RtlTick, ShiftIn
  <1> QED
    BY <1>2, <1>3, Zenon

LEMMA TickPointers ==
  ASSUME TypeOK, RtlTick, NEW c \in Channels
  PROVE  \A k \in 1 .. CDC_SYNC_STAGES :
           wr_sync'[c][k] = IF k = 1 THEN sent[c] ELSE wr_sync[c][k - 1]
  <1>1. wr_sync[c] \in [1 .. CDC_SYNC_STAGES -> Nat]
    BY DEF TypeOK
  <1>2. wr_sync'[c] = ShiftIn(wr_sync[c], sent[c])
    BY DEF RtlTick
  <1> QED
    BY <1>1, <1>2 DEF ShiftIn

LEMMA TickFlags ==
  ASSUME TypeOK, RtlTick, NEW c \in Channels
  PROVE  \A k \in 1 .. PF_DELAY :
           pf'[c][k] = IF k = 1 THEN ProgFull(c) ELSE pf[c][k - 1]
  <1>1. pf[c] \in [1 .. PF_DELAY -> BOOLEAN]
    BY DEF TypeOK
  <1>2. DOMAIN pf[c] = 1 .. PF_DELAY
    BY <1>1
  <1>3. pf'[c] = [k \in DOMAIN pf[c] |-> IF k = 1 THEN ProgFull(c) ELSE pf[c][k - 1]]
    BY DEF RtlTick, ShiftIn
  <1> QED
    BY <1>2, <1>3, Zenon

LEMMA TickControl ==
  ASSUME TypeOK, RtlTick
  PROVE  \A i \in Stages :
           ctl'[i] = IF rtl_rst THEN Idle
                     ELSE IF i = 1 THEN PipelineControl ELSE ctl[i - 1]
  <1>1. DOMAIN ctl = Stages
    BY DEF TypeOK
  <1>2. ctl' = IF rtl_rst
                 THEN [i \in Stages |-> Idle]
                 ELSE [i \in DOMAIN ctl |-> IF i = 1 THEN PipelineControl ELSE ctl[i - 1]]
    BY DEF RtlTick, delay_inst, ShiftIn
  <1> QED
    BY <1>1, <1>2, Zenon

LEMMA TickData ==
  ASSUME TypeOK, RtlTick
  PROVE  \A i \in Stages : dat'[i] = IF i = 1 THEN PipelineData ELSE dat[i - 1]
  <1>1. DOMAIN dat = Stages
    BY LatencyAssumption DEF TypeOK, Stages
  <1>2. dat' = [i \in DOMAIN dat |-> IF i = 1 THEN PipelineData ELSE dat[i - 1]]
    BY DEF RtlTick, ShiftIn
  <1> QED
    BY <1>1, <1>2, Zenon

(***************************************************************************)
(* Reset.                                                                  *)
(***************************************************************************)

\* A handshake needs a word that has crossed into rtl_clk, and none has while
\* the host is in reset or rtl_rst is high.
LEMMA HandshakeOutsideReset ==
  ASSUME TypeOK, ResetInv, PointerInv, s_handshake
  PROVE  axis_rst /\ ~rtl_rst
  <1>1. PICK c \in Channels : taken[c] < wr_sync[c][CDC_SYNC_STAGES]
    BY DEF s_handshake, m_tvalid_in_fifo, m_tvalid_in_fifo_, Channels
  <1>2. /\ CDC_SYNC_STAGES \in 1 .. CDC_SYNC_STAGES
        /\ DEST_SYNC_FF \in 1 .. DEST_SYNC_FF
        /\ CDC_SYNC_STAGES \in DEST_SYNC_FF .. CDC_SYNC_STAGES
    BY ConstantsAssumption, ResetAssumption
  <1>3. taken[c] \in Nat /\ wr_sync[c][CDC_SYNC_STAGES] \in Nat
    BY <1>2 DEF TypeOK
  <1>4. wr_sync[c][CDC_SYNC_STAGES] # taken[c]
    BY <1>1, <1>3
  <1>5. axis_rst
    BY <1>2, <1>4 DEF ResetInv
  <1>6. ~rtl_rst
    BY <1>2, <1>4 DEF PointerInv, rtl_rst
  <1> QED
    BY <1>5, <1>6

\* A channel's word is taken only in a handshake, and only if it is visible.
LEMMA TakenVisible ==
  ASSUME TypeOK, NEW c \in Channels, m_tready_in_fifo_(c)
  PROVE  s_handshake /\ taken[c] < wr_sync[c][CDC_SYNC_STAGES]
  BY ConstantsAssumption
  DEF m_tready_in_fifo_, s_handshake, m_tvalid_in_fifo, m_tvalid_in_fifo_,
      m_tdest_in_fifo, Channels

\* An edge keeps the reset sequence in step with held, and the pipeline empty
\* under rtl_rst.
LEMMA ResetTick ==
  ASSUME TypeOK, ResetInv, PointerInv, RtlTick
  PROVE  ResetInv'
  <1>0. DEST_SYNC_FF \in Nat \ {0} /\ CDC_SYNC_STAGES \in Nat \ {0} /\ RST_HOLD \in Nat
    BY ConstantsAssumption
  <1>1. /\ axis_rst' = axis_rst /\ sent' = sent /\ base' = base /\ rcvd' = rcvd
        /\ unseen' = unseen
    BY DEF RtlTick, hostVars
  <1>2. ASSUME ~axis_rst PROVE ResetInv'
    <2>1. ~s_handshake
      BY <1>2, HandshakeOutsideReset
    <2>2. \A c \in Channels : taken'[c] = taken[c] /\ outq'[c] = outq[c]
      BY <1>2, <2>1 DEF RtlTick, m_tready_in_fifo_, OutFifoWrite
    <2>3. ASSUME NEW c \in Channels, NEW k \in 1 .. CDC_SYNC_STAGES
          PROVE  wr_sync'[c][k] = base'[c]
      <3>1. wr_sync'[c][k] = IF k = 1 THEN sent[c] ELSE wr_sync[c][k - 1]
        BY TickPointers
      <3>2. k # 1 => k - 1 \in 1 .. CDC_SYNC_STAGES
        BY <1>0
      <3> QED
        BY <1>1, <1>2, <3>1, <3>2 DEF ResetInv
    <2>4. held' = IF held = RST_HOLD THEN held ELSE held + 1
      BY <1>2 DEF RtlTick
    <2>5. ASSUME NEW j \in 1 .. DEST_SYNC_FF, held' >= j
          PROVE  rst_sync'[j]
      <3>1. rst_sync'[j] = IF j = 1 THEN ~axis_rst ELSE rst_sync[j - 1]
        BY TickResets
      <3>2. j # 1 => j - 1 \in 1 .. DEST_SYNC_FF /\ held >= j - 1
        BY <1>0, <2>4, <2>5 DEF TypeOK
      <3>3. j # 1 => rst_sync[j - 1]
        BY <1>2, <3>2 DEF ResetInv
      <3> QED
        BY <1>2, <3>1, <3>3
    <2>6. ASSUME held' > DEST_SYNC_FF, NEW i \in Stages
          PROVE  ~ctl'[i].valid
      <3>1. DEST_SYNC_FF \in 1 .. DEST_SYNC_FF /\ held >= DEST_SYNC_FF
        BY <1>0, <2>4, <2>6, ResetAssumption DEF TypeOK
      <3>2. rtl_rst
        BY <1>2, <3>1 DEF ResetInv, rtl_rst
      <3> QED
        BY <3>2, TickControl DEF Idle
    <2> QED
      BY <1>1, <1>2, <2>2, <2>3, <2>5, <2>6 DEF ResetInv
  <1>3. ASSUME axis_rst PROVE ResetInv'
    <2>1. ASSUME NEW j \in 1 .. DEST_SYNC_FF, NEW k \in 1 .. DEST_SYNC_FF,
                 j <= k, rst_sync'[j]
          PROVE  rst_sync'[k]
      <3>1. j # 1 /\ rst_sync[j - 1]
        BY <1>3, <2>1, TickResets, Zenon
      <3>2. k # 1 /\ j - 1 \in 1 .. DEST_SYNC_FF /\ k - 1 \in 1 .. DEST_SYNC_FF /\ j - 1 <= k - 1
        BY <1>0, <2>1, <3>1
      <3>3. rst_sync[k - 1]
        BY <1>3, <3>1, <3>2, Zenon DEF ResetInv
      <3>4. rst_sync'[k] = IF k = 1 THEN ~axis_rst ELSE rst_sync[k - 1]
        BY TickResets, Zenon
      <3> QED
        BY <3>2, <3>3, <3>4, Zenon
    <2>2. ASSUME rtl_rst'
          PROVE  /\ \A i \in Stages : ~ctl'[i].valid
                 /\ \A c \in Channels : taken'[c] = base'[c]
      <3>1. DEST_SYNC_FF \in 1 .. DEST_SYNC_FF
        BY <1>0
      <3>2. DEST_SYNC_FF # 1 /\ rst_sync[DEST_SYNC_FF - 1]
        BY <1>3, <2>2, <3>1, TickResets, Zenon DEF rtl_rst
      <3>3. DEST_SYNC_FF - 1 \in 1 .. DEST_SYNC_FF /\ DEST_SYNC_FF - 1 <= DEST_SYNC_FF
        BY <1>0, <3>2
      <3>4. rtl_rst
        BY <1>3, <3>1, <3>2, <3>3, Zenon DEF ResetInv, rtl_rst
      <3>5. ~s_handshake
        BY <3>4, HandshakeOutsideReset
      <3>6. \A c \in Channels : taken'[c] = taken[c]
        BY <3>5 DEF RtlTick, m_tready_in_fifo_
      <3> QED
        BY <1>1, <1>3, <3>4, <3>6, TickControl DEF Idle, ResetInv
    <2> QED
      BY <1>1, <1>3, <2>1, <2>2, Zenon DEF ResetInv
  <1> QED
    BY <1>2, <1>3

LEMMA ResetNext ==
  ASSUME TypeOK, ResetInv, PointerInv, [Next]_vars
  PROVE  ResetInv'
  <1>0. DEST_SYNC_FF \in Nat \ {0} /\ RST_HOLD \in Nat
    BY ConstantsAssumption
  <1>1. CASE RtlTick
    BY <1>1, ResetTick
  <1>2. ASSUME NEW c \in Channels, AxisPush(c) PROVE ResetInv'
    BY <1>2 DEF AxisPush, rstVars, ResetInv, rtl_rst
  <1>3. ASSUME NEW c \in Channels, AxisPop(c) PROVE ResetInv'
    BY <1>3 DEF AxisPop, rstVars, ResetInv, rtl_rst
  <1>4. ASSUME NEW c \in Channels, SyncReadPointer(c) PROVE ResetInv'
    <2>1. axis_rst
      BY <1>4 DEF SyncReadPointer, ResetInv
    <2> QED
      BY <1>4, <2>1 DEF SyncReadPointer, rstVars, hostVars, ResetInv, rtl_rst
  <1>5. CASE AssertReset
    <2>1. ~axis_rst' /\ held' = 0
      BY <1>5 DEF AssertReset
    <2>2. \A c \in Channels :
            /\ sent'[c] = base'[c] /\ taken'[c] = base'[c] /\ rcvd'[c] = 0
            /\ outq'[c] = <<>> /\ unseen'[c] = 0
            /\ \A k \in 1 .. CDC_SYNC_STAGES : wr_sync'[c][k] = base'[c]
      BY <1>5 DEF AssertReset, TypeOK
    <2>3. \A j \in 1 .. DEST_SYNC_FF : ~(held' >= j)
      BY <2>1, <1>0
    <2>4. ~(held' > DEST_SYNC_FF)
      BY <2>1, <1>0
    <2> QED
      BY <2>1, <2>2, <2>3, <2>4 DEF ResetInv
  <1>6. CASE ReleaseReset
    <2>1. /\ ~axis_rst /\ axis_rst' /\ rst_sync' = rst_sync /\ ctl' = ctl
          /\ taken' = taken /\ base' = base /\ held = RST_HOLD
      BY <1>6 DEF ReleaseReset, hostVars
    <2>2. held > DEST_SYNC_FF /\ \A j \in 1 .. DEST_SYNC_FF : held >= j
      BY <1>0, <2>1, ResetAssumption
    <2>3. /\ \A j \in 1 .. DEST_SYNC_FF : rst_sync[j]
          /\ \A i \in Stages : ~ctl[i].valid
          /\ \A c \in Channels : taken[c] = base[c]
      BY <2>1, <2>2, Zenon DEF ResetInv
    <2> QED
      BY <2>1, <2>3, Zenon DEF ResetInv
  <1>7. CASE UNCHANGED vars
    BY <1>7 DEF vars, ResetInv, rtl_rst
  <1> QED
    BY <1>1, <1>2, <1>3, <1>4, <1>5, <1>6, <1>7 DEF Next

(***************************************************************************)
(* In-FIFO pointers.                                                       *)
(***************************************************************************)

\* On an edge a read pointer moves by at most one, and never past the write
\* pointer it sees.
LEMMA TickTaken ==
  ASSUME TypeOK, RtlTick, NEW c \in Channels
  PROVE  /\ taken'[c] = IF m_tready_in_fifo_(c) THEN taken[c] + 1 ELSE taken[c]
         /\ m_tready_in_fifo_(c) => taken[c] + 1 <= wr_sync[c][CDC_SYNC_STAGES]
  <1>1. CDC_SYNC_STAGES \in 1 .. CDC_SYNC_STAGES
    BY ConstantsAssumption
  <1>2. taken[c] \in Nat /\ wr_sync[c][CDC_SYNC_STAGES] \in Nat
    BY <1>1 DEF TypeOK
  <1> QED
    BY <1>2, TakenVisible DEF RtlTick

LEMMA PointerTick ==
  ASSUME TypeOK, ResetInv, PointerInv, RtlTick
  PROVE  PointerInv'
  <1> SUFFICES ASSUME NEW c \in Channels
               PROVE  /\ base'[c] <= taken'[c]
                      /\ taken'[c] <= wr_sync'[c][CDC_SYNC_STAGES]
                      /\ \A k \in 1 .. CDC_SYNC_STAGES : wr_sync'[c][k] <= sent'[c]
                      /\ \A j, k \in 1 .. CDC_SYNC_STAGES :
                           j <= k => wr_sync'[c][k] <= wr_sync'[c][j]
                      /\ \A j \in 1 .. DEST_SYNC_FF : \A k \in j .. CDC_SYNC_STAGES :
                           rst_sync'[j] => wr_sync'[c][k] = taken'[c]
                      /\ sent'[c] - taken'[c] <= IN_FIFO_DEPTH
    BY DEF PointerInv
  <1>0. /\ DEST_SYNC_FF \in Nat \ {0} /\ CDC_SYNC_STAGES \in Nat \ {0}
        /\ IN_FIFO_DEPTH \in Nat
    BY ConstantsAssumption
  <1>1. axis_rst' = axis_rst /\ sent' = sent /\ base' = base
    BY DEF RtlTick, hostVars
  <1>2. /\ taken[c] \in Nat /\ base[c] \in Nat /\ sent[c] \in Nat
        /\ \A k \in 1 .. CDC_SYNC_STAGES : wr_sync[c][k] \in Nat
    BY DEF TypeOK
  <1>3. /\ base[c] <= taken[c]
        /\ taken[c] <= wr_sync[c][CDC_SYNC_STAGES]
        /\ \A k \in 1 .. CDC_SYNC_STAGES : wr_sync[c][k] <= sent[c]
        /\ \A j, k \in 1 .. CDC_SYNC_STAGES : j <= k => wr_sync[c][k] <= wr_sync[c][j]
        /\ sent[c] - taken[c] <= IN_FIFO_DEPTH
    BY DEF PointerInv
  <1>4. taken'[c] \in {taken[c], taken[c] + 1} /\ taken'[c] <= wr_sync[c][CDC_SYNC_STAGES]
    BY <1>3, TickTaken
  <1>5. \A k \in 1 .. CDC_SYNC_STAGES :
          wr_sync'[c][k] = IF k = 1 THEN sent[c] ELSE wr_sync[c][k - 1]
    BY TickPointers
  <1>6. taken'[c] <= wr_sync'[c][CDC_SYNC_STAGES]
    BY <1>0, <1>2, <1>3, <1>4, <1>5
  <1>7. \A k \in 1 .. CDC_SYNC_STAGES : wr_sync'[c][k] <= sent'[c]
    BY <1>0, <1>1, <1>2, <1>3, <1>5
  <1>8. ASSUME NEW j \in 1 .. CDC_SYNC_STAGES, NEW k \in 1 .. CDC_SYNC_STAGES, j <= k
        PROVE  wr_sync'[c][k] <= wr_sync'[c][j]
    <2>1. CASE j = 1
      BY <2>1, <1>1, <1>5, <1>7
    <2>2. CASE j # 1
      <3>1. j - 1 \in 1 .. CDC_SYNC_STAGES /\ k - 1 \in 1 .. CDC_SYNC_STAGES
            /\ j - 1 <= k - 1 /\ k # 1
        BY <1>0, <1>8, <2>2
      <3> QED
        BY <3>1, <2>2, <1>3, <1>5
    <2> QED
      BY <2>1, <2>2
  <1>9. ASSUME NEW j \in 1 .. DEST_SYNC_FF, NEW k \in j .. CDC_SYNC_STAGES, rst_sync'[j]
        PROVE  wr_sync'[c][k] = taken'[c]
    <2>0. k \in 1 .. CDC_SYNC_STAGES
      BY <1>0
    <2>1. CASE ~axis_rst
      <3>1. ~s_handshake
        BY <2>1, HandshakeOutsideReset
      <3>2. taken'[c] = taken[c]
        BY <3>1 DEF RtlTick, m_tready_in_fifo_
      <3>3. sent[c] = taken[c] /\ \A m \in 1 .. CDC_SYNC_STAGES : wr_sync[c][m] = taken[c]
        BY <2>1 DEF ResetInv
      <3>4. k # 1 => k - 1 \in 1 .. CDC_SYNC_STAGES
        BY <1>0, <2>0
      <3> QED
        BY <2>0, <3>2, <3>3, <3>4, <1>5
    <2>2. CASE axis_rst
      <3>1. j # 1 /\ rst_sync[j - 1]
        BY <2>2, <1>9, TickResets, Zenon
      <3>2. j - 1 \in 1 .. DEST_SYNC_FF /\ k # 1 /\ k - 1 \in j - 1 .. CDC_SYNC_STAGES
        BY <1>0, <3>1
      <3>3. wr_sync[c][k - 1] = taken[c]
        BY <3>1, <3>2, Zenon DEF PointerInv
      <3>4. DEST_SYNC_FF \in 1 .. DEST_SYNC_FF /\ j - 1 <= DEST_SYNC_FF
        BY <1>0
      <3>5. rtl_rst
        BY <2>2, <3>1, <3>2, <3>4, Zenon DEF ResetInv, rtl_rst
      <3>6. ~s_handshake
        BY <3>5, HandshakeOutsideReset
      <3>7. taken'[c] = taken[c]
        BY <3>6 DEF RtlTick, m_tready_in_fifo_
      <3> QED
        BY <2>0, <3>2, <3>3, <3>7, <1>5
    <2> QED
      BY <2>1, <2>2
  <1>10. base'[c] <= taken'[c] /\ sent'[c] - taken'[c] <= IN_FIFO_DEPTH
    BY <1>0, <1>1, <1>2, <1>3, <1>4
  <1> QED
    BY <1>6, <1>7, <1>8, <1>9, <1>10

LEMMA PointerNext ==
  ASSUME TypeOK, ResetInv, PointerInv, [Next]_vars
  PROVE  PointerInv'
  <1>0. /\ DEST_SYNC_FF \in Nat \ {0} /\ CDC_SYNC_STAGES \in Nat \ {0}
        /\ IN_FIFO_DEPTH \in Nat
    BY ConstantsAssumption
  <1>1. CASE RtlTick
    BY <1>1, PointerTick
  <1>2. ASSUME NEW d \in Channels, AxisPush(d) PROVE PointerInv'
    <2>1. UNCHANGED <<base, taken, wr_sync, rst_sync>>
      BY <1>2 DEF AxisPush
    <2>2. ASSUME NEW c \in Channels
          PROVE  sent[c] <= sent'[c] /\ sent'[c] - taken'[c] <= IN_FIFO_DEPTH
      <3>1. sent[c] \in Nat /\ taken[c] \in Nat /\ sent[c] - taken[c] <= IN_FIFO_DEPTH
        BY DEF TypeOK, PointerInv
      <3>2. c = d => sent[c] - taken[c] < IN_FIFO_DEPTH
        BY <1>2 DEF AxisPush
      <3>3. sent'[c] = IF c = d THEN sent[c] + 1 ELSE sent[c]
        BY <1>2 DEF AxisPush, TypeOK
      <3> QED
        BY <1>0, <2>1, <3>1, <3>2, <3>3
    <2>3. \A c \in Channels : \A k \in 1 .. CDC_SYNC_STAGES : wr_sync'[c][k] <= sent'[c]
      <3> SUFFICES ASSUME NEW c \in Channels, NEW k \in 1 .. CDC_SYNC_STAGES
                   PROVE  wr_sync'[c][k] <= sent'[c]
        OBVIOUS
      <3>1. wr_sync[c][k] <= sent[c] /\ wr_sync[c][k] \in Nat /\ sent[c] \in Nat
            /\ sent'[c] \in Nat
        BY <1>2, TypeNext DEF PointerInv, TypeOK, Next
      <3> QED
        BY <2>1, <2>2, <3>1
    <2> QED
      BY <2>1, <2>2, <2>3, Zenon DEF PointerInv
  <1>3. ASSUME NEW d \in Channels, AxisPop(d) PROVE PointerInv'
    BY <1>3 DEF AxisPop, rstVars, PointerInv
  <1>4. ASSUME NEW d \in Channels, SyncReadPointer(d) PROVE PointerInv'
    BY <1>4 DEF SyncReadPointer, rstVars, hostVars, PointerInv
  <1>5. CASE AssertReset
    <2> SUFFICES ASSUME NEW c \in Channels
                 PROVE  /\ base'[c] = sent[c] /\ taken'[c] = sent[c] /\ sent'[c] = sent[c]
                        /\ \A k \in 1 .. CDC_SYNC_STAGES : wr_sync'[c][k] = sent[c]
                        /\ sent[c] \in Nat
      <3>1. CDC_SYNC_STAGES \in 1 .. CDC_SYNC_STAGES
        BY <1>0
      <3>2. \A j \in 1 .. DEST_SYNC_FF : \A k \in j .. CDC_SYNC_STAGES :
              k \in 1 .. CDC_SYNC_STAGES
        BY <1>0
      <3> QED
        BY <1>0, <3>1, <3>2 DEF PointerInv
    <2> QED
      BY <1>5 DEF AssertReset, TypeOK
  <1>6. CASE ReleaseReset
    BY <1>6 DEF ReleaseReset, hostVars, PointerInv
  <1>7. CASE UNCHANGED vars
    BY <1>7 DEF vars, PointerInv
  <1> QED
    BY <1>1, <1>2, <1>3, <1>4, <1>5, <1>6, <1>7 DEF Next

(***************************************************************************)
(* The out-FIFOs and their prog_full flags.                                *)
(***************************************************************************)

LEMMA LevelType ==
  ASSUME TypeOK, NEW c \in Channels
  PROVE  outq[c] \in Seq(Results) /\ unseen[c] \in Nat /\ Level(c) \in Nat
  BY DEF TypeOK, Level

\* What an edge does to an out-FIFO: at most one word more.
LEMMA TickOutq ==
  ASSUME TypeOK, RtlTick, NEW c \in Channels
  PROVE  /\ outq'[c] = OutFifoWrite(c)
         /\ Len(outq'[c]) \in {Len(outq[c]), Len(outq[c]) + 1}
         /\ Level(c)' \in Nat /\ Level(c)' <= Level(c) + 1
  <1>1. outq'[c] = OutFifoWrite(c) /\ unseen'[c] = unseen[c]
    BY DEF RtlTick
  <1>2. outq[c] \in Seq(Results) /\ unseen[c] \in Nat
    BY LevelType
  <1>3. Len(outq'[c]) \in {Len(outq[c]), Len(outq[c]) + 1}
    BY <1>1, <1>2 DEF OutFifoWrite
  <1> QED
    BY <1>1, <1>2, <1>3 DEF Level

\* A word enters the pipeline for channel c on a low prog_full of channel c.
LEMMA EntersOnLowFlag ==
  ASSUME TypeOK, NEW c \in Channels, RoutedTo(PipelineControl, c)
  PROVE  s_handshake /\ ~pf[c][PF_DELAY]
  BY ConstantsAssumption
  DEF RoutedTo, PipelineControl, Idle, s_handshake, s_prog_full,
      prog_full_out_fifo_, Channels

LEMMA FillTick ==
  ASSUME TypeOK, FillInv, RtlTick
  PROVE  FillInv'
  <1> SUFFICES ASSUME NEW c \in Channels
               PROVE  /\ \A k \in 1 .. PF_DELAY :
                           ~pf'[c][k] => Level(c)' <= FIFO_PROG_FULL - 1 + k
                      /\ axis_rst' => \A i \in Stages :
                           RoutedTo(ctl'[i], c) =>
                             Level(c)' <= FIFO_PROG_FULL - 1 + PF_DELAY + i
    BY DEF FillInv
  <1>0. /\ PF_DELAY \in Nat \ {0} /\ PIPELINE_LAT \in Nat \ {0}
        /\ FIFO_PROG_FULL \in Int
    BY ConstantsAssumption DEF FIFO_PROG_FULL
  <1>1. Level(c) \in Nat /\ Level(c)' \in Nat /\ Level(c)' <= Level(c) + 1
    BY LevelType, TickOutq
  <1>2. /\ \A k \in 1 .. PF_DELAY : ~pf[c][k] => Level(c) <= FIFO_PROG_FULL - 1 + k
        /\ axis_rst => \A i \in Stages :
             RoutedTo(ctl[i], c) => Level(c) <= FIFO_PROG_FULL - 1 + PF_DELAY + i
    BY DEF FillInv
  <1>3. ASSUME NEW k \in 1 .. PF_DELAY, ~pf'[c][k]
        PROVE  Level(c)' <= FIFO_PROG_FULL - 1 + k
    <2>1. CASE k = 1
      <3>1. ~ProgFull(c)
        BY <1>3, <2>1, TickFlags, Zenon
      <3> QED
        BY <1>0, <1>1, <2>1, <3>1 DEF ProgFull
    <2>2. CASE k # 1
      <3>1. k - 1 \in 1 .. PF_DELAY
        BY <1>0, <2>2
      <3>2. ~pf[c][k - 1]
        BY <1>3, <2>2, TickFlags, Zenon
      <3>3. Level(c) <= FIFO_PROG_FULL - 1 + (k - 1)
        BY <1>2, <3>1, <3>2, Zenon
      <3> QED
        BY <1>0, <1>1, <3>3
    <2> QED
      BY <2>1, <2>2
  <1>4. ASSUME axis_rst', NEW i \in Stages, RoutedTo(ctl'[i], c)
        PROVE  Level(c)' <= FIFO_PROG_FULL - 1 + PF_DELAY + i
    <2>0. axis_rst
      BY <1>4 DEF RtlTick
    <2>1. ~rtl_rst
      <3>1. ~RoutedTo(Idle, c)
        BY DEF RoutedTo, Idle
      <3> QED
        BY <1>4, <3>1, TickControl, Zenon
    <2>2. CASE i = 1
      <3>1. RoutedTo(PipelineControl, c)
        BY <1>4, <2>1, <2>2, TickControl, Zenon
      <3>2. PF_DELAY \in 1 .. PF_DELAY /\ ~pf[c][PF_DELAY]
        BY <1>0, <3>1, EntersOnLowFlag
      <3>3. Level(c) <= FIFO_PROG_FULL - 1 + PF_DELAY
        BY <1>2, <3>2, Zenon
      <3> QED
        BY <1>0, <1>1, <2>2, <3>3
    <2>3. CASE i # 1
      <3>1. i - 1 \in Stages
        BY <1>0, <2>3 DEF Stages
      <3>2. RoutedTo(ctl[i - 1], c)
        BY <1>4, <2>1, <2>3, TickControl, Zenon
      <3>3. Level(c) <= FIFO_PROG_FULL - 1 + PF_DELAY + (i - 1)
        BY <1>2, <2>0, <3>1, <3>2, Zenon
      <3> QED
        BY <1>0, <1>1, <3>3 DEF Stages
    <2> QED
      BY <2>2, <2>3
  <1> QED
    BY <1>3, <1>4

LEMMA FillNext ==
  ASSUME TypeOK, ResetInv, FillInv, [Next]_vars
  PROVE  FillInv'
  <1>0. /\ PF_DELAY \in Nat \ {0} /\ PIPELINE_LAT \in Nat \ {0}
        /\ FIFO_PROG_FULL \in Nat \ {0}
        /\ DEST_SYNC_FF \in Nat /\ RST_HOLD \in Nat
    BY ConstantsAssumption, ThresholdAssumption DEF FIFO_PROG_FULL
  \* A step that leaves the flags and the pipeline alone and fills no FIFO.
  <1>1. ASSUME UNCHANGED <<axis_rst, ctl, pf>>,
               \A c \in Channels : Level(c)' \in Nat /\ Level(c)' <= Level(c)
        PROVE  FillInv'
    <2> SUFFICES ASSUME NEW c \in Channels
                 PROVE  /\ \A k \in 1 .. PF_DELAY :
                             ~pf[c][k] => Level(c)' <= FIFO_PROG_FULL - 1 + k
                        /\ axis_rst => \A i \in Stages :
                             RoutedTo(ctl[i], c) =>
                               Level(c)' <= FIFO_PROG_FULL - 1 + PF_DELAY + i
      BY <1>1 DEF FillInv
    <2>1. /\ Level(c) \in Nat /\ Level(c)' \in Nat /\ Level(c)' <= Level(c)
      BY <1>1, LevelType
    <2>2. \A n \in Int : Level(c) <= n => Level(c)' <= n
      BY <2>1
    <2>3. /\ \A k \in 1 .. PF_DELAY : FIFO_PROG_FULL - 1 + k \in Int
          /\ \A i \in Stages : FIFO_PROG_FULL - 1 + PF_DELAY + i \in Int
      BY <1>0 DEF Stages
    <2> QED
      BY <2>2, <2>3, Zenon DEF FillInv
  <1>2. CASE RtlTick
    BY <1>2, FillTick
  <1>3. ASSUME NEW d \in Channels, AxisPush(d) PROVE FillInv'
    BY <1>1, <1>3, LevelType DEF AxisPush, rstVars, Level
  <1>4. ASSUME NEW d \in Channels, AxisPop(d) PROVE FillInv'
    <2>1. ASSUME NEW c \in Channels PROVE Level(c)' \in Nat /\ Level(c)' <= Level(c)
      <3>1. outq[c] \in Seq(Results) /\ unseen[c] \in Nat
        BY LevelType
      <3>2. /\ outq'[c] = IF c = d THEN Tail(outq[c]) ELSE outq[c]
            /\ unseen'[c] = IF c = d THEN unseen[c] + 1 ELSE unseen[c]
            /\ c = d => outq[c] # <<>>
        BY <1>4 DEF AxisPop, TypeOK
      <3> QED
        BY <3>1, <3>2 DEF Level
    <2> QED
      BY <1>1, <1>4, <2>1 DEF AxisPop, rstVars
  <1>5. ASSUME NEW d \in Channels, SyncReadPointer(d) PROVE FillInv'
    <2>1. ASSUME NEW c \in Channels PROVE Level(c)' \in Nat /\ Level(c)' <= Level(c)
      <3>1. outq[c] \in Seq(Results) /\ unseen[c] \in Nat
        BY LevelType
      <3>2. outq'[c] = outq[c] /\ unseen'[c] \in Nat /\ unseen'[c] <= unseen[c]
        BY <1>5, <3>1, SMTT(30) DEF SyncReadPointer, TypeOK
      <3> QED
        BY <3>1, <3>2 DEF Level
    <2> QED
      BY <1>1, <1>5, <2>1 DEF SyncReadPointer, rstVars
  <1>6. CASE AssertReset
    <2>1. ~axis_rst' /\ \A c \in Channels : Level(c)' = 0
      BY <1>6 DEF AssertReset, Level
    <2>2. \A k \in 1 .. PF_DELAY : 0 <= FIFO_PROG_FULL - 1 + k
      BY <1>0
    <2> QED
      BY <2>1, <2>2 DEF FillInv
  <1>7. CASE ReleaseReset
    <2>1. /\ ~axis_rst /\ held = RST_HOLD /\ ctl' = ctl /\ pf' = pf
          /\ outq' = outq /\ unseen' = unseen
      BY <1>7 DEF ReleaseReset
    <2>2. held > DEST_SYNC_FF
      BY <1>0, <2>1, ResetAssumption
    <2>3. \A i \in Stages : ~ctl[i].valid
      BY <2>1, <2>2, Zenon DEF ResetInv
    <2>4. \A c \in Channels : \A i \in Stages : ~RoutedTo(ctl[i], c)
      BY <2>3, Zenon DEF RoutedTo
    <2> QED
      BY <2>1, <2>4, Zenon DEF FillInv, Level
  <1>8. CASE UNCHANGED vars
    BY <1>1, <1>8, LevelType DEF vars, Level
  <1> QED
    BY <1>2, <1>3, <1>4, <1>5, <1>6, <1>7, <1>8 DEF Next

(***************************************************************************)
(* No result is lost to a full out-FIFO, no operand to a reset.            *)
(***************************************************************************)

SafeInv == TypeOK /\ ResetInv /\ PointerInv /\ FillInv

LEMMA SafeInit == Init => SafeInv
  <1> SUFFICES ASSUME Init PROVE SafeInv
    OBVIOUS
  <1>0. /\ PF_DELAY \in Nat \ {0} /\ FIFO_PROG_FULL \in Nat \ {0}
        /\ DEST_SYNC_FF \in Nat \ {0} /\ CDC_SYNC_STAGES \in Nat \ {0}
        /\ IN_FIFO_DEPTH \in Nat
    BY ConstantsAssumption, ThresholdAssumption DEF FIFO_PROG_FULL
  <1>1. TypeOK
    BY TypeInit
  <1>2. ResetInv
    BY <1>0 DEF Init, ResetInv
  <1>3. PointerInv
    <2>1. CDC_SYNC_STAGES \in 1 .. CDC_SYNC_STAGES
      BY <1>0
    <2>2. \A j \in 1 .. DEST_SYNC_FF : \A k \in j .. CDC_SYNC_STAGES :
            k \in 1 .. CDC_SYNC_STAGES
      BY <1>0
    <2> QED
      BY <1>0, <2>1, <2>2 DEF Init, PointerInv
  <1>4. FillInv
    <2>1. ~axis_rst /\ \A c \in Channels : Level(c) = 0
      BY DEF Init, Level
    <2>2. \A k \in 1 .. PF_DELAY : 0 <= FIFO_PROG_FULL - 1 + k
      BY <1>0
    <2> QED
      BY <2>1, <2>2 DEF FillInv
  <1> QED
    BY <1>1, <1>2, <1>3, <1>4 DEF SafeInv

LEMMA SafeNext == SafeInv /\ [Next]_vars => SafeInv'
  BY TypeNext, ResetNext, PointerNext, FillNext DEF SafeInv

LEMMA SafeInvariant == Spec => []SafeInv
  BY SafeInit, SafeNext, PTL DEF Spec

LEMMA SafeImpliesNoOverflow == SafeInv => NoOverflow
  <1> SUFFICES ASSUME SafeInv, NEW c \in Channels, axis_rst, s_tvalid_out_fifo_(c)
               PROVE  Level(c) < FIFO_CAPACITY
    BY DEF NoOverflow
  <1>0. /\ PIPELINE_LAT \in Nat \ {0} /\ PF_DELAY \in Nat \ {0}
        /\ FIFO_PROG_FULL \in Int /\ FIFO_CAPACITY \in Nat
    BY ConstantsAssumption DEF FIFO_PROG_FULL
  <1>1. PIPELINE_LAT \in Stages
    BY <1>0 DEF Stages
  <1>2. Level(c) <= FIFO_PROG_FULL - 1 + PF_DELAY + PIPELINE_LAT
    BY <1>1 DEF SafeInv, FillInv, s_tvalid_out_fifo_
  <1>3. Level(c) \in Nat
    BY LevelType DEF SafeInv
  <1> QED
    BY <1>0, <1>2, <1>3, HeadroomAssumption

\* The blind writes of vadd_cdc.sv:434, 487 are safe: prog_full stops the
\* pipeline while everything in it still fits.
THEOREM OutFifoNeverOverflows == Spec => []NoOverflow
  BY SafeInvariant, SafeImpliesNoOverflow, PTL

\* The ungated s_tready of vadd_cdc_pipeline.sv:66-67 is safe: while rtl_rst is
\* high no in-FIFO shows a word.
THEOREM NoWordTakenInReset == Spec => []NoHandshakeInReset
  <1>1. SafeInv => NoHandshakeInReset
    BY HandshakeOutsideReset DEF SafeInv, NoHandshakeInReset
  <1> QED
    BY <1>1, SafeInvariant, PTL

(***************************************************************************)
(* Counting: what the pipeline invariant says of the last stage.           *)
(***************************************************************************)

LEMMA CountTypes ==
  ASSUME TypeOK, NEW c \in Channels
  PROVE  /\ base[c] \in Nat /\ taken[c] \in Nat /\ rcvd[c] \in Nat
         /\ base[0] \in Nat /\ base[1] \in Nat
         /\ Len(outq[c]) \in Nat /\ Written(c) \in Nat /\ Accepted(c) \in Int
         /\ \A i \in Stages : Place(c, i) \in Int
  <1>1. outq[c] \in Seq(Results)
    BY LevelType
  <1>2. /\ base[c] \in Nat /\ taken[c] \in Nat /\ rcvd[c] \in Nat
        /\ base[0] \in Nat /\ base[1] \in Nat
    BY DEF TypeOK, Channels
  <1>3. ASSUME NEW i \in Stages PROVE Place(c, i) \in Int
    <2>1. dat[i] \in Nat \X Nat
      BY LatencyAssumption DEF TypeOK, Stages, Operands, Words
    <2>2. dat[i][1] \in Nat /\ dat[i][2] \in Nat
      BY <2>1
    <2> QED
      BY <1>2, <2>2 DEF Place
  <1> QED
    BY <1>1, <1>2, <1>3 DEF Written, Accepted

\* The conjuncts of PipeInv for one channel.
PipeInvOf(c) ==
    /\ Written(c) <= Accepted(c)
    /\ PIPE_WIDTH = 1024 => Accepted(c) = Accepted(0)
    /\ \A i \in Stages : RoutedTo(ctl[i], c) =>
         /\ Written(c) < Place(c, i) /\ Place(c, i) <= Accepted(c)
         /\ Accepted(c) - Place(c, i) < i
         /\ ctl[i].last = (Place(c, i) % ResultPacket(c) = 0)
         /\ dat[i] = IF PIPE_WIDTH = 512
                       THEN <<c, base[c] + Place(c, i)>>
                       ELSE <<base[0] + Place(c, i), base[1] + Place(c, i)>>
         /\ \A j \in Stages : i < j /\ RoutedTo(ctl[j], c) => Place(c, j) < Place(c, i)
    /\ \A n \in Written(c) + 1 .. Accepted(c) :
         \E i \in Stages : RoutedTo(ctl[i], c) /\ Place(c, i) = n

LEMMA PipeInvByChannel == PipeInv <=> (axis_rst => \A c \in Channels : PipeInvOf(c))
  BY DEF PipeInv, PipeInvOf

\* The result that leaves the pipeline is the next one to be written.
LEMMA LastStageIsNext ==
  ASSUME TypeOK, NEW c \in Channels, PipeInvOf(c), RoutedTo(ctl[PIPELINE_LAT], c)
  PROVE  Place(c, PIPELINE_LAT) = Written(c) + 1 /\ Written(c) + 1 <= Accepted(c)
  <1>0. PIPELINE_LAT \in Nat \ {0} /\ PIPELINE_LAT \in Stages
    BY ConstantsAssumption DEF Stages
  <1>1. /\ Written(c) \in Nat /\ Accepted(c) \in Int
        /\ \A i \in Stages : Place(c, i) \in Int
    BY CountTypes
  <1>2. Written(c) < Place(c, PIPELINE_LAT) /\ Place(c, PIPELINE_LAT) <= Accepted(c)
    BY <1>0 DEF PipeInvOf
  <1>3. Written(c) + 1 \in Written(c) + 1 .. Accepted(c)
    BY <1>0, <1>1, <1>2
  <1>4. PICK i \in Stages : RoutedTo(ctl[i], c) /\ Place(c, i) = Written(c) + 1
    BY <1>3, Zenon DEF PipeInvOf
  <1>5. i < PIPELINE_LAT => Place(c, PIPELINE_LAT) < Place(c, i)
    BY <1>0, <1>4, Zenon DEF PipeInvOf
  <1>6. i \in Int /\ i <= PIPELINE_LAT
    BY <1>0 DEF Stages
  <1> QED
    BY <1>0, <1>1, <1>2, <1>4, <1>5, <1>6

\* The pipeline never holds more results of a channel than it has stages.
LEMMA PipelineBound ==
  ASSUME TypeOK, NEW c \in Channels, PipeInvOf(c)
  PROVE  Accepted(c) - Written(c) <= PIPELINE_LAT
  <1>0. PIPELINE_LAT \in Nat \ {0}
    BY ConstantsAssumption
  <1>1. /\ Written(c) \in Nat /\ Accepted(c) \in Int
        /\ \A i \in Stages : Place(c, i) \in Int
    BY CountTypes
  <1>2. CASE Written(c) < Accepted(c)
    <2>1. Written(c) + 1 \in Written(c) + 1 .. Accepted(c)
      BY <1>1, <1>2
    <2>2. PICK i \in Stages : RoutedTo(ctl[i], c) /\ Place(c, i) = Written(c) + 1
      BY <2>1, Zenon DEF PipeInvOf
    <2>3. Accepted(c) - Place(c, i) < i
      BY <2>2, Zenon DEF PipeInvOf
    <2>4. i \in Int /\ i <= PIPELINE_LAT
      BY <1>0 DEF Stages
    <2> QED
      BY <1>0, <1>1, <2>2, <2>3, <2>4
  <1>3. CASE ~(Written(c) < Accepted(c))
    BY <1>0, <1>1, <1>3
  <1> QED
    BY <1>2, <1>3

(***************************************************************************)
(* What enters and what leaves the pipeline on an edge.                    *)
(***************************************************************************)

\* A result for channel c enters the pipeline exactly when its word is taken,
\* and it is the next one in that channel's order.
LEMMA EnteringResult ==
  ASSUME TypeOK, NEW c \in Channels
  PROVE  /\ RoutedTo(PipelineControl, c) <=> m_tready_in_fifo_(c)
         /\ m_tready_in_fifo_(c) =>
              PipelineData = IF PIPE_WIDTH = 512 THEN <<c, taken[c] + 1>>
                                                 ELSE <<taken[0] + 1, taken[1] + 1>>
         /\ m_tready_in_fifo_(c) =>
              PipelineControl.last =
                IF PIPE_WIDTH = 512 THEN TLast(c, taken[c] + 1) ELSE TLast(0, taken[0] + 1)
  <1>1. PIPE_WIDTH = 512 \/ PIPE_WIDTH = 1024
    BY ConstantsAssumption
  <1>2. CASE PIPE_WIDTH = 512
    <2>1. m_tready_in_fifo_(c) <=> s_handshake /\ m_tdest_in_fifo = c
      BY <1>2 DEF m_tready_in_fifo_
    <2>2. RoutedTo(PipelineControl, c) <=> s_handshake /\ m_tdest_in_fifo = c
      BY <1>2 DEF RoutedTo, PipelineControl, Idle
    <2>3. s_handshake => /\ PipelineData = <<m_tdest_in_fifo, taken[m_tdest_in_fifo] + 1>>
                         /\ PipelineControl.last = TLast(m_tdest_in_fifo, taken[m_tdest_in_fifo] + 1)
      BY <1>2 DEF PipelineControl, PipelineData, m_tdata_in_fifo, m_tlast_in_fifo, HeadWord
    <2> QED
      BY <1>2, <2>1, <2>2, <2>3, Zenon
  <1>3. CASE PIPE_WIDTH = 1024
    <2>1. s_handshake => m_tdest_in_fifo = 0
      BY <1>3 DEF s_handshake, m_tvalid_in_fifo, m_tdest_in_fifo
    <2>2. m_tready_in_fifo_(c) <=> s_handshake
      BY <1>3 DEF m_tready_in_fifo_
    <2>3. RoutedTo(PipelineControl, c) <=> s_handshake
      BY <1>3 DEF RoutedTo, PipelineControl, Idle
    <2>4. s_handshake => /\ PipelineData = <<taken[0] + 1, taken[1] + 1>>
                         /\ PipelineControl.last = TLast(0, taken[0] + 1)
      BY <1>3, <2>1 DEF PipelineControl, PipelineData, m_tdata_in_fifo,
                        m_tlast_in_fifo, HeadWord
    <2>5. PIPE_WIDTH # 512
      BY <1>3
    <2> QED
      BY <2>2, <2>3, <2>4, <2>5, Zenon
  <1> QED
    BY <1>1, <1>2, <1>3

\* What is written for channel c is the result of its place in the order.
LEMMA LeavingResult ==
  ASSUME TypeOK, NEW c \in Channels, PipeInvOf(c), RoutedTo(ctl[PIPELINE_LAT], c)
  PROVE  [data |-> s_tdata_out_fifo_(c), last |-> ctl[PIPELINE_LAT].last]
           = Expected(c, Written(c) + 1)
  <1>0. PIPELINE_LAT \in Stages
    BY ConstantsAssumption DEF Stages
  <1>1. Place(c, PIPELINE_LAT) = Written(c) + 1
    BY LastStageIsNext
  <1>2. ctl[PIPELINE_LAT].last = ((Written(c) + 1) % ResultPacket(c) = 0)
    BY <1>0, <1>1, Zenon DEF PipeInvOf
  <1>3. dat[PIPELINE_LAT] = IF PIPE_WIDTH = 512
                              THEN <<c, base[c] + (Written(c) + 1)>>
                              ELSE <<base[0] + (Written(c) + 1), base[1] + (Written(c) + 1)>>
    BY <1>0, <1>1, ZenonT(60) DEF PipeInvOf
  <1>4. s_tdata_out_fifo_(c) =
          IF PIPE_WIDTH = 1024 /\ c = 1 THEN Junk ELSE dat[PIPELINE_LAT]
    BY LatencyAssumption DEF s_tdata_out_fifo_
  <1>5. (PIPE_WIDTH = 512 \/ PIPE_WIDTH = 1024) /\ (c = 0 \/ c = 1)
    BY ConstantsAssumption DEF Channels
  <1>6. s_tdata_out_fifo_(c) =
          CASE PIPE_WIDTH = 512 -> <<c, base[c] + (Written(c) + 1)>>
            [] PIPE_WIDTH = 1024 /\ c = 0 ->
                 <<base[0] + (Written(c) + 1), base[1] + (Written(c) + 1)>>
            [] PIPE_WIDTH = 1024 /\ c = 1 -> Junk
    BY <1>3, <1>4, <1>5
  <1> QED
    BY <1>2, <1>6, Zenon DEF Expected

\* One edge outside rtl_rst, seen from channel c: what it accepts and writes.
LEMMA TickCounts ==
  ASSUME SafeInv, PipeInv, RtlTick, axis_rst, NEW c \in Channels
  PROVE  /\ Accepted(c)' = IF m_tready_in_fifo_(c) THEN Accepted(c) + 1 ELSE Accepted(c)
         /\ Written(c)' = IF s_tvalid_out_fifo_(c) THEN Written(c) + 1 ELSE Written(c)
         /\ outq'[c] = IF s_tvalid_out_fifo_(c)
                         THEN Append(outq[c], Expected(c, Written(c) + 1))
                         ELSE outq[c]
         /\ Len(outq'[c]) = IF s_tvalid_out_fifo_(c) THEN Len(outq[c]) + 1 ELSE Len(outq[c])
  <1>1. TypeOK /\ PipeInvOf(c)
    BY PipeInvByChannel DEF SafeInv
  <1>2. base' = base /\ rcvd' = rcvd
    BY DEF RtlTick, hostVars
  <1>3. taken'[c] = IF m_tready_in_fifo_(c) THEN taken[c] + 1 ELSE taken[c]
    BY <1>1, TickTaken
  <1>4. s_tvalid_out_fifo_(c) => Level(c) < FIFO_CAPACITY
    BY SafeImpliesNoOverflow DEF NoOverflow
  <1>5. s_tvalid_out_fifo_(c) =>
          [data |-> s_tdata_out_fifo_(c), last |-> ctl[PIPELINE_LAT].last]
            = Expected(c, Written(c) + 1)
    BY <1>1, LeavingResult DEF s_tvalid_out_fifo_
  <1>6. outq'[c] = IF s_tvalid_out_fifo_(c)
                     THEN Append(outq[c], Expected(c, Written(c) + 1))
                     ELSE outq[c]
    BY <1>1, <1>4, <1>5, TickOutq DEF OutFifoWrite
  <1>7. outq[c] \in Seq(Results) /\ Len(outq[c]) \in Nat
    BY <1>1, LevelType
  <1>8. Len(outq'[c]) = IF s_tvalid_out_fifo_(c) THEN Len(outq[c]) + 1 ELSE Len(outq[c])
    BY <1>6, <1>7
  <1>9. rcvd[c] \in Nat /\ taken[c] \in Nat /\ base[c] \in Nat
    BY <1>1, CountTypes
  <1>10. Accepted(c)' = IF m_tready_in_fifo_(c) THEN Accepted(c) + 1 ELSE Accepted(c)
    BY <1>2, <1>3, <1>9 DEF Accepted
  <1>11. Written(c)' = IF s_tvalid_out_fifo_(c) THEN Written(c) + 1 ELSE Written(c)
    BY <1>2, <1>7, <1>8, <1>9 DEF Written
  <1> QED
    BY <1>6, <1>8, <1>10, <1>11

\* One edge outside rtl_rst, seen from a stage: what moves into it.
LEMMA TickPlaces ==
  ASSUME SafeInv, PipeInv, RtlTick, axis_rst, ~rtl_rst, NEW c \in Channels
  PROVE  /\ RoutedTo(ctl'[1], c) <=> m_tready_in_fifo_(c)
         /\ m_tready_in_fifo_(c) =>
              /\ Place(c, 1)' = Accepted(c) + 1
              /\ ctl'[1].last = ((Accepted(c) + 1) % ResultPacket(c) = 0)
              /\ dat'[1] = IF PIPE_WIDTH = 512
                             THEN <<c, base[c] + (Accepted(c) + 1)>>
                             ELSE <<base[0] + (Accepted(c) + 1), base[1] + (Accepted(c) + 1)>>
         /\ \A i \in Stages \ {1} :
              /\ i - 1 \in Stages /\ ctl'[i] = ctl[i - 1] /\ dat'[i] = dat[i - 1]
              /\ Place(c, i)' = Place(c, i - 1)
  <1>0. PIPELINE_LAT \in Nat \ {0} /\ 1 \in Stages
    BY ConstantsAssumption DEF Stages
  <1>1. TypeOK /\ PipeInvOf(c) /\ PipeInvOf(0) /\ PipeInvOf(1)
    BY PipeInvByChannel DEF SafeInv, Channels
  <1>2. base' = base
    BY DEF RtlTick, hostVars
  <1>3. ctl'[1] = PipelineControl /\ dat'[1] = PipelineData
    BY <1>0, <1>1, TickControl, TickData, Zenon
  <1>4. RoutedTo(ctl'[1], c) <=> m_tready_in_fifo_(c)
    BY <1>1, <1>3, EnteringResult, Zenon
  <1>5. ASSUME m_tready_in_fifo_(c)
        PROVE  /\ Place(c, 1)' = Accepted(c) + 1
               /\ ctl'[1].last = ((Accepted(c) + 1) % ResultPacket(c) = 0)
               /\ dat'[1] = IF PIPE_WIDTH = 512
                             THEN <<c, base[c] + (Accepted(c) + 1)>>
                             ELSE <<base[0] + (Accepted(c) + 1), base[1] + (Accepted(c) + 1)>>
    <2>1. /\ dat'[1] = IF PIPE_WIDTH = 512 THEN <<c, taken[c] + 1>>
                                           ELSE <<taken[0] + 1, taken[1] + 1>>
          /\ ctl'[1].last =
               IF PIPE_WIDTH = 512 THEN TLast(c, taken[c] + 1) ELSE TLast(0, taken[0] + 1)
      BY <1>1, <1>3, <1>5, EnteringResult, ZenonT(60)
    <2>2. /\ taken[c] \in Nat /\ taken[0] \in Nat /\ taken[1] \in Nat
          /\ base[c] \in Nat /\ base[0] \in Nat /\ base[1] \in Nat
      BY <1>1 DEF TypeOK, Channels
    <2>3. CASE PIPE_WIDTH = 512
      <3>1. taken[c] + 1 = base[c] + (Accepted(c) + 1)
            /\ (taken[c] + 1) - base[c] = Accepted(c) + 1
        BY <2>2 DEF Accepted
      <3>2. dat'[1] = <<c, base[c] + (Accepted(c) + 1)>>
        BY <2>1, <2>3, <3>1
      <3>3. Place(c, 1)' = Accepted(c) + 1
        BY <1>2, <2>1, <2>3, <3>1 DEF Place
      <3>4. ctl'[1].last = ((Accepted(c) + 1) % ResultPacket(c) = 0)
        <4>1. ResultPacket(c) = PKT[c]
          BY <2>3 DEF ResultPacket
        <4> QED
          BY <2>1, <2>3, <3>1, <4>1, Zenon DEF TLast
      <3> QED
        BY <2>3, <3>2, <3>3, <3>4
    <2>4. CASE PIPE_WIDTH = 1024
      <3>1. Accepted(c) = Accepted(0) /\ Accepted(1) = Accepted(0) /\ ResultPacket(c) = PKT[0]
        BY <1>1, <2>4 DEF PipeInvOf, Channels, ResultPacket
      <3>2. /\ taken[0] + 1 = base[0] + (Accepted(c) + 1)
            /\ taken[1] + 1 = base[1] + (Accepted(c) + 1)
            /\ (taken[0] + 1) - base[0] = Accepted(c) + 1
        BY <2>2, <3>1 DEF Accepted
      <3>3. dat'[1] = <<base[0] + (Accepted(c) + 1), base[1] + (Accepted(c) + 1)>>
        BY <2>1, <2>4, <3>2
      <3>4. Place(c, 1)' = Accepted(c) + 1
        BY <1>2, <2>1, <2>4, <3>2 DEF Place
      <3>5. PIPE_WIDTH # 512
        BY <2>4
      <3>6. ctl'[1].last = ((Accepted(c) + 1) % ResultPacket(c) = 0)
        BY <2>1, <3>1, <3>2, <3>5, Zenon DEF TLast
      <3> QED
        BY <2>4, <3>3, <3>4, <3>6
    <2> QED
      BY <2>3, <2>4, ConstantsAssumption
  <1>6. ASSUME NEW i \in Stages \ {1}
        PROVE  /\ i - 1 \in Stages /\ ctl'[i] = ctl[i - 1] /\ dat'[i] = dat[i - 1]
               /\ Place(c, i)' = Place(c, i - 1)
    <2>1. i \in Stages /\ i # 1 /\ i - 1 \in Stages
      BY <1>0 DEF Stages
    <2>2. ctl'[i] = ctl[i - 1] /\ dat'[i] = dat[i - 1]
      BY <1>1, <2>1, TickControl, TickData, Zenon
    <2> QED
      BY <1>2, <2>1, <2>2 DEF Place
  <1> QED
    BY <1>4, <1>5, <1>6

(***************************************************************************)
(* The pipeline keeps every accepted result in its place.                  *)
(***************************************************************************)

\* An edge outside rtl_rst.
LEMMA PipeShift ==
  ASSUME SafeInv, PipeInv, RtlTick, axis_rst, ~rtl_rst, NEW c \in Channels
  PROVE  PipeInvOf(c)'
  <1>0. PIPELINE_LAT \in Nat \ {0} /\ 1 \in Stages /\ PIPELINE_LAT \in Stages
    BY ConstantsAssumption DEF Stages
  <1>1. TypeOK /\ PipeInvOf(c) /\ PipeInvOf(0)
    BY PipeInvByChannel DEF SafeInv, Channels
  <1>2. /\ Written(c) \in Nat /\ Accepted(c) \in Int
        /\ \A i \in Stages : Place(c, i) \in Int /\ i \in Int
    BY <1>1, CountTypes DEF Stages
  <1>3. /\ Written(c) <= Accepted(c)
        /\ \A i \in Stages : RoutedTo(ctl[i], c) =>
             /\ Written(c) < Place(c, i) /\ Place(c, i) <= Accepted(c)
             /\ Accepted(c) - Place(c, i) < i
             /\ ctl[i].last = (Place(c, i) % ResultPacket(c) = 0)
             /\ dat[i] = IF PIPE_WIDTH = 512
                           THEN <<c, base[c] + Place(c, i)>>
                           ELSE <<base[0] + Place(c, i), base[1] + Place(c, i)>>
             /\ \A j \in Stages : i < j /\ RoutedTo(ctl[j], c) => Place(c, j) < Place(c, i)
    BY <1>1, Zenon DEF PipeInvOf
  <1>4. /\ Accepted(c)' = IF m_tready_in_fifo_(c) THEN Accepted(c) + 1 ELSE Accepted(c)
        /\ Written(c)' = IF s_tvalid_out_fifo_(c) THEN Written(c) + 1 ELSE Written(c)
        /\ base' = base
    BY TickCounts DEF RtlTick, hostVars
  <1>5. /\ RoutedTo(ctl'[1], c) <=> m_tready_in_fifo_(c)
        /\ m_tready_in_fifo_(c) =>
              /\ Place(c, 1)' = Accepted(c) + 1
              /\ ctl'[1].last = ((Accepted(c) + 1) % ResultPacket(c) = 0)
              /\ dat'[1] = IF PIPE_WIDTH = 512
                             THEN <<c, base[c] + (Accepted(c) + 1)>>
                             ELSE <<base[0] + (Accepted(c) + 1), base[1] + (Accepted(c) + 1)>>
    BY TickPlaces
  <1>6. \A i \in Stages \ {1} :
              /\ i - 1 \in Stages /\ ctl'[i] = ctl[i - 1] /\ dat'[i] = dat[i - 1]
              /\ Place(c, i)' = Place(c, i - 1)
    BY TickPlaces
  <1>7. s_tvalid_out_fifo_(c) =>
          /\ RoutedTo(ctl[PIPELINE_LAT], c)
          /\ Place(c, PIPELINE_LAT) = Written(c) + 1 /\ Written(c) + 1 <= Accepted(c)
    BY <1>1, LastStageIsNext DEF s_tvalid_out_fifo_
  <1>8. Written(c)' <= Accepted(c)'
    BY <1>2, <1>3, <1>4, <1>7
  <1>9. PIPE_WIDTH = 1024 => Accepted(c)' = Accepted(0)'
    <2>1. 0 \in Channels
      BY DEF Channels
    <2>2. Accepted(0)' = IF m_tready_in_fifo_(0) THEN Accepted(0) + 1 ELSE Accepted(0)
      BY <2>1, TickCounts
    <2>3. PIPE_WIDTH = 1024 => (m_tready_in_fifo_(c) <=> m_tready_in_fifo_(0))
      BY DEF m_tready_in_fifo_
    <2> QED
      BY <1>1, <1>4, <2>2, <2>3 DEF PipeInvOf
  <1>10. ASSUME NEW i \in Stages, RoutedTo(ctl'[i], c)
         PROVE  /\ Written(c)' < Place(c, i)' /\ Place(c, i)' <= Accepted(c)'
                /\ Accepted(c)' - Place(c, i)' < i
                /\ ctl'[i].last = (Place(c, i)' % ResultPacket(c) = 0)
                /\ dat'[i] = IF PIPE_WIDTH = 512
                               THEN <<c, base'[c] + Place(c, i)'>>
                               ELSE <<base'[0] + Place(c, i)', base'[1] + Place(c, i)'>>
                /\ \A j \in Stages :
                     i < j /\ RoutedTo(ctl'[j], c) => Place(c, j)' < Place(c, i)'
    <2>1. CASE i = 1
      <3>1. m_tready_in_fifo_(c)
        BY <1>5, <1>10, <2>1
      <3>2. Place(c, i)' = Accepted(c) + 1 /\ Accepted(c)' = Accepted(c) + 1
        BY <1>4, <1>5, <2>1, <3>1
      <3>3. Written(c)' <= Accepted(c)
        BY <1>2, <1>3, <1>4, <1>7
      <3>4. /\ Written(c)' < Place(c, i)' /\ Place(c, i)' <= Accepted(c)'
            /\ Accepted(c)' - Place(c, i)' < i
        BY <1>2, <1>4, <2>1, <3>2, <3>3
      <3>5. ASSUME NEW j \in Stages, i < j, RoutedTo(ctl'[j], c)
            PROVE  Place(c, j)' < Place(c, i)'
        <4>1. j \in Stages \ {1}
          BY <2>1, <3>5 DEF Stages
        <4>2. j - 1 \in Stages /\ RoutedTo(ctl[j - 1], c) /\ Place(c, j)' = Place(c, j - 1)
          BY <1>6, <3>5, <4>1
        <4>3. Place(c, j - 1) <= Accepted(c)
          BY <1>3, <4>2, Zenon
        <4> QED
          BY <1>2, <3>2, <4>2, <4>3
      <3> QED
        BY <1>4, <1>5, <2>1, <3>1, <3>2, <3>4, <3>5
    <2>2. CASE i # 1
      <3>1. i \in Stages \ {1}
        BY <2>2
      <3>2. /\ i - 1 \in Stages /\ ctl'[i] = ctl[i - 1] /\ dat'[i] = dat[i - 1]
            /\ Place(c, i)' = Place(c, i - 1)
        BY <1>6, <3>1
      <3>3. RoutedTo(ctl[i - 1], c)
        BY <1>10, <3>2
      <3>4. /\ Written(c) < Place(c, i - 1) /\ Place(c, i - 1) <= Accepted(c)
            /\ Accepted(c) - Place(c, i - 1) < i - 1
            /\ ctl[i - 1].last = (Place(c, i - 1) % ResultPacket(c) = 0)
            /\ dat[i - 1] = IF PIPE_WIDTH = 512
                             THEN <<c, base[c] + Place(c, i - 1)>>
                             ELSE <<base[0] + Place(c, i - 1), base[1] + Place(c, i - 1)>>
            /\ \A j \in Stages :
                 i - 1 < j /\ RoutedTo(ctl[j], c) => Place(c, j) < Place(c, i - 1)
        BY <1>3, <3>2, <3>3, Zenon
      <3>5. Written(c)' < Place(c, i - 1)
        <4>1. CASE s_tvalid_out_fifo_(c)
          <5>1. i - 1 < PIPELINE_LAT
            BY <1>0, <2>2 DEF Stages
          <5>2. Place(c, PIPELINE_LAT) < Place(c, i - 1)
            BY <1>0, <1>7, <3>4, <4>1, <5>1, Zenon
          <5> QED
            BY <1>4, <1>7, <4>1, <5>2
        <4>2. CASE ~s_tvalid_out_fifo_(c)
          BY <1>4, <3>4, <4>2
        <4> QED
          BY <4>1, <4>2
      <3>6. Place(c, i)' <= Accepted(c)' /\ Accepted(c)' - Place(c, i)' < i
        BY <1>2, <1>4, <3>2, <3>4
      <3>7. ASSUME NEW j \in Stages, i < j, RoutedTo(ctl'[j], c)
            PROVE  Place(c, j)' < Place(c, i)'
        <4>1. j \in Stages \ {1} /\ i - 1 < j - 1
          BY <1>0, <3>7 DEF Stages
        <4>2. j - 1 \in Stages /\ RoutedTo(ctl[j - 1], c) /\ Place(c, j)' = Place(c, j - 1)
          BY <1>6, <3>7, <4>1
        <4> QED
          BY <3>2, <3>4, <4>1, <4>2
      <3>8. /\ ctl'[i].last = (Place(c, i)' % ResultPacket(c) = 0)
            /\ dat'[i] = IF PIPE_WIDTH = 512
                           THEN <<c, base'[c] + Place(c, i)'>>
                           ELSE <<base'[0] + Place(c, i)', base'[1] + Place(c, i)'>>
        BY <1>4, <3>2, <3>4
      <3> QED
        BY <3>2, <3>5, <3>6, <3>7, <3>8
    <2> QED
      BY <2>1, <2>2
  <1>11. ASSUME NEW n \in Written(c)' + 1 .. Accepted(c)'
         PROVE  \E i \in Stages : RoutedTo(ctl'[i], c) /\ Place(c, i)' = n
    <2>1. CASE n = Accepted(c) + 1
      <3>1. m_tready_in_fifo_(c)
        BY <1>2, <1>4, <1>7, <2>1
      <3> QED
        BY <1>0, <1>5, <2>1, <3>1
    <2>2. CASE n # Accepted(c) + 1
      <3>1. n \in Written(c) + 1 .. Accepted(c) /\ (s_tvalid_out_fifo_(c) => n # Written(c) + 1)
        BY <1>2, <1>4, <2>2
      <3>2. PICK i \in Stages : RoutedTo(ctl[i], c) /\ Place(c, i) = n
        BY <1>1, <3>1, Zenon DEF PipeInvOf
      <3>3. i # PIPELINE_LAT
        BY <1>7, <3>1, <3>2 DEF s_tvalid_out_fifo_
      <3>4. i + 1 \in Stages \ {1} /\ (i + 1) - 1 = i
        BY <1>0, <3>3 DEF Stages
      <3>5. ctl'[i + 1] = ctl[i] /\ Place(c, i + 1)' = Place(c, i)
        BY <1>6, <3>4
      <3> QED
        BY <3>2, <3>4, <3>5
    <2> QED
      BY <2>1, <2>2
  <1> QED
    BY <1>8, <1>9, <1>10, <1>11 DEF PipeInvOf

\* An edge under rtl_rst: the pipeline stays empty and nothing is taken.
LEMMA PipeUnderReset ==
  ASSUME SafeInv, PipeInv, RtlTick, axis_rst, rtl_rst, NEW c \in Channels
  PROVE  PipeInvOf(c)'
  <1>0. PIPELINE_LAT \in Stages /\ 0 \in Channels
    BY ConstantsAssumption DEF Stages, Channels
  <1>1. TypeOK /\ PipeInvOf(c)
    BY PipeInvByChannel DEF SafeInv
  <1>2. ~s_handshake
    BY HandshakeOutsideReset DEF SafeInv
  <1>3. (\A i \in Stages : ~ctl[i].valid) /\ \A d \in Channels : taken[d] = base[d]
    BY DEF SafeInv, ResetInv
  <1>4. ~s_tvalid_out_fifo_(c) /\ \A d \in Channels : ~m_tready_in_fifo_(d)
    BY <1>0, <1>2, <1>3 DEF s_tvalid_out_fifo_, RoutedTo, m_tready_in_fifo_
  <1>5. /\ Accepted(c)' = Accepted(c) /\ Accepted(0)' = Accepted(0)
        /\ Written(c)' = Written(c)
    BY <1>0, <1>4, TickCounts
  <1>6. Written(c) \in Nat /\ Accepted(c) = 0 /\ Written(c) <= Accepted(c)
    BY <1>0, <1>1, <1>3, CountTypes DEF Accepted, PipeInvOf
  <1>7. \A i \in Stages : ~RoutedTo(ctl'[i], c)
    <2>1. ~RoutedTo(Idle, c)
      BY DEF RoutedTo, Idle
    <2>2. \A i \in Stages : ctl'[i] = Idle
      BY <1>1, TickControl, Zenon
    <2> QED
      BY <2>1, <2>2
  <1>8. Written(c)' + 1 .. Accepted(c)' = {}
    BY <1>5, <1>6
  <1>9. PIPE_WIDTH = 1024 => Accepted(c)' = Accepted(0)'
    BY <1>1, <1>5 DEF PipeInvOf
  <1> QED
    BY <1>5, <1>6, <1>7, <1>8, <1>9 DEF PipeInvOf

\* A step of the host side that takes no word and writes no result.
LEMMA PipeKept ==
  ASSUME PipeInv, UNCHANGED <<axis_rst, taken, base, ctl, dat>>,
         \A c \in Channels : Written(c)' = Written(c)
  PROVE  PipeInv'
  <1>1. \A c \in Channels : Accepted(c)' = Accepted(c) /\ Accepted(0)' = Accepted(0)
    BY DEF Accepted
  <1>2. \A c \in Channels : \A i \in Stages : Place(c, i)' = Place(c, i)
    BY DEF Place
  <1> SUFFICES ASSUME axis_rst, NEW c \in Channels PROVE PipeInvOf(c)'
    BY PipeInvByChannel DEF PipeInv, PipeInvOf
  <1>3. PipeInvOf(c)
    BY PipeInvByChannel
  <1>4. Written(c)' = Written(c) /\ Accepted(c)' = Accepted(c) /\ Accepted(0)' = Accepted(0)
    BY <1>1
  <1>5. /\ Written(c)' <= Accepted(c)'
        /\ PIPE_WIDTH = 1024 => Accepted(c)' = Accepted(0)'
    BY <1>3, <1>4 DEF PipeInvOf
  <1>6. \A n \in Written(c)' + 1 .. Accepted(c)' :
          \E i \in Stages : RoutedTo(ctl'[i], c) /\ Place(c, i)' = n
    BY <1>2, <1>3, <1>4 DEF PipeInvOf
  <1>7. ASSUME NEW i \in Stages, RoutedTo(ctl'[i], c)
        PROVE  /\ Written(c)' < Place(c, i)' /\ Place(c, i)' <= Accepted(c)'
               /\ Accepted(c)' - Place(c, i)' < i
               /\ ctl'[i].last = (Place(c, i)' % ResultPacket(c) = 0)
               /\ dat'[i] = IF PIPE_WIDTH = 512
                              THEN <<c, base'[c] + Place(c, i)'>>
                              ELSE <<base'[0] + Place(c, i)', base'[1] + Place(c, i)'>>
               /\ \A j \in Stages :
                    i < j /\ RoutedTo(ctl'[j], c) => Place(c, j)' < Place(c, i)'
    <2>1. RoutedTo(ctl[i], c) /\ Place(c, i)' = Place(c, i)
      BY <1>2, <1>7
    <2>2. \A j \in Stages : i < j /\ RoutedTo(ctl[j], c) => Place(c, j) < Place(c, i)
      BY <1>3, <2>1, Zenon DEF PipeInvOf
    <2>3. \A j \in Stages : i < j /\ RoutedTo(ctl'[j], c) => Place(c, j)' < Place(c, i)'
      BY <1>2, <2>2
    <2> QED
      BY <1>3, <1>4, <2>1, <2>3 DEF PipeInvOf
  <1> QED
    BY <1>5, <1>6, <1>7 DEF PipeInvOf

LEMMA PipeNext ==
  ASSUME SafeInv, PipeInv, [Next]_vars
  PROVE  PipeInv'
  <1>1. CASE RtlTick
    <2> SUFFICES ASSUME axis_rst', NEW c \in Channels PROVE PipeInvOf(c)'
      BY DEF PipeInv, PipeInvOf
    <2>1. axis_rst
      BY <1>1 DEF RtlTick
    <2> QED
      BY <1>1, <2>1, PipeShift, PipeUnderReset
  <1>2. ASSUME NEW d \in Channels, AxisPush(d) PROVE PipeInv'
    BY <1>2, PipeKept DEF AxisPush, rstVars, Written
  <1>3. ASSUME NEW d \in Channels, AxisPop(d) PROVE PipeInv'
    <2>1. ASSUME NEW c \in Channels PROVE Written(c)' = Written(c)
      <3>1. outq[c] \in Seq(Results) /\ rcvd[c] \in Nat
        BY LevelType, CountTypes DEF SafeInv
      <3>2. /\ outq'[c] = IF c = d THEN Tail(outq[c]) ELSE outq[c]
            /\ rcvd'[c] = IF c = d THEN rcvd[c] + 1 ELSE rcvd[c]
            /\ c = d => outq[c] # <<>>
        BY <1>3 DEF AxisPop, TypeOK, SafeInv
      <3> QED
        BY <3>1, <3>2 DEF Written
    <2> QED
      BY <1>3, <2>1, PipeKept DEF AxisPop, rstVars
  <1>4. ASSUME NEW d \in Channels, SyncReadPointer(d) PROVE PipeInv'
    BY <1>4, PipeKept DEF SyncReadPointer, rstVars, hostVars, Written
  <1>5. CASE AssertReset
    BY <1>5 DEF AssertReset, PipeInv
  <1>6. CASE ReleaseReset
    <2> SUFFICES ASSUME NEW c \in Channels PROVE PipeInvOf(c)'
      BY DEF PipeInv, PipeInvOf
    <2>0. DEST_SYNC_FF \in Nat /\ RST_HOLD \in Nat
      BY ConstantsAssumption
    <2>1. /\ ~axis_rst /\ held = RST_HOLD
          /\ ctl' = ctl /\ taken' = taken /\ base' = base /\ rcvd' = rcvd /\ outq' = outq
      BY <1>6 DEF ReleaseReset, hostVars
    <2>2. held > DEST_SYNC_FF
      BY <2>0, <2>1, ResetAssumption
    <2>3. /\ \A i \in Stages : ~ctl[i].valid
          /\ \A e \in Channels : taken[e] = base[e] /\ rcvd[e] = 0 /\ outq[e] = <<>>
      BY <2>1, <2>2, Zenon DEF SafeInv, ResetInv
    <2>4. \A e \in Channels : taken[e] \in Nat /\ base[e] \in Nat
      BY DEF SafeInv, TypeOK
    <2>5. (\A e \in Channels : Accepted(e)' = 0) /\ Written(c)' = 0 /\ 0 \in Channels
      BY <2>1, <2>3, <2>4 DEF Accepted, Written, Channels
    <2>6. \A i \in Stages : ~RoutedTo(ctl'[i], c)
      BY <2>1, <2>3, Zenon DEF RoutedTo
    <2>7. Written(c)' <= Accepted(c)' /\ Written(c)' + 1 .. Accepted(c)' = {}
      BY <2>5
    <2>8. Accepted(c)' = Accepted(0)'
      BY <2>5, Zenon
    <2> QED
      BY <2>6, <2>7, <2>8, ZenonT(60) DEF PipeInvOf
  <1>7. CASE UNCHANGED vars
    BY <1>7, PipeKept DEF vars, Written
  <1> QED
    BY <1>1, <1>2, <1>3, <1>4, <1>5, <1>6, <1>7 DEF Next

(***************************************************************************)
(* The out-FIFOs hold the results in order.                                *)
(***************************************************************************)

\* The expected word as a function of the counts at the last reset.
ExpectedAt(b, c, k) ==
  [data |-> CASE PIPE_WIDTH = 512 -> <<c, b[c] + k>>
              [] PIPE_WIDTH = 1024 /\ c = 0 -> <<b[0] + k, b[1] + k>>
              [] PIPE_WIDTH = 1024 /\ c = 1 -> Junk,
   last |-> k % ResultPacket(c) = 0]

LEMMA OrderRead ==
  /\ ResultsInOrder <=>
       \A c \in Channels : \A i \in 1 .. Len(outq[c]) :
         outq[c][i] = ExpectedAt(base, c, rcvd[c] + i)
  /\ ResultsInOrder' <=>
       \A c \in Channels : \A i \in 1 .. Len(outq'[c]) :
         outq'[c][i] = ExpectedAt(base', c, rcvd'[c] + i)
  BY Zenon DEF ResultsInOrder, Expected, ExpectedAt

LEMMA OrderTick ==
  ASSUME SafeInv, PipeInv, ResultsInOrder, RtlTick
  PROVE  ResultsInOrder'
  <1> SUFFICES ASSUME NEW c \in Channels, NEW i \in 1 .. Len(outq'[c])
               PROVE  outq'[c][i] = Expected(c, rcvd[c] + i)
    <2>1. base' = base /\ rcvd' = rcvd
      BY DEF RtlTick, hostVars
    <2>2. \A c \in Channels : \A k : Expected(c, k) = ExpectedAt(base, c, k)
      BY Zenon DEF Expected, ExpectedAt
    <2> QED
      BY <2>1, <2>2, OrderRead, Zenon
  <1>1. outq[c] \in Seq(Results) /\ rcvd[c] \in Nat /\ Len(outq[c]) \in Nat
    BY LevelType, CountTypes DEF SafeInv
  <1>2. CASE axis_rst /\ s_tvalid_out_fifo_(c)
    <2>1. /\ outq'[c] = Append(outq[c], Expected(c, Written(c) + 1))
          /\ Len(outq'[c]) = Len(outq[c]) + 1
      BY <1>2, TickCounts
    <2>2. CASE i = Len(outq[c]) + 1
      <3>1. outq'[c][i] = Expected(c, Written(c) + 1)
        BY <1>1, <2>1, <2>2
      <3>2. Written(c) + 1 = rcvd[c] + i
        BY <1>1, <2>2 DEF Written
      <3> QED
        BY <3>1, <3>2
    <2>3. CASE i # Len(outq[c]) + 1
      <3>1. i \in 1 .. Len(outq[c])
        BY <1>1, <2>1, <2>3
      <3>2. outq'[c][i] = outq[c][i]
        BY <1>1, <2>1, <3>1
      <3> QED
        BY <3>1, <3>2 DEF ResultsInOrder
    <2> QED
      BY <2>2, <2>3
  <1>3. CASE ~(axis_rst /\ s_tvalid_out_fifo_(c))
    <2>1. outq'[c] = OutFifoWrite(c)
      BY TickOutq DEF SafeInv
    <2>2. outq'[c] = outq[c]
      BY <1>3, <2>1, Zenon DEF OutFifoWrite
    <2> QED
      BY <2>2, Zenon DEF ResultsInOrder
  <1> QED
    BY <1>2, <1>3

LEMMA OrderNext ==
  ASSUME SafeInv, PipeInv, ResultsInOrder, [Next]_vars
  PROVE  ResultsInOrder'
  <1>1. CASE RtlTick
    BY <1>1, OrderTick
  <1>2. ASSUME UNCHANGED <<outq, rcvd, base>> PROVE ResultsInOrder'
    <2>1. outq' = outq /\ rcvd' = rcvd /\ base' = base
      BY <1>2
    <2> QED
      BY <2>1, OrderRead, Zenon
  <1>3. ASSUME NEW d \in Channels, AxisPush(d) PROVE ResultsInOrder'
    BY <1>2, <1>3 DEF AxisPush
  <1>4. ASSUME NEW d \in Channels, AxisPop(d) PROVE ResultsInOrder'
    <2>0. base' = base
      BY <1>4 DEF AxisPop
    <2> SUFFICES ASSUME NEW c \in Channels, NEW i \in 1 .. Len(outq'[c])
                 PROVE  outq'[c][i] = ExpectedAt(base, c, rcvd'[c] + i)
      BY <2>0, OrderRead, Zenon
    <2>1. outq[c] \in Seq(Results) /\ rcvd[c] \in Nat
      BY LevelType, CountTypes DEF SafeInv
    <2>2. /\ outq'[c] = IF c = d THEN Tail(outq[c]) ELSE outq[c]
          /\ rcvd'[c] = IF c = d THEN rcvd[c] + 1 ELSE rcvd[c]
          /\ c = d => outq[c] # <<>>
      BY <1>4 DEF AxisPop, TypeOK, SafeInv
    <2>3. CASE c = d
      <3>0. outq[c] # <<>> /\ outq'[c] = Tail(outq[c]) /\ rcvd'[c] = rcvd[c] + 1
        BY <2>2, <2>3, Zenon
      <3>1. i + 1 \in 1 .. Len(outq[c]) /\ outq'[c][i] = outq[c][i + 1]
        BY <2>1, <3>0
      <3>2. i \in Int
        BY <2>1, <3>0
      <3>3. rcvd'[c] + i = rcvd[c] + (i + 1)
        BY <2>1, <3>0, <3>2
      <3>4. outq[c][i + 1] = ExpectedAt(base, c, rcvd[c] + (i + 1))
        BY <3>1, OrderRead, Zenon
      <3> QED
        BY <3>1, <3>3, <3>4, Zenon
    <2>4. CASE c # d
      <3>1. outq'[c] = outq[c] /\ rcvd'[c] = rcvd[c]
        BY <2>2, <2>4, Zenon
      <3> QED
        BY <3>1, OrderRead, Zenon
    <2> QED
      BY <2>3, <2>4
  <1>5. ASSUME NEW d \in Channels, SyncReadPointer(d) PROVE ResultsInOrder'
    BY <1>2, <1>5 DEF SyncReadPointer, hostVars
  <1>6. CASE AssertReset
    BY <1>6 DEF AssertReset, ResultsInOrder
  <1>7. CASE ReleaseReset
    BY <1>2, <1>7 DEF ReleaseReset, hostVars
  <1>8. CASE UNCHANGED vars
    BY <1>2, <1>8 DEF vars
  <1> QED
    BY <1>1, <1>3, <1>4, <1>5, <1>6, <1>7, <1>8 DEF Next

(***************************************************************************)
(* The pipeline and an out-FIFO together are bounded.                      *)
(***************************************************************************)

LEMMA BoundTick ==
  ASSUME SafeInv, PipeInv, BoundInv, RtlTick
  PROVE  BoundInv'
  <1> SUFFICES ASSUME axis_rst', NEW c \in Channels
               PROVE  Level(c)' + Accepted(c)' - Written(c)'
                        <= FIFO_PROG_FULL + PIPELINE_LAT + PF_DELAY
    BY DEF BoundInv
  <1>0. /\ PIPELINE_LAT \in Nat \ {0} /\ PF_DELAY \in Nat \ {0}
        /\ FIFO_PROG_FULL \in Int
    BY ConstantsAssumption DEF FIFO_PROG_FULL
  <1>1. axis_rst /\ unseen' = unseen
    BY DEF RtlTick
  <1>2. TypeOK /\ PipeInvOf(c)
    BY <1>1, PipeInvByChannel DEF SafeInv
  <1>3. /\ Level(c) \in Nat /\ Len(outq[c]) \in Nat /\ unseen[c] \in Nat
        /\ Written(c) \in Nat /\ Accepted(c) \in Int
    BY <1>2, LevelType, CountTypes
  <1>4. /\ Accepted(c)' = IF m_tready_in_fifo_(c) THEN Accepted(c) + 1 ELSE Accepted(c)
        /\ Written(c)' = IF s_tvalid_out_fifo_(c) THEN Written(c) + 1 ELSE Written(c)
        /\ Len(outq'[c]) = IF s_tvalid_out_fifo_(c) THEN Len(outq[c]) + 1 ELSE Len(outq[c])
    BY <1>1, TickCounts
  <1>5. Level(c)' = IF s_tvalid_out_fifo_(c) THEN Level(c) + 1 ELSE Level(c)
    BY <1>1, <1>3, <1>4, SMTT(30) DEF Level
  <1>6. CASE m_tready_in_fifo_(c)
    <2>1. PF_DELAY \in 1 .. PF_DELAY /\ ~pf[c][PF_DELAY]
      BY <1>0, <1>2, <1>6, EnteringResult, EntersOnLowFlag
    <2>2. Level(c) <= FIFO_PROG_FULL - 1 + PF_DELAY
      BY <2>1, Zenon DEF SafeInv, FillInv
    <2>3. Accepted(c) - Written(c) <= PIPELINE_LAT
      BY <1>2, PipelineBound
    <2> QED
      BY <1>0, <1>3, <1>4, <1>5, <1>6, <2>2, <2>3, SMTT(30)
  <1>7. CASE ~m_tready_in_fifo_(c)
    <2>1. Level(c) + Accepted(c) - Written(c) <= FIFO_PROG_FULL + PIPELINE_LAT + PF_DELAY
      BY <1>1 DEF BoundInv
    <2> QED
      BY <1>0, <1>3, <1>4, <1>5, <1>7, <2>1
  <1> QED
    BY <1>6, <1>7

LEMMA BoundNext ==
  ASSUME SafeInv, PipeInv, BoundInv, [Next]_vars
  PROVE  BoundInv'
  <1>0. /\ PIPELINE_LAT \in Nat \ {0} /\ PF_DELAY \in Nat \ {0}
        /\ FIFO_PROG_FULL \in Nat \ {0}
    BY ConstantsAssumption, ThresholdAssumption DEF FIFO_PROG_FULL
  <1>1. CASE RtlTick
    BY <1>1, BoundTick
  \* A step of the host side that takes no word, writes no result and fills no
  \* FIFO.
  <1>2. ASSUME UNCHANGED <<axis_rst, taken, base>>,
               \A c \in Channels : /\ Written(c)' = Written(c)
                                   /\ Level(c)' \in Nat /\ Level(c)' <= Level(c)
        PROVE  BoundInv'
    <2> SUFFICES ASSUME axis_rst, NEW c \in Channels
                 PROVE  Level(c)' + Accepted(c)' - Written(c)'
                          <= FIFO_PROG_FULL + PIPELINE_LAT + PF_DELAY
      BY <1>2 DEF BoundInv
    <2>1. Accepted(c)' = Accepted(c) /\ Written(c)' = Written(c)
      BY <1>2 DEF Accepted
    <2>2. /\ Level(c) \in Nat /\ Level(c)' \in Nat /\ Level(c)' <= Level(c)
          /\ Written(c) \in Nat /\ Accepted(c) \in Int
      BY <1>2, LevelType, CountTypes DEF SafeInv
    <2>3. Level(c) + Accepted(c) - Written(c) <= FIFO_PROG_FULL + PIPELINE_LAT + PF_DELAY
      BY DEF BoundInv
    <2> QED
      BY <1>0, <2>1, <2>2, <2>3
  <1>3. ASSUME NEW d \in Channels, AxisPush(d) PROVE BoundInv'
    BY <1>2, <1>3, LevelType DEF AxisPush, rstVars, Written, Level, SafeInv
  <1>4. ASSUME NEW d \in Channels, AxisPop(d) PROVE BoundInv'
    <2>1. ASSUME NEW c \in Channels
          PROVE  /\ Written(c)' = Written(c)
                 /\ Level(c)' \in Nat /\ Level(c)' <= Level(c)
      <3>1. outq[c] \in Seq(Results) /\ rcvd[c] \in Nat /\ unseen[c] \in Nat
        BY LevelType, CountTypes DEF SafeInv
      <3>2. /\ outq'[c] = IF c = d THEN Tail(outq[c]) ELSE outq[c]
            /\ rcvd'[c] = IF c = d THEN rcvd[c] + 1 ELSE rcvd[c]
            /\ unseen'[c] = IF c = d THEN unseen[c] + 1 ELSE unseen[c]
            /\ c = d => outq[c] # <<>>
        BY <1>4 DEF AxisPop, TypeOK, SafeInv
      <3>3. CASE c = d
        <4>1. /\ outq[c] # <<>> /\ outq'[c] = Tail(outq[c])
              /\ rcvd'[c] = rcvd[c] + 1 /\ unseen'[c] = unseen[c] + 1
          BY <3>2, <3>3, Zenon
        <4>2. /\ Len(outq[c]) \in Nat /\ Len(outq'[c]) \in Nat
              /\ Len(outq[c]) = Len(outq'[c]) + 1
          BY <3>1, <4>1
        <4>3. Written(c)' = Written(c)
          BY <3>1, <4>1, <4>2 DEF Written
        <4>4. Level(c)' = Level(c)
          BY <3>1, <4>1, <4>2 DEF Level
        <4> QED
          BY <4>3, <4>4, LevelType DEF SafeInv
      <3>4. CASE c # d
        <4>1. outq'[c] = outq[c] /\ rcvd'[c] = rcvd[c] /\ unseen'[c] = unseen[c]
          BY <3>2, <3>4, Zenon
        <4>2. Written(c)' = Written(c) /\ Level(c)' = Level(c)
          BY <4>1, Zenon DEF Written, Level
        <4>3. Level(c) \in Nat
          BY LevelType DEF SafeInv
        <4> QED
          BY <4>2, <4>3
      <3> QED
        BY <3>3, <3>4, Zenon
    <2> QED
      BY <1>2, <1>4, <2>1 DEF AxisPop, rstVars
  <1>5. ASSUME NEW d \in Channels, SyncReadPointer(d) PROVE BoundInv'
    <2>1. ASSUME NEW c \in Channels
          PROVE  /\ Written(c)' = Written(c)
                 /\ Level(c)' \in Nat /\ Level(c)' <= Level(c)
      <3>1. outq[c] \in Seq(Results) /\ unseen[c] \in Nat
        BY LevelType DEF SafeInv
      <3>2. /\ outq'[c] = outq[c] /\ rcvd'[c] = rcvd[c]
            /\ unseen'[c] \in Nat /\ unseen'[c] <= unseen[c]
        <4>1. outq' = outq /\ rcvd' = rcvd
          BY <1>5, Zenon DEF SyncReadPointer, hostVars
        <4>2. PICK k \in 0 .. unseen[d] - 1 : unseen' = [unseen EXCEPT ![d] = k]
          BY <1>5, Zenon DEF SyncReadPointer
        <4>3. unseen'[c] = IF c = d THEN k ELSE unseen[c]
          BY <4>2 DEF TypeOK, SafeInv
        <4>4. unseen[d] \in Nat
          BY LevelType DEF SafeInv
        <4>5. unseen'[c] \in Nat /\ unseen'[c] <= unseen[c]
          BY <3>1, <4>2, <4>3, <4>4
        <4> QED
          BY <4>1, <4>5, Zenon
      <3>3. Len(outq[c]) \in Nat
        BY <3>1
      <3>4. Written(c)' = Written(c)
        BY <3>2, Zenon DEF Written
      <3>5. Level(c)' \in Nat /\ Level(c)' <= Level(c)
        BY <3>1, <3>2, <3>3 DEF Level
      <3> QED
        BY <3>4, <3>5
    <2> QED
      BY <1>2, <1>5, <2>1 DEF SyncReadPointer, rstVars, hostVars
  <1>6. CASE AssertReset
    BY <1>6 DEF AssertReset, BoundInv
  <1>7. CASE ReleaseReset
    <2>1. /\ ~axis_rst /\ taken' = taken /\ base' = base /\ rcvd' = rcvd
          /\ outq' = outq /\ unseen' = unseen
      BY <1>7 DEF ReleaseReset, hostVars
    <2>2. ASSUME NEW c \in Channels
          PROVE  Level(c)' = 0 /\ Accepted(c)' = 0 /\ Written(c)' = 0
      <3>1. taken[c] = base[c] /\ rcvd[c] = 0 /\ outq[c] = <<>> /\ unseen[c] = 0
            /\ base[c] \in Nat
        BY <2>1 DEF SafeInv, ResetInv, TypeOK
      <3> QED
        BY <2>1, <3>1 DEF Level, Accepted, Written
    <2> QED
      BY <1>0, <2>2 DEF BoundInv
  <1>8. CASE UNCHANGED vars
    BY <1>2, <1>8, LevelType DEF vars, Written, Level, SafeInv
  <1> QED
    BY <1>1, <1>3, <1>4, <1>5, <1>6, <1>7, <1>8 DEF Next

(***************************************************************************)
(* The invariant of the whole component.                                   *)
(***************************************************************************)

LEMMA InvInit == Init => IInv
  <1> SUFFICES ASSUME Init PROVE IInv
    OBVIOUS
  <1>1. SafeInv
    BY SafeInit
  <1>2. ~axis_rst /\ \A c \in Channels : outq[c] = <<>>
    BY DEF Init
  <1>3. PipeInv /\ BoundInv
    BY <1>2 DEF PipeInv, BoundInv
  <1>4. ResultsInOrder
    BY <1>2 DEF ResultsInOrder
  <1> QED
    BY <1>1, <1>3, <1>4 DEF IInv, SafeInv

LEMMA InvNext == IInv /\ [Next]_vars => IInv'
  <1> SUFFICES ASSUME IInv, [Next]_vars PROVE IInv'
    OBVIOUS
  <1>1. SafeInv /\ PipeInv /\ ResultsInOrder /\ BoundInv
    BY DEF IInv, SafeInv
  <1>2. SafeInv'
    BY <1>1, SafeNext
  <1>3. PipeInv' /\ ResultsInOrder' /\ BoundInv'
    BY <1>1, PipeNext, OrderNext, BoundNext
  <1> QED
    BY <1>2, <1>3 DEF IInv, SafeInv

\* The inductive invariant of VaddCdc.
THEOREM Invariance == Spec => []IInv
  BY InvInit, InvNext, PTL DEF Spec

\* Every result in an out-FIFO is the one its place in the stream calls for,
\* with tlast where the packet of the host ends: delay_inst and modmul stay in
\* step (vadd_cdc.sv:152-187, 349-370) across stalls and resets.
THEOREM ResultsAlwaysInOrder == Spec => []ResultsInOrder
  <1>1. IInv => ResultsInOrder
    BY DEF IInv
  <1> QED
    BY <1>1, Invariance, PTL

(***************************************************************************)
(* The card implements ModMulStream.                                       *)
(***************************************************************************)

LEMMA RefineInit == Init => Stream!Init
  BY DEF Init, Stream!Init, Channels, Stream!Channels

\* What the host side knows of the inside of the card.
LEMMA HostBounds ==
  ASSUME IInv, axis_rst, NEW c \in Channels
  PROVE  /\ base[c] \in Nat /\ sent[c] \in Nat /\ taken[c] \in Nat /\ rcvd[c] \in Nat
         /\ taken[c] <= sent[c] /\ sent[c] - taken[c] <= IN_FIFO_DEPTH
         /\ Written(c) = rcvd[c] + Len(outq[c]) /\ Len(outq[c]) \in Nat
         /\ Written(c) <= taken[c] - base[c]
         /\ PIPE_WIDTH = 1024 => taken[c] - base[c] = taken[0] - base[0]
         /\ taken[c] - base[c] - rcvd[c] <= FIFO_PROG_FULL + PIPELINE_LAT + PF_DELAY
  <1>1. TypeOK
    BY DEF IInv
  <1>2. /\ base[c] \in Nat /\ sent[c] \in Nat /\ taken[c] \in Nat /\ rcvd[c] \in Nat
        /\ Len(outq[c]) \in Nat /\ unseen[c] \in Nat
    BY <1>1, LevelType DEF TypeOK
  <1>3. taken[c] <= sent[c] /\ sent[c] - taken[c] <= IN_FIFO_DEPTH
    <2>1. CDC_SYNC_STAGES \in 1 .. CDC_SYNC_STAGES
      BY ConstantsAssumption
    <2>2. wr_sync[c][CDC_SYNC_STAGES] \in Nat
      BY <1>1, <2>1 DEF TypeOK
    <2>3. /\ taken[c] <= wr_sync[c][CDC_SYNC_STAGES]
          /\ wr_sync[c][CDC_SYNC_STAGES] <= sent[c]
          /\ sent[c] - taken[c] <= IN_FIFO_DEPTH
      BY <2>1 DEF IInv, PointerInv
    <2> QED
      BY <1>2, <2>2, <2>3
  <1>4. /\ Written(c) <= taken[c] - base[c]
        /\ PIPE_WIDTH = 1024 => taken[c] - base[c] = taken[0] - base[0]
    BY DEF IInv, PipeInv, Accepted
  <1>5. Level(c) + (taken[c] - base[c]) - Written(c)
          <= FIFO_PROG_FULL + PIPELINE_LAT + PF_DELAY
    BY DEF IInv, BoundInv, Accepted
  <1>6. PIPELINE_LAT \in Nat /\ PF_DELAY \in Nat /\ FIFO_PROG_FULL \in Int
    BY ConstantsAssumption DEF FIFO_PROG_FULL
  <1>7. taken[c] - base[c] - rcvd[c] <= FIFO_PROG_FULL + PIPELINE_LAT + PF_DELAY
    BY <1>2, <1>5, <1>6, SMTT(30) DEF Level, Written
  <1> QED
    BY <1>2, <1>3, <1>4, <1>7 DEF Written

\* A word enters an in-FIFO: the abstract Send.
LEMMA RefinePush ==
  ASSUME IInv, NEW c \in Channels, AxisPush(c)
  PROVE  Stream!Send(c)
  <1>1. axis_rst /\ sent[c] - taken[c] < IN_FIFO_DEPTH
    BY DEF AxisPush
  <1>2. /\ base[c] \in Nat /\ sent[c] \in Nat /\ taken[c] \in Nat /\ rcvd[c] \in Nat
        /\ taken[c] - base[c] - rcvd[c] <= FIFO_PROG_FULL + PIPELINE_LAT + PF_DELAY
    BY <1>1, HostBounds
  <1>3. /\ PIPELINE_LAT \in Nat /\ PF_DELAY \in Nat /\ FIFO_PROG_FULL \in Int
        /\ IN_FIFO_DEPTH \in Nat
    BY ConstantsAssumption DEF FIFO_PROG_FULL
  <1>4. sent[c] - base[c] - rcvd[c] < HostWords
    BY <1>1, <1>2, <1>3 DEF HostWords
  <1> QED
    BY <1>1, <1>4 DEF AxisPush, Stream!Send, rstVars

\* A word leaves an out-FIFO: the abstract Receive.
LEMMA RefinePop ==
  ASSUME IInv, NEW c \in Channels, AxisPop(c)
  PROVE  Stream!Receive(c)
  <1> DEFINE k == rcvd[c] + 1
  <1>1. axis_rst /\ outq[c] # <<>> /\ outq[c] \in Seq(Results) /\ rcvd[c] \in Nat
    BY LevelType, CountTypes DEF AxisPop, IInv
  <1>2. 1 \in 1 .. Len(outq[c]) /\ Head(outq[c]) = outq[c][1]
    BY <1>1
  <1>3. Head(outq[c]) = Expected(c, k)
    BY <1>2 DEF IInv, ResultsInOrder
  <1>4. (PIPE_WIDTH = 512 \/ PIPE_WIDTH = 1024) /\ (c = 0 \/ c = 1) /\ 0 \in Channels
    BY ConstantsAssumption DEF Channels
  <1>5. Expected(c, k) = [data |-> Stream!OperandsOf(c, k),
                          last |-> k % Stream!ResultPacket(c) = 0]
    <2>1. CASE PIPE_WIDTH = 512
      <3>1. PIPE_WIDTH # 1024
        BY <2>1
      <3> QED
        BY <2>1, <3>1 DEF Expected, ResultPacket, Stream!OperandsOf, Stream!ResultPacket
    <2>2. CASE PIPE_WIDTH = 1024
      <3>1. PIPE_WIDTH # 512
        BY <2>2
      <3> QED
        BY <1>4, <2>2, <3>1 DEF Expected, ResultPacket, Stream!OperandsOf, Stream!ResultPacket
    <2> QED
      BY <1>4, <2>1, <2>2
  <1>6. Stream!Computable(c, k)
    <2> SUFFICES ASSUME NEW d \in Channels, PIPE_WIDTH = 1024 \/ d = c
                 PROVE  base[d] + k <= sent[d]
      BY DEF Stream!Computable, Stream!Channels, Channels
    <2>1. k <= taken[c] - base[c]
      <3>1. /\ base[c] \in Nat /\ taken[c] \in Nat /\ Len(outq[c]) \in Nat
            /\ Written(c) = rcvd[c] + Len(outq[c]) /\ Written(c) <= taken[c] - base[c]
        BY <1>1, HostBounds
      <3> QED
        BY <1>1, <1>2, <3>1
    <2>2. taken[d] - base[d] = taken[c] - base[c]
      BY <1>1, HostBounds
    <2>3. /\ base[d] \in Nat /\ sent[d] \in Nat /\ taken[d] \in Nat
          /\ taken[d] <= sent[d] /\ base[c] \in Nat /\ taken[c] \in Nat
      BY <1>1, HostBounds
    <2> QED
      BY <1>1, <2>1, <2>2, <2>3, SMTT(30)
  <1>7. /\ rcvd' = [rcvd EXCEPT ![c] = k]
        /\ got' = [got EXCEPT ![c] = [data |-> Stream!OperandsOf(c, k),
                                      last |-> k % Stream!ResultPacket(c) = 0]]
        /\ UNCHANGED <<axis_rst, sent, base>>
    BY <1>3, <1>5 DEF AxisPop, rstVars
  <1> QED
    BY <1>1, <1>6, <1>7 DEF Stream!Receive

LEMMA RefineNext == IInv /\ [Next]_vars => [Stream!Next]_(Stream!vars)
  <1> SUFFICES ASSUME IInv, [Next]_vars PROVE [Stream!Next]_(Stream!vars)
    OBVIOUS
  <1>0. Stream!Channels = Channels
    BY DEF Channels, Stream!Channels
  <1>1. CASE RtlTick
    BY <1>1 DEF RtlTick, hostVars, Stream!vars
  <1>2. ASSUME NEW c \in Channels, AxisPush(c) PROVE Stream!Next
    BY <1>0, <1>2, RefinePush DEF Stream!Next
  <1>3. ASSUME NEW c \in Channels, AxisPop(c) PROVE Stream!Next
    BY <1>0, <1>3, RefinePop DEF Stream!Next
  <1>4. ASSUME NEW c \in Channels, SyncReadPointer(c) PROVE UNCHANGED Stream!vars
    BY <1>4 DEF SyncReadPointer, rstVars, hostVars, Stream!vars
  <1>5. CASE AssertReset
    BY <1>0, <1>5 DEF AssertReset, Stream!Next, Stream!Down
  <1>6. CASE ReleaseReset
    BY <1>6 DEF ReleaseReset, hostVars, Stream!Next, Stream!Up
  <1>7. CASE UNCHANGED vars
    BY <1>7 DEF vars, Stream!vars
  <1> QED
    BY <1>1, <1>2, <1>3, <1>4, <1>5, <1>6, <1>7 DEF Next

\* The card is the stream its host programs see: every channel returns, in order
\* and exactly once, the result of every word (pair of words) sent, and a reset
\* forgets what is inside and nothing else.
THEOREM Refinement == Spec => ImplementsStream
  BY Invariance, RefineInit, RefineNext, PTL DEF Spec, ImplementsStream, Stream!Spec

(***************************************************************************)
(* Every word is in exactly one place.                                     *)
(***************************************************************************)

\* The results of a channel in the pipeline are as many as were accepted and not
\* written: Place is a bijection between the two.
LEMMA InFlightCount ==
  ASSUME TypeOK, NEW c \in Channels, PipeInvOf(c)
  PROVE  Cardinality(InFlight(c)) = Accepted(c) - Written(c)
  <1> DEFINE Open == Written(c) + 1 .. Accepted(c)
             place == [i \in InFlight(c) |-> Place(c, i)]
  <1>0. PIPELINE_LAT \in Nat
    BY ConstantsAssumption
  <1>1. /\ Written(c) \in Nat /\ Accepted(c) \in Int /\ Written(c) <= Accepted(c)
        /\ \A i \in Stages : Place(c, i) \in Int /\ i \in Int
    BY <1>0, CountTypes DEF PipeInvOf, Stages
  <1>2. \A i \in InFlight(c) : i \in Stages /\ RoutedTo(ctl[i], c)
    BY DEF InFlight
  <1>3. ASSUME NEW i \in InFlight(c) PROVE Place(c, i) \in Open
    <2>1. Written(c) < Place(c, i) /\ Place(c, i) <= Accepted(c)
      BY <1>2, Zenon DEF PipeInvOf
    <2> QED
      BY <1>1, <1>2, <2>1
  <1>4. ASSUME NEW i \in InFlight(c), NEW j \in InFlight(c), i # j
        PROVE  Place(c, i) # Place(c, j)
    <2>1. (i < j => Place(c, j) < Place(c, i)) /\ (j < i => Place(c, i) < Place(c, j))
      BY <1>2, Zenon DEF PipeInvOf
    <2> QED
      BY <1>1, <1>2, <1>4, <2>1
  <1>5. \A n \in Open : \E i \in InFlight(c) : Place(c, i) = n
    BY DEF PipeInvOf, InFlight
  <1>6. place \in Bijection(InFlight(c), Open)
    <2>1. place \in [InFlight(c) -> Open]
      BY <1>3
    <2>2. IsInjective(place)
      BY <1>4 DEF IsInjective
    <2>3. \A n \in Open : \E i \in InFlight(c) : place[i] = n
      BY <1>5
    <2> QED
      BY <2>1, <2>2, <2>3 DEF Bijection, Injection, Surjection
  <1>7. IsFiniteSet(InFlight(c))
    <2>1. IsFiniteSet(Stages)
      BY <1>0, FS_Interval DEF Stages
    <2> QED
      BY <2>1, FS_Subset DEF InFlight
  <1>8. Cardinality(Open) = Cardinality(InFlight(c))
    BY <1>6, <1>7, FS_Bijection DEF ExistsBijection
  <1>9. Cardinality(Open) = Accepted(c) - Written(c)
    <2>1. Written(c) + 1 \in Int
      BY <1>1
    <2>2. Cardinality(Open) = IF Written(c) + 1 > Accepted(c)
                                THEN 0 ELSE Accepted(c) - (Written(c) + 1) + 1
      BY <1>1, <2>1, FS_Interval
    <2> QED
      BY <1>1, <2>2
  <1> QED
    BY <1>8, <1>9

\* No word of the stream is lost or duplicated between the in-FIFO's read pointer
\* and the host: it is in the pipeline, in the out-FIFO, or received.
THEOREM EveryWordAccounted == Spec => []WordsAccounted
  <1>1. ASSUME IInv, axis_rst, NEW c \in Channels
        PROVE  taken[c] - base[c] = Cardinality(InFlight(c)) + Len(outq[c]) + rcvd[c]
    <2>1. TypeOK /\ PipeInvOf(c)
      BY <1>1, PipeInvByChannel DEF IInv
    <2>2. Cardinality(InFlight(c)) = Accepted(c) - Written(c)
      BY <2>1, InFlightCount
    <2>3. /\ taken[c] \in Nat /\ base[c] \in Nat /\ rcvd[c] \in Nat
          /\ Len(outq[c]) \in Nat
      BY <2>1, CountTypes
    <2> QED
      BY <2>2, <2>3 DEF Accepted, Written
  <1>2. IInv => WordsAccounted
    BY <1>1 DEF WordsAccounted
  <1> QED
    BY <1>2, Invariance, PTL
=============================================================================
