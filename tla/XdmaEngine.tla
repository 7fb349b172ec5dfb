----------------------------- MODULE XdmaEngine -----------------------------
(***************************************************************************)
(* One DMA engine of the card under the XDMA driver, interrupt mode:       *)
(* fpga_template_u280/sw/dma/dma_ip_drivers/XDMA/linux-kernel/xdma,        *)
(* libxdma.c with the calls cdev_sgdma.c makes into it.                    *)
(*                                                                         *)
(* A read() or write() becomes a request: its pages are cut into           *)
(* descriptors, which go, a transfer at a time, into a ring that the       *)
(* engine reads from memory.  The caller sleeps until the service routine  *)
(* has marked its transfer, until a signal, or for ten seconds.  An        *)
(* asynchronous request queues its transfers and leaves; the service       *)
(* routine completes it.  The interrupt handler only masks the engine and  *)
(* queues the service routine, which may run much later; a PCI reset may   *)
(* come between any two steps.                                             *)
(*                                                                         *)
(* A step is what one thread does under one hold of engine->lock.  The     *)
(* service routine reads two registers of a card that runs meanwhile, so   *)
(* it takes two steps and holds the lock between them.  The card itself    *)
(* (Hw...) is external: it is modelled from what the driver relies on.     *)
(***************************************************************************)
EXTENDS Integers, Sequences, FiniteSets, SequencesExt, FiniteSetsExt

CONSTANTS
  Reqs,           \* the requests
  Configs,        \* the settings under which a behaviour may run
  DescMax,        \* slots of the descriptor ring (engine->desc_max)
  desc_blen_max,  \* the longest descriptor
  CountMod,       \* 2^width of the descriptor counters
  None

\* A setting: are the requests asynchronous, is the engine a card-to-host
\* stream, the lengths of the descriptors of each request (req->sdesc), the
\* slot at which earlier requests have left desc_idx, and what may go wrong:
\* "signal" (the caller is interrupted), "error" (the card reports one),
\* "stall" (the card may stop moving data), "busy" (BUSY falls late, as on
\* the older hardware engine_err_handle mentions), "stray" (the last piece of
\* an aborted run raises its status in the next), "reset" (a PCI reset).
Faults == {"signal", "error", "stall", "busy", "stray", "reset"}

ASSUME ConfigsAssumption ==
  /\ DescMax \in Nat \ {0} /\ desc_blen_max \in Nat \ {0}
  /\ None \notin Reqs
  /\ CountMod \in Nat /\ CountMod > DescMax
  /\ \A c \in Configs :
       /\ c.async \in BOOLEAN /\ c.stream \in BOOLEAN /\ c.faults \subseteq Faults
       /\ c.start \in 0 .. DescMax - 1
       /\ c.sdesc \in [Reqs -> Seq(1 .. desc_blen_max)]
       /\ \A r \in Reqs : c.sdesc[r] # <<>>

Slots   == 0 .. DescMax - 1
Null    == -1                      \* the next pointer of a last descriptor
Pending == 1000000                 \* no return value yet
EBUSY   == -1
EIO     == -2
ERESTARTSYS == -3

VARIABLES
  cfg,       \* the setting, one of Configs
  call,      \* what the caller of each request is doing
  xfer,      \* req->tfer[2] of each request
  desc_lock, \* the request that holds the mutex, or None
  engine,    \* running, shutdown, desc_idx, desc_used, desc_dequeued
  list,      \* engine->transfer_list
  ring,      \* the descriptors in memory
  result,    \* lengths the card writes back (card-to-host streams)
  work,      \* the bottom half: pending, and where it is
  dev,       \* XDEV_FLAG_OFFLINE, and where the reset thread is
  hw,        \* the engine on the card
  irq,       \* engine interrupt enabled, handler installed
  moved,     \* lengths of the pieces moved for each request, in order
  late       \* a piece of the request was moved after its return

hostVars == <<call, xfer, desc_lock, engine, list, ring, work, dev>>
vars == <<cfg, hostVars, result, hw, irq, moved, late>>

(***************************************************************************)
(* Requests, transfers, descriptors                                        *)
(***************************************************************************)

\* A descriptor that xdma_desc_done has cleared, and a transfer not yet built.
Zeroed == [req |-> None, len |-> 0, last |-> FALSE, next |-> Null, res |-> Null]
NoXfer == [state |-> "NEW", first |-> 0, num |-> 0, len |-> 0, cmpl |-> 0,
           lastInReq |-> FALSE]

Min2(a, b) == IF a < b THEN a ELSE b
SlotsOf(x) == x.first .. x.first + x.num - 1
Xfer(t)    == xfer[t[1]][t[2]]

\* transfer_destroy, and the descriptors it gives back
Cleared(rg, S) == [s \in Slots |-> IF s \in S THEN Zeroed ELSE rg[s]]

\* Wrong: the descriptors of a request stay accounted as used.
GivenBackNever(e, n) == e

GivenBack(e, n) == [e EXCEPT !.desc_used = @ - n]

\* Wrong: the length asked for is returned, not the length the stream had.
DataAskedFor(x, n) == x.len

\* What a COMPLETED transfer adds to the call: the lengths the card wrote
\* back for its first n descriptors, or the transfer's own length.
DataOf(x, n) ==
  IF cfg.stream THEN MapThenSumSet(LAMBDA s : result[s], x.first .. x.first + n - 1)
                ELSE x.len

\* The lock is held between the two register reads of the service routine.
LockFree == work.at = "idle"

(***************************************************************************)
(* Starting and stopping the engine                                        *)
(***************************************************************************)

\* Wrong: the count of the last run is carried over.
StartedKeepingCount(e) == [e EXCEPT !.running = TRUE, !.shutdown = {}]

\* engine_start, on the driver's side and on the card's: the run bit rises,
\* the card forgets its count and will fetch from the given slot.  A piece
\* still on its way from before is no part of the new run.
Started(e)     == [e EXCEPT !.running = TRUE, !.shutdown = {}, !.desc_dequeued = 0]
HwStarted(h, slot) == [h EXCEPT !.run = TRUE, !.busy = TRUE, !.next = slot,
                                !.count = 0, !.old = h.desc # Zeroed]

\* xdma_engine_stop
Stopped(e)   == [e EXCEPT !.running = FALSE]
HwStopped(h) == [h EXCEPT !.run = FALSE]

Card == [run |-> FALSE, busy |-> FALSE, next |-> Null, desc |-> Zeroed,
         old |-> FALSE, count |-> 0, stop |-> FALSE, err |-> FALSE]

Init ==
  /\ cfg \in Configs
  /\ call = [r \in Reqs |-> [pc |-> "idle", idx |-> 0, k |-> 0, done |-> 0,
                             rv |-> 0, ret |-> Pending]]
  /\ xfer = [r \in Reqs |-> [k \in 0 .. 1 |-> NoXfer]]
  /\ desc_lock = None
  /\ engine = [running |-> FALSE, shutdown |-> {}, desc_idx |-> cfg.start,
               desc_used |-> 0, desc_dequeued |-> 0]
  /\ list = <<>>
  /\ ring = [s \in Slots |-> Zeroed]
  /\ result = [s \in Slots |-> 0]
  /\ work = [pending |-> FALSE, at |-> "idle", err |-> FALSE]
  /\ dev = [offline |-> FALSE, pc |-> "up"]
  /\ hw = Card
  /\ irq = [enabled |-> TRUE, handler |-> TRUE]
  /\ moved = [r \in Reqs |-> <<>>]
  /\ late = [r \in Reqs |-> FALSE]

ghostVars == <<moved, late>>

(***************************************************************************)
(* The caller: xdma_xfer_submit, xdma_xfer_submit_nowait                   *)
(***************************************************************************)

\* The call returns: the data it counts, or else the error.
Return(r, done, rv) ==
  /\ call' = [call EXCEPT ![r].pc = "done", ![r].done = done,
                          ![r].ret = IF done > 0 THEN done ELSE rv]
  /\ desc_lock' = IF desc_lock = r THEN None ELSE desc_lock

\* The call begins; an asynchronous one takes no mutex.
Submit(r) ==
  /\ call[r].pc = "idle"
  /\ IF dev.offline
       THEN Return(r, 0, EBUSY)
       ELSE /\ call' = [call EXCEPT ![r].pc = IF cfg.async THEN "init" ELSE "mutex"]
            /\ UNCHANGED desc_lock
  /\ UNCHANGED <<cfg, xfer, engine, list, ring, result, work, dev, hw, irq, ghostVars>>

LockDescs(r) ==
  /\ call[r].pc = "mutex"
  /\ desc_lock = None
  /\ desc_lock' = r
  /\ call' = [call EXCEPT ![r].pc = "init"]
  /\ UNCHANGED <<cfg, xfer, engine, list, ring, result, work, dev, hw, irq, ghostVars>>

\* Wrong: a transfer runs past the end of the ring.
RoomBeyondEnd(first, want) == want

\* Slots a transfer takes that begins at slot first and wants this many: the
\* ring is not wrapped within a transfer.
Room(first, want) == IF first + want >= DescMax THEN DescMax - first ELSE want

\* transfer_init: the next descriptors of the request, up to the end of the
\* ring, are written into it; the last of them stops the engine.
TransferInit(r) ==
  LET c     == call[r]
      sw    == cfg.sdesc[r]
      first == engine.desc_idx
      num   == Room(first, Min2(Len(sw) - c.idx, DescMax))
      mine  == first .. first + num - 1
      piece(s) == sw[c.idx + 1 + s - first]
  IN
  /\ c.pc = "init"
  /\ LockFree
  /\ xfer' = [xfer EXCEPT ![r][c.k] =
       [state |-> "NEW", first |-> first, num |-> num, cmpl |-> 0,
        len |-> MapThenSumSet(piece, mine), lastInReq |-> c.idx + num = Len(sw)]]
  /\ ring' = [s \in Slots |->
       IF s \in mine
         THEN [req |-> r, len |-> piece(s), last |-> s = first + num - 1,
               next |-> IF s = first + num - 1 THEN Null ELSE s + 1, res |-> s]
         ELSE ring[s]]
  /\ result' = [s \in Slots |-> IF cfg.stream /\ s \in mine THEN 0 ELSE result[s]]
  /\ engine' = [engine EXCEPT !.desc_idx = (first + num) % DescMax,
                              !.desc_used = @ + num]
  /\ call' = [call EXCEPT ![r].pc = "check", ![r].idx = @ + num]
  /\ UNCHANGED <<cfg, desc_lock, list, work, dev, hw, irq, ghostVars>>

\* transfer_queue looks at the flag before it takes the lock.
CheckOnline(r) ==
  /\ call[r].pc = "check"
  /\ IF dev.offline
       THEN Return(r, call[r].done, EBUSY)
       ELSE /\ call' = [call EXCEPT ![r].pc = "queue"]
            /\ UNCHANGED desc_lock
  /\ UNCHANGED <<cfg, xfer, engine, list, ring, result, work, dev, hw, irq, ghostVars>>

RefuseTransfer(r) ==
  /\ call[r].pc = "queue"
  /\ LockFree
  /\ "REQUEST" \in engine.shutdown
  /\ Return(r, call[r].done, EBUSY)
  /\ UNCHANGED <<cfg, xfer, engine, list, ring, result, work, dev, hw, irq, ghostVars>>

\* The transfer joins the list; an idle engine is started on the list's head.
TransferQueue(r) ==
  LET c == call[r]
      l == Append(list, <<r, c.k>>)
  IN
  /\ c.pc = "queue"
  /\ LockFree
  /\ "REQUEST" \notin engine.shutdown
  /\ xfer' = [xfer EXCEPT ![r][c.k].state = "SUBMITTED"]
  /\ list' = l
  /\ IF engine.running
       THEN UNCHANGED <<engine, hw>>
       ELSE /\ engine' = Started(engine)
            /\ hw' = HwStarted(hw, Xfer(Head(l)).first)
  /\ call' = [call EXCEPT
       ![r].pc = IF ~cfg.async THEN "wait"
                 ELSE IF Xfer(<<r, c.k>>).lastInReq THEN "queued" ELSE "init",
       ![r].k  = IF cfg.async THEN @ + 1 ELSE @]
  /\ UNCHANGED <<cfg, desc_lock, ring, result, work, dev, irq, ghostVars>>

\* Ten seconds are longer than the card takes when it moves data at all, and
\* than an interrupt and the work it queues are under way.
Quiet ==
  /\ ~work.pending /\ LockFree
  /\ ~(irq.enabled /\ irq.handler /\ (hw.stop \/ hw.err))
  /\ hw.busy => "stall" \in cfg.faults

\* The sleep ends because the transfer is no longer SUBMITTED, because of a
\* signal, or by the timeout.
Wake(r) ==
  /\ call[r].pc = "wait"
  /\ xfer[r][0].state # "SUBMITTED" \/ "signal" \in cfg.faults \/ Quiet
  /\ call' = [call EXCEPT ![r].pc = "claim"]
  /\ UNCHANGED <<cfg, xfer, desc_lock, engine, list, ring, result, work, dev, hw, irq, ghostVars>>

ClaimCompleted(r) ==
  /\ call[r].pc = "claim" /\ LockFree
  /\ xfer[r][0].state = "COMPLETED"
  /\ call' = [call EXCEPT ![r].pc = "free", ![r].rv = 0,
                          ![r].done = @ + DataOf(xfer[r][0], xfer[r][0].cmpl)]
  /\ UNCHANGED <<cfg, xfer, desc_lock, engine, list, ring, result, work, dev, hw, irq, ghostVars>>

ClaimFailed(r) ==
  /\ call[r].pc = "claim" /\ LockFree
  /\ xfer[r][0].state = "FAILED"
  /\ call' = [call EXCEPT ![r].pc = "free", ![r].rv = EIO]
  /\ UNCHANGED <<cfg, xfer, desc_lock, engine, list, ring, result, work, dev, hw, irq, ghostVars>>

\* Wrong: an aborted transfer stays on the list.
ListAsItIs(t) == list

\* transfer_abort takes the transfer off the list if it is its head.
WithoutHead(t) == IF list # <<>> /\ Head(list) = t THEN Tail(list) ELSE list

\* The call has lost patience: the transfer is taken off the list and the
\* engine is stopped, without waiting for it to become idle.
ClaimAborted(r) ==
  /\ call[r].pc = "claim" /\ LockFree
  /\ xfer[r][0].state = "SUBMITTED"
  /\ list' = WithoutHead(<<r, 0>>)
  /\ xfer' = [xfer EXCEPT ![r][0].state = "ABORTED"]
  /\ engine' = Stopped(engine)
  /\ hw' = HwStopped(hw)
  /\ call' = [call EXCEPT ![r].pc = "free", ![r].rv = ERESTARTSYS]
  /\ UNCHANGED <<cfg, desc_lock, ring, result, work, dev, irq, ghostVars>>

\* The descriptors are given back, and the loop goes on or the call returns.
Release(r) ==
  LET c == call[r]
      x == xfer[r][0]
  IN
  /\ c.pc = "free"
  /\ engine' = GivenBack(engine, x.num)
  /\ ring' = Cleared(ring, SlotsOf(x))
  /\ IF c.rv < 0 \/ x.lastInReq
       THEN Return(r, c.done, c.rv)
       ELSE /\ call' = [call EXCEPT ![r].pc = "init"]
            /\ UNCHANGED desc_lock
  /\ UNCHANGED <<cfg, xfer, list, result, work, dev, hw, irq, ghostVars>>

Caller(r) ==
  \/ Submit(r) \/ LockDescs(r) \/ TransferInit(r)
  \/ CheckOnline(r) \/ RefuseTransfer(r) \/ TransferQueue(r)
  \/ Wake(r) \/ ClaimCompleted(r) \/ ClaimFailed(r) \/ ClaimAborted(r)
  \/ Release(r)

(***************************************************************************)
(* The interrupt handler and the service routine                           *)
(***************************************************************************)

\* xdma_channel_irq: the engine's interrupt is masked, the work is queued.
Interrupt ==
  /\ irq.enabled /\ irq.handler
  /\ hw.stop \/ hw.err
  /\ irq' = [irq EXCEPT !.enabled = FALSE]
  /\ work' = [work EXCEPT !.pending = TRUE]
  /\ UNCHANGED <<cfg, call, xfer, desc_lock, engine, list, ring, result, dev, hw, ghostVars>>

\* engine_service on an engine that the driver has stopped: the status is
\* cleared and nothing else is done.
ServiceStopped ==
  /\ work.pending /\ work.at = "idle"
  /\ ~engine.running
  /\ work' = [work EXCEPT !.pending = FALSE]
  /\ hw' = [hw EXCEPT !.stop = FALSE, !.err = FALSE]
  /\ irq' = [irq EXCEPT !.enabled = TRUE]
  /\ UNCHANGED <<cfg, call, xfer, desc_lock, engine, list, ring, result, dev, ghostVars>>

\* engine_service, the first register: the status is read and cleared, and an
\* engine that is no longer busy is shut down.
ServiceStatus ==
  /\ work.pending /\ work.at = "idle"
  /\ engine.running
  /\ work' = [pending |-> FALSE, at |-> "count", err |-> hw.err]
  /\ engine' = IF hw.busy THEN engine ELSE Stopped(engine)
  /\ hw' = [hw EXCEPT !.stop = FALSE, !.err = FALSE, !.run = @ /\ hw.busy]
  /\ UNCHANGED <<cfg, call, xfer, desc_lock, list, ring, result, dev, irq, ghostVars>>

\* engine_service, the second register: the count.  Without a completed
\* descriptor there is nothing more to do.
ServiceNothing ==
  /\ work.at = "count"
  /\ hw.count = 0
  /\ work' = [work EXCEPT !.at = "idle"]
  /\ irq' = [irq EXCEPT !.enabled = TRUE]
  /\ UNCHANGED <<cfg, call, xfer, desc_lock, engine, list, ring, result, dev, hw, ghostVars>>

\* Descriptors of the first i transfers of the list.
DescsOf(i) == MapThenSumSet(LAMBDA j : Xfer(list[j]).num, 1 .. i)

\* Wrong: the transfer the engine has just ended on counts as gone past.
PastTooEarly(left) == {i \in 1 .. Len(list) : left >= DescsOf(i)}

\* Transfers of the list that the count has gone past.
Past(left) == {i \in 1 .. Len(list) : left > DescsOf(i)}

\* Wrong: a transfer whose count is exactly its length has stopped half-way.
FinalStateShort(x, n) ==
  IF work.err \/ n <= x.num THEN [x EXCEPT !.state = "FAILED", !.cmpl = n]
                            ELSE [x EXCEPT !.state = "COMPLETED", !.cmpl = x.num]

\* What engine_service_final_transfer makes of the transfer the engine has
\* come to, when the card has completed n descriptors of it.
FinalState(x, n) ==
  IF work.err         THEN [x EXCEPT !.state = "FAILED"]
  ELSE IF n < x.num   THEN [x EXCEPT !.state = "FAILED", !.cmpl = n]
                      ELSE [x EXCEPT !.state = "COMPLETED", !.cmpl = x.num]

\* xdma_xfer_completion: the transfers of request r that are accounted for,
\* up to the first that has failed.
Accounted(xf, r) ==
  {k \in 0 .. 1 : /\ k < call[r].k
                  /\ k = 1 => xf[r][0].state = "COMPLETED"}

AsyncDone(xf, r) ==
  MapThenSumSet(LAMBDA k : IF xf[r][k].state = "COMPLETED"
                             THEN DataOf(xf[r][k], xf[r][k].num) ELSE 0,
                Accounted(xf, r))

\* Wrong: a stopped engine is left alone although transfers wait for it.
ResumedNever(e, h, l, xf) ==
  IF e.running /\ l = <<>> THEN <<Stopped(e), HwStopped(h)>> ELSE <<e, h>>

\* engine_service_resume: restart an engine that has stopped on the transfer
\* now at the head, stop one that has nothing left.
Resumed(e, h, l, xf) ==
  IF ~e.running
    THEN IF l # <<>>
           THEN <<Started(e), HwStarted(h, xf[Head(l)[1]][Head(l)[2]].first)>>
           ELSE <<[e EXCEPT !.shutdown =
                     IF "REQUEST" \in @ THEN @ \cup {"IDLE"} ELSE @], h>>
    ELSE IF l = <<>> THEN <<Stopped(e), HwStopped(h)>> ELSE <<e, h>>

\* engine_service_transfer_list takes the transfers the count has gone past
\* off the list, engine_service_final_transfer the one after them; those that
\* are the last of an asynchronous request complete it on the spot.
ServiceTransfers ==
  LET left  == (hw.count - engine.desc_dequeued) % CountMod
      p     == Cardinality(Past(left))
      final == p < Len(list)
      q     == IF final THEN p + 1 ELSE p
      off   == {list[i] : i \in 1 .. q}
      n     == left - DescsOf(p)
      xf    == [r \in Reqs |-> [k \in 0 .. 1 |->
                 CASE <<r, k>> \notin off -> xfer[r][k]
                   [] final /\ list[q] = <<r, k>> -> FinalState(xfer[r][k], n)
                   [] OTHER -> [xfer[r][k] EXCEPT !.state = "COMPLETED"]]]
      failed == final /\ work.err
      ended == {r \in Reqs : cfg.async /\
                  \E k \in 0 .. 1 : <<r, k>> \in off /\ xfer[r][k].lastInReq}
      freed == UNION {{xf[r][k] : k \in Accounted(xf, r)} : r \in ended}
      e     == [GivenBack(engine, MapThenSumSet(LAMBDA x : x.num, freed)) EXCEPT
                 !.running = @ /\ ~failed,
                 !.desc_dequeued = @ + DescsOf(IF failed THEN p ELSE q)]
      h     == IF failed THEN HwStopped(hw) ELSE hw
      l     == SubSeq(list, q + 1, Len(list))
      r     == Resumed(e, h, l, xf)
  IN
  /\ work.at = "count"
  /\ hw.count # 0
  /\ xfer' = xf
  /\ list' = l
  /\ engine' = r[1]
  /\ hw' = r[2]
  /\ ring' = Cleared(ring, UNION {SlotsOf(x) : x \in freed})
  /\ call' = [c \in Reqs |->
       IF c \in ended THEN [call[c] EXCEPT !.pc = "done", !.ret = AsyncDone(xf, c)]
                      ELSE call[c]]
  /\ work' = [work EXCEPT !.at = "idle"]
  /\ irq' = [irq EXCEPT !.enabled = TRUE]
  /\ UNCHANGED <<cfg, desc_lock, result, dev, ghostVars>>

Service == ServiceStopped \/ ServiceStatus \/ ServiceNothing \/ ServiceTransfers

(***************************************************************************)
(* A PCI reset: xdma_device_offline, the reset, xdma_device_online         *)
(***************************************************************************)

OfflineFlag ==
  /\ "reset" \in cfg.faults
  /\ dev.pc = "up"
  /\ dev' = [offline |-> TRUE, pc |-> "stop"]
  /\ UNCHANGED <<cfg, call, xfer, desc_lock, engine, list, ring, result, work, hw, irq, ghostVars>>

OfflineStop ==
  /\ dev.pc = "stop" /\ LockFree
  /\ engine' = [Stopped(engine) EXCEPT !.shutdown = @ \cup {"REQUEST"}]
  /\ hw' = HwStopped(hw)
  /\ dev' = [dev EXCEPT !.pc = "irq"]
  /\ UNCHANGED <<cfg, call, xfer, desc_lock, list, ring, result, work, irq, ghostVars>>

OfflineIrq ==
  /\ dev.pc = "irq"
  /\ irq' = [irq EXCEPT !.handler = FALSE]
  /\ dev' = [dev EXCEPT !.pc = "reset"]
  /\ UNCHANGED <<cfg, call, xfer, desc_lock, engine, list, ring, result, work, hw, ghostVars>>

\* The PCI core resets the function: its registers, its interrupt mask and
\* whatever was on its way are gone.  (External.)
ResetCard ==
  /\ dev.pc = "reset"
  /\ hw' = Card
  /\ irq' = [irq EXCEPT !.enabled = FALSE]
  /\ dev' = [dev EXCEPT !.pc = "regs"]
  /\ UNCHANGED <<cfg, call, xfer, desc_lock, engine, list, ring, result, work, ghostVars>>

\* engine_init_regs
OnlineRegs ==
  /\ dev.pc = "regs"
  /\ irq' = [irq EXCEPT !.enabled = TRUE]
  /\ dev' = [dev EXCEPT !.pc = "accept"]
  /\ UNCHANGED <<cfg, call, xfer, desc_lock, engine, list, ring, result, work, hw, ghostVars>>

OnlineAccept ==
  /\ dev.pc = "accept" /\ LockFree
  /\ engine' = [engine EXCEPT !.shutdown = @ \ {"REQUEST"}]
  /\ dev' = [dev EXCEPT !.pc = "setup"]
  /\ UNCHANGED <<cfg, call, xfer, desc_lock, list, ring, result, work, hw, irq, ghostVars>>

OnlineIrq ==
  /\ dev.pc = "setup"
  /\ irq' = [irq EXCEPT !.handler = TRUE]
  /\ dev' = [dev EXCEPT !.pc = "clear"]
  /\ UNCHANGED <<cfg, call, xfer, desc_lock, engine, list, ring, result, work, hw, ghostVars>>

OnlineFlag ==
  /\ dev.pc = "clear"
  /\ dev' = [offline |-> FALSE, pc |-> "over"]
  /\ UNCHANGED <<cfg, call, xfer, desc_lock, engine, list, ring, result, work, hw, irq, ghostVars>>

Recovery == \/ OfflineStop \/ OfflineIrq \/ ResetCard \/ OnlineRegs
            \/ OnlineAccept \/ OnlineIrq \/ OnlineFlag

(***************************************************************************)
(* The engine on the card (external)                                       *)
(***************************************************************************)

\* A running engine fetches the next descriptor; a cleared one has no magic
\* number and stops it with an error.
HwFetch ==
  /\ hw.run /\ hw.busy /\ hw.desc = Zeroed /\ hw.next # Null
  /\ hw' = IF ring[hw.next] = Zeroed
             THEN [hw EXCEPT !.err = TRUE, !.busy = FALSE]
             ELSE [hw EXCEPT !.desc = ring[hw.next], !.next = ring[hw.next].next]
  /\ UNCHANGED <<cfg, hostVars, result, irq, ghostVars>>

\* The piece a descriptor describes is moved (a card-to-host stream may end
\* its packet early) and its completion is written back.  The last descriptor
\* of a transfer stops the engine.
HwMove ==
  LET d == hw.desc IN
  /\ d # Zeroed
  /\ \E len \in IF cfg.stream THEN 1 .. d.len ELSE {d.len} :
       /\ moved' = [moved EXCEPT ![d.req] = Append(@, len)]
       /\ result' = IF cfg.stream THEN [result EXCEPT ![d.res] = len] ELSE result
  /\ late' = [late EXCEPT ![d.req] = call[d.req].ret # Pending]
  /\ hw' = [hw EXCEPT
              !.desc = Zeroed, !.old = FALSE,
              !.count = IF hw.old THEN @ ELSE (@ + 1) % CountMod,
              !.stop = @ \/ (d.last /\ (hw.old => "stray" \in cfg.faults)),
              !.busy = hw.old \/ (IF d.last THEN "busy" \in cfg.faults ELSE hw.run)]
  /\ UNCHANGED <<cfg, hostVars, irq>>

HwIdle ==
  /\ hw.busy /\ hw.desc = Zeroed
  /\ ~hw.run \/ hw.next = Null
  /\ hw' = [hw EXCEPT !.busy = FALSE]
  /\ UNCHANGED <<cfg, hostVars, result, irq, ghostVars>>

HwError ==
  /\ "error" \in cfg.faults
  /\ hw.desc # Zeroed
  /\ hw' = [hw EXCEPT !.err = TRUE, !.busy = FALSE, !.desc = Zeroed, !.old = FALSE]
  /\ UNCHANGED <<cfg, hostVars, result, irq, ghostVars>>

CardStep == HwFetch \/ HwMove \/ HwIdle

Next ==
  \/ \E r \in Reqs : Caller(r)
  \/ Interrupt \/ Service
  \/ OfflineFlag \/ Recovery
  \/ CardStep \/ HwError

Spec == Init /\ [][Next]_vars

\* The kernel runs every thread that can run, a queued work item and an
\* interrupt; a sleeping call is woken, in the end, by its timeout.
\* The card moves data unless it has stalled.
Fairness ==
  /\ \A r \in Reqs : WF_vars(Caller(r))
  /\ WF_vars(Interrupt) /\ WF_vars(Service) /\ WF_vars(Recovery)
  /\ WF_vars("stall" \notin cfg.faults /\ CardStep)

FairSpec == Spec /\ Fairness

(***************************************************************************)
(* Properties                                                              *)
(***************************************************************************)

XferStates == {"NEW", "SUBMITTED", "COMPLETED", "FAILED", "ABORTED"}
Desc == [req : Reqs, len : 1 .. desc_blen_max, last : BOOLEAN,
         next : Slots \cup {Null}, res : Slots] \cup {Zeroed}

\* The values every variable ranges over (libxdma.h:256-268, 466-556).
TypeOK ==
  /\ cfg \in Configs
  /\ \A r \in Reqs :
       /\ call[r].pc \in {"idle", "mutex", "init", "check", "queue", "wait",
                          "claim", "free", "queued", "done"}
       /\ call[r].k \in 0 .. 2
       /\ \A k \in 0 .. 1 : /\ xfer[r][k].state \in XferStates
                            /\ xfer[r][k].cmpl \in 0 .. xfer[r][k].num
                            /\ xfer[r][k].first + xfer[r][k].num <= DescMax
  /\ desc_lock \in Reqs \cup {None}
  /\ engine.running \in BOOLEAN
  /\ engine.shutdown \subseteq {"REQUEST", "IDLE"}
  /\ engine.desc_idx \in Slots
  /\ list \in Seq(Reqs \X (0 .. 1))
  /\ \A s \in Slots : ring[s] \in Desc
  /\ work \in [pending : BOOLEAN, at : {"idle", "count"}, err : BOOLEAN]
  /\ hw.desc \in Desc /\ hw.count \in 0 .. CountMod - 1

\* No transfer is on the engine's list that its call has given up, given back
\* or not queued: the list of the transfers not completed (libxdma.h:435)
\* never outlives the request that holds them (transfer_abort,
\* engine_service_transfer_list, engine_service_final_transfer).
ListIsOfOpenCalls ==
  \A i \in 1 .. Len(list) :
    LET r == list[i][1] IN
    /\ Xfer(list[i]).state = "SUBMITTED"
    /\ call[r].pc \in IF cfg.async THEN {"init", "check", "queue", "queued"}
                                   ELSE {"wait", "claim"}
    /\ \A j \in 1 .. i - 1 : list[j] # list[i]

\* Pieces of request r up to the end of its transfer k.
UpTo(r, k) ==
  IF cfg.async THEN xfer[r][0].num + (IF k = 1 THEN xfer[r][1].num ELSE 0)
               ELSE call[r].idx

\* A transfer is marked COMPLETED only when the card has moved the whole of it:
\* the count the service routine reads belongs to this run and to this transfer,
\* however late the routine runs (engine_service, engine_start).
CompletedIsMoved ==
  \A r \in Reqs : \A k \in 0 .. 1 :
    xfer[r][k].state = "COMPLETED" => Len(moved[r]) >= UpTo(r, k)

\* Transfer k of request r holds descriptors of the ring.
Holds(r, k) ==
  /\ call[r].pc \notin {"idle", "mutex", "done"}
  /\ IF cfg.async THEN k < call[r].k \/ (k = call[r].k /\ call[r].pc # "init")
                  ELSE k = 0 /\ call[r].pc # "init"

\* Without a reset, desc_used is the number of descriptors in use, and no two
\* transfers hold the same slot (transfer_init, xdma_xfer_submit,
\* xdma_xfer_completion; a call refused during a reset leaks its descriptors).
DescriptorsAccounted ==
  LET held == {t \in Reqs \X (0 .. 1) : Holds(t[1], t[2])} IN
  /\ "reset" \notin cfg.faults =>
       engine.desc_used = MapThenSumSet(LAMBDA t : Xfer(t).num, held)
  /\ \A t, u \in held : t # u => SlotsOf(Xfer(t)) \cap SlotsOf(Xfer(u)) = {}

\* When nothing disturbs them, calls return all of their data: a transfer
\* queued while the engine runs, or while BUSY falls late, is not lost, cut
\* short or failed (engine_service, engine_service_resume).  Of asynchronous requests
\* this is said, and run, only where BUSY falls in time: behind a late one their
\* queued transfers may be started by nobody (libxdma.c:2504).
UndisturbedCallsComplete ==
  \A r \in Reqs :
    call[r].pc = "done" /\ cfg.faults \subseteq {"busy"} =>
      /\ Len(moved[r]) = Len(cfg.sdesc[r])
      /\ call[r].ret = MapThenSumSet(LAMBDA i : moved[r][i], 1 .. Len(moved[r]))

\* As long as no call is given up, a transfer fails only because the card reports
\* an error or the engine has stopped on it (engine_service_final_transfer: "the
\* engine stopped on current transfer?", "stopped half-way").  After a call that
\* was given up, the service routine may come late and find the next transfer on
\* its way.
FailureIsReal ==
  [][cfg.faults \subseteq {"busy", "error"} =>
       \A r \in Reqs, k \in 0 .. 1 :
         xfer[r][k].state # "FAILED" /\ xfer'[r][k].state = "FAILED"
           => work.err \/ ~hw.busy]_vars

\* Every call returns: no interrupt is lost, no transfer is left on the list of
\* an engine that nobody will start, and the mutex and the masked interrupt are
\* given back on every path.  Asynchronous requests, which have no timeout, are run
\* without faults only; synchronous ones with all of them.
EveryCallReturns == \A r \in Reqs : <>(call[r].pc = "done")

\* The engine and its driver are an implementation of DmaCalls.
Calls == INSTANCE DmaCalls WITH
  Sizes  <- Nat \ {0},
  MaxLen <- desc_blen_max,
  pieces <- [r \in Reqs |-> Len(cfg.sdesc[r])],
  ret    <- [r \in Reqs |-> call[r].ret]
ImplementsCalls == Calls!Spec
=============================================================================
