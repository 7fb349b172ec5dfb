# A verification development for the LogJumps modular multiplier and its FPGA shell

The repository holds a pipelined modular multiplier in SystemVerilog
(`logjumps-hw/`: D = A·B·R⁻¹ mod q, one product per clock), the template that
runs it on an Alveo U280 (`fpga_template_u280/`: two PCIe streams in, two out), the
driver of the card's DMA engines and the scripts that test it from the host.
This directory models all four in TLA+, checks the models with TLC and proves the
central theorems with TLAPS.  Paths below are relative to `src/`; `rtl/` stands
for `logjumps-hw/src/rtl/`, `vadd/` for `fpga_template_u280/hw/rtl/vadd_pci_stream/`,
`dma/` for `fpga_template_u280/sw/dma/` and `XDMA/` for `dma/dma_ip_drivers/XDMA/linux-kernel/`.

## 1. The system

| Component | State it keeps | Operations | What makes it correct |
|---|---|---|---|
| Streaming shell `vadd/vadd_cdc.sv`, `vadd_cdc_pipeline.sv`, `shiftreg.sv` | two in-FIFOs, two out-FIFOs, the pipeline and the valid/tdest/tlast line beside it, synchronised pointers, flags and reset | an edge of `rtl_clk`; push, pop and reset on `axis_clk` | no result lost, duplicated, reordered, mispaired or left over from before a reset; no stall for ever |
| `rtl/modmul.sv` | the big multiplier's pipeline, delays of q, rho, mu | one clock | the reduction gets the constants of its own product; LAT clocks later the result is there |
| `rtl/logjumps.sv` | two pipelines (path A: Montgomery quotient, path B: folded sum) and the delay lines between them | one clock | both paths and q meet in step; the join is a multiple of W; the result is below q |
| `rtl/modacc.sv`, `modadd.sv` | adder tree and subtraction chain, or a tree of modular adders; q beside them | one clock | each sum is reduced by the modulus that came in beside it |
| `rtl/addtree.sv`, `csa_2.sv`, `csa_tree.sv` | registers between the levels | one clock | exact sum modulo 2^WIDTH after the announced latency |
| `rtl/intmul_wrapper.sv`, `mac_std.sv`, `karatsuba_mul.sv`, `dsp_mul.sv`, `intmul_nonstd_*.sv` | product pipelines | one clock | exact product after the announced latency |
| `rtl/*_pkg.sv` | none (elaboration) | latency and width functions | what they announce is what the modules build |
| `logjumps-hw/src/python/logjumps.py` | none | five reductions | C·R⁻¹ mod N within the stated number of subtractions |
| `logjumps-hw/src/vivado/*.tcl` | none | derive rho, mu and the chain's bound; run the tools | the constants belong to the modulus |
| DMA engine driver `XDMA/xdma/libxdma.c`, `cdev_sgdma.c` | requests and their transfers, the engine's list, the descriptor ring, the service routine's work item, the device's state | read, write (synchronous and asynchronous), interrupt, service routine, timeout, PCI reset | no call reports data that did not move; every call returns; nothing of it stays on the list |
| DMA tools `XDMA/tools/dma_to_device.c`, `dma_from_device.c`, `XDMA/tests/dma_streaming_test.sh` | an open device, a file | one transfer between them | the return code and the file say what was transferred |
| Host programs `dma/main.py`, `communication.py`, `generate_memory.py` | background tools, files, the kernel's control word | start tools, wait, compare; start and done bits | compares finished transfers of this run |

**Interaction.**  A test script starts one tool per channel and direction; each opens
a character device and calls `read` or `write` once; the driver turns the call into descriptors
for that channel's DMA engine and sleeps until the engine's interrupt.
The engine pushes words into the in-FIFOs or drains
the out-FIFOs.  The shell presents the heads of the in-FIFOs to `modmul` on every
`rtl_clk` and counts `PIPELINE_LAT` clocks with a shift register, since nothing
inside has a valid, a ready or a reset.  `modmul` is a big multiplier followed by
`logjumps`, which contains a `modacc`, and each of them is only a number of clocks to the
module around it: the packages compute that number separately from the
modules that build the registers.

**Where it is hard.**
 1. Blind writes: `s_axis_tready` of the out-FIFOs is not connected.  A flag
    raised early enough is all that protects a result.
 2. Three clockings of one event: reset reaches the FIFOs at once, the pipeline
    through a synchroniser, and the data pipeline never.
 3. Two streams that must stay paired (1024 bits) or apart (512 bits), whatever
    stalls the host produces.
 4. Alignment by counting: about twenty delay lines whose lengths depend on
    register parameters, invisible to a bench that holds q constant or leaves gaps.
 5. Width edges: a borrow bit, a dropped limb, a chain sized for a quotient.
 6. The interrupt only queues the service routine.  When that runs, its transfer may
    have been interrupted, timed out or reset away, and the engine may be running for the next call.
 7. Tools in the background, whose return codes nobody sees, and files and words in the
    card that an earlier run has left behind.

The full list, each at its line and with the properties that cover it, is
`hazards` in `PROJECT.json`.

## 2. Modules

| Module | Models | Notes |
|---|---|---|
| `ModMulStream` | the promise to the host | abstract: no clock, no FIFO |
| `VaddCdc` | the streaming shell | the detailed specification; refines `ModMulStream` |
| `VaddCdcProofs` | | theorems about `VaddCdc` |
| `ModAdd` | one modular adder | operators on a record of registers |
| `ModAccPkg` | `modacc_pkg.sv` | sizes |
| `CondSubStage` | one conditional subtraction | shared by the next three |
| `ModAcc` | `modacc.sv`, both modes, every register setting | |
| `CondSub`, `CondSubProofs` | the registered chain alone, any width | theorems |
| `LogJumps` | `logjumps.sv` | instantiated by `ModMul` |
| `LogJumpsProofs` | | theorems about `LogJumps` |
| `AddTreePkg` | `addtree_pkg.sv` | sizes and latency; used by the next five |
| `CsaTree` | `csa_2.sv`, `csa_tree.sv` | operators on sequences of operands |
| `AddTree` | `addtree.sv`, both modes, every register setting | |
| `ModMul` | `modmul.sv`, `modmul_pkg.sv` | composes `LogJumps` with its delay lines |
| `ModMulProofs` | | theorems about `ModMul`, on those about `LogJumps` |
| `IntMulPkg` | the packages of the integer multipliers | which one is built, and its latency |
| `IntMul` | `intmul_wrapper.sv` and the four multipliers below it | |
| `LogJumpsPy` | `logjumps.py` | operators; checked beside `LogJumps` |
| `DmaCalls` | the promise of a DMA engine to its callers | abstract: no descriptor, interrupt or lock |
| `XdmaEngine` | one engine of `libxdma.c`, with the calls `cdev_sgdma.c` makes | refines `DmaCalls` |
| `XdmaRequest` | how pages become descriptors | used by the settings of the `xdma` run |
| `XdmaEngineProofs`, `XdmaCallsProofs` | | theorems about `XdmaEngine` |
| `HostTest` | scripts and tools | composes them with `ModMulStream` |
| `HostTestProofs` | | theorems about `HostTest` |
| `FiniteSums` | | lemmas: sums over finite sets, induction without operator parameters |
| `MC…` | constants for TLC | |

### The shell (`VaddCdc`)

*Words.* A word is its number in its host stream, a result the pair of numbers it was
computed from.  The arithmetic is not there: what the shell can get wrong is
*which* words are multiplied and where the result goes.  In the 1024-bit build
only channel 0 carries a result; the upper half is tied to zero
(`vadd_cdc_pipeline.sv:37`) and is `Junk` in the model.  The 512-bit build is
modelled for its control; `<<channel, word>>` stands for its data, as
`modmul` (1024-bit operand ports) does not fit that width.

*Steps.* `RtlTick` is one whole edge of `rtl_clk`: the combinational handshake,
the pops of the in-FIFOs, the valid line, the data pipeline, the writes to the
out-FIFOs, the flags and synchronisers.  `AxisPush`, `AxisPop`, `AssertReset` and
`ReleaseReset` are the host side, at any time between two edges;
`SyncReadPointer` lets the write side of an out-FIFO learn of a pop arbitrarily
late.  `AssertReset` empties all four FIFOs, leaves the data pipeline alone and
lets the flags come up either way; the valid line is cleared only when the
reset has come through `xpm_cdc_sync_rst`.

| State | Code |
|---|---|
| `sent`, `taken`, `wr_sync` | in-FIFO write and read pointers, and the write pointer on its way into `rtl_clk` |
| `ctl`, `dat` | `delay_inst`; the registers inside `modmul` |
| `outq`, `unseen`, `pf` | an out-FIFO's contents, the pops its write side has not seen, its `prog_full` with the IP's delay |
| `rst_sync`, `axis_rst`, `held` | the reset synchroniser, the host's reset and how long it has been low |
| `rcvd`, `got`, `base` | what the host received, and where its streams stood at the last reset |

*External parts.* The Xilinx FIFO is modelled from the way it is instantiated:
writes are dropped in reset and when full, `prog_full` looks at the level of the
write side and comes `PF_DELAY` edges later, pointers cross through
`CDC_SYNC_STAGES`.

### Modular accumulation (`ModAdd`, `ModAcc`, `CondSub`)

`Edge(x)` is one clock edge with `x` (operands and modulus) at the inputs.  All
registers of the code are variables: the adder tree's delay line and the one of q
beside it, the registers of the chain and at the output, each cell's eight registers,
the lines of q and of unpaired elements in the legacy tree.  The parameters that
place them are the record `cfg`, chosen in `Init`, so that one run checks every
elaboration.  Outputs are functions of registers and inputs, as unregistered settings
are combinational paths.  The addtree is a delay for an exact sum of `SUM_W` bits.

### The reduction (`LogJumps`)

`line` holds the contents of each delay line, `Lengths` the number of registers the code
builds for it, and `Wires(x)` every wire while `x` is at the inputs.  A block whose inside is
another module (dot products, modacc, small products, m tree, m·q) is its function
followed by as many clocks as its latency constant.  `modacc` is evaluated as the
chain of `CondSubStage`, not as `%`, so that a bound that is too small shows.
`rho` and `mu` are inputs, as they are ports of the code; the operators `rho(q)` and
`mu(q)` give them the values `logjumps.py` computes.

### Adder trees (`AddTreePkg`, `CsaTree`, `AddTree`)

`CsaTree` is arithmetic without registers: `csa_2` is a full adder per bit that ignores the
top one, `Compress` a level of them, `csa_tree` levels of growing width until two operands
are left.  `AddTree` puts registers between its levels: `stage_reg` holds the buses of those
levels that `REG_PERIOD` gives one, `add_q` the halves of the final addition that `FF_ADD` cuts,
`final_reg` and `out_reg` the registers behind it, merged as the code merges them.
`SumOfItsOwnInputs` is about the output after the announced latency; `BusesKeepTheSum` about
every bus on the way: although compressors drop bits, each bus under way has the sum of its own
operands modulo 2^WIDTH.

### The modular multiplier (`ModMul`)

The integer multiplier is an exact product after `INTMUL_LAT` clocks (what `IntMul`
establishes), `LogJumps` is instantiated as `LJ` behind it.  Modelled are the three delay lines
that carry q, rho and mu beside the product, the register `C_r` (`MUL_FF_CPA`), and how
`modmul.sv` and `modmul_pkg.sv` hand parameters on: once to what is built, once to the functions that
count its clocks.  They differ in `MT_FF_ADD`, which the instance leaves at 1 and the
function at 0; the model keeps both.  `Legal` says of the inputs what the ports and the tests do: operands
below a modulus that has rho and mu, and those with it.

### The integer multipliers (`IntMulPkg`, `IntMul`)

`inst` is the hierarchy the generate blocks build: the place of a multiplier is the
sequence of products (`z0`, `z2`, `zx`) leading to it from the top, its value
the operand widths.  A multiplier that does not split is a leaf with the stages tile,
mul, diag, mid, csa, add and out; one that splits has pre, the delays of its three products,
mid and post.  `line[place][stage]` is that stage's registers, `Wires(x)` what enters each
while `x` is at the inputs.  The tilings are tables of pieces (where a piece of A and of B starts
and how wide it is): a grid for `mac_std`, the code's own lists for the other two.  `Gather` ORs
the tiles of a diagonal as `mac_std.sv:386` does, so that overlapping tiles would lose carries.
The levels of Karatsuba's `latency` are computed as the package does, along the cross term, while
the structure is that of the instances: that the two agree is checked, not assumed.
Left out: the E input of `mac_std` (the only instances disable it) and `MORE_DSP` (no behaviour).

### The reference reductions (`LogJumpsPy`)

Each Python function is an operator of the same name; `Parameters` is what `main` computes for a
modulus.  Loops that subtract at most k times are a minimum, the n-1 jumps a recursive function.
`numpy.dot` raises when C has fewer than n-1 limbs: `Aligned`.  `AllAgree` compares all five with
C·R⁻¹ mod N.  Where the modulus is not a whole number of limbs only residues are compared: the
stated numbers of subtractions do not suffice there, which the script's header allows for.

### The DMA engine (`DmaCalls`, `XdmaEngine`, `XdmaRequest`)

*Steps.*  A step is what one thread does under one hold of `engine->lock`; the service
routine reads the status and the descriptor count of a card that runs meanwhile, so it takes two steps and
holds the lock between them (`work.at`, `LockFree`).  A caller goes through `Submit`, `LockDescs`,
`TransferInit`, `CheckOnline`, `TransferQueue`, `Wake`, one of the three `Claim…` and `Release`, and again for
its next transfer.  `Interrupt` masks the engine and queues the work item; the `Service…` actions are the
routine's four outcomes; `OfflineFlag`, `Recovery` and its steps are the reset.

| State | Code |
|---|---|
| `call`, `xfer` | where each caller is in `xdma_xfer_submit`; `req->tfer[2]` |
| `desc_lock`, `engine`, `list` | the mutex; `running`, `shutdown`, `desc_idx`, `desc_used`, `desc_dequeued`; `transfer_list` |
| `ring`, `result` | descriptors in memory; the lengths a card-to-host engine writes back |
| `work`, `dev`, `irq` | the work item; `XDEV_FLAG_OFFLINE` and the reset thread; interrupt masked, handler installed |
| `hw` | the engine on the card: run, busy, what it fetches next, what is on its way, its count, its status |
| `moved`, `late` | history: pieces moved for each request, and whether one moved after the return |

*External parts.*  The engine on the card fetches a descriptor, moves its piece and counts, raises
status and interrupt at the end of a chain, lets the piece on its way finish when it is stopped, and
forgets its count when it starts, as `engine_service` and `engine_start` rely on.  Ten
seconds of sleep end only when nothing more can happen for the call (`Quiet`).

*What it promises.*  `DmaCalls`: the pieces of a call move in order and once; a complete return
reports all of them; a call cut short reports a part of what has moved or an error, and at most the one
piece on its way moves after it.

### The host (`HostTest`)

Every tool is a process: device, file, one transfer, the file again.  `PCI_STREAM` and the
shell script start four of them in the background (`Launch`), `HBM_DDR_MM` runs them one at a time (`Run`,
`Ran`).  The streaming card is `ModMulStream` with `Buffer` words between the two
sides, and a test may begin with words of an aborted one in it (`residue`).  The DMA calls are those `DmaCalls`
promises: all of the transfer, or a part or an error (`GiveUp`).  `main.py`'s two seconds and its
question are taken to be long enough for a tool to open device and file and not for its transfer to
end.  The kernel of `HBM_DDR_MM` is external: a control word with idle and done bits, the latter cleared when
it is read or when the kernel starts.  The shell script was written for a
loopback card and compares output with input; the word to compare with is here, as for
`main.py`, the result of the words at the same place of the inputs.

## 3. Runs

| Run | Configuration | Question | States |
|---|---|---|---|
| `vadd_paired` | 1024 bits, 5 words, one reset | loss, order, pairing, reset; does every pair come back | 122 thousand |
| `vadd_shared` | 512 bits, 5 words per channel, host may never read channel 1 | order, routing, pairing; does channel 0 get its results | 429 thousand |
| `modacc` | three 2-bit operands, 176 register settings | each sum by its own modulus, on time | 49 thousand |
| `condsub` | sums of five 2-bit operands, all moduli | the remainder, stage by stage | 28 thousand |
| `logjumps` | limbs of 2 bits, moduli to 5 bits, 526 settings | the reduction, the join, the chain's bound; the five reductions of `logjumps.py` | 48 thousand |
| `addtree` | 1 to 8 operands of 8 bits, 328 settings | the sum, on time; no bus loses it | 35 thousand |
| `modmul` | limbs of 2 bits, 384 settings | constants beside their product; LAT where path B is not shorter | 101 thousand |
| `modmul_latency` | the same 384 settings | is LAT always the depth | violated |
| `intmul` | four multipliers, ports of 3 and 2 bits, 484 settings | the product, on time; subproducts meet | 12 thousand |
| `xdma` | two requests, a ring of 3 descriptors, six settings | does a call report only what has moved, and does it return | 252 thousand |
| `host` | transfers of 2 words, twelve settings | does a reported success mean a test that took place, and does a test end | 21 thousand |
| `host_ok` | `main.py` run a second time | is EVERYTHING OK to be believed | violated |

*Bounds of the shell runs.*  The pipeline is 2 deep and an out-FIFO is stopped
at one word, with a capacity of 4: the real 30, 482 and 512 scaled down with
the same relation (threshold + pipeline + flag delay = capacity), so that a
single word too many overflows.  5 words per channel fill the pipeline
and the out-FIFO and still leave words waiting; packets of two words on channel 0 make
`tlast` alternate, and packets of three on channel 1 show whose `tlast` is used.  One reset after power-up falls at every point of a run of `vadd_paired`.
To leave room for liveness its synchronisers have one stage and its in-FIFOs two words: that is
enough for each case to happen, and the safety properties hold for every such value by proof.
`MAX_WORDS` and `MAX_RESETS`
are guards of `AxisPush` and `AssertReset` and bound nothing else.
Words and resets have ends, so these runs stop only where the clock still
ticks: deadlock is checked.

*Bounds of the arithmetic runs.*  Widths are 2 bits per operand or limb because every
property is about carries between parts and alignment between clocks; three
operands give the tree an unpaired element, three limbs (6 bits for moduli of 5) give a
modulus shorter than R.  Neighbouring inputs have different sums and, where q is an
input, different moduli: a slip of one clock changes the result.  The settings
with bare registers sweep a fifth of all C, and the largest ones, for all odd moduli.

*Bounds of the multiplier runs.*  An adder tree of 8 operands has four carry-save levels or
three binary ones, all remainders modulo 3 occur, and 8 bits (9 with the carry bit) are
the fewest `ADD_SPLIT` can cut.  In `intmul` the DSP ports are 3 and 2 bits wide, with the code's
ratios (`GeometryAssumption`), and the Karatsuba threshold is 3: a 4-by-4 product is a
grid of tiles, 12 by 8 has seven diagonals in three groups, the non-standard tilings run at both ends of
their ranges and with the operands swapped, and widths of 4 to 8 give trees with equal and with
unequal depths on up to three levels.  Operands are a list of nine whose
neighbours differ in every part; one setting of each of three multipliers gets all pairs.
`intmul` does not contain `FF_DIAG` without `USE_CSA`: there `mac_std.sv:296` builds registers that
`mac_std_pkg.sv:113` does not count, and the output is a clock late.  With those
settings added the run violates `ProductOfItsOwnInputs`; it is listed under
`hazards`.  In `logjumps` the reference is evaluated for each value under way and for its mirror image
at the other end of the range `main()` draws from, with limbs of one bit (every modulus is whole limbs) and
of two bits.

*Bounds of `xdma`.*  Two requests race for one engine: one of two descriptors and one of three (or of one,
asynchronous), in a ring of three, so that a request fills the ring, is cut at its end
(`start` = 2) or needs a second transfer.  `CountMod` = 16 lies above everything that moves.
One setting has every fault at once (signal, error, stall, late BUSY, stray status, one reset); the others
leave faults out so that the properties about undisturbed calls apply.  What the settings leave out are known
divergences, listed with their lines under `hazards`: asynchronous requests with any fault (they have no
timeout, so one whose transfer is dropped never completes) and more of them than the ring
holds.  When all calls have returned nothing is left to do: deadlock is not checked.

*Bounds of `host`.*  Two words per transfer let a transfer be cut short after a part, and three words of
buffer let one channel run ahead of the other and get stuck.  The settings have each script with each
fault, with and without old files, with words of one or both channels left in the card, up to a whole transfer, and with
both kinds of done bit.  A test ends: deadlock is not checked.

*Fairness.*  Shell: `rtl_clk` runs (`WF(RtlTick)`), a reset ends, pointers cross
their synchronisers, and the host reads: `main.py:38-39` starts its card-to-host
transfers before the others.  `vadd_shared` drops the last for channel 1.
The host is never obliged to send or to refrain from a reset.  `xdma`: callers, interrupt, work item and the
reset thread run, as the kernel's scheduler sees to, and the card moves on unless the setting has "stall".  `host`:
scripts and tools run, the driver ends every call (what `EveryCallReturns` of `XdmaEngine` shows), the kernel finishes, and the user
answers.  No liveness property would hold without these: a stopped clock delivers nothing.

*The violations.*  `modmul_latency`: `lj_latency` has no `MT_FF_ADD` and counts the m_val tree
without the register that `logjumps` builds.  Where path A is the longer path `LAT` is one
less than the depth, and the shell, which counts `LAT`, would pair each result with the valid bit
of its neighbour.  In the default setting path B is longer, the delay that balances the
paths absorbs the register, and `ProductOnTime` (run `modmul`) holds.

`host_ok`: `main.py` does not remove the output files of an earlier run, starts its tools in the
background, where `os.system` returns 0, and compares what is there two seconds later.  In 12 states:
the four tools cannot open their devices, the old files equal the reference, and the
script prints EVERYTHING OK (`fpga_template_u280/Readme.md:75` says it prints whether the test was successful).  In the other
settings, and with the shell script, which removes the files and waits, the same property holds (run `host`).

## 4. Proofs

**The shell**, for every depth, latency, packet size and number of words.  Assumed
of the constants: positive depths (`ConstantsAssumption`), a positive threshold,
`HeadroomAssumption` (threshold + pipeline + flag delay within the capacity of the
FIFO IP: at the code's threshold one word more than `OUT_FIFO_DEPTH`, which the
IP's output registers have to provide), `ResetAssumption` (the reset is
no slower than a FIFO pointer and is held longer than it takes to cross)
and `LatencyAssumption` (the valid line is as long as `modmul`).  Nothing is assumed of the packets:
both results of a pair end where channel 0's packet ends (`ResultPacket`), also when channel 1's are of another length.

The inductive invariant `IInv` is in `VaddCdc`:
 * `ResetInv`: how far a reset has come, and that the valid line is clear
   while it can still be seen.  Without it a word of before a reset could be written after it.
 * `PointerInv`: a synchronised write pointer never runs ahead of the reset that
   cleared it.  This is why a handshake not gated by `rtl_rst` is harmless.
 * `FillInv`: a flag that is low and k edges old leaves room for k words, and a
   word at stage i was accepted i edges ago on such a flag.  From it `NoOverflow`.
 * `PipeInv`: the stages with a valid bit hold exactly the places accepted and not
   yet written, later ones earlier in the pipe, each with its operands and tlast.
 * `ResultsInOrder` and `BoundInv`: the out-FIFO's contents, and the total a channel holds.

`VaddCdcProofs` has types, reset, pointers and fill, then order,
accounting and the refinement of `ModMulStream`, each with one lemma per action.

**The subtraction chain** (`CondSubProofs`), for every width, number of stages,
modulus and sum.  Powers of two are a constant function with its recurrence
as an assumption, so that no recursion enters.  `BorrowExact` turns the borrow bit into a
comparison; `StageInv` says after stage s the value is below 2^SHIFT moduli and short of
its sum by a multiple of its own modulus; with `TypeOK` it is inductive, although
the stages hold different sums with different moduli.  At the last stage it is
`Reduced`: val = sum mod q.  `BorrowAssumption` (the largest shifted q stays below the
borrow bit) is what the code's default sizes give; the comments on `MAX_COND_SUB` (`modacc.sv:76-80`) ask only for a
lower bound, and one far above the quotients that occur would break it.

**The reduction** (`LogJumpsProofs`), for every width of the limbs and the modulus, every modulus, every
sequence of inputs and every placement of the registers.  Assumed of the constants: at least two limbs and a
split of the join inside its width (`LimbAssumption`); of a setting (`ConfigsAssumption`) that the dot products have a
register, the bound of the chain is the default or at least the one the build scripts derive for its fixed modulus, and it has no more stages than
the sum has extra bits.  `PowersAssumption` is the recurrence of `^`, which the prover does not know.  `Legal` says of the
inputs what the code's header asks for: C is at most (q - 1)^2, and rho and mu are those of a q that has them.

The first half is arithmetic for one input, with no clock in it.
 * Path B: each limb counts W^i, and rho times it counts W^(i - N_MUL), so the folded sum is congruent to C / W^N_MUL
   (`FoldIsCongruent`); its quotient by q·W is within the bound of the chain (`FoldIsBounded`), for N_LIMBS - 1 as for
   the sum of rho over q that the scripts take.  Stage by stage (`StageReduces`, where the borrow bit decides) the chain leaves
   the remainder (`AccReduces`).
 * Path A: computed modulo W limb by limb, m is the folded sum times mu (`Quotient`).
 * The join: the two halves and their carry are one addition (`JoinAdds`); T_acc + m·q is a multiple of W, below 2·q·W and
   congruent to C / W^N_MUL (`Joined`); so the shift drops nothing and one subtraction is enough (`Reduced`).

The second half is the pipeline.  `IInv` (theorem `AlwaysAligned`) is `History` (the inputs of the last clocks were legal), `Rows`
(each line has its length) and `Aligned`: register i of a line holds what belongs to the input of Depth + i
clocks ago, or nothing while there was none.  The properties speak of the output and the join alone and say nothing of what
is still under way, so that none of them is inductive.  `Plan` shows from the lengths in the code that where
a line ends the next begins and that values that meet are equally old; `WiresCarry` follows a value through the
wires, `WiresRest` the zeros that come before the first.  The four properties of the run follow.

**The modular multiplier** (`ModMulProofs`), for every width, every latency of the multiplier, every setting and every sequence of
inputs.  Assumed are what `LogJumps` asks of the parameters it is built with (`LogJumpsAssumption`) and that the
multiplier's own are counts and flags (`ParametersAssumption`).  The theorems about `LogJumps` are used as they stand: its
history there is a variable, here `lj_past`, a function of `modmul`'s own (`LJP` instantiates `LogJumpsProofs` with it;
the `Same…` lemmas say that this is the circuit `ModMul` has as `LJ`).  `MulInv` (theorem `AlwaysBeside`) is
 * `Recent`: the inputs of the last DEPTH clocks were legal;
 * `Beside`: register i of the multiplier, of `C_r` and of the lines of q, rho and mu holds what belongs to the input of
   as many clocks ago, or zero while there was none;
 * `LJP!IInv`: all that `logjumps` holds belongs to its own last inputs.

The lines of q, rho and mu and the product fill up together, so that `logjumps` sees either the constants with their own
product or nothing at all: zeros (`EmptyInput`; it stays blank then, `EmptyInv`), or, with a fixed modulus, the legal
input C = 0.  `FedMoves` shows that `lj_past` moves as its own history would.  So `logjumps` always makes one of its steps, and
`Multiplies` follows: D is the Montgomery product of the operands of DEPTH clocks ago, by their modulus.  `AnnouncedInTime` adds that
LAT is DEPTH where path B is not the shorter one: the two counts of the m_val tree differ in the register behind
its carry-save levels and in nothing else (`TreeLatency`; `CsaStages` shows that the number of levels is defined).
With the other defaults and a variable modulus the parameters are outside `LogJumpsAssumption`: the bound is 12 and
N_LIMBS - 1 is 22 (listed under `hazards`).

**The DMA engine, synchronous calls** (`XdmaEngineProofs`), for any number of requests
of any length and a ring of any size, with signals, timeouts, card errors, a stalled card, late
BUSY, stray status, late service routines and a reset.  Assumed is `ConfigsAssumption` (positive sizes, and a
descriptor counter that does not wrap within one ring).  `IInv` says of a setting without asynchronous
requests:
 * `Exclusion`: whoever is past the mutex holds it; so one call at a time has a transfer.
 * `CallInv`: what each call has behind it has moved, and a transfer marked COMPLETED has moved too.
 * `RingInv`: the slots of a placed transfer hold its descriptors, chained in order.
 * `ListInv`: the list is empty or holds just the transfer of the one call that waits; an engine that
   runs has a list.  This is where a late service routine is shown to find nothing of a call given up.
 * `RunInv`: the card's count is that of this run, at most what has moved for the listed transfer, and what the
   card fetches next lies ahead of it.  Without it a count of another run could complete a transfer.

One lemma per action, over two frames (steps of a caller that leave the engine alone, steps that leave
the calls alone).  From the invariant follow `TypeOK`, `ListIsOfOpenCalls` and `CompletedIsMoved`.
`Shape` only says which fields the records have, which the prover needs.

`XdmaCallsProofs` goes on from there under the same assumptions.  What it needs beyond `IInv`:
 * `DataInv` (`SynchronousData`): how much data the pieces of each call are.  `Accounts` says what a call has counted and
   that its transfer is of the pieces it has not yet counted, `Pieces` that the descriptors in the ring are those pieces,
   `OnItsWay` that the piece in the card is the next of them, and `Exact` that the card's count is exactly what has moved of the listed
   transfer.  `IInv` has the numbers of pieces only, and from numbers alone a call could
   report too much data.
 * `UsedInv`: `desc_used` is what the transfers on the list occupy.
 * `CalmInv` (with `UsedInv` part of `SynchronousSteady`): with nothing worse than card errors and a late BUSY, the service routine
   runs only for a card that has stopped, so that it fails no transfer but the one with the error.
 * `GoesOn`: with nothing worse than a late BUSY, the card works on what is listed or has come to its end, and no call
   fails.

They give the refinement (`SynchronousCallsRefine`: each step is one of `DmaCalls` or a stutter), `DescriptorsAccounted`,
`UndisturbedCallsComplete` and the action property `FailureIsReal`.  Sums of data are `MapThenSumSet` in the
model; `FiniteSums` proves that the recursive function behind it exists and that it does not matter which element
is taken first.  It has induction as a fact about a set of numbers (`InductiveSet`), as the library's
theorems with an operator as a parameter cannot be used.

**The host** (`HostTestProofs`), for every transfer size, every buffer of the card and every setting the model
admits (`ConfigsAssumption`: scripts, templates and faults of the given names, leftovers within the buffer).  `IInv` (`TestInvariant`) is `Types` and
 * for the streaming tests `StreamInv`: which tools the script has started, and for every tool and file which
   words it holds;
 * for the memory test `MemoryInv`: one tool at a time, what each bank holds, and `KernelInv`, by which a
   done bit that is seen belongs to the run this script started;
 * `ComparedInv`: a channel found equal has been read in this run, or is one of `OldFileCompared`.

From it `TypeOK`, `ResultsReadAfterDone` and `OkMeansTransferred`.  The last has one hypothesis, `~OldFileCompared`,
without which there is `main.py` and its old files (the finding of `host_ok`).  For a channel on which an aborted run has left
less than a transfer the property says that all of this run's words were written and none is left over: a leftover shifts the pairs,
and the comparison fails.  For a channel with a whole transfer left it says only that the results were read in this run,
because no more is true: if the input is the same, the words compare equal though this run's writer failed, a case the proof came upon
and TLC confirmed.  At the real sizes it can happen (a transfer is 500 words, an out-FIFO holds 512); it is listed under
`hazards`.  `Calm` (`CalmTest`) says that in an undisturbed setting no check fails, every tool
past its transfer has moved all of it and the kernel works on what this run wrote; `UndisturbedTest` follows: a test that has ended
was a success.

**Only model-checked**:
 * liveness (`TestEnds`, `EveryCallReturns`, that pairs come back): temporal proofs under fairness need `ENABLED`,
   which the prover does not have;
 * asynchronous requests of `XdmaEngine`: `IInv` says nothing of a second transfer of the same request;
 * `ModAcc` in its other settings, whose stage and delay functions are recursive over the configuration, and
   `AddTree` and `IntMul`, whose trees are recursive operators; these the prover cannot open;
 * the reductions of `LogJumpsPy`, which loop over the limbs by recursion;
 * that the product of `ModMul`'s integer multiplier is exact after `INTMUL_LAT` clocks: the run `intmul` checks it of the
   multipliers themselves.

## 5. The plan, and what is not modelled

 1. *Done*: the shell, its abstract stream, its proofs.
 2. *Done*: modadd, modacc, the chain and its proofs, logjumps.
 3. *Done*: modmul, with the parameters it hands on.
 4. *Done*: addtree and csa_tree.
 5. *Done*: the integer multipliers.
 6. *Done*: the DMA engine, its abstract calls, the proofs for synchronous ones.
 7. *Done*: the host programs, composed with the abstract stream.
 8. *Done*: the five reductions of `logjumps.py`.
 9. Proofs: that Karatsuba's recomposition is the product modulo 2^LOGC.  (*Done*: the reduction and the modular
    multiplier around it; all of the synchronous calls, their refinement of `DmaCalls` included; the host programs.)

**Not modelled.**  The QDMA drivers (Linux, Windows, DPDK) are vendored beside XDMA for another DMA
core; nothing in this system builds or loads them.  They are most of the repository's lines, the larger part of
them register tables, so a share of the whole repository says little about this system.  Of XDMA: poll mode,
the end-of-packet flush, performance and aperture ioctls, credits, user interrupts, XVC,
register access and probing, none of which the scripts or the tools they start use.
The number-theory library (third-party), the
tool scripts (no behaviour of the system), writing the test data and the test benches
(read for what they expect), `vadd_cdc_top.v` (names only).  Widths of real size
are out of TLC's reach; the shell does not depend on them; the chain, the reduction and the multiplication are proved for all.
