------------------------------ MODULE HostTest ------------------------------
(***************************************************************************)
(* The host programs that run a test on the card and say whether it was    *)
(* successful: sw/dma/main.py and communication.py with both templates,    *)
(* the tools dma_to_device and dma_from_device they start, and the         *)
(* streaming test that comes with the driver, dma_streaming_test.sh.       *)
(*                                                                         *)
(* A tool is a process of its own: it opens its device, then its file, and *)
(* makes one transfer.  PCI_STREAM and the shell script start the tools in *)
(* the background and compare the files later; HBM_DDR_MM waits for each.  *)
(* A streaming transfer moves word by word through the card that           *)
(* ModMulStream specifies.  The kernel behind HBM_DDR_MM is no part of the *)
(* repository; it is modelled by its control word.  (External.)            *)
(***************************************************************************)
EXTENDS Integers, Sequences

CONSTANTS
  Configs,  \* the settings under which a test may run
  Size,     \* words of a transfer
  Buffer,   \* words of a channel the card may hold
  None

\* A setting: the script, its template, whether the output files of an earlier
\* run are there, the words an earlier run has left in the card, whether the
\* kernel clears its done bit when it is read (else when it starts), and what
\* may go wrong: "open" (a device is missing or in use), "dma" (the driver
\* returns an error), "input" (the input file is too short), "killed" (an
\* earlier main.py was, while the kernel ran or before it saw the done bit).
Faults == {"open", "dma", "input", "killed"}

ASSUME ConfigsAssumption ==
  /\ Size \in Nat \ {0} /\ Buffer \in Nat \ {0}
  /\ \A c \in Configs :
       /\ c.script \in {"main.py", "dma_streaming_test.sh"}
       /\ c.template \in {"PCI_STREAM", "HBM_DDR_MM"}
       /\ c.old \in BOOLEAN /\ c.clearOnRead \in BOOLEAN
       /\ c.faults \subseteq Faults
       /\ c.residue \in [{0, 1} -> 0 .. Buffer]

EINVAL == -22
EIO    == -5

VARIABLES
  cfg,      \* the setting, one of Configs
  script,   \* where the script is, the channel it is at, what it has found
  tool,     \* the tools, one per direction and channel
  out,      \* the output files
  mem,      \* memory of the card, per channel
  kernel,   \* the kernel: busy, its done bit, whether this run started it
  up, sent, base, rcvd, got   \* the streaming card

cardVars == <<up, sent, base, rcvd, got>>
vars == <<cfg, script, tool, out, mem, kernel, cardVars>>

Card == INSTANCE ModMulStream WITH
  Paired <- TRUE, PKT <- [c \in {0, 1} |-> Size]

Channels == Card!Channels
Tools    == {"read", "write"} \X Channels
Stream   == cfg.template = "PCI_STREAM"
Shell    == cfg.script = "dma_streaming_test.sh"

(***************************************************************************)
(* Files and memories                                                      *)
(***************************************************************************)

\* What a file or a memory holds: words of the stream, the input of this run,
\* the result of this run's input, or a result of an earlier run.
Content(kind, words) == [kind |-> kind, words |-> words]
Missing == Content("missing", <<>>)
Empty   == Content("words", <<>>)
Old     == Content("old", <<>>)
Input   == Content("input", <<>>)
Result  == Content("result", <<>>)
Garbage == Content("garbage", <<>>)

\* The place in its input file of the j-th word sent on a channel.
Place(c, j) == IF j > cfg.residue[c] THEN j - cfg.residue[c] ELSE j

\* The reference file: the results of the words at the same place.
Reference(c) == [k \in 1 .. Size |-> IF c = 0 THEN <<k, k>> ELSE None]

\* compare_files: an earlier run with the same input has the same results.
SameAsReference(c, f) ==
  f.kind \in {"old", "result"} \/ (f.kind = "words" /\ f.words = Reference(c))

Init ==
  /\ cfg \in Configs
  /\ script = [at |-> IF cfg.template = "PCI_STREAM" THEN "read" ELSE "write",
               c |-> 0, error |-> FALSE]
  /\ tool = [t \in Tools |-> [pc |-> "off", n |-> 0, data |-> Empty, rc |-> 0]]
  /\ out = [c \in Channels |-> IF cfg.old THEN Old ELSE Missing]
  /\ mem = [c \in Channels |-> Old]
  /\ kernel \in [busy : {FALSE} \cup {"killed" \in cfg.faults},
                 done : {FALSE} \cup {"killed" \in cfg.faults},
                 own : {FALSE}]
  /\ up = TRUE
  /\ sent = cfg.residue
  /\ base = [c \in Channels |-> 0]
  /\ rcvd = [c \in Channels |-> 0]
  /\ got = [c \in Channels |-> [data |-> None, last |-> FALSE]]

(***************************************************************************)
(* The tools                                                               *)
(***************************************************************************)

IsReader(t) == t[1] = "read"
Running(t)  == tool[t].pc \in {"open", "file", "dma", "save"}

\* Wrong: the return code of a full transfer is still the number of its bytes.
ExitUnreset(t, rc) ==
  tool' = [tool EXCEPT ![t].pc = "exit", ![t].rc = IF rc = 0 THEN tool[t].n ELSE rc]

Exit(t, rc) == tool' = [tool EXCEPT ![t].pc = "exit", ![t].rc = rc]

\* The device comes first: a tool that cannot open it leaves its file alone.
OpenDevice(t) ==
  /\ tool[t].pc = "open"
  /\ \/ tool' = [tool EXCEPT ![t].pc = "file"]
     \/ "open" \in cfg.faults /\ Exit(t, EINVAL)
  /\ UNCHANGED <<cfg, script, out, mem, kernel, cardVars>>

\* dma_from_device truncates its output file; dma_to_device reads its input
\* file into memory, and leaves with 0 when that is too short.
OpenFile(t) ==
  /\ tool[t].pc = "file"
  /\ \/ tool' = [tool EXCEPT ![t].pc = "dma"]
     \/ ~IsReader(t) /\ "input" \in cfg.faults /\ Exit(t, 0)
  /\ out' = IF IsReader(t) THEN [out EXCEPT ![t[2]] = Empty] ELSE out
  /\ UNCHANGED <<cfg, script, mem, kernel, cardVars>>

\* A word of a streaming transfer.
WriteWord(c) ==
  LET t == <<"write", c>> IN
  /\ Stream /\ tool[t].pc = "dma" /\ tool[t].n < Size
  /\ Card!Send(c)
  /\ tool' = [tool EXCEPT ![t].n = @ + 1]
  /\ UNCHANGED <<cfg, script, out, mem, kernel>>

ReadWord(c) ==
  LET t    == <<"read", c>>
      data == Card!OperandsOf(c, rcvd[c] + 1)
      word == IF c = 0 THEN <<Place(0, data[1]), Place(1, data[2])>> ELSE None
  IN
  /\ Stream /\ tool[t].pc = "dma" /\ tool[t].n < Size
  /\ Card!Receive(c)
  /\ tool' = [tool EXCEPT ![t].n = @ + 1, ![t].data.words = Append(@, word)]
  /\ UNCHANGED <<cfg, script, out, mem, kernel>>

\* A transfer from or to memory.
Memory(t) ==
  LET c == t[2] IN
  /\ ~Stream /\ tool[t].pc = "dma" /\ tool[t].n < Size
  /\ tool' = [tool EXCEPT ![t].n = Size, ![t].data = mem[c]]
  /\ mem' = IF IsReader(t) THEN mem ELSE [mem EXCEPT ![c] = Input]
  /\ UNCHANGED <<cfg, script, out, kernel, cardVars>>

\* The driver returns with all of the transfer.
Moved(t) ==
  /\ tool[t].pc = "dma" /\ tool[t].n = Size
  /\ IF IsReader(t) THEN tool' = [tool EXCEPT ![t].pc = "save"] ELSE Exit(t, 0)
  /\ UNCHANGED <<cfg, script, out, mem, kernel, cardVars>>

\* Wrong: a call without a timeout.
StuckForEver(t) == FALSE

\* Nothing that is under way will move another word: ten seconds pass.
Stuck(t) ==
  /\ Stream
  /\ script.at \in {"sleep", "wait", "compare", "ok", "errors", "stopped"}
  /\ \A u \in Tools : tool[u].pc \notin {"open", "file"}
  /\ \A c \in Channels :
       /\ tool[<<"write", c>>].pc = "dma" /\ tool[<<"write", c>>].n < Size =>
            sent[c] - base[c] - rcvd[c] >= Buffer
       /\ tool[<<"read", c>>].pc = "dma" /\ tool[<<"read", c>>].n < Size =>
            ~Card!Computable(c, rcvd[c] + 1)

\* The driver gives up: by its timeout or an error it returns a part of what
\* has moved, or the error.  The part is written to the file.
GiveUp(t) ==
  /\ tool[t].pc = "dma" /\ tool[t].n < Size
  /\ Stuck(t) \/ "dma" \in cfg.faults
  /\ \E n \in 0 .. tool[t].n :
       IF IsReader(t) /\ n > 0
         THEN tool' = [tool EXCEPT ![t].pc = "save", ![t].n = n,
                                   ![t].data.words = SubSeq(@, 1, n)]
         ELSE Exit(t, EIO)
  /\ UNCHANGED <<cfg, script, out, mem, kernel, cardVars>>

\* A short transfer is an error to the script, but its part is in the file.
Save(t) ==
  /\ tool[t].pc = "save"
  /\ out' = [out EXCEPT ![t[2]] = tool[t].data]
  /\ Exit(t, IF tool[t].n < Size THEN EIO ELSE 0)
  /\ UNCHANGED <<cfg, script, mem, kernel, cardVars>>

Progress(t) == \/ OpenDevice(t) \/ OpenFile(t) \/ Memory(t) \/ Moved(t)
               \/ GiveUp(t) \/ Save(t)
               \/ IF IsReader(t) THEN ReadWord(t[2]) ELSE WriteWord(t[2])

(***************************************************************************)
(* The scripts                                                             *)
(***************************************************************************)

\* Wrong: the shell script does not wait for its children.
AfterSleeping(at) ==
  CASE at = "read"  -> IF Stream THEN "write" ELSE "compare"
    [] at = "write" -> IF Stream THEN "sleep" ELSE "scalars"

\* What follows when both channels are done with.
After(at) ==
  CASE at = "read"  -> IF Stream THEN "write" ELSE "compare"
    [] at = "write" -> IF ~Stream THEN "scalars" ELSE IF Shell THEN "wait" ELSE "sleep"

Advanced == IF script.c = 0 THEN [script EXCEPT !.c = 1]
                            ELSE [script EXCEPT !.c = 0, !.at = After(script.at)]

At(at) == [script EXCEPT !.at = at]

\* Wrong: the files of an earlier run stay.
RemovedNever(c) == out

\* rm -f, which only the shell script does.
Removed(c) == IF Shell THEN [out EXCEPT ![c] = Missing] ELSE out

\* A tool in the background: the command succeeds whatever becomes of it.
Launch ==
  LET t == <<script.at, script.c>> IN
  /\ Stream /\ t \in Tools
  /\ tool' = [tool EXCEPT ![t].pc = "open"]
  /\ out' = IF IsReader(t) THEN Removed(script.c) ELSE out
  /\ script' = Advanced
  /\ UNCHANGED <<cfg, mem, kernel, cardVars>>

\* A tool in the foreground, and its return code.
Run ==
  LET t == <<script.at, script.c>> IN
  /\ ~Stream /\ t \in Tools
  /\ tool[t].pc = "off"
  /\ tool' = [tool EXCEPT ![t].pc = "open"]
  /\ UNCHANGED <<cfg, script, out, mem, kernel, cardVars>>

Ran ==
  LET t == <<script.at, script.c>> IN
  /\ ~Stream /\ t \in Tools
  /\ tool[t].pc = "exit"
  /\ script' = IF tool[t].rc = 0 THEN Advanced ELSE At("stopped")
  /\ UNCHANGED <<cfg, tool, out, mem, kernel, cardVars>>

\* main.py sleeps for two seconds and asks the user: that is taken to be enough
\* for a tool to open its device and its file, but not for its transfer.  The
\* shell script waits for its children.
Sleep ==
  /\ \/ script.at = "sleep" /\ \A t \in Tools : tool[t].pc \notin {"open", "file"}
     \/ script.at = "wait" /\ \A t \in Tools : ~Running(t)
  /\ script' = At("compare")
  /\ UNCHANGED <<cfg, tool, out, mem, kernel, cardVars>>

\* A file is compared; a missing one ends main.py with an exception.
Compare ==
  LET c == script.c IN
  /\ script.at = "compare"
  /\ script' = IF ~Shell /\ out[c] = Missing
                 THEN At("stopped")
                 ELSE LET bad == script.error \/ ~SameAsReference(c, out[c]) IN
                      IF c = 0 THEN [script EXCEPT !.c = 1, !.error = bad]
                               ELSE [script EXCEPT !.error = bad,
                                       !.at = IF bad THEN "errors" ELSE "ok"]
  /\ UNCHANGED <<cfg, tool, out, mem, kernel, cardVars>>

(***************************************************************************)
(* startKernelExecution                                                    *)
(***************************************************************************)

\* The kernel after its control word has been read.
CtrlRead(k) == [k EXCEPT !.done = @ /\ ~cfg.clearOnRead]

\* Wrong: the kernel is started whether or not it is idle.
IdleBitIgnored(k) == TRUE

DoneBit(k) == k.done
IdleBit(k) == ~k.busy

\* An access to the kernel's registers goes through the tools as well.
CtrlFails ==
  /\ script.at \in {"scalars", "check", "start", "poll"}
  /\ cfg.faults \cap {"open", "dma"} # {}
  /\ script' = At("stopped")
  /\ UNCHANGED <<cfg, tool, out, mem, kernel, cardVars>>

WriteScalars ==
  /\ script.at = "scalars"
  /\ script' = At("check")
  /\ UNCHANGED <<cfg, tool, out, mem, kernel, cardVars>>

CheckIdle ==
  /\ script.at = "check"
  /\ script' = At(IF IdleBit(kernel) THEN "start" ELSE "stopped")
  /\ kernel' = CtrlRead(kernel)
  /\ UNCHANGED <<cfg, tool, out, mem, cardVars>>

WriteStart ==
  /\ script.at = "start"
  /\ script' = At("poll")
  /\ kernel' = IF kernel.busy THEN kernel
               ELSE [busy |-> TRUE, done |-> kernel.done /\ cfg.clearOnRead, own |-> TRUE]
  /\ UNCHANGED <<cfg, tool, out, mem, cardVars>>

Poll ==
  /\ script.at = "poll"
  /\ script' = IF DoneBit(kernel) THEN At("read") ELSE script
  /\ kernel' = CtrlRead(kernel)
  /\ UNCHANGED <<cfg, tool, out, mem, cardVars>>

\* The kernel works on its memory in place.  One that an earlier run has left
\* running may have read a channel before or after this run wrote it.
\* (External.)
Computed(m) == IF m = Input THEN Result ELSE Garbage

KernelFinish ==
  /\ kernel.busy
  /\ kernel' = [kernel EXCEPT !.busy = FALSE, !.done = TRUE]
  /\ \E S \in SUBSET Channels :
       /\ kernel.own => S = Channels
       /\ mem' = [c \in Channels |-> IF c \in S THEN Computed(mem[c]) ELSE mem[c]]
  /\ UNCHANGED <<cfg, script, tool, out, cardVars>>

Script == \/ Launch \/ Run \/ Ran \/ Sleep \/ Compare
          \/ WriteScalars \/ CheckIdle \/ WriteStart \/ Poll

Next == \/ Script \/ CtrlFails \/ KernelFinish
        \/ \E t \in Tools : Progress(t)

Spec == Init /\ [][Next]_vars

\* The system runs every process; the driver ends every call (EveryCallReturns
\* of XdmaEngine); the kernel finishes; the user answers the question.
Fairness == /\ WF_vars(Script) /\ WF_vars(KernelFinish)
            /\ \A t \in Tools : WF_vars(Progress(t))

FairSpec == Spec /\ Fairness

(***************************************************************************)
(* Properties                                                              *)
(***************************************************************************)

Ended == script.at \in {"ok", "errors", "stopped"}

\* The values every variable ranges over (main.py, dma_to_device.c,
\* dma_from_device.c); the card's are those of ModMulStream.
TypeOK ==
  /\ cfg \in Configs
  /\ script.at \in {"read", "write", "sleep", "wait", "scalars", "check", "start",
                    "poll", "compare", "ok", "errors", "stopped"}
  /\ script.c \in Channels /\ script.error \in BOOLEAN
  /\ \A t \in Tools :
       /\ tool[t].pc \in {"off", "open", "file", "dma", "save", "exit"}
       /\ tool[t].n \in 0 .. Size /\ tool[t].rc \in {0, EINVAL, EIO}
  /\ kernel \in [busy : BOOLEAN, done : BOOLEAN, own : BOOLEAN]
  /\ \A c \in Channels : rcvd[c] <= sent[c] /\ sent[c] <= cfg.residue[c] + Size

\* A test that is reported as successful has taken place: the results it compared
\* were all read from the card in this run, from the memory they are those of the
\* kernel's own run on this run's input, and from the stream every word of this run
\* was written and no result is left in the card (Readme.md:75: "the script will print
\* if the test was successfull or not").  A channel on which an earlier run has left
\* a whole transfer is the exception: its words are as good as this run's, and what
\* this run wrote may still be in the card, or may not have been written.
OkMeansTransferred ==
  script.at = "ok" =>
    \A c \in Channels :
      /\ tool[<<"read", c>>].n = Size /\ tool[<<"read", c>>].rc = 0
      /\ cfg.residue[c] < Size \/ ~Stream => tool[<<"write", c>>].n = Size
      /\ IF Stream THEN cfg.residue[c] < Size => rcvd[c] = sent[c]
                   ELSE kernel.own /\ out[c] = Result

\* When nothing fails the test succeeds, although every tool, the card and the
\* script run at their own pace (dma_streaming_test.sh, hbm_ddr_mm_test).
UndisturbedTestSucceeds ==
  Ended /\ cfg.faults = {} /\ cfg.residue = [c \in Channels |-> 0]
        /\ (Stream => Shell) => script.at = "ok"

\* The results are read only when the kernel has finished the run this script
\* started: the done bit it saw is not one an earlier run has left behind
\* (startKernelExecution).
ResultsReadAfterDone ==
  [][\A c \in Channels :
       ~Stream /\ tool[<<"read", c>>].n # tool'[<<"read", c>>].n
         => kernel.own /\ ~kernel.busy]_vars

\* Every test ends: a channel whose tool has failed does not leave the others,
\* or the script, waiting for the missing half of each pair for ever.
TestEnds == <>(Ended /\ \A t \in Tools : ~Running(t))
=============================================================================
