--------------------------- MODULE HostTestProofs ---------------------------
(***************************************************************************)
(* Proofs about HostTest: what a script has found when it says that a test *)
(* was successful, for every setting, transfer size and buffer of the card *)
(* (of the ones the statements name).                                      *)
(***************************************************************************)
EXTENDS HostTest, SequenceTheorems, TLAPS

Reader(c) == tool[<<"read", c>>]
Writer(c) == tool[<<"write", c>>]

(***************************************************************************)
(* Types                                                                   *)
(***************************************************************************)

Places == {"read", "write", "sleep", "wait", "scalars", "check", "start",
           "poll", "compare", "ok", "errors", "stopped"}
Pcs    == {"off", "open", "file", "dma", "save", "exit"}
Kinds  == {"missing", "words", "old", "input", "result", "garbage"}
Words  == (Int \X Int) \cup {None}

Contents == [kind : Kinds, words : Seq(Words)]

\* Between two steps of any process.
Types ==
  /\ cfg \in Configs
  /\ script \in [at : Places, c : Channels, error : BOOLEAN]
  /\ tool \in [Tools -> [pc : Pcs, n : 0 .. Size, data : Contents,
                         rc : {0, EINVAL, EIO}]]
  /\ out \in [Channels -> Contents] /\ mem \in [Channels -> Contents]
  /\ kernel \in [busy : BOOLEAN, done : BOOLEAN, own : BOOLEAN]
  /\ sent \in [Channels -> Nat] /\ rcvd \in [Channels -> Nat]
  /\ base = [c \in Channels |-> 0]

(***************************************************************************)
(* Where the script is and which tools it has started                      *)
(***************************************************************************)

\* In the background: each is started once, the readers first.
StartedInTurn ==
  /\ script.at \in {"read", "write", "sleep", "wait", "compare", "ok", "errors", "stopped"}
  /\ script.at = "sleep" => ~Shell
  /\ script.at = "wait" => Shell
  /\ script.at \in {"sleep", "wait"} => script.c = 0
  /\ \A c \in Channels :
       /\ script.at = "read" => (Reader(c).pc = "off" <=> script.c <= c)
       /\ script.at = "read" => Writer(c).pc = "off"
       /\ script.at = "write" => (Writer(c).pc = "off" <=> script.c <= c)
       /\ script.at # "read" => Reader(c).pc # "off"
       /\ script.at \notin {"read", "write"} => Writer(c).pc # "off"
  /\ script.at \in {"compare", "ok", "errors", "stopped"} =>
       \A t \in Tools : IF Shell THEN tool[t].pc = "exit"
                                 ELSE tool[t].pc \in {"dma", "save", "exit"}

\* In the foreground: one at a time.
OneAtATime ==
  /\ script.at \notin {"sleep", "wait"}
  /\ script.at \in {"scalars", "check", "start", "poll"} => script.c = 0
  /\ \A t \in Tools : Running(t) => t = <<script.at, script.c>>

(***************************************************************************)
(* Streaming                                                               *)
(***************************************************************************)

\* The k-th word that a channel returns.
WordAt(c, k) == IF c = 0 THEN <<Place(0, k), Place(1, k)>> ELSE None

\* The first n words that channel c returns.
FirstWords(c, n) == [k \in 1 .. n |-> WordAt(c, k)]

\* What the card has, and what a tool has of it.
StreamOf(c) ==
  /\ sent[c] = cfg.residue[c] + Writer(c).n
  /\ rcvd[c] <= Size /\ Reader(c).n <= rcvd[c]
  /\ \A d \in Channels : rcvd[c] <= sent[d]
  /\ Writer(c).pc \in {"off", "open", "file"} => Writer(c).n = 0
  /\ Writer(c).pc # "save"
  /\ Reader(c).pc \in {"off", "open", "file"} => rcvd[c] = 0
  /\ Reader(c).pc = "dma" => Reader(c).n = rcvd[c]
  /\ Reader(c).data = Content("words", FirstWords(c, Reader(c).n))

\* An output file that holds a word holds what its tool has read.
FileOf(c) ==
  /\ out[c].kind \in {"old", "missing", "words"}
  /\ out[c].kind = "words" /\ out[c] # Empty =>
       /\ Reader(c).pc = "exit" /\ out[c] = Reader(c).data
       /\ Reader(c).n = Size => Reader(c).rc = 0
  /\ out[c].kind = "old" =>
       /\ cfg.old
       /\ IF Shell THEN Reader(c).pc = "off"
          ELSE \/ Reader(c).pc \in {"off", "open", "file"}
               \/ Reader(c).pc = "exit" /\ "open" \in cfg.faults

StreamInv == StartedInTurn /\ \A c \in Channels : StreamOf(c) /\ FileOf(c)

(***************************************************************************)
(* From and to memory                                                      *)
(***************************************************************************)

\* The kernel: not started by this run, or started when it was idle.
KernelInv ==
  /\ script.at \in {"write", "scalars", "check", "start"} => ~kernel.own
  /\ script.at = "start" => ~kernel.busy /\ (cfg.clearOnRead => ~kernel.done)
  /\ script.at = "poll" => kernel.own /\ (kernel.busy => ~kernel.done)
  /\ script.at \in {"read", "compare", "ok", "errors"} => kernel.own /\ ~kernel.busy
  /\ kernel.own /\ ~kernel.busy =>
       \A c \in Channels : mem[c] \in {Result, Garbage}

MemoryOf(c) ==
  /\ mem[c] \in {Old, Input, Result, Garbage}
  /\ mem[c] \in {Input, Result} => Writer(c).n = Size
  /\ Writer(c).pc \in {"off", "open", "file"} => Writer(c).n = 0
  /\ Writer(c).pc # "save"
  /\ Writer(c).n \in {0, Size} /\ Reader(c).n \in {0, Size}
  /\ Reader(c).pc \in {"off", "open", "file"} => Reader(c).n = 0
  /\ Reader(c).n = Size => kernel.own /\ ~kernel.busy /\ Reader(c).data = mem[c]
  /\ Reader(c).pc = "save" => Reader(c).n = Size
  /\ Reader(c).pc = "exit" /\ Reader(c).rc = 0 => Reader(c).n = Size /\ out[c] = mem[c]
  /\ \/ script.at = "read" /\ script.c > c
     \/ script.at \in {"compare", "ok", "errors"}
     => Reader(c).pc = "exit" /\ Reader(c).rc = 0

\* No word is streamed.
CardIdle == \A c \in Channels : sent[c] = cfg.residue[c] /\ rcvd[c] = 0

MemoryInv == OneAtATime /\ KernelInv /\ CardIdle /\ \A c \in Channels : MemoryOf(c)

(***************************************************************************)
(* What has been compared                                                  *)
(***************************************************************************)

\* main.py starts its tools in the background and neither removes the files of
\* an earlier run nor learns that a device could not be opened.
OldFileCompared ==
  cfg.script = "main.py" /\ Stream /\ cfg.old /\ "open" \in cfg.faults

Verified(c) ==
  /\ SameAsReference(c, out[c])
  /\ Reader(c).pc = "exit" /\ Reader(c).n = Size /\ Reader(c).rc = 0
  /\ out[c] = IF Stream THEN Reader(c).data ELSE Result

ComparedInv ==
  /\ script.at \notin {"compare", "errors", "stopped"} => ~script.error
  /\ script.at = "compare" /\ script.c = 0 => ~script.error
  /\ ~OldFileCompared =>
       \A c \in Channels :
         \/ script.at = "compare" /\ script.c > c /\ ~script.error
         \/ script.at = "ok"
         => Verified(c)

IInv == /\ Types
        /\ Stream => StreamInv
        /\ ~Stream => MemoryInv
        /\ ComparedInv

(***************************************************************************)
(* Nothing fails                                                           *)
(***************************************************************************)

Undisturbed == /\ cfg.faults = {} /\ cfg.residue = [c \in Channels |-> 0]
               /\ Stream => Shell

CalmKernel ==
  /\ kernel.busy => kernel.own
  /\ kernel.own /\ kernel.busy => \A c \in Channels : mem[c] = Input
  /\ kernel.own /\ ~kernel.busy => \A c \in Channels : mem[c] = Result
  /\ \A c \in Channels :
       /\ ~kernel.own /\ Writer(c).n = Size => mem[c] = Input
       /\ \/ script.at = "write" /\ script.c > c
          \/ script.at \in {"scalars", "check", "start"}
          => Writer(c).pc = "exit"

CalmInv ==
  /\ script.at \notin {"errors", "stopped"} /\ ~script.error
  /\ \A t \in Tools : /\ tool[t].rc = 0
                      /\ tool[t].pc \in {"save", "exit"} => tool[t].n = Size
  /\ Stream => \A c \in Channels :
       /\ Reader(c).n = rcvd[c]
       /\ Reader(c).pc = "exit" => out[c] = Reader(c).data
  /\ ~Stream => CalmKernel

Calm == Undisturbed => CalmInv

(***************************************************************************)
(* The tools and the card                                                  *)
(***************************************************************************)

LEMMA ToolsAre == /\ Channels = {0, 1}
                  /\ \A t \in Tools : t = <<t[1], t[2]>> /\ t[2] \in Channels
                                      /\ t[1] \in {"read", "write"}
                  /\ \A c \in Channels : <<"read", c>> \in Tools /\ <<"write", c>> \in Tools
  BY DEF Tools, Channels, Card!Channels

\* A step of a tool is a step of that tool alone.
OneMoves(t) == \A u \in Tools \ {t} : tool'[u] = tool[u]

LEMMA Kept ==
  ASSUME Types,
         UNCHANGED vars \/ Sleep \/ Compare \/ Ran \/ WriteScalars \/ CheckIdle
           \/ WriteStart \/ Poll \/ CtrlFails \/ KernelFinish
  PROVE  UNCHANGED <<cfg, tool, out, cardVars>>
  BY DEF vars, cardVars, Sleep, Compare, Ran, WriteScalars, CheckIdle, WriteStart,
         Poll, CtrlFails, KernelFinish


\* What a comparison does, in terms of what it has found.
Bad == script.error \/ ~SameAsReference(script.c, out[script.c])

LEMMA CompareEffect ==
  ASSUME Types, Compare
  PROVE  /\ script.at = "compare"
         /\ \/ /\ ~Shell /\ out[script.c] = Missing
               /\ script' = [script EXCEPT !.at = "stopped"]
            \/ /\ script.c = 0
               /\ script' = [at |-> "compare", c |-> 1, error |-> Bad]
            \/ /\ script.c = 1 /\ ~Bad
               /\ script' = [at |-> "ok", c |-> 1, error |-> FALSE]
            \/ /\ script.c = 1 /\ Bad
               /\ script' = [at |-> "errors", c |-> 1, error |-> TRUE]
<1>0. script \in [at : Places, c : Channels, error : BOOLEAN] /\ Bad \in BOOLEAN
      /\ script.c \in {0, 1}
  BY ToolsAre DEF Types, Bad
<1>1. CASE ~Shell /\ out[script.c] = Missing
  BY <1>1 DEF Compare, At
<1>2. CASE ~(~Shell /\ out[script.c] = Missing)
  <2>1. script.at = "compare"
        /\ script' = IF script.c = 0 THEN [script EXCEPT !.c = 1, !.error = Bad]
                     ELSE [script EXCEPT !.error = Bad, !.at = IF Bad THEN "errors" ELSE "ok"]
    BY <1>2 DEF Compare, Bad
  <2>2. script = [at |-> "compare", c |-> script.c, error |-> script.error]
    BY <1>0, <2>1
  <2>3. CASE script.c = 0
    BY <1>0, <2>1, <2>2, <2>3, Zenon
  <2>4. CASE script.c = 1
    BY <1>0, <2>1, <2>2, <2>4
  <2> QED BY <1>0, <2>3, <2>4
<1> QED BY <1>1, <1>2

LEMMA AdvanceTypes ==
  ASSUME Types, script.at \in {"read", "write"}
  PROVE  Advanced \in [at : Places, c : Channels, error : BOOLEAN]
  BY ToolsAre DEF Types, Advanced, After, Places

LEMMA TypesOfScript ==
  ASSUME Types,
         UNCHANGED vars \/ Sleep \/ Compare \/ Ran \/ WriteScalars \/ CheckIdle
           \/ WriteStart \/ Poll \/ CtrlFails
  PROVE  script' \in [at : Places, c : Channels, error : BOOLEAN]
<1>0. script \in [at : Places, c : Channels, error : BOOLEAN]
  BY DEF Types
<1>1. \A at \in Places : At(at) \in [at : Places, c : Channels, error : BOOLEAN]
  BY <1>0 DEF At
<1>2. CASE Compare
  <2>1. Bad \in BOOLEAN
    BY DEF Bad
  <2>2. "compare" \in Places /\ "ok" \in Places /\ "errors" \in Places
        /\ "stopped" \in Places /\ 1 \in Channels /\ FALSE \in BOOLEAN /\ TRUE \in BOOLEAN
    BY ToolsAre DEF Places
  <2>3. [at |-> "compare", c |-> 1, error |-> Bad] \in [at : Places, c : Channels, error : BOOLEAN]
    BY <2>1, <2>2, Zenon
  <2>4. /\ [at |-> "ok", c |-> 1, error |-> FALSE] \in [at : Places, c : Channels, error : BOOLEAN]
        /\ [at |-> "errors", c |-> 1, error |-> TRUE] \in [at : Places, c : Channels, error : BOOLEAN]
    BY <2>2
  <2>5. [script EXCEPT !.at = "stopped"] \in [at : Places, c : Channels, error : BOOLEAN]
    BY <1>0, <2>2
  <2> QED BY <1>2, <2>3, <2>4, <2>5, CompareEffect, Zenon
<1>3. CASE Ran
  BY <1>0, <1>1, <1>3, AdvanceTypes, ToolsAre DEF Ran, Places
<1>4. CASE Sleep \/ WriteScalars \/ WriteStart \/ CtrlFails
  BY <1>1, <1>4 DEF Sleep, WriteScalars, WriteStart, CtrlFails, Places
<1>5. CASE CheckIdle \/ Poll
  BY <1>0, <1>1, <1>5 DEF CheckIdle, Poll, Places
<1> QED BY <1>0, <1>2, <1>3, <1>4, <1>5 DEF vars

ToolRec == [pc : Pcs, n : 0 .. Size, data : Contents, rc : {0, EINVAL, EIO}]

\* Tool t is left with this program counter, count, data and return code.
Left(t, pc, n, data, rc) ==
  /\ tool' = [tool EXCEPT ![t] = [pc |-> pc, n |-> n, data |-> data, rc |-> rc]]

LEMMA LeftIs ==
  ASSUME Types, NEW t \in Tools, NEW pc, NEW n, NEW data, NEW rc, Left(t, pc, n, data, rc)
  PROVE  /\ tool'[t].pc = pc /\ tool'[t].n = n /\ tool'[t].data = data /\ tool'[t].rc = rc
         /\ OneMoves(t)
<1>1. tool'[t] = [pc |-> pc, n |-> n, data |-> data, rc |-> rc]
  BY DEF Left, Types
<1>2. OneMoves(t)
  BY DEF Left, Types, OneMoves
<1> QED BY <1>1, <1>2

LEMMA RecordOf ==
  ASSUME Types, NEW t \in Tools
  PROVE  /\ tool[t] \in ToolRec
         /\ tool[t] = [pc |-> tool[t].pc, n |-> tool[t].n, data |-> tool[t].data,
                       rc |-> tool[t].rc]
  BY DEF Types, ToolRec

\* A record that has changed in some of its fields, field by field.
LEMMA ExceptPc ==
  ASSUME Types, NEW t \in Tools, NEW a
  PROVE  [tool[t] EXCEPT !.pc = a]
            = [pc |-> a, n |-> tool[t].n, data |-> tool[t].data, rc |-> tool[t].rc]
<1> DEFINE r == tool[t]
<1>1. r = [pc |-> r.pc, n |-> r.n, data |-> r.data, rc |-> r.rc]
  BY RecordOf
<1> HIDE DEF r
<1>2. [r EXCEPT !.pc = a] = [pc |-> a, n |-> r.n, data |-> r.data, rc |-> r.rc]
  BY <1>1
<1> QED BY <1>2 DEF r

LEMMA ExceptPcRc ==
  ASSUME Types, NEW t \in Tools, NEW a, NEW b
  PROVE  [tool[t] EXCEPT !.pc = a, !.rc = b]
            = [pc |-> a, n |-> tool[t].n, data |-> tool[t].data, rc |-> b]
<1> DEFINE r == tool[t]  q == [r EXCEPT !.pc = a]
<1>1. q = [pc |-> a, n |-> r.n, data |-> r.data, rc |-> r.rc]
  BY ExceptPc
<1>2. [r EXCEPT !.pc = a, !.rc = b] = [q EXCEPT !.rc = b]
  OBVIOUS
<1> HIDE DEF q, r
<1>3. [q EXCEPT !.rc = b] = [pc |-> a, n |-> r.n, data |-> r.data, rc |-> b]
  BY <1>1
<1> QED BY <1>2, <1>3 DEF r

LEMMA ExceptNData ==
  ASSUME Types, NEW t \in Tools, NEW a, NEW b
  PROVE  [tool[t] EXCEPT !.n = a, !.data = b]
            = [pc |-> tool[t].pc, n |-> a, data |-> b, rc |-> tool[t].rc]
<1> DEFINE r == tool[t]  q == [r EXCEPT !.n = a]
<1>1. r = [pc |-> r.pc, n |-> r.n, data |-> r.data, rc |-> r.rc]
  BY RecordOf
<1>2. [r EXCEPT !.n = a, !.data = b] = [q EXCEPT !.data = b]
  OBVIOUS
<1> HIDE DEF r
<1>3. q = [pc |-> r.pc, n |-> a, data |-> r.data, rc |-> r.rc]
  BY <1>1
<1> HIDE DEF q
<1>4. [q EXCEPT !.data = b] = [pc |-> r.pc, n |-> a, data |-> b, rc |-> r.rc]
  BY <1>3
<1> QED BY <1>2, <1>4 DEF r

LEMMA ExceptPcNData ==
  ASSUME Types, NEW t \in Tools, NEW a, NEW b, NEW c
  PROVE  [tool[t] EXCEPT !.pc = a, !.n = b, !.data = c]
            = [pc |-> a, n |-> b, data |-> c, rc |-> tool[t].rc]
<1> DEFINE r == tool[t]  q == [r EXCEPT !.pc = a]  u == [q EXCEPT !.n = b]
<1>1. q = [pc |-> a, n |-> r.n, data |-> r.data, rc |-> r.rc]
  BY ExceptPc
<1>2. [r EXCEPT !.pc = a, !.n = b, !.data = c] = [u EXCEPT !.data = c]
  OBVIOUS
<1> HIDE DEF q, r
<1>3. u = [pc |-> a, n |-> b, data |-> r.data, rc |-> r.rc]
  BY <1>1
<1> HIDE DEF u
<1>4. [u EXCEPT !.data = c] = [pc |-> a, n |-> b, data |-> c, rc |-> r.rc]
  BY <1>3
<1> QED BY <1>2, <1>4 DEF r

LEMMA LeftTyped ==
  ASSUME Types, NEW t \in Tools, NEW pc \in Pcs, NEW n \in 0 .. Size,
         NEW data \in Contents, NEW rc \in {0, EINVAL, EIO}, Left(t, pc, n, data, rc)
  PROVE  tool' \in [Tools -> ToolRec]
<1>1. [pc |-> pc, n |-> n, data |-> data, rc |-> rc] \in ToolRec
  BY DEF ToolRec
<1>2. tool \in [Tools -> ToolRec]
  BY DEF Types, ToolRec
<1> QED BY <1>1, <1>2 DEF Left

LEMMA ExitLeaves ==
  ASSUME Types, NEW t \in Tools, NEW rc, Exit(t, rc)
  PROVE  Left(t, "exit", tool[t].n, tool[t].data, rc)
<1>1. tool' = [tool EXCEPT ![t] = [tool[t] EXCEPT !.pc = "exit", !.rc = rc]]
  BY DEF Exit, Types
<1>2. [tool[t] EXCEPT !.pc = "exit", !.rc = rc]
        = [pc |-> "exit", n |-> tool[t].n, data |-> tool[t].data, rc |-> rc]
  BY ExceptPcRc
<1> QED BY <1>1, <1>2 DEF Left

LEMMA PcLeaves ==
  ASSUME Types, NEW t \in Tools, NEW pc, tool' = [tool EXCEPT ![t].pc = pc]
  PROVE  Left(t, pc, tool[t].n, tool[t].data, tool[t].rc)
<1>1. tool' = [tool EXCEPT ![t] = [tool[t] EXCEPT !.pc = pc]]
  BY DEF Types
<1>2. [tool[t] EXCEPT !.pc = pc]
        = [pc |-> pc, n |-> tool[t].n, data |-> tool[t].data, rc |-> tool[t].rc]
  BY ExceptPc
<1> QED BY <1>1, <1>2 DEF Left

(***************************************************************************)
(* What each step of a tool does                                           *)
(***************************************************************************)

LEMMA OpenDeviceDoes ==
  ASSUME Types, NEW t \in Tools, OpenDevice(t)
  PROVE  /\ tool[t].pc = "open"
         /\ \/ Left(t, "file", tool[t].n, tool[t].data, tool[t].rc)
            \/ /\ "open" \in cfg.faults
               /\ Left(t, "exit", tool[t].n, tool[t].data, EINVAL)
         /\ UNCHANGED <<cfg, script, out, mem, kernel, cardVars>>
  BY ExitLeaves, PcLeaves DEF OpenDevice

LEMMA OpenFileDoes ==
  ASSUME Types, NEW t \in Tools, OpenFile(t)
  PROVE  /\ tool[t].pc = "file"
         /\ \/ Left(t, "dma", tool[t].n, tool[t].data, tool[t].rc)
            \/ /\ ~IsReader(t) /\ "input" \in cfg.faults
               /\ Left(t, "exit", tool[t].n, tool[t].data, 0)
         /\ out' = IF IsReader(t) THEN [out EXCEPT ![t[2]] = Empty] ELSE out
         /\ UNCHANGED <<cfg, script, mem, kernel, cardVars>>
  BY ExitLeaves, PcLeaves DEF OpenFile

LEMMA MovedDoes ==
  ASSUME Types, NEW t \in Tools, Moved(t)
  PROVE  /\ tool[t].pc = "dma" /\ tool[t].n = Size
         /\ \/ IsReader(t) /\ Left(t, "save", tool[t].n, tool[t].data, tool[t].rc)
            \/ ~IsReader(t) /\ Left(t, "exit", tool[t].n, tool[t].data, 0)
         /\ UNCHANGED <<cfg, script, out, mem, kernel, cardVars>>
  BY ExitLeaves, PcLeaves DEF Moved

LEMMA SaveDoes ==
  ASSUME Types, NEW t \in Tools, Save(t)
  PROVE  /\ tool[t].pc = "save"
         /\ Left(t, "exit", tool[t].n, tool[t].data, IF tool[t].n < Size THEN EIO ELSE 0)
         /\ out' = [out EXCEPT ![t[2]] = tool[t].data]
         /\ UNCHANGED <<cfg, script, mem, kernel, cardVars>>
  BY ExitLeaves DEF Save

LEMMA MemoryDoes ==
  ASSUME Types, NEW t \in Tools, Memory(t)
  PROVE  /\ ~Stream /\ tool[t].pc = "dma" /\ tool[t].n < Size
         /\ Left(t, "dma", Size, mem[t[2]], tool[t].rc)
         /\ mem' = IF IsReader(t) THEN mem ELSE [mem EXCEPT ![t[2]] = Input]
         /\ UNCHANGED <<cfg, script, out, kernel, cardVars>>
<1>1. tool' = [tool EXCEPT ![t] = [tool[t] EXCEPT !.n = Size, !.data = mem[t[2]]]]
  BY DEF Memory, Types
<1>2. [tool[t] EXCEPT !.n = Size, !.data = mem[t[2]]]
        = [pc |-> tool[t].pc, n |-> Size, data |-> mem[t[2]], rc |-> tool[t].rc]
  BY ExceptNData
<1>3. tool[t].pc = "dma"
  BY DEF Memory
<1> QED BY <1>1, <1>2, <1>3 DEF Left, Memory

LEMMA ToolFields ==
  ASSUME Types, NEW t \in Tools
  PROVE  /\ DOMAIN tool = Tools /\ DOMAIN tool[t] = {"pc", "n", "data", "rc"}
         /\ DOMAIN tool[t].data = {"kind", "words"}
  BY DEF Types, Contents

LEMMA GiveUpDoes ==
  ASSUME Types, NEW t \in Tools, GiveUp(t)
  PROVE  /\ tool[t].pc = "dma" /\ tool[t].n < Size
         /\ Stuck(t) \/ "dma" \in cfg.faults
         /\ \/ Left(t, "exit", tool[t].n, tool[t].data, EIO)
            \/ /\ IsReader(t)
               /\ \E n \in 1 .. tool[t].n :
                    Left(t, "save", n, [tool[t].data EXCEPT !.words = SubSeq(@, 1, n)],
                         tool[t].rc)
         /\ UNCHANGED <<cfg, script, out, mem, kernel, cardVars>>
<1>1. PICK n \in 0 .. tool[t].n :
        IF IsReader(t) /\ n > 0
          THEN tool' = [tool EXCEPT ![t].pc = "save", ![t].n = n,
                                    ![t].data.words = SubSeq(@, 1, n)]
          ELSE Exit(t, EIO)
  BY DEF GiveUp
<1>2. CASE IsReader(t) /\ n > 0
  <2> DEFINE part == [tool[t].data EXCEPT !.words = SubSeq(@, 1, n)]
             w    == SubSeq(tool[t].data.words, 1, n)
  <2>0. tool' = [tool EXCEPT ![t].pc = "save", ![t].n = n, ![t].data.words = w]
    BY <1>1, <1>2 DEF Types
  <2>a. part = [tool[t].data EXCEPT !.words = w]
    OBVIOUS
  <2>1. tool' = [tool EXCEPT ![t] =
                  [tool[t] EXCEPT !.pc = "save", !.n = n, !.data = part]]
    <3> HIDE DEF w, part
    <3>2. [tool EXCEPT ![t].pc = "save", ![t].n = n, ![t].data.words = w]
            = [tool EXCEPT ![t] = [tool[t] EXCEPT !.pc = "save", !.n = n,
                                     !.data = [tool[t].data EXCEPT !.words = w]]]
      BY ToolFields
    <3> QED BY <2>0, <2>a, <3>2, Zenon
  <2>2. [tool[t] EXCEPT !.pc = "save", !.n = n, !.data = part]
        = [pc |-> "save", n |-> n, data |-> part, rc |-> tool[t].rc]
    <3> HIDE DEF part
    <3> QED BY ExceptPcNData
  <2>3. Left(t, "save", n, [tool[t].data EXCEPT !.words = SubSeq(@, 1, n)], tool[t].rc)
    BY <2>1, <2>2 DEF Left
  <2>4. n \in 1 .. tool[t].n
    BY <1>1, <1>2
  <2> QED BY <1>2, <2>3, <2>4 DEF GiveUp
<1>3. CASE ~(IsReader(t) /\ n > 0)
  BY <1>1, <1>3, ExitLeaves DEF GiveUp
<1> QED BY <1>2, <1>3

\* A word that is sent or received, and what the card knows of it.
LEMMA WriteWordDoes ==
  ASSUME Types, NEW c \in Channels, WriteWord(c)
  PROVE  LET t == <<"write", c>> IN
         /\ Stream /\ tool[t].pc = "dma" /\ tool[t].n < Size
         /\ Left(t, "dma", tool[t].n + 1, tool[t].data, tool[t].rc)
         /\ sent[c] - rcvd[c] < Buffer /\ sent' = [sent EXCEPT ![c] = sent[c] + 1]
         /\ UNCHANGED <<cfg, script, out, mem, kernel, base, rcvd>>
<1> DEFINE t == <<"write", c>>
<1>1. t \in Tools
  BY ToolsAre
<1>2. /\ Stream /\ tool[t].pc = "dma" /\ tool[t].n < Size /\ Card!Send(c)
      /\ tool' = [tool EXCEPT ![t].n = @ + 1]
      /\ UNCHANGED <<cfg, script, out, mem, kernel>>
  BY DEF WriteWord
<1>3. Left(t, "dma", tool[t].n + 1, tool[t].data, tool[t].rc)
  <2> DEFINE r == tool[t]  n == r.n + 1
  <2>1. r = [pc |-> "dma", n |-> r.n, data |-> r.data, rc |-> r.rc]
    BY <1>1, <1>2, RecordOf
  <2>2. tool' = [tool EXCEPT ![t] = [r EXCEPT !.n = n]]
    BY <1>1, <1>2 DEF Types
  <2> HIDE DEF r, n, t
  <2>3. [r EXCEPT !.n = n] = [pc |-> "dma", n |-> n, data |-> r.data, rc |-> r.rc]
    BY <2>1
  <2> QED BY <2>2, <2>3 DEF r, n, Left
<1>4. /\ sent[c] - base[c] - rcvd[c] < Buffer /\ base[c] = 0
      /\ sent' = [sent EXCEPT ![c] = sent[c] + 1] /\ UNCHANGED <<base, rcvd>>
  <2>1. base[c] = 0
    BY DEF Types
  <2> QED BY <1>2, <2>1 DEF Card!Send
<1>5. sent[c] \in Nat /\ rcvd[c] \in Nat
  BY DEF Types
<1>6. sent[c] - rcvd[c] < Buffer
  BY <1>4, <1>5, ConfigsAssumption
<1> QED BY <1>2, <1>3, <1>4, <1>6

LEMMA WordOfCard ==
  ASSUME Types, NEW c \in Channels, NEW k \in Nat
  PROVE  /\ Card!OperandsOf(c, k) = IF c = 0 THEN <<k, k>> ELSE None
         /\ Card!Computable(c, k) => \A d \in Channels : k <= sent[d]
         /\ (\A d \in Channels : k <= sent[d]) => Card!Computable(c, k)
<1>1. base[0] + k = k /\ base[1] + k = k /\ \A d \in Channels : base[d] + k = k
  BY ToolsAre DEF Types
<1>2. c = 0 \/ c = 1
  BY ToolsAre
<1> QED BY <1>1, <1>2, ToolsAre DEF Card!OperandsOf, Card!Computable, Channels

LEMMA ReadWordDoes ==
  ASSUME Types, NEW c \in Channels, ReadWord(c)
  PROVE  LET t == <<"read", c>>
             k == rcvd[c] + 1 IN
         /\ Stream /\ tool[t].pc = "dma" /\ tool[t].n < Size
         /\ Left(t, "dma", tool[t].n + 1,
                 [tool[t].data EXCEPT !.words = Append(@, WordAt(c, k))], tool[t].rc)
         /\ \A d \in Channels : k <= sent[d]
         /\ rcvd' = [rcvd EXCEPT ![c] = k]
         /\ UNCHANGED <<cfg, script, out, mem, kernel, base, sent>>
<1> DEFINE t    == <<"read", c>>
           k    == rcvd[c] + 1
           word == WordAt(c, k)
           w    == Append(tool[t].data.words, word)
           n    == tool[t].n + 1
           d    == [tool[t].data EXCEPT !.words = Append(@, word)]
<1>1. t \in Tools /\ k \in Nat
  <2>1. rcvd[c] \in Nat
    BY DEF Types
  <2> QED BY <2>1, ToolsAre
<1>2. Card!OperandsOf(c, k) = IF c = 0 THEN <<k, k>> ELSE None
  <2> HIDE DEF k
  <2> QED BY <1>1, WordOfCard
<1>3. (IF c = 0 THEN <<Place(0, Card!OperandsOf(c, k)[1]), Place(1, Card!OperandsOf(c, k)[2])>>
       ELSE None) = word
  BY <1>2 DEF WordAt
<1>4. /\ Stream /\ tool[t].pc = "dma" /\ tool[t].n < Size /\ Card!Receive(c)
      /\ tool' = [tool EXCEPT ![t].n = n, ![t].data.words = w]
      /\ UNCHANGED <<cfg, script, out, mem, kernel>>
  <2> HIDE DEF word
  <2> QED BY <1>1, <1>3 DEF ReadWord, Types
<1>5. d = [tool[t].data EXCEPT !.words = w]
  OBVIOUS
<1>6. tool' = [tool EXCEPT ![t] = [tool[t] EXCEPT !.n = n, !.data = d]]
  <2> HIDE DEF w, d, n, word
  <2>2. [tool EXCEPT ![t].n = n, ![t].data.words = w]
          = [tool EXCEPT ![t] = [tool[t] EXCEPT !.n = n,
                                   !.data = [tool[t].data EXCEPT !.words = w]]]
    <3> HIDE DEF t
    <3> QED BY <1>1, ToolFields
  <2> QED BY <1>4, <1>5, <2>2, Zenon
<1>7. Left(t, "dma", n, d, tool[t].rc)
  <2> HIDE DEF d, n, t, word, w
  <2>1. [tool[t] EXCEPT !.n = n, !.data = d]
          = [pc |-> tool[t].pc, n |-> n, data |-> d, rc |-> tool[t].rc]
    BY <1>1, ExceptNData
  <2> QED BY <1>4, <1>6, <2>1 DEF Left
<1>8. Card!Computable(c, k) /\ rcvd' = [rcvd EXCEPT ![c] = k] /\ UNCHANGED <<base, sent>>
  BY <1>4 DEF Card!Receive
<1>9. \A e \in Channels : k <= sent[e]
  BY <1>1, <1>8, WordOfCard
<1> QED BY <1>4, <1>7, <1>8, <1>9

LEMMA StartedDoes ==
  ASSUME Types, Launch \/ Run
  PROVE  LET t == <<script.at, script.c>> IN
         /\ t \in Tools
         /\ Left(t, "open", tool[t].n, tool[t].data, tool[t].rc)
         /\ UNCHANGED <<cfg, mem, kernel, cardVars>>
         /\ \/ Stream /\ script' = Advanced
               /\ out' = IF IsReader(t) THEN Removed(script.c) ELSE out
            \/ ~Stream /\ tool[t].pc = "off" /\ UNCHANGED <<script, out>>
  BY PcLeaves DEF Launch, Run

(***************************************************************************)
(* Words                                                                   *)
(***************************************************************************)

LEMMA Residue ==
  ASSUME Types, NEW c \in Channels
  PROVE  cfg.residue[c] \in Nat /\ cfg.residue[c] <= Buffer
         /\ Buffer \in Nat \ {0} /\ Size \in Nat \ {0}
<1>1. cfg \in Configs
  BY DEF Types
<1>2. cfg.residue[c] \in 0 .. Buffer
  BY <1>1, ConfigsAssumption, ToolsAre
<1>3. Buffer \in Nat \ {0} /\ Size \in Nat \ {0}
  BY ConfigsAssumption
<1> QED BY <1>2, <1>3

LEMMA WordTyped ==
  ASSUME Types, NEW c \in Channels, NEW k \in Nat
  PROVE  WordAt(c, k) \in Words
<1>1. Place(0, k) \in Int /\ Place(1, k) \in Int
  <2>1. cfg.residue[0] \in Nat /\ cfg.residue[1] \in Nat
    BY Residue, ToolsAre
  <2> QED BY <2>1 DEF Place
<1>2. <<Place(0, k), Place(1, k)>> \in Int \X Int
  BY <1>1
<1> QED BY <1>2 DEF WordAt, Words

LEMMA WordsTyped ==
  ASSUME Types, NEW c \in Channels, NEW n \in Nat
  PROVE  Content("words", FirstWords(c, n)) \in Contents
<1>1. \A k \in 1 .. n : WordAt(c, k) \in Words
  BY WordTyped
<1>2. FirstWords(c, n) \in [1 .. n -> Words]
  BY <1>1 DEF FirstWords
<1>3. FirstWords(c, n) \in Seq(Words)
  BY <1>2
<1> QED BY <1>3 DEF Content, Contents, Kinds

LEMMA WordsAre ==
  ASSUME Types, NEW c \in Channels, NEW n \in Nat
  PROVE  /\ FirstWords(c, n) \in Seq(Words) /\ Len(FirstWords(c, n)) = n
         /\ \A k \in 1 .. n : FirstWords(c, n)[k] = WordAt(c, k)
<1>1. FirstWords(c, n) \in Seq(Words)
  BY WordsTyped DEF Content, Contents
<1>2. DOMAIN FirstWords(c, n) = 1 .. n /\ \A k \in 1 .. n : FirstWords(c, n)[k] = WordAt(c, k)
  BY DEF FirstWords
<1>3. Len(FirstWords(c, n)) = n
  BY <1>1, <1>2, LenProperties
<1> QED BY <1>1, <1>2, <1>3

LEMMA WordAppended ==
  ASSUME Types, NEW c \in Channels, NEW n \in Nat
  PROVE  Append(FirstWords(c, n), WordAt(c, n + 1)) = FirstWords(c, n + 1)
<1> DEFINE f == FirstWords(c, n)  g == FirstWords(c, n + 1)  e == WordAt(c, n + 1)
           a == Append(f, e)
<1>1. n + 1 \in Nat /\ e \in Words
  BY WordTyped
<1>2. /\ f \in Seq(Words) /\ Len(f) = n /\ g \in Seq(Words) /\ Len(g) = n + 1
      /\ \A k \in 1 .. n : f[k] = WordAt(c, k)
      /\ \A k \in 1 .. n + 1 : g[k] = WordAt(c, k)
  BY <1>1, WordsAre
<1> HIDE DEF f, g
<1>3. /\ a \in Seq(Words) /\ Len(a) = n + 1 /\ a[n + 1] = e
      /\ \A k \in 1 .. n : a[k] = f[k]
  <2> HIDE DEF e
  <2> QED BY <1>1, <1>2, AppendProperties
<1> HIDE DEF a
<1>4. \A k \in 1 .. n + 1 : a[k] = g[k]
  <2> TAKE k \in 1 .. n + 1
  <2>1. k \in 1 .. n \/ k = n + 1
    OBVIOUS
  <2> QED BY <2>1, <1>2, <1>3
<1>5. a = g
  BY <1>2, <1>3, <1>4, SeqEqual
<1> QED BY <1>5 DEF a, f, g

LEMMA WordsCut ==
  ASSUME Types, NEW c \in Channels, NEW m \in Nat, NEW n \in 0 .. m
  PROVE  SubSeq(FirstWords(c, m), 1, n) = FirstWords(c, n)
<1> DEFINE f == FirstWords(c, m)  g == FirstWords(c, n)  a == SubSeq(f, 1, n)
<1>1. /\ f \in Seq(Words) /\ Len(f) = m /\ g \in Seq(Words) /\ Len(g) = n
      /\ \A k \in 1 .. m : f[k] = WordAt(c, k)
      /\ \A k \in 1 .. n : g[k] = WordAt(c, k)
  BY WordsAre
<1>2. \A k \in 1 .. n : f[k] = WordAt(c, k) /\ f[k] \in Words
  BY <1>1, WordTyped
<1> HIDE DEF f, g
<1>3. a \in Seq(Words) /\ Len(a) = n /\ \A k \in 1 .. n : a[k] = f[k]
  BY <1>2, SubSeqProperties
<1> HIDE DEF a
<1>4. a = g
  BY <1>1, <1>2, <1>3, SeqEqual
<1> QED BY <1>4 DEF a, f, g

\* What a tool that has received a word, or that gives up, has got.
LEMMA ReadWordHas ==
  ASSUME Types, NEW c \in Channels, StreamOf(c), ReadWord(c)
  PROVE  LET t == <<"read", c>> IN
         /\ tool[t].n = rcvd[c]
         /\ Left(t, "dma", rcvd[c] + 1, Content("words", FirstWords(c, rcvd[c] + 1)),
                 tool[t].rc)
<1> DEFINE t == <<"read", c>>  n == rcvd[c]
<1>1. n \in Nat
  BY DEF Types
<1>2. tool[t].pc = "dma" /\ tool[t].n = n /\ tool[t].data = Content("words", FirstWords(c, n))
  BY ReadWordDoes DEF StreamOf, Reader
<1>3. Left(t, "dma", n + 1, [tool[t].data EXCEPT !.words = Append(@, WordAt(c, n + 1))],
           tool[t].rc)
  BY <1>2, ReadWordDoes
<1>4. [tool[t].data EXCEPT !.words = Append(@, WordAt(c, n + 1))]
        = Content("words", FirstWords(c, n + 1))
  <2> DEFINE d == tool[t].data  w == FirstWords(c, n)  e == WordAt(c, n + 1)
  <2>1. Append(w, e) = FirstWords(c, n + 1)
    BY <1>1, WordAppended
  <2>2. d = [kind |-> "words", words |-> w]
    BY <1>2 DEF Content
  <2> HIDE DEF d, w, e, n
  <2>3. [d EXCEPT !.words = Append(@, e)] = [kind |-> "words", words |-> Append(w, e)]
    BY <2>2, SMTT(30)
  <2> QED BY <2>1, <2>3 DEF d, e, Content
<1> QED BY <1>2, <1>3, <1>4

LEMMA PartRead ==
  ASSUME Types, Stream => StreamInv, ~Stream => MemoryInv, NEW t \in Tools, IsReader(t),
         tool[t].n < Size, NEW n \in 1 .. tool[t].n
  PROVE  /\ Stream
         /\ [tool[t].data EXCEPT !.words = SubSeq(@, 1, n)]
              = Content("words", FirstWords(t[2], n))
<1> DEFINE c == t[2]  m == tool[t].n
<1>1. t = <<"read", c>> /\ c \in Channels
  BY ToolsAre DEF IsReader
<1>2. m \in Nat
  <2>1. m \in 0 .. Size
    BY RecordOf DEF ToolRec
  <2> QED BY <2>1, ConfigsAssumption
<1>3. Stream
  <2>1. ~Stream => m \in {0, Size}
    BY <1>1 DEF MemoryInv, MemoryOf, Reader
  <2> QED BY <1>2, <2>1
<1>4. tool[t].data = Content("words", FirstWords(c, m))
  BY <1>1, <1>3 DEF StreamInv, StreamOf, Reader
<1>5. [tool[t].data EXCEPT !.words = SubSeq(@, 1, n)] = Content("words", FirstWords(c, n))
  <2> DEFINE d == tool[t].data  w == FirstWords(c, m)
  <2>0. n \in 0 .. m
    BY <1>2
  <2>1. SubSeq(w, 1, n) = FirstWords(c, n)
    <3> HIDE DEF m, c
    <3> QED BY <1>1, <1>2, <2>0, WordsCut
  <2>2. d = [kind |-> "words", words |-> w] /\ d.words = w
    BY <1>4 DEF Content
  <2> DEFINE x == SubSeq(d.words, 1, n)
  <2> HIDE DEF d, w
  <2>a. [d EXCEPT !.words = SubSeq(@, 1, n)] = [d EXCEPT !.words = x]
    OBVIOUS
  <2>b. x = SubSeq(w, 1, n)
    BY <2>2
  <2> HIDE DEF x
  <2>c. [d EXCEPT !.words = x] = [kind |-> "words", words |-> x]
    BY <2>2
  <2>3. [d EXCEPT !.words = SubSeq(@, 1, n)] = [kind |-> "words", words |-> SubSeq(w, 1, n)]
    BY <2>a, <2>b, <2>c
  <2>4. [d EXCEPT !.words = SubSeq(@, 1, n)] = Content("words", FirstWords(c, n))
    BY <2>1, <2>3 DEF Content, w
  <2> QED BY <2>4 DEF d
<1> QED BY <1>3, <1>5

LEMMA GiveUpHas ==
  ASSUME Types, Stream => StreamInv, ~Stream => MemoryInv, NEW t \in Tools, GiveUp(t)
  PROVE  \/ Left(t, "exit", tool[t].n, tool[t].data, EIO)
         \/ /\ Stream /\ IsReader(t)
            /\ \E n \in 1 .. tool[t].n :
                 Left(t, "save", n, Content("words", FirstWords(t[2], n)), tool[t].rc)
<1>1. CASE Left(t, "exit", tool[t].n, tool[t].data, EIO)
  BY <1>1
<1>2. CASE ~Left(t, "exit", tool[t].n, tool[t].data, EIO)
  <2>1. IsReader(t) /\ tool[t].n < Size
    BY <1>2, GiveUpDoes
  <2>2. PICK n \in 1 .. tool[t].n :
          Left(t, "save", n, [tool[t].data EXCEPT !.words = SubSeq(@, 1, n)], tool[t].rc)
    BY <1>2, GiveUpDoes
  <2>3. Stream /\ [tool[t].data EXCEPT !.words = SubSeq(@, 1, n)]
                    = Content("words", FirstWords(t[2], n))
    BY <2>1, PartRead
  <2>4. Left(t, "save", n, Content("words", FirstWords(t[2], n)), tool[t].rc)
    BY <2>2, <2>3
  <2> QED BY <2>1, <2>3, <2>4
<1> QED BY <1>1, <1>2

LEMMA ContentsAre ==
  /\ Missing \in Contents /\ Empty \in Contents /\ Old \in Contents
  /\ Input \in Contents /\ Result \in Contents /\ Garbage \in Contents
<1>1. <<>> \in Seq(Words)
  OBVIOUS
<1> QED BY <1>1 DEF Missing, Empty, Old, Input, Result, Garbage, Content, Contents, Kinds

(***************************************************************************)
(* The steps                                                               *)
(***************************************************************************)

\* The steps of the script that leave tools, files and card alone.
ScriptAlone == \/ Sleep \/ Compare \/ Ran \/ WriteScalars \/ CheckIdle
               \/ WriteStart \/ Poll \/ CtrlFails

LEMMA Steps ==
  ASSUME [Next]_vars
  PROVE  \/ UNCHANGED vars \/ ScriptAlone \/ Launch \/ Run \/ KernelFinish
         \/ \E t \in Tools : \/ OpenDevice(t) \/ OpenFile(t) \/ Memory(t) \/ Moved(t)
                             \/ GiveUp(t) \/ Save(t)
         \/ \E c \in Channels : ReadWord(c) \/ WriteWord(c)
  BY ToolsAre DEF Next, Script, Progress, ScriptAlone

LEMMA ToolsTyped ==
  ASSUME Types, Stream => StreamInv, ~Stream => MemoryInv, [Next]_vars
  PROVE  tool' \in [Tools -> ToolRec]
<1>0. /\ "open" \in Pcs /\ "file" \in Pcs /\ "dma" \in Pcs /\ "save" \in Pcs /\ "exit" \in Pcs
      /\ EINVAL \in {0, EINVAL, EIO} /\ EIO \in {0, EINVAL, EIO} /\ 0 \in {0, EINVAL, EIO}
      /\ Size \in 0 .. Size /\ Size \in Nat
  BY ConfigsAssumption DEF Pcs
<1>1. \A t \in Tools : /\ tool[t].n \in 0 .. Size /\ tool[t].data \in Contents
                       /\ tool[t].rc \in {0, EINVAL, EIO}
  BY RecordOf DEF ToolRec
<1>2. CASE UNCHANGED vars \/ ScriptAlone \/ KernelFinish
  <2>1. tool' = tool
    BY <1>2, Kept DEF ScriptAlone
  <2> QED BY <2>1 DEF Types, ToolRec
<1>3. CASE Launch \/ Run
  <2> DEFINE t == <<script.at, script.c>>
  <2>1. t \in Tools /\ Left(t, "open", tool[t].n, tool[t].data, tool[t].rc)
    BY <1>3, StartedDoes
  <2> QED BY <1>0, <1>1, <2>1, LeftTyped
<1>4. ASSUME NEW t \in Tools, OpenDevice(t) \/ OpenFile(t) \/ Moved(t) \/ Save(t)
      PROVE  tool' \in [Tools -> ToolRec]
  <2>1. \/ \E p \in Pcs : Left(t, p, tool[t].n, tool[t].data, tool[t].rc)
        \/ \E e \in {0, EINVAL, EIO} : Left(t, "exit", tool[t].n, tool[t].data, e)
    BY <1>0, <1>4, OpenDeviceDoes, OpenFileDoes, MovedDoes, SaveDoes
  <2> QED BY <1>0, <1>1, <2>1, LeftTyped
<1>5. ASSUME NEW t \in Tools, Memory(t) PROVE tool' \in [Tools -> ToolRec]
  <2>1. mem[t[2]] \in Contents
    BY ToolsAre DEF Types
  <2>2. Left(t, "dma", Size, mem[t[2]], tool[t].rc)
    BY <1>5, MemoryDoes
  <2> QED BY <1>0, <1>1, <2>1, <2>2, LeftTyped
<1>6. ASSUME NEW t \in Tools, GiveUp(t) PROVE tool' \in [Tools -> ToolRec]
  <2>1. CASE Left(t, "exit", tool[t].n, tool[t].data, EIO)
    BY <1>0, <1>1, <2>1, LeftTyped
  <2>2. CASE \E n \in 1 .. tool[t].n :
                 Left(t, "save", n, Content("words", FirstWords(t[2], n)), tool[t].rc)
    <3>1. PICK n \in 1 .. tool[t].n :
                 Left(t, "save", n, Content("words", FirstWords(t[2], n)), tool[t].rc)
      BY <2>2
    <3>2. n \in 0 .. Size /\ n \in Nat
      BY <1>0, <1>1
    <3>3. Content("words", FirstWords(t[2], n)) \in Contents
      BY <3>2, ToolsAre, WordsTyped
    <3> QED BY <1>0, <1>1, <3>1, <3>2, <3>3, LeftTyped
  <2> QED BY <1>6, <2>1, <2>2, GiveUpHas
<1>7. ASSUME NEW c \in Channels, WriteWord(c) PROVE tool' \in [Tools -> ToolRec]
  <2> DEFINE t == <<"write", c>>
  <2>1. t \in Tools /\ tool[t].n < Size /\ Left(t, "dma", tool[t].n + 1, tool[t].data, tool[t].rc)
    BY <1>7, WriteWordDoes, ToolsAre
  <2>2. tool[t].n + 1 \in 0 .. Size
    BY <1>0, <1>1, <2>1
  <2> QED BY <1>0, <1>1, <2>1, <2>2, LeftTyped
<1>8. ASSUME NEW c \in Channels, ReadWord(c) PROVE tool' \in [Tools -> ToolRec]
  <2> DEFINE t == <<"read", c>>  n == rcvd[c] + 1
  <2>1. StreamOf(c)
    BY <1>8, ReadWordDoes DEF StreamInv
  <2>2. t \in Tools /\ tool[t].n < Size /\ tool[t].n = rcvd[c]
        /\ Left(t, "dma", n, Content("words", FirstWords(c, n)), tool[t].rc)
    BY <1>8, <2>1, ReadWordDoes, ReadWordHas, ToolsAre
  <2>3. n \in 0 .. Size /\ n \in Nat
    BY <1>0, <1>1, <2>2
  <2>4. Content("words", FirstWords(c, n)) \in Contents
    BY <2>3, WordsTyped
  <2> QED BY <1>0, <1>1, <2>2, <2>3, <2>4, LeftTyped
<1> QED BY <1>2, <1>3, <1>4, <1>5, <1>6, <1>7, <1>8, Steps

LEMMA TypesStep ==
  ASSUME Types, Stream => StreamInv, ~Stream => MemoryInv, [Next]_vars
  PROVE  Types'
<1>1. cfg' = cfg
  BY Steps DEF vars, ScriptAlone, Sleep, Compare, Ran, WriteScalars, CheckIdle, WriteStart,
     Poll, CtrlFails, Launch, Run, KernelFinish, OpenDevice, OpenFile, Memory, Moved,
     GiveUp, Save, ReadWord, WriteWord
<1>2. script' \in [at : Places, c : Channels, error : BOOLEAN]
  <2>0. script \in [at : Places, c : Channels, error : BOOLEAN]
    BY DEF Types
  <2>1. CASE UNCHANGED vars \/ ScriptAlone
    BY <2>1, TypesOfScript DEF ScriptAlone
  <2>2. CASE Launch \/ Run
    BY <2>0, <2>2, StartedDoes, AdvanceTypes, ToolsAre
  <2>3. CASE ~(UNCHANGED vars \/ ScriptAlone \/ Launch \/ Run)
    <3>1. script' = script
      BY <2>3, Steps DEF KernelFinish, OpenDevice, OpenFile, Memory, Moved,
         GiveUp, Save, ReadWord, WriteWord
    <3> QED BY <2>0, <3>1
  <2> QED BY <2>1, <2>2, <2>3
<1>3. out' \in [Channels -> Contents]
  <2>0. out \in [Channels -> Contents]
    BY DEF Types
  <2>1. CASE Launch \/ Run
    BY <2>0, <2>1, StartedDoes, ContentsAre, ToolsAre DEF Removed
  <2>2. ASSUME NEW t \in Tools, OpenFile(t) PROVE out' \in [Channels -> Contents]
    BY <2>0, <2>2, OpenFileDoes, ContentsAre, ToolsAre
  <2>3. ASSUME NEW t \in Tools, Save(t) PROVE out' \in [Channels -> Contents]
    <3>1. tool[t].data \in Contents
      BY RecordOf DEF ToolRec
    <3> QED BY <2>0, <2>3, <3>1, SaveDoes, ToolsAre
  <2>4. CASE ~(Launch \/ Run \/ \E t \in Tools : OpenFile(t) \/ Save(t))
    <3>1. out' = out
      BY <2>4, Steps DEF vars, ScriptAlone, Sleep, Compare, Ran, WriteScalars, CheckIdle,
         WriteStart, Poll, CtrlFails, KernelFinish, OpenDevice, Memory, Moved,
         GiveUp, ReadWord, WriteWord
    <3> QED BY <2>0, <3>1
  <2> QED BY <2>1, <2>2, <2>3, <2>4
<1>4. mem' \in [Channels -> Contents]
  <2>0. mem \in [Channels -> Contents]
    BY DEF Types
  <2>1. ASSUME NEW t \in Tools, Memory(t) PROVE mem' \in [Channels -> Contents]
    BY <2>0, <2>1, MemoryDoes, ContentsAre, ToolsAre
  <2>2. CASE KernelFinish
    BY <2>0, <2>2, ContentsAre, SMTT(30) DEF KernelFinish, Computed
  <2>3. CASE ~(KernelFinish \/ \E t \in Tools : Memory(t))
    <3>1. mem' = mem
      BY <2>3, Steps DEF vars, ScriptAlone, Sleep, Compare, Ran, WriteScalars, CheckIdle,
         WriteStart, Poll, CtrlFails, Launch, Run, OpenDevice, OpenFile, Moved,
         GiveUp, Save, ReadWord, WriteWord
    <3> QED BY <2>0, <3>1
  <2> QED BY <2>1, <2>2, <2>3
<1>5. kernel' \in [busy : BOOLEAN, done : BOOLEAN, own : BOOLEAN]
  <2>0. kernel \in [busy : BOOLEAN, done : BOOLEAN, own : BOOLEAN]
    BY DEF Types
  <2>1. cfg.clearOnRead \in BOOLEAN
    BY ConfigsAssumption DEF Types
  <2>2. CASE CheckIdle \/ Poll
    <3> DEFINE b == kernel.done /\ ~cfg.clearOnRead
    <3>1. kernel' = [kernel EXCEPT !.done = b]
      BY <2>2 DEF CheckIdle, Poll, CtrlRead
    <3>2. b \in BOOLEAN
      OBVIOUS
    <3> HIDE DEF b
    <3> QED BY <2>0, <3>1, <3>2
  <2>3. CASE WriteStart
    <3> DEFINE b == kernel.done /\ cfg.clearOnRead
    <3>1. kernel' = kernel \/ kernel' = [busy |-> TRUE, done |-> b, own |-> TRUE]
      BY <2>3 DEF WriteStart
    <3>2. b \in BOOLEAN
      OBVIOUS
    <3> HIDE DEF b
    <3>3. [busy |-> TRUE, done |-> b, own |-> TRUE]
            \in [busy : BOOLEAN, done : BOOLEAN, own : BOOLEAN]
      BY <3>2, Zenon
    <3> QED BY <2>0, <3>1, <3>3, Zenon
  <2>4. CASE KernelFinish
    BY <2>0, <2>4 DEF KernelFinish
  <2>5. CASE ~(CheckIdle \/ Poll \/ WriteStart \/ KernelFinish)
    <3>1. kernel' = kernel
      BY <2>5, Steps DEF vars, ScriptAlone, Sleep, Compare, Ran, WriteScalars,
         CtrlFails, Launch, Run, OpenDevice, OpenFile, Memory, Moved,
         GiveUp, Save, ReadWord, WriteWord
    <3> QED BY <2>0, <3>1
  <2> QED BY <2>2, <2>3, <2>4, <2>5
<1>6. sent' \in [Channels -> Nat] /\ rcvd' \in [Channels -> Nat]
      /\ base' = [c \in Channels |-> 0]
  <2>0. /\ sent \in [Channels -> Nat] /\ rcvd \in [Channels -> Nat]
        /\ base = [c \in Channels |-> 0]
    BY DEF Types
  <2>1. ASSUME NEW c \in Channels, WriteWord(c)
        PROVE  /\ sent' \in [Channels -> Nat] /\ UNCHANGED <<base, rcvd>>
    <3>1. sent' = [sent EXCEPT ![c] = sent[c] + 1] /\ UNCHANGED <<base, rcvd>>
      BY <2>1, WriteWordDoes
    <3>2. sent[c] + 1 \in Nat
      BY <2>0
    <3> QED BY <2>0, <3>1, <3>2
  <2>2. ASSUME NEW c \in Channels, ReadWord(c)
        PROVE  /\ rcvd' \in [Channels -> Nat] /\ UNCHANGED <<base, sent>>
    <3>1. rcvd' = [rcvd EXCEPT ![c] = rcvd[c] + 1] /\ UNCHANGED <<base, sent>>
      BY <2>2, ReadWordDoes
    <3>2. rcvd[c] + 1 \in Nat
      BY <2>0
    <3> QED BY <2>0, <3>1, <3>2
  <2>3. CASE ~(\E c \in Channels : ReadWord(c) \/ WriteWord(c))
    <3>1. UNCHANGED <<sent, rcvd, base>>
      BY <2>3, Steps DEF vars, cardVars, ScriptAlone, Sleep, Compare, Ran, WriteScalars,
         CheckIdle, WriteStart, Poll, CtrlFails, Launch, Run, KernelFinish, OpenDevice,
         OpenFile, Memory, Moved, GiveUp, Save
    <3> QED BY <2>0, <3>1
  <2> QED BY <2>0, <2>1, <2>2, <2>3
<1>7. tool' \in [Tools -> ToolRec]
  BY ToolsTyped
<1> QED BY <1>1, <1>2, <1>3, <1>4, <1>5, <1>6, <1>7 DEF Types, ToolRec

(***************************************************************************)
(* The streaming test                                                      *)
(***************************************************************************)

\* A step of a tool that runs.
ToolStep(t) ==
  \/ OpenDevice(t) \/ OpenFile(t) \/ Memory(t) \/ Moved(t) \/ GiveUp(t) \/ Save(t)
  \/ \E c \in Channels : \/ t = <<"read", c>> /\ ReadWord(c)
                         \/ t = <<"write", c>> /\ WriteWord(c)

LEMMA ToolStepMoves ==
  ASSUME Types, NEW t \in Tools, ToolStep(t)
  PROVE  /\ OneMoves(t) /\ UNCHANGED <<cfg, script, kernel>>
         /\ tool[t].pc \in {"open", "file", "dma", "save"}
         /\ tool'[t].pc \in {"file", "dma", "save", "exit"}
         /\ tool[t].pc \in {"dma", "save"} => tool'[t].pc # "file"
<1>1. CASE OpenDevice(t)
  BY <1>1, OpenDeviceDoes, LeftIs
<1>2. CASE OpenFile(t)
  BY <1>2, OpenFileDoes, LeftIs
<1>3. CASE Memory(t)
  BY <1>3, MemoryDoes, LeftIs
<1>4. CASE Moved(t)
  BY <1>4, MovedDoes, LeftIs
<1>5. CASE GiveUp(t)
  <2>1. tool[t].pc = "dma" /\ UNCHANGED <<cfg, script, kernel>>
    BY <1>5, GiveUpDoes
  <2>2. CASE Left(t, "exit", tool[t].n, tool[t].data, EIO)
    BY <2>1, <2>2, LeftIs
  <2>3. ASSUME NEW n, NEW d, Left(t, "save", n, d, tool[t].rc)
        PROVE  OneMoves(t) /\ tool'[t].pc = "save"
    BY <2>3, LeftIs
  <2> QED BY <1>5, <2>1, <2>2, <2>3, GiveUpDoes
<1>6. CASE Save(t)
  BY <1>6, SaveDoes, LeftIs
<1>7. ASSUME NEW c \in Channels, t = <<"read", c>>, ReadWord(c)
      PROVE  /\ OneMoves(t) /\ UNCHANGED <<cfg, script, kernel>>
             /\ tool[t].pc = "dma" /\ tool'[t].pc = "dma"
  <2> DEFINE k == rcvd[c] + 1
             d == [tool[t].data EXCEPT !.words = Append(@, WordAt(c, k))]
  <2>1. /\ UNCHANGED <<cfg, script, kernel>> /\ tool[t].pc = "dma"
        /\ Left(t, "dma", tool[t].n + 1, d, tool[t].rc)
    BY <1>7, ReadWordDoes
  <2> HIDE DEF d
  <2> QED BY <2>1, LeftIs
<1>8. ASSUME NEW c \in Channels, t = <<"write", c>>, WriteWord(c)
      PROVE  /\ OneMoves(t) /\ UNCHANGED <<cfg, script, kernel>>
             /\ tool[t].pc = "dma" /\ tool'[t].pc = "dma"
  BY <1>8, WriteWordDoes, LeftIs
<1> QED BY <1>1, <1>2, <1>3, <1>4, <1>5, <1>6, <1>7, <1>8 DEF ToolStep

LEMMA StepsOf ==
  ASSUME [Next]_vars
  PROVE  \/ UNCHANGED vars \/ ScriptAlone \/ Launch \/ Run \/ KernelFinish
         \/ \E t \in Tools : ToolStep(t)
  BY Steps, ToolsAre DEF ToolStep

LEMMA AdvancedIs ==
  ASSUME Types, script.at \in {"read", "write"}
  PROVE  /\ script.c = 0 => Advanced.at = script.at /\ Advanced.c = 1
         /\ script.c = 1 => Advanced.c = 0 /\ Advanced.at = After(script.at)
         /\ Advanced.error = script.error
         /\ script.c = 0 \/ script.c = 1
  BY ToolsAre DEF Types, Advanced

LEMMA StartedStep ==
  ASSUME Types, Types', Stream, StartedInTurn, [Next]_vars
  PROVE  StartedInTurn'
<1>1. CASE UNCHANGED vars \/ KernelFinish
  <2>1. UNCHANGED <<cfg, script, tool>>
    BY <1>1 DEF vars, KernelFinish
  <2> QED BY <2>1 DEF StartedInTurn, Reader, Writer, Shell
<1>2. ASSUME NEW t \in Tools, ToolStep(t) PROVE StartedInTurn'
  <2>1. /\ \A u \in Tools : \/ tool'[u] = tool[u]
                            \/ /\ tool[u].pc # "off" /\ tool'[u].pc # "off"
                               /\ tool[u].pc # "exit"
                               /\ tool[u].pc \in {"dma", "save"}
                                    => tool'[u].pc \in {"dma", "save", "exit"}
        /\ UNCHANGED <<cfg, script>>
    BY <1>2, ToolStepMoves DEF OneMoves
  <2> QED BY <2>1, ToolsAre DEF StartedInTurn, Reader, Writer, Shell
<1>3. CASE Launch
  <2> DEFINE t == <<script.at, script.c>>
  <2>1. t \in Tools /\ OneMoves(t) /\ tool'[t].pc = "open" /\ script' = Advanced /\ cfg' = cfg
    BY <1>3, StartedDoes, LeftIs DEF Launch
  <2>2. script.at \in {"read", "write"}
    BY <2>1, ToolsAre
  <2>3. \A u \in Tools : u # t => tool'[u] = tool[u]
    BY <2>1 DEF OneMoves
  <2>4. CASE script.at = "read" /\ script.c = 0
    <3>1. script'.at = "read" /\ script'.c = 1
      BY <2>1, <2>4, AdvancedIs
    <3> QED BY <2>1, <2>3, <2>4, <3>1, ToolsAre DEF StartedInTurn, Reader, Writer, Shell
  <2>5. CASE script.at = "read" /\ script.c = 1
    <3>1. script'.at = "write" /\ script'.c = 0
      BY <2>1, <2>5, AdvancedIs DEF After
    <3> QED BY <2>1, <2>3, <2>5, <3>1, ToolsAre DEF StartedInTurn, Reader, Writer, Shell
  <2>6. CASE script.at = "write" /\ script.c = 0
    <3>1. script'.at = "write" /\ script'.c = 1
      BY <2>1, <2>6, AdvancedIs
    <3> QED BY <2>1, <2>3, <2>6, <3>1, ToolsAre DEF StartedInTurn, Reader, Writer, Shell
  <2>7. CASE script.at = "write" /\ script.c = 1
    <3>1. script'.c = 0 /\ script'.at = IF Shell THEN "wait" ELSE "sleep"
      BY <2>1, <2>7, AdvancedIs DEF After
    <3> QED BY <2>1, <2>3, <2>7, <3>1, ToolsAre DEF StartedInTurn, Reader, Writer, Shell
  <2> QED BY <2>2, <2>4, <2>5, <2>6, <2>7, AdvancedIs
<1>4. CASE ScriptAlone
  <2>1. tool' = tool /\ cfg' = cfg
    BY <1>4, Kept DEF ScriptAlone
  <2>2. CASE Sleep
    <3>1. script'.at = "compare" /\ script.at \in {"sleep", "wait"}
      BY <2>2 DEF Sleep, At, Types
    <3>2. \A t \in Tools : tool[t].pc # "off" /\ tool[t].pc \in Pcs
      <4>1. \A t \in Tools : tool[t].pc \in Pcs
        BY RecordOf DEF ToolRec
      <4> QED BY <3>1, <4>1, ToolsAre DEF StartedInTurn, Reader, Writer
    <3>3. \A t \in Tools : IF Shell THEN tool[t].pc = "exit"
                                    ELSE tool[t].pc \in {"dma", "save", "exit"}
      BY <2>2, <3>1, <3>2 DEF StartedInTurn, Sleep, Running, Pcs
    <3> QED BY <2>1, <3>1, <3>2, <3>3, ToolsAre DEF StartedInTurn, Reader, Writer, Shell
  <2>3. CASE Compare
    <3>1. script.at = "compare" /\ script'.at \in {"compare", "ok", "errors", "stopped"}
      BY <2>3, CompareEffect DEF Types
    <3> QED BY <2>1, <3>1 DEF StartedInTurn, Reader, Writer, Shell
  <2>4. ~(Ran \/ WriteScalars \/ CheckIdle \/ WriteStart \/ Poll \/ CtrlFails)
    BY DEF StartedInTurn, Ran, WriteScalars, CheckIdle, WriteStart, Poll, CtrlFails
  <2> QED BY <1>4, <2>2, <2>3, <2>4 DEF ScriptAlone
<1>5. ~Run
  BY DEF Run
<1> QED BY <1>1, <1>2, <1>3, <1>4, <1>5, StepsOf

LEMMA WordsStay ==
  ASSUME cfg' = cfg, NEW c, NEW n
  PROVE  FirstWords(c, n)' = FirstWords(c, n)
  BY DEF FirstWords, WordAt, Place

\* A channel is left alone: its tools, its file, its counts; others may send more.
SameChannel(c) ==
  /\ UNCHANGED cfg
  /\ Reader(c)' = Reader(c) /\ Writer(c)' = Writer(c) /\ out'[c] = out[c]
  /\ sent'[c] = sent[c] /\ rcvd'[c] = rcvd[c]
  /\ \A d \in Channels : sent'[d] >= sent[d]

LEMMA SameChannelKeeps ==
  ASSUME Types, Types', NEW c \in Channels, StreamOf(c), FileOf(c), SameChannel(c)
  PROVE  StreamOf(c)' /\ FileOf(c)'
<1>1. /\ sent[c] \in Nat /\ rcvd[c] \in Nat
      /\ \A d \in Channels : sent[d] \in Nat /\ sent'[d] \in Nat
  BY DEF Types
<1>2. \A d \in Channels : rcvd[c] <= sent[d] => rcvd[c] <= sent'[d]
  BY <1>1 DEF SameChannel
<1>3. FirstWords(c, Reader(c).n)' = FirstWords(c, Reader(c).n)
  BY WordsStay DEF SameChannel
<1>4. StreamOf(c)'
  BY <1>2, <1>3 DEF SameChannel, StreamOf, Content
<1>5. FileOf(c)'
  BY DEF SameChannel, FileOf, Shell, Empty, Content
<1> QED BY <1>4, <1>5

\* The reader of a channel takes a step: the card keeps its counts, the tool its
\* words, unless the action says otherwise.
LEMMA ReaderOnly ==
  ASSUME Types, NEW c \in Channels, OneMoves(<<"read", c>>)
  PROVE  Writer(c)' = Writer(c) /\ \A d \in Channels \ {c} : Reader(d)' = Reader(d) /\ Writer(d)' = Writer(d)
  BY ToolsAre DEF OneMoves, Writer, Reader

LEMMA WriterOnly ==
  ASSUME Types, NEW c \in Channels, OneMoves(<<"write", c>>)
  PROVE  Reader(c)' = Reader(c) /\ \A d \in Channels \ {c} : Reader(d)' = Reader(d) /\ Writer(d)' = Writer(d)
  BY ToolsAre DEF OneMoves, Writer, Reader

LEMMA ReaderKeepsWords ==
  ASSUME Types, NEW c \in Channels, StreamOf(c), UNCHANGED <<cfg, sent, rcvd>>,
         Writer(c)' = Writer(c), Reader(c)'.n = Reader(c).n, Reader(c)'.data = Reader(c).data,
         Reader(c).pc \in {"off", "open"} \/ Reader(c)'.pc \notin {"off", "open", "file"},
         Reader(c)'.pc = "dma" => Reader(c).pc \in {"off", "open", "file", "dma"}
  PROVE  StreamOf(c)'
<1>1. FirstWords(c, Reader(c).n)' = FirstWords(c, Reader(c).n)
  BY WordsStay
<1>2. /\ sent'[c] = sent[c] /\ rcvd'[c] = rcvd[c] /\ cfg' = cfg
      /\ \A d \in Channels : sent'[d] = sent[d]
  OBVIOUS
<1>3. Reader(c)'.pc = "dma" => Reader(c).n = rcvd[c]
  <2>1. rcvd[c] \in Nat /\ Reader(c).n \in 0 .. Size
    BY RecordOf, ToolsAre DEF Types, ToolRec, Reader
  <2>2. Reader(c).pc \in {"off", "open", "file"} => Reader(c).n = 0 /\ rcvd[c] = 0
    BY <2>1, ConfigsAssumption DEF StreamOf
  <2> QED BY <2>2 DEF StreamOf
<1>4. Reader(c)'.pc \in {"off", "open", "file"} => rcvd[c] = 0
  BY DEF StreamOf
<1> QED BY <1>1, <1>2, <1>3, <1>4 DEF StreamOf

LEMMA ReaderStep ==
  ASSUME Types, Types', Stream, StreamInv, NEW c \in Channels, ToolStep(<<"read", c>>)
  PROVE  StreamOf(c)' /\ FileOf(c)'
<1> DEFINE t == <<"read", c>>
<1>1. /\ t \in Tools /\ IsReader(t) /\ t[2] = c /\ tool[t] = Reader(c) /\ tool'[t] = Reader(c)'
      /\ StreamOf(c) /\ FileOf(c)
  BY ToolsAre DEF IsReader, Reader, StreamInv
<1>2. OneMoves(t) /\ Writer(c)' = Writer(c) /\ UNCHANGED <<cfg, script, kernel>>
  BY <1>1, ToolStepMoves, ReaderOnly
<1>3. Shell' = Shell /\ Empty' = Empty
  BY <1>2 DEF Shell, Empty, Content
<1> HIDE DEF t
<1>4. CASE OpenDevice(t)
  <2>1. /\ Reader(c).pc = "open" /\ Reader(c)'.n = Reader(c).n /\ Reader(c)'.data = Reader(c).data
        /\ \/ Reader(c)'.pc = "file"
           \/ Reader(c)'.pc = "exit" /\ "open" \in cfg.faults
        /\ UNCHANGED <<out, sent, rcvd>>
    BY <1>1, <1>4, OpenDeviceDoes, LeftIs DEF cardVars
  <2>2. StreamOf(c)'
    BY <1>1, <1>2, <2>1, ReaderKeepsWords
  <2> QED BY <1>1, <1>2, <1>3, <2>1, <2>2 DEF FileOf
<1>5. CASE OpenFile(t)
  <2>1. /\ Reader(c).pc = "file" /\ Reader(c)'.n = Reader(c).n /\ Reader(c)'.data = Reader(c).data
        /\ Reader(c)'.pc = "dma" /\ out' = [out EXCEPT ![c] = Empty]
        /\ UNCHANGED <<sent, rcvd>>
    BY <1>1, <1>5, OpenFileDoes, LeftIs DEF cardVars
  <2>2. StreamOf(c)'
    BY <1>1, <1>2, <2>1, ReaderKeepsWords
  <2>3. out'[c] = Empty
    BY <2>1 DEF Types
  <2> QED BY <1>1, <1>2, <1>3, <2>2, <2>3 DEF FileOf, Empty, Content
<1>6. CASE Moved(t)
  <2>1. /\ Reader(c).pc = "dma" /\ Reader(c)'.n = Reader(c).n /\ Reader(c)'.data = Reader(c).data
        /\ Reader(c)'.pc = "save" /\ UNCHANGED <<out, sent, rcvd>>
    BY <1>1, <1>6, MovedDoes, LeftIs DEF cardVars
  <2>2. StreamOf(c)'
    BY <1>1, <1>2, <2>1, ReaderKeepsWords
  <2> QED BY <1>1, <1>2, <1>3, <2>1, <2>2 DEF FileOf
<1>7. CASE Save(t)
  <2>1. /\ Reader(c).pc = "save" /\ Reader(c)'.n = Reader(c).n /\ Reader(c)'.data = Reader(c).data
        /\ Reader(c)'.rc = IF Reader(c).n < Size THEN EIO ELSE 0
        /\ Reader(c)'.pc = "exit" /\ UNCHANGED <<sent, rcvd>>
        /\ out' = [out EXCEPT ![c] = Reader(c).data]
    BY <1>1, <1>7, SaveDoes, LeftIs DEF cardVars
  <2>2. StreamOf(c)'
    BY <1>1, <1>2, <2>1, ReaderKeepsWords
  <2>3. out'[c] = Reader(c)'.data /\ out'[c].kind = "words"
    BY <1>1, <2>1 DEF Types, StreamOf, Content
  <2>4. Reader(c)'.n = Size => Reader(c)'.rc = 0
    BY <2>1, ConfigsAssumption
  <2> QED BY <1>1, <1>2, <1>3, <2>1, <2>2, <2>3, <2>4 DEF FileOf
<1>8. CASE GiveUp(t)
  <2>0. Reader(c).pc = "dma" /\ UNCHANGED <<out, sent, rcvd>>
    BY <1>1, <1>8, GiveUpDoes DEF cardVars
  <2>1. CASE Left(t, "exit", tool[t].n, tool[t].data, EIO)
    <3>1. /\ Reader(c)'.n = Reader(c).n /\ Reader(c)'.data = Reader(c).data /\ Reader(c)'.pc = "exit"
      BY <1>1, <2>1, LeftIs
    <3>2. StreamOf(c)'
      BY <1>1, <1>2, <2>0, <3>1, ReaderKeepsWords
    <3> QED BY <1>1, <1>2, <1>3, <2>0, <3>1, <3>2 DEF FileOf
  <2>2. CASE \E n \in 1 .. tool[t].n :
               Left(t, "save", n, Content("words", FirstWords(t[2], n)), tool[t].rc)
    <3>1. PICK n \in 1 .. Reader(c).n :
               Left(t, "save", n, Content("words", FirstWords(c, n)), tool[t].rc)
      BY <1>1, <2>2
    <3>2. /\ Reader(c)'.n = n /\ Reader(c)'.pc = "save"
          /\ Reader(c)'.data = Content("words", FirstWords(c, n))
      BY <1>1, <3>1, LeftIs
    <3>3. FirstWords(c, n)' = FirstWords(c, n)
      BY <1>2, WordsStay
    <3>4. rcvd[c] \in Nat /\ Reader(c).n \in 0 .. Size /\ Size \in Nat
      BY <1>1, RecordOf, ConfigsAssumption DEF Types, ToolRec
    <3>5. n <= rcvd[c]
      BY <1>1, <3>1, <3>4 DEF StreamOf
    <3>6. /\ sent'[c] = sent[c] /\ rcvd'[c] = rcvd[c] /\ cfg' = cfg
          /\ \A d \in Channels : sent'[d] = sent[d]
      BY <1>2, <2>0
    <3>7. StreamOf(c)'
      BY <1>1, <1>2, <2>0, <3>2, <3>3, <3>5, <3>6 DEF StreamOf, Content
    <3> QED BY <1>1, <1>2, <1>3, <2>0, <3>2, <3>7 DEF FileOf
  <2> QED BY <1>1, <1>8, <2>1, <2>2, GiveUpHas
<1>9. CASE ReadWord(c)
  <2>1. /\ Reader(c).pc = "dma" /\ Reader(c).n < Size /\ UNCHANGED <<out, sent>>
        /\ rcvd' = [rcvd EXCEPT ![c] = rcvd[c] + 1]
        /\ \A d \in Channels : rcvd[c] + 1 <= sent[d]
    BY <1>1, <1>9, ReadWordDoes DEF t
  <2>2. /\ Reader(c).n = rcvd[c]
        /\ Left(t, "dma", rcvd[c] + 1, Content("words", FirstWords(c, rcvd[c] + 1)), tool[t].rc)
    BY <1>1, <1>9, ReadWordHas DEF t
  <2>a. rcvd[c] \in Nat
    BY DEF Types
  <2>3. PICK m \in Nat : m = rcvd[c] + 1
    BY <2>a
  <2>4. /\ Reader(c)'.n = m /\ Reader(c)'.pc = "dma"
        /\ Reader(c)'.data = Content("words", FirstWords(c, m))
    BY <1>1, <2>2, <2>3, LeftIs
  <2>5. FirstWords(c, m)' = FirstWords(c, m)
    BY <1>2, WordsStay
  <2>b. rcvd'[c] = m /\ m <= Size /\ (\A d \in Channels : m <= sent'[d]) /\ sent'[c] = sent[c]
    BY <2>1, <2>2, <2>3, <2>a, ConfigsAssumption DEF Types
  <2>6. StreamOf(c)'
    BY <1>1, <1>2, <2>3, <2>4, <2>5, <2>b DEF StreamOf, Content
  <2> QED BY <1>1, <1>2, <1>3, <2>1, <2>4, <2>6 DEF FileOf
<1>10. ~Memory(t) /\ \A d \in Channels : t # <<"write", d>> /\ (t = <<"read", d>> => d = c)
  BY DEF Memory, t
<1> QED BY <1>4, <1>5, <1>6, <1>7, <1>8, <1>9, <1>10 DEF ToolStep, t

LEMMA WriterStep ==
  ASSUME Types, Types', Stream, StreamInv, NEW c \in Channels, ToolStep(<<"write", c>>)
  PROVE  StreamOf(c)' /\ FileOf(c)'
<1> DEFINE t == <<"write", c>>
<1>1. /\ t \in Tools /\ ~IsReader(t) /\ t[2] = c /\ tool[t] = Writer(c) /\ tool'[t] = Writer(c)'
      /\ StreamOf(c) /\ FileOf(c)
  BY ToolsAre DEF IsReader, Writer, StreamInv
<1>2. OneMoves(t) /\ Reader(c)' = Reader(c) /\ UNCHANGED <<cfg, script, kernel>>
  BY <1>1, ToolStepMoves, WriterOnly
<1>3. Shell' = Shell /\ Empty' = Empty
  BY <1>2 DEF Shell, Empty, Content
<1> HIDE DEF t
<1>4. /\ out' = out /\ UNCHANGED rcvd /\ Writer(c)'.pc \in {"file", "dma", "exit"}
      /\ \/ sent' = sent /\ Writer(c)'.n = Writer(c).n
            /\ (Writer(c)'.pc = "file" => Writer(c).pc = "open")
         \/ /\ sent' = [sent EXCEPT ![c] = sent[c] + 1] /\ Writer(c)'.n = Writer(c).n + 1
            /\ Writer(c)'.pc = "dma"
  <2>1. CASE OpenDevice(t)
    BY <1>1, <2>1, OpenDeviceDoes, LeftIs DEF cardVars
  <2>2. CASE OpenFile(t)
    BY <1>1, <2>2, OpenFileDoes, LeftIs DEF cardVars
  <2>3. CASE Moved(t)
    BY <1>1, <2>3, MovedDoes, LeftIs DEF cardVars
  <2>4. CASE GiveUp(t)
    BY <1>1, <2>4, GiveUpDoes, LeftIs DEF cardVars
  <2>5. CASE WriteWord(c)
    BY <1>1, <2>5, WriteWordDoes, LeftIs DEF t
  <2>6. ~Save(t)
    BY <1>1 DEF Save, StreamOf
  <2>7. ~Memory(t) /\ \A d \in Channels : t # <<"read", d>> /\ (t = <<"write", d>> => d = c)
    BY DEF Memory, t
  <2> QED BY <2>1, <2>2, <2>3, <2>4, <2>5, <2>6, <2>7 DEF ToolStep, t
<1>5. /\ sent[c] \in Nat /\ rcvd[c] \in Nat /\ cfg.residue[c] \in Nat
      /\ \A d \in Channels : sent[d] \in Nat
      /\ Writer(c).n \in Nat
  <2>1. Writer(c).n \in 0 .. Size
    BY <1>1, RecordOf DEF ToolRec
  <2> QED BY <2>1, Residue, ConfigsAssumption DEF Types
<1>6. /\ rcvd'[c] = rcvd[c] /\ cfg' = cfg
      /\ sent'[c] = cfg.residue[c] + Writer(c)'.n
      /\ \A d \in Channels : rcvd[c] <= sent'[d]
  <2>1. sent[c] = cfg.residue[c] + Writer(c).n /\ \A d \in Channels : rcvd[c] <= sent[d]
    BY <1>1 DEF StreamOf
  <2>2. CASE sent' = sent /\ Writer(c)'.n = Writer(c).n
    BY <1>2, <1>4, <2>1, <2>2
  <2>3. CASE sent' = [sent EXCEPT ![c] = sent[c] + 1] /\ Writer(c)'.n = Writer(c).n + 1
    <3>1. sent'[c] = sent[c] + 1 /\ \A d \in Channels : d # c => sent'[d] = sent[d]
      BY <2>3 DEF Types
    <3> QED BY <1>2, <1>4, <1>5, <2>1, <2>3, <3>1
  <2> QED BY <1>4, <2>2, <2>3
<1>7. FirstWords(c, Reader(c).n)' = FirstWords(c, Reader(c).n)
  BY <1>2, WordsStay
<1>8. Writer(c)'.pc \in {"off", "open", "file"} => Writer(c)'.n = 0
  BY <1>1, <1>4 DEF StreamOf
<1>9. StreamOf(c)'
  BY <1>1, <1>2, <1>4, <1>6, <1>7, <1>8 DEF StreamOf, Content
<1>10. FileOf(c)'
  BY <1>1, <1>2, <1>3, <1>4 DEF FileOf
<1> QED BY <1>9, <1>10

LEMMA LaunchStep ==
  ASSUME Types, Types', Stream, StreamInv, Launch, NEW c \in Channels
  PROVE  StreamOf(c)' /\ FileOf(c)'
<1> DEFINE t == <<script.at, script.c>>
<1>1. /\ t \in Tools /\ Left(t, "open", tool[t].n, tool[t].data, tool[t].rc)
      /\ UNCHANGED <<cfg, sent, rcvd>>
      /\ out' = IF IsReader(t) THEN Removed(script.c) ELSE out
  BY StartedDoes DEF cardVars, Launch
<1>2. /\ tool'[t].pc = "open" /\ tool'[t].n = tool[t].n /\ tool'[t].data = tool[t].data
      /\ OneMoves(t) /\ StreamOf(c) /\ FileOf(c)
  BY <1>1, LeftIs DEF StreamInv
<1>3. Shell' = Shell /\ Empty' = Empty
  BY <1>1 DEF Shell, Empty, Content
<1>4. script.c \in Channels /\ script.at \in {"read", "write"}
  BY <1>1, ToolsAre
<1>5. tool[t].pc = "off"
  BY <1>1, <1>4, ToolsAre DEF StreamInv, StartedInTurn, Reader, Writer
<1>6. CASE script.c # c
  <2>1. out'[c] = out[c]
    BY <1>1, <1>4, <1>6 DEF Removed, Types
  <2>2. Reader(c)' = Reader(c) /\ Writer(c)' = Writer(c)
    BY <1>2, <1>6, ToolsAre DEF OneMoves, Reader, Writer
  <2>3. \A d \in Channels : sent[d] \in Nat /\ sent'[d] = sent[d]
    BY <1>1 DEF Types
  <2>4. SameChannel(c)
    BY <1>1, <2>1, <2>2, <2>3 DEF SameChannel
  <2> QED BY <1>2, <2>4, SameChannelKeeps
<1>7. CASE script.c = c /\ script.at = "read"
  <2>1. tool[t] = Reader(c) /\ tool'[t] = Reader(c)' /\ IsReader(t) /\ Writer(c)' = Writer(c)
    BY <1>2, <1>7, ReaderOnly DEF Reader, IsReader
  <2>2. StreamOf(c)'
    BY <1>1, <1>2, <1>5, <2>1, ReaderKeepsWords
  <2>3. out'[c] = IF Shell THEN Missing ELSE out[c]
    BY <1>1, <1>7, <2>1 DEF Removed, Types
  <2>4. FileOf(c)'
    BY <1>1, <1>2, <1>3, <1>5, <2>1, <2>3 DEF FileOf, Missing, Content
  <2> QED BY <2>2, <2>4
<1>8. CASE script.c = c /\ script.at = "write"
  <2>1. tool[t] = Writer(c) /\ tool'[t] = Writer(c)' /\ ~IsReader(t) /\ Reader(c)' = Reader(c)
    BY <1>2, <1>8, WriterOnly DEF Writer, IsReader
  <2>2. FirstWords(c, Reader(c).n)' = FirstWords(c, Reader(c).n)
    BY <1>1, <2>1, WordsStay
  <2>3. StreamOf(c)'
    BY <1>1, <1>2, <1>5, <2>1, <2>2 DEF StreamOf, Content
  <2>4. FileOf(c)'
    BY <1>1, <1>2, <1>3, <2>1 DEF FileOf
  <2> QED BY <2>3, <2>4
<1> QED BY <1>4, <1>6, <1>7, <1>8

LEMMA OtherChannel ==
  ASSUME Types, Types', Stream, StreamInv, NEW t \in Tools, ToolStep(t),
         NEW c \in Channels, t[2] # c
  PROVE  StreamOf(c)' /\ FileOf(c)'
<1>1. OneMoves(t) /\ UNCHANGED cfg /\ t[2] \in Channels
  BY ToolStepMoves, ToolsAre
<1>2. Reader(c)' = Reader(c) /\ Writer(c)' = Writer(c)
  BY <1>1, ToolsAre DEF OneMoves, Reader, Writer
<1>3. out'[c] = out[c]
  <2>1. \/ out' = out \/ out' = [out EXCEPT ![t[2]] = Empty]
        \/ out' = [out EXCEPT ![t[2]] = tool[t].data]
    BY DEF ToolStep, OpenDevice, OpenFile, Memory, Moved, GiveUp, Save, ReadWord, WriteWord
  <2> QED BY <1>1, <2>1, SMTT(30) DEF Types
<1>4. /\ \A d \in Channels : sent[d] \in Nat
      /\ sent'[c] = sent[c] /\ rcvd'[c] = rcvd[c] /\ \A d \in Channels : sent'[d] >= sent[d]
  <2>0. \A d \in Channels : sent[d] \in Nat
    BY DEF Types
  <2>1. ASSUME NEW d \in Channels, t = <<"read", d>>, ReadWord(d)
        PROVE  sent' = sent /\ rcvd'[c] = rcvd[c]
    <3>1. d # c /\ sent' = sent /\ rcvd' = [rcvd EXCEPT ![d] = rcvd[d] + 1]
      BY <2>1, ReadWordDoes
    <3> QED BY <3>1 DEF Types
  <2>2. ASSUME NEW d \in Channels, t = <<"write", d>>, WriteWord(d)
        PROVE  /\ rcvd' = rcvd /\ sent'[c] = sent[c] /\ \A e \in Channels : sent'[e] >= sent[e]
    <3>1. d # c /\ rcvd' = rcvd /\ sent' = [sent EXCEPT ![d] = sent[d] + 1]
      BY <2>2, WriteWordDoes
    <3>2. sent'[d] = sent[d] + 1 /\ \A e \in Channels : e # d => sent'[e] = sent[e]
      BY <3>1 DEF Types
    <3> QED BY <2>0, <3>1, <3>2
  <2>3. CASE OpenDevice(t) \/ OpenFile(t) \/ Memory(t) \/ Moved(t) \/ GiveUp(t) \/ Save(t)
    <3>1. sent' = sent /\ rcvd' = rcvd
      BY <2>3 DEF OpenDevice, OpenFile, Memory, Moved, GiveUp, Save, cardVars
    <3> QED BY <2>0, <3>1
  <2> QED BY <2>0, <2>1, <2>2, <2>3 DEF ToolStep
<1>5. SameChannel(c)
  BY <1>1, <1>2, <1>3, <1>4 DEF SameChannel
<1> QED BY <1>5, SameChannelKeeps DEF StreamInv

LEMMA StreamStep ==
  ASSUME Types, Types', Stream, StreamInv, [Next]_vars
  PROVE  StreamInv'
<1>1. StartedInTurn'
  BY StartedStep DEF StreamInv
<1>2. ASSUME NEW c \in Channels PROVE StreamOf(c)' /\ FileOf(c)'
  <2>1. CASE UNCHANGED vars \/ ScriptAlone \/ KernelFinish
    <3>1. UNCHANGED <<cfg, tool, out, sent, rcvd>> /\ \A d \in Channels : sent[d] \in Nat
      BY <2>1, Kept DEF ScriptAlone, cardVars, Types
    <3>2. SameChannel(c)
      BY <3>1 DEF SameChannel, Reader, Writer
    <3> QED BY <3>2, SameChannelKeeps DEF StreamInv
  <2>2. CASE Launch
    BY <2>2, LaunchStep
  <2>3. ASSUME NEW t \in Tools, ToolStep(t) PROVE StreamOf(c)' /\ FileOf(c)'
    <3>1. t[2] # c \/ t = <<"read", c>> \/ t = <<"write", c>>
      BY ToolsAre
    <3> QED BY <2>3, <3>1, OtherChannel, ReaderStep, WriterStep
  <2>4. ~Run
    BY DEF Run
  <2> QED BY <2>1, <2>2, <2>3, <2>4, StepsOf
<1> QED BY <1>1, <1>2 DEF StreamInv

(***************************************************************************)
(* The test from and to memory                                             *)
(***************************************************************************)

\* What the kernel and the files are at.
LEMMA MemoryTypes ==
  ASSUME Types
  PROVE  /\ kernel.busy \in BOOLEAN /\ kernel.done \in BOOLEAN /\ kernel.own \in BOOLEAN
         /\ script.c \in {0, 1} /\ script.at \in Places
         /\ \A c \in Channels : /\ Reader(c).n \in 0 .. Size /\ Writer(c).n \in 0 .. Size
                                /\ Reader(c).pc \in Pcs /\ Writer(c).pc \in Pcs
         /\ Size \in Nat /\ Size # 0
<1>1. \A t \in Tools : tool[t].n \in 0 .. Size /\ tool[t].pc \in Pcs
  BY RecordOf DEF ToolRec
<1>2. Size \in Nat /\ Size # 0
  BY ConfigsAssumption
<1>3. script.c \in {0, 1} /\ script.at \in Places
  BY ToolsAre DEF Types
<1>4. kernel.busy \in BOOLEAN /\ kernel.done \in BOOLEAN /\ kernel.own \in BOOLEAN
  BY DEF Types
<1> QED BY <1>1, <1>2, <1>3, <1>4, ToolsAre DEF Reader, Writer

\* The contents differ.
LEMMA ContentsDiffer ==
  /\ Old # Input /\ Old # Result /\ Old # Garbage /\ Input # Result /\ Input # Garbage
  /\ Result # Garbage
  BY DEF Old, Input, Result, Garbage, Content

LEMMA OneAtATimeStep ==
  ASSUME Types, Types', ~Stream, OneAtATime, [Next]_vars
  PROVE  OneAtATime'
<1>0. script.c \in {0, 1} /\ \A t \in Tools : tool[t].pc \in Pcs
  BY MemoryTypes, RecordOf DEF ToolRec
<1>1. CASE UNCHANGED vars \/ KernelFinish
  <2>1. UNCHANGED <<script, tool>>
    BY <1>1 DEF vars, KernelFinish
  <2> QED BY <2>1 DEF OneAtATime, Running
<1>2. ASSUME NEW t \in Tools, ToolStep(t) PROVE OneAtATime'
  <2>1. /\ \A u \in Tools \ {t} : tool'[u] = tool[u]
        /\ script' = script /\ Running(t)
    BY <1>2, ToolStepMoves DEF OneMoves, Running
  <2> QED BY <2>1 DEF OneAtATime, Running
<1>3. CASE Run
  <2> DEFINE t == <<script.at, script.c>>
  <2>1. /\ \A u \in Tools \ {t} : tool'[u] = tool[u]
        /\ script' = script /\ tool[t].pc = "off" /\ t \in Tools
    BY <1>3, StartedDoes, LeftIs DEF OneMoves, Run
  <2> QED BY <2>1 DEF OneAtATime, Running
<1>4. CASE Ran
  <2>1. /\ script.at \in {"read", "write"} /\ tool' = tool /\ tool[<<script.at, script.c>>].pc = "exit"
        /\ script' \in {Advanced, At("stopped")}
    BY <1>4, ToolsAre DEF Ran
  <2>2. \A t \in Tools : ~Running(t)
    BY <2>1 DEF OneAtATime, Running
  <2>3. At("stopped").at = "stopped"
    BY DEF At, Types
  <2>4. /\ Advanced.at \in {"read", "write", "compare", "scalars"}
        /\ Advanced.at = "scalars" => Advanced.c = 0
    BY <1>0, <2>1, AdvancedIs DEF After
  <2> QED BY <2>1, <2>2, <2>3, <2>4 DEF OneAtATime, Running
<1>5. CASE ScriptAlone /\ ~Ran
  <2>1. tool' = tool
    BY <1>5, Kept DEF ScriptAlone
  <2>2. ~Sleep
    BY DEF OneAtATime, Sleep
  <2>3. \/ /\ script.at \in {"scalars", "check", "start", "poll"} /\ script'.c = script.c
           /\ script'.at \in {"check", "start", "poll", "read", "stopped"}
        \/ /\ script.at = "compare" /\ script'.at \in {"compare", "ok", "errors", "stopped"}
    <3>1. \A at : At(at).at = at /\ At(at).c = script.c
      BY DEF At, Types
    <3>2. CASE Compare
      BY <3>2, CompareEffect DEF Types
    <3>3. CASE WriteScalars \/ CheckIdle \/ WriteStart \/ Poll \/ CtrlFails
      BY <3>1, <3>3 DEF WriteScalars, CheckIdle, WriteStart, Poll, CtrlFails
    <3> QED BY <1>5, <2>2, <3>2, <3>3 DEF ScriptAlone
  <2>4. \A t \in Tools : ~Running(t)
    BY <2>3, ToolsAre DEF OneAtATime
  <2> QED BY <2>1, <2>3, <2>4 DEF OneAtATime, Running
<1>6. ~Launch
  BY DEF Launch
<1> QED BY <1>1, <1>2, <1>3, <1>4, <1>5, <1>6, StepsOf

\* A channel's tools and memory are left alone, and so is what the script waits for.
LEMMA SameMemoryKeeps ==
  ASSUME Types, Types', NEW c \in Channels, MemoryOf(c), script' = script,
         Reader(c)' = Reader(c), Writer(c)' = Writer(c), out'[c] = out[c], mem'[c] = mem[c],
         kernel'.own = kernel.own, kernel'.busy = kernel.busy
  PROVE  MemoryOf(c)'
  BY DEF MemoryOf, Old, Input, Result, Garbage, Content

LEMMA ToolOfScript ==
  ASSUME Types, ~Stream, MemoryInv, NEW t \in Tools, ToolStep(t)
  PROVE  /\ t = <<script.at, script.c>> /\ script.at \in {"read", "write"}
         /\ OneMoves(t) /\ UNCHANGED <<cfg, script, kernel>>
         /\ \A c \in Channels : c # script.c =>
              /\ Reader(c)' = Reader(c) /\ Writer(c)' = Writer(c)
              /\ out'[c] = out[c] /\ mem'[c] = mem[c]
<1>1. OneMoves(t) /\ UNCHANGED <<cfg, script, kernel>> /\ Running(t)
  BY ToolStepMoves DEF Running
<1>2. t = <<script.at, script.c>>
  BY <1>1 DEF MemoryInv, OneAtATime
<1>3. script.at \in {"read", "write"} /\ t[2] = script.c /\ script.c \in Channels
  BY <1>2, ToolsAre
<1>4. ASSUME NEW c \in Channels, c # script.c
      PROVE  /\ Reader(c)' = Reader(c) /\ Writer(c)' = Writer(c)
             /\ out'[c] = out[c] /\ mem'[c] = mem[c]
  <2>1. Reader(c)' = Reader(c) /\ Writer(c)' = Writer(c)
    BY <1>1, <1>2, <1>4, ToolsAre, SMTT(30) DEF OneMoves, Reader, Writer
  <2>2. /\ \/ out' = out \/ out' = [out EXCEPT ![t[2]] = Empty]
           \/ out' = [out EXCEPT ![t[2]] = tool[t].data]
        /\ mem' = mem \/ mem' = [mem EXCEPT ![t[2]] = Input]
    BY DEF ToolStep, OpenDevice, OpenFile, Memory, Moved, GiveUp, Save, ReadWord, WriteWord
  <2>3. out'[c] = out[c] /\ mem'[c] = mem[c]
    BY <1>3, <1>4, <2>2 DEF Types
  <2> QED BY <2>1, <2>3
<1> QED BY <1>1, <1>2, <1>3, <1>4

\* A tool reads the memory when the kernel has finished, and writes it before.
LEMMA MemoryReaderStep ==
  ASSUME Types, Types', ~Stream, MemoryInv, NEW c \in Channels, ToolStep(<<"read", c>>)
  PROVE  MemoryOf(c)' /\ mem' = mem
<1> DEFINE t == <<"read", c>>
<1>1. /\ t \in Tools /\ IsReader(t) /\ t[2] = c /\ tool[t] = Reader(c) /\ tool'[t] = Reader(c)'
      /\ MemoryOf(c)
  BY ToolsAre DEF IsReader, Reader, MemoryInv
<1>2. /\ script.at = "read" /\ script.c = c /\ UNCHANGED <<cfg, script, kernel>>
      /\ Writer(c)' = Writer(c)
  BY <1>1, ToolOfScript, ReaderOnly
<1>3. kernel.own /\ ~kernel.busy
  BY <1>2 DEF MemoryInv, KernelInv
<1>4. /\ mem[c] \in {Old, Input, Result, Garbage}
      /\ mem[c] \in {Input, Result} => Writer(c).n = Size
      /\ Writer(c).pc \in {"off", "open", "file"} => Writer(c).n = 0
      /\ Writer(c).pc # "save" /\ Writer(c).n \in {0, Size} /\ Reader(c).n \in {0, Size}
  BY <1>1 DEF MemoryOf
<1>5. Size \in Nat /\ Size # 0
  BY MemoryTypes
<1> HIDE DEF t
\* What is left to show, once the step has kept or set the count.
<1>6. ASSUME mem' = mem, Reader(c)'.n \in {0, Size},
             Reader(c)'.pc \in {"off", "open", "file"} => Reader(c)'.n = 0,
             Reader(c)'.n = Size => Reader(c)'.data = mem[c],
             Reader(c)'.pc = "save" => Reader(c)'.n = Size,
             Reader(c)'.pc = "exit" /\ Reader(c)'.rc = 0
               => Reader(c)'.n = Size /\ out'[c] = mem[c]
      PROVE  MemoryOf(c)'
  <2>1. /\ ~(script'.at = "read" /\ script'.c > c)
        /\ script'.at \notin {"compare", "ok", "errors"}
    BY <1>2, MemoryTypes, ToolsAre
  <2> QED BY <1>2, <1>3, <1>4, <1>6, <2>1 DEF MemoryOf, Old, Input, Result, Garbage, Content
<1>7. CASE OpenDevice(t)
  <2>1. /\ Reader(c).pc = "open" /\ Reader(c)'.n = Reader(c).n
        /\ \/ Reader(c)'.pc = "file"
           \/ Reader(c)'.pc = "exit" /\ Reader(c)'.rc = EINVAL
        /\ mem' = mem
    <3>1. CASE Left(t, "file", tool[t].n, tool[t].data, tool[t].rc)
      BY <1>1, <1>7, <3>1, OpenDeviceDoes, LeftIs
    <3>2. CASE Left(t, "exit", tool[t].n, tool[t].data, EINVAL)
      BY <1>1, <1>7, <3>2, OpenDeviceDoes, LeftIs
    <3> QED BY <1>1, <1>7, <3>1, <3>2, OpenDeviceDoes
  <2>2. Reader(c).n = 0
    BY <1>1, <2>1 DEF MemoryOf
  <2> QED BY <1>5, <1>6, <2>1, <2>2 DEF EINVAL
<1>8. CASE OpenFile(t)
  <2>1. /\ Reader(c).pc = "file" /\ Reader(c)'.n = Reader(c).n /\ Reader(c)'.pc = "dma"
        /\ mem' = mem
    BY <1>1, <1>8, OpenFileDoes, LeftIs
  <2>2. Reader(c).n = 0
    BY <1>1, <2>1 DEF MemoryOf
  <2> QED BY <1>5, <1>6, <2>1, <2>2
<1>9. CASE Memory(t)
  <2>1. /\ Reader(c)'.n = Size /\ Reader(c)'.pc = "dma" /\ Reader(c)'.data = mem[c]
        /\ mem' = mem
    BY <1>1, <1>9, MemoryDoes, LeftIs
  <2> QED BY <1>5, <1>6, <2>1
<1>10. CASE Moved(t)
  <2>1. /\ Reader(c).n = Size /\ Reader(c)'.n = Size /\ Reader(c)'.pc = "save"
        /\ Reader(c)'.data = Reader(c).data /\ mem' = mem
    BY <1>1, <1>10, MovedDoes, LeftIs
  <2>2. Reader(c).data = mem[c]
    BY <1>1, <2>1 DEF MemoryOf
  <2> QED BY <1>5, <1>6, <2>1, <2>2
<1>11. CASE GiveUp(t)
  <2>0. (Stream => StreamInv) /\ (~Stream => MemoryInv)
    OBVIOUS
  <2>1. Left(t, "exit", tool[t].n, tool[t].data, EIO)
    BY <1>1, <1>11, <2>0, GiveUpHas
  <2>2. /\ Reader(c).n < Size /\ Reader(c)'.n = Reader(c).n /\ Reader(c)'.pc = "exit"
        /\ Reader(c)'.rc = EIO /\ mem' = mem
    <3>1. tool[t].n < Size /\ mem' = mem
      BY <1>1, <1>11, GiveUpDoes
    <3>2. /\ tool'[t].n = tool[t].n /\ tool'[t].pc = "exit" /\ tool'[t].rc = EIO
      BY <1>1, <2>1, LeftIs
    <3> QED BY <1>1, <3>1, <3>2
  <2> QED BY <1>4, <1>5, <1>6, <2>2 DEF EIO
<1>12. CASE Save(t)
  <2>1. /\ Reader(c).pc = "save" /\ Reader(c)'.n = Reader(c).n /\ Reader(c)'.pc = "exit"
        /\ Reader(c)'.data = Reader(c).data /\ mem' = mem
        /\ out' = [out EXCEPT ![c] = Reader(c).data]
    BY <1>1, <1>12, SaveDoes, LeftIs
  <2>2. Reader(c).n = Size /\ Reader(c).data = mem[c]
    BY <1>1, <2>1 DEF MemoryOf
  <2>3. out'[c] = mem[c]
    BY <2>1, <2>2 DEF Types
  <2> QED BY <1>5, <1>6, <2>1, <2>2, <2>3
<1>13. \A d \in Channels : ~ReadWord(d) /\ ~WriteWord(d)
  BY DEF ReadWord, WriteWord
<1>14. OpenDevice(t) \/ OpenFile(t) \/ Memory(t) \/ Moved(t) \/ GiveUp(t) \/ Save(t)
  BY <1>13 DEF ToolStep, t
<1>15. mem' = mem
  BY <1>1, <1>14 DEF OpenDevice, OpenFile, Memory, Moved, GiveUp, Save
<1> QED BY <1>7, <1>8, <1>9, <1>10, <1>11, <1>12, <1>14, <1>15

LEMMA MemoryWriterStep ==
  ASSUME Types, Types', ~Stream, MemoryInv, NEW c \in Channels, ToolStep(<<"write", c>>)
  PROVE  MemoryOf(c)' /\ ~kernel.own
<1> DEFINE t == <<"write", c>>
<1>1. /\ t \in Tools /\ ~IsReader(t) /\ t[2] = c /\ tool[t] = Writer(c) /\ tool'[t] = Writer(c)'
      /\ MemoryOf(c)
  BY ToolsAre DEF IsReader, Writer, MemoryInv
<1>2. /\ script.at = "write" /\ script.c = c /\ UNCHANGED <<cfg, script, kernel>>
      /\ Reader(c)' = Reader(c)
  BY <1>1, ToolOfScript, WriterOnly
<1>3. ~kernel.own
  BY <1>2 DEF MemoryInv, KernelInv
<1>4. Reader(c).n = 0
  BY <1>1, <1>3, MemoryTypes DEF MemoryOf
<1>5. Size \in Nat /\ Size # 0
  BY MemoryTypes
<1>6. Reader(c).pc # "save" /\ ~(Reader(c).pc = "exit" /\ Reader(c).rc = 0)
  BY <1>1, <1>4, <1>5 DEF MemoryOf
<1> HIDE DEF t
<1>7. \A d \in Channels : ~ReadWord(d) /\ ~WriteWord(d)
  BY DEF ReadWord, WriteWord
<1>8. OpenDevice(t) \/ OpenFile(t) \/ Memory(t) \/ Moved(t) \/ GiveUp(t) \/ Save(t)
  BY <1>7 DEF ToolStep, t
<1>9. /\ Writer(c)'.pc \in {"file", "dma", "exit"}
      /\ \/ mem' = mem /\ Writer(c)'.n = Writer(c).n
            /\ (Writer(c)'.pc = "file" => Writer(c).pc = "open")
         \/ mem' = [mem EXCEPT ![c] = Input] /\ Writer(c)'.n = Size /\ Writer(c)'.pc = "dma"
  <2>1. CASE OpenDevice(t)
    <3>1. CASE Left(t, "file", tool[t].n, tool[t].data, tool[t].rc)
      BY <1>1, <2>1, <3>1, OpenDeviceDoes, LeftIs
    <3>2. CASE Left(t, "exit", tool[t].n, tool[t].data, EINVAL)
      BY <1>1, <2>1, <3>2, OpenDeviceDoes, LeftIs
    <3> QED BY <1>1, <2>1, <3>1, <3>2, OpenDeviceDoes
  <2>2. CASE OpenFile(t)
    BY <1>1, <2>2, OpenFileDoes, LeftIs
  <2>3. CASE Moved(t)
    BY <1>1, <2>3, MovedDoes, LeftIs
  <2>4. CASE GiveUp(t)
    <3>1. Left(t, "exit", tool[t].n, tool[t].data, EIO) /\ mem' = mem
      BY <1>1, <2>4, GiveUpDoes
    <3> QED BY <1>1, <3>1, LeftIs
  <2>5. CASE Memory(t)
    BY <1>1, <2>5, MemoryDoes, LeftIs
  <2>6. ~Save(t)
    BY <1>1 DEF Save, MemoryOf
  <2> QED BY <1>8, <2>1, <2>2, <2>3, <2>4, <2>5, <2>6
<1>10. /\ mem'[c] \in {Old, Input, Result, Garbage}
       /\ mem'[c] \in {Input, Result} => Writer(c)'.n = Size
       /\ Writer(c)'.pc \in {"off", "open", "file"} => Writer(c)'.n = 0
       /\ Writer(c)'.n \in {0, Size} /\ Writer(c)'.pc # "save"
  <2>1. CASE mem' = mem /\ Writer(c)'.n = Writer(c).n
                 /\ (Writer(c)'.pc = "file" => Writer(c).pc = "open")
    BY <1>1, <1>9, <2>1 DEF MemoryOf
  <2>2. CASE mem' = [mem EXCEPT ![c] = Input] /\ Writer(c)'.n = Size /\ Writer(c)'.pc = "dma"
    <3>1. mem'[c] = Input
      BY <2>2 DEF Types
    <3> QED BY <2>2, <3>1
  <2> QED BY <1>9, <2>1, <2>2
<1>11. /\ ~(script'.at = "read" /\ script'.c > c)
       /\ script'.at \notin {"compare", "ok", "errors"}
  BY <1>2
<1>12. MemoryOf(c)'
  BY <1>2, <1>4, <1>5, <1>6, <1>10, <1>11
     DEF MemoryOf, Old, Input, Result, Garbage, Content
<1> QED BY <1>3, <1>12

LEMMA MemoryToolStep ==
  ASSUME Types, Types', ~Stream, MemoryInv, NEW t \in Tools, ToolStep(t)
  PROVE  KernelInv' /\ \A c \in Channels : MemoryOf(c)'
<1>1. /\ t = <<script.at, script.c>> /\ script.at \in {"read", "write"}
      /\ UNCHANGED <<cfg, script, kernel>> /\ script.c \in Channels
      /\ \A c \in Channels : c # script.c =>
              /\ Reader(c)' = Reader(c) /\ Writer(c)' = Writer(c)
              /\ out'[c] = out[c] /\ mem'[c] = mem[c]
  BY ToolOfScript, ToolsAre
<1>2. ASSUME NEW c \in Channels PROVE MemoryOf(c)'
  <2>1. CASE c # script.c
    BY <1>1, <2>1, SameMemoryKeeps DEF MemoryInv
  <2>2. CASE c = script.c
    BY <1>1, <2>2, MemoryReaderStep, MemoryWriterStep
  <2> QED BY <2>1, <2>2
<1>3. CASE script.at = "read"
  <2>1. mem' = mem
    BY <1>1, <1>3, MemoryReaderStep
  <2>2. KernelInv'
    BY <1>1, <1>3, <2>1 DEF MemoryInv, KernelInv, Result, Garbage, Content
  <2> QED BY <1>2, <2>2
<1>4. CASE script.at = "write"
  <2>1. ~kernel.own
    BY <1>1, <1>4, MemoryWriterStep
  <2>2. KernelInv'
    BY <1>1, <1>4, <2>1 DEF KernelInv
  <2> QED BY <1>2, <2>2
<1> QED BY <1>1, <1>3, <1>4

\* The kernel finishes: what it has not computed is no result.
LEMMA MemoryKernelStep ==
  ASSUME Types, Types', ~Stream, MemoryInv, KernelFinish
  PROVE  KernelInv' /\ \A c \in Channels : MemoryOf(c)'
<1>1. /\ kernel.busy /\ UNCHANGED <<cfg, script, tool, out>>
      /\ kernel' = [kernel EXCEPT !.busy = FALSE, !.done = TRUE]
  BY DEF KernelFinish
<1>2. PICK S \in SUBSET Channels :
        /\ kernel.own => S = Channels
        /\ mem' = [c \in Channels |-> IF c \in S THEN Computed(mem[c]) ELSE mem[c]]
  BY DEF KernelFinish
<1>3. /\ kernel'.own = kernel.own /\ ~kernel'.busy /\ kernel'.done
  BY <1>1 DEF Types
<1>4. script.at \notin {"start", "read", "compare", "ok", "errors"}
  BY <1>1 DEF MemoryInv, KernelInv
<1>5. ASSUME NEW c \in Channels
      PROVE  /\ mem'[c] \in {Old, Input, Result, Garbage}
             /\ mem'[c] \in {Input, Result} => mem[c] \in {Input, Result}
             /\ kernel.own => mem'[c] \in {Result, Garbage}
  <2>1. mem[c] \in {Old, Input, Result, Garbage}
    BY DEF MemoryInv, MemoryOf
  <2>2. mem'[c] = IF c \in S THEN Computed(mem[c]) ELSE mem[c]
    BY <1>2
  <2>3. Computed(mem[c]) \in {Result, Garbage} /\ (Computed(mem[c]) = Result => mem[c] = Input)
    BY ContentsDiffer DEF Computed
  <2> QED BY <1>2, <2>1, <2>2, <2>3, ContentsDiffer
<1>6. KernelInv'
  BY <1>1, <1>3, <1>4, <1>5 DEF MemoryInv, KernelInv, Result, Garbage, Content
<1>7. ASSUME NEW c \in Channels PROVE MemoryOf(c)'
  <2>1. MemoryOf(c) /\ Reader(c)' = Reader(c) /\ Writer(c)' = Writer(c)
    BY <1>1 DEF MemoryInv, Reader, Writer
  <2>2. Reader(c).n # Size
    BY <1>1, <2>1 DEF MemoryOf
  <2>3. /\ Reader(c).pc # "save" /\ ~(Reader(c).pc = "exit" /\ Reader(c).rc = 0)
        /\ ~(script.at = "read" /\ script.c > c)
        /\ script.at \notin {"compare", "ok", "errors"}
    BY <1>4, <2>1, <2>2 DEF MemoryOf
  <2> QED BY <1>1, <1>5, <2>1, <2>2, <2>3 DEF MemoryOf, Old, Input, Result, Garbage, Content
<1> QED BY <1>6, <1>7

LEMMA MemoryRunStep ==
  ASSUME Types, Types', ~Stream, MemoryInv, Run
  PROVE  KernelInv' /\ \A c \in Channels : MemoryOf(c)'
<1> DEFINE t == <<script.at, script.c>>
<1>1. /\ t \in Tools /\ Left(t, "open", tool[t].n, tool[t].data, tool[t].rc)
      /\ UNCHANGED <<cfg, script, out, mem, kernel>> /\ tool[t].pc = "off"
  BY StartedDoes DEF Run
<1>2. /\ tool'[t].pc = "open" /\ tool'[t].n = tool[t].n /\ OneMoves(t)
  BY <1>1, LeftIs
<1>3. KernelInv'
  BY <1>1 DEF MemoryInv, KernelInv, Result, Garbage, Content
<1>4. ASSUME NEW c \in Channels PROVE MemoryOf(c)'
  <2>0. MemoryOf(c)
    BY DEF MemoryInv
  <2>1. CASE t = <<"read", c>>
    <3>1. /\ Writer(c)' = Writer(c) /\ Reader(c)'.pc = "open" /\ Reader(c)'.n = Reader(c).n
          /\ Reader(c).pc = "off" /\ script.at = "read" /\ script.c = c
      BY <1>1, <1>2, <2>1, ReaderOnly DEF Reader
    <3>2. Reader(c).n = 0 /\ 0 # Size /\ ~(script.c > c)
      BY <2>0, <3>1, MemoryTypes, ToolsAre DEF MemoryOf
    <3> QED BY <1>1, <2>0, <3>1, <3>2 DEF MemoryOf, Old, Input, Result, Garbage, Content
  <2>2. CASE t = <<"write", c>>
    <3>1. /\ Reader(c)' = Reader(c) /\ Writer(c)'.pc = "open" /\ Writer(c)'.n = Writer(c).n
          /\ Writer(c).pc = "off"
      BY <1>1, <1>2, <2>2, WriterOnly DEF Writer
    <3>2. Writer(c).n = 0
      BY <2>0, <3>1 DEF MemoryOf
    <3> QED BY <1>1, <2>0, <3>1, <3>2 DEF MemoryOf, Old, Input, Result, Garbage, Content
  <2>3. CASE t # <<"read", c>> /\ t # <<"write", c>>
    <3>1. Reader(c)' = Reader(c) /\ Writer(c)' = Writer(c)
      BY <1>2, <2>3, ToolsAre DEF OneMoves, Reader, Writer
    <3> QED BY <1>1, <2>0, <3>1, SameMemoryKeeps
  <2> QED BY <2>1, <2>2, <2>3
<1> QED BY <1>3, <1>4

\* What a script that goes on must have seen.
LEMMA ScriptGoesOn ==
  ASSUME Types, Types', NEW c \in Channels, MemoryOf(c), UNCHANGED <<tool, out, mem>>,
         Reader(c).n = Size => kernel'.own /\ ~kernel'.busy,
         \/ script'.at = "read" /\ script'.c > c
         \/ script'.at \in {"compare", "ok", "errors"}
         => Reader(c).pc = "exit" /\ Reader(c).rc = 0
  PROVE  MemoryOf(c)'
<1>1. Reader(c)' = Reader(c) /\ Writer(c)' = Writer(c)
  BY DEF Reader, Writer
<1> QED BY <1>1 DEF MemoryOf, Old, Input, Result, Garbage, Content

LEMMA MemoryRanStep ==
  ASSUME Types, Types', ~Stream, MemoryInv, Ran
  PROVE  KernelInv' /\ \A c \in Channels : MemoryOf(c)'
<1> DEFINE t == <<script.at, script.c>>
<1>1. /\ t \in Tools /\ UNCHANGED <<cfg, tool, out, mem, kernel>>
      /\ tool[t].pc = "exit" /\ script' = IF tool[t].rc = 0 THEN Advanced ELSE At("stopped")
  BY DEF Ran
<1>2. script.at \in {"read", "write"} /\ script.c \in {0, 1}
  BY <1>1, ToolsAre
<1>3. CASE tool[t].rc # 0
  <2>1. script'.at = "stopped"
    BY <1>1, <1>3 DEF At, Types
  <2>2. KernelInv'
    BY <1>1, <2>1 DEF MemoryInv, KernelInv, Result, Garbage, Content
  <2>3. \A c \in Channels : Reader(c).n = Size => kernel'.own /\ ~kernel'.busy
    BY <1>1 DEF MemoryInv, MemoryOf
  <2> QED BY <1>1, <2>1, <2>2, <2>3, ScriptGoesOn DEF MemoryInv
<1>4. CASE tool[t].rc = 0
  <2>1. /\ script.c = 0 => script'.at = script.at /\ script'.c = 1
        /\ script.c = 1 => script'.c = 0 /\ script'.at = After(script.at)
    BY <1>1, <1>2, <1>4, AdvancedIs
  <2>2. /\ script.at = "read" => script'.at \in {"read", "compare"}
        /\ script.at = "write" => script'.at \in {"write", "scalars"}
    BY <1>2, <2>1 DEF After
  <2>3. KernelInv'
    BY <1>1, <1>2, <2>2 DEF MemoryInv, KernelInv, Result, Garbage, Content
  <2>4. ASSUME NEW c \in Channels,
               \/ script'.at = "read" /\ script'.c > c
               \/ script'.at \in {"compare", "ok", "errors"}
        PROVE  Reader(c).pc = "exit" /\ Reader(c).rc = 0
    <3>1. script.at = "read"
      BY <1>2, <2>2, <2>4
    <3>2. script.c = c => Reader(c).pc = "exit" /\ Reader(c).rc = 0
      BY <1>1, <1>4, <3>1 DEF Reader
    <3>3. script.c > c => Reader(c).pc = "exit" /\ Reader(c).rc = 0
      BY <3>1 DEF MemoryInv, MemoryOf
    <3>4. script.c = c \/ script.c > c
      <4>1. c \in {0, 1}
        BY ToolsAre
      <4>2. CASE script.c = 0
        BY <2>1, <2>4, <3>1, <4>1, <4>2
      <4>3. CASE script.c = 1
        BY <4>1, <4>3
      <4> QED BY <1>2, <4>2, <4>3
    <3> QED BY <3>2, <3>3, <3>4
  <2>5. \A c \in Channels : Reader(c).n = Size => kernel'.own /\ ~kernel'.busy
    BY <1>1 DEF MemoryInv, MemoryOf
  <2> QED BY <1>1, <2>3, <2>4, <2>5, ScriptGoesOn DEF MemoryInv
<1> QED BY <1>3, <1>4

LEMMA MemoryControlStep ==
  ASSUME Types, Types', ~Stream, MemoryInv,
         WriteScalars \/ CheckIdle \/ WriteStart \/ Poll \/ CtrlFails
  PROVE  KernelInv' /\ \A c \in Channels : MemoryOf(c)'
<1>1. /\ \A at : At(at).at = at /\ At(at).c = script.c
      /\ \A k \in [busy : BOOLEAN, done : BOOLEAN, own : BOOLEAN] :
           /\ CtrlRead(k).busy = k.busy /\ CtrlRead(k).own = k.own
           /\ CtrlRead(k).done <=> k.done /\ ~cfg.clearOnRead
      /\ kernel \in [busy : BOOLEAN, done : BOOLEAN, own : BOOLEAN]
  BY DEF At, Types, CtrlRead
<1>2. /\ UNCHANGED <<cfg, tool, out, mem>>
      /\ script.at \in {"scalars", "check", "start", "poll"} /\ script.c = 0
      /\ script'.c = 0 /\ script'.at \in {"check", "start", "poll", "read", "stopped"}
  BY <1>1 DEF WriteScalars, CheckIdle, WriteStart, Poll, CtrlFails, MemoryInv, OneAtATime
<1>3. /\ (kernel'.own /\ ~kernel'.busy) => (kernel.own /\ ~kernel.busy)
      /\ (kernel.own /\ ~kernel.busy) => (kernel'.own /\ ~kernel'.busy)
      /\ script'.at \in {"check", "start"} => ~kernel'.own
      /\ script'.at = "start" => ~kernel'.busy /\ (cfg.clearOnRead => ~kernel'.done)
      /\ script'.at = "poll" => kernel'.own /\ (kernel'.busy => ~kernel'.done)
      /\ script'.at = "read" => kernel'.own /\ ~kernel'.busy
  <2>0. KernelInv
    BY DEF MemoryInv
  <2>1. CASE WriteScalars \/ CtrlFails
    <3>1. kernel' = kernel /\ script'.at \in {"check", "stopped"}
          /\ (script'.at = "check" => script.at = "scalars")
      BY <1>1, <2>1 DEF WriteScalars, CtrlFails
    <3> QED BY <2>0, <3>1 DEF KernelInv
  <2>2. CASE CheckIdle
    <3>1. /\ script.at = "check" /\ kernel'.busy = kernel.busy /\ kernel'.own = kernel.own
          /\ kernel'.done <=> kernel.done /\ ~cfg.clearOnRead
          /\ script'.at = IF ~kernel.busy THEN "start" ELSE "stopped"
      BY <1>1, <2>2 DEF CheckIdle, IdleBit
    <3> QED BY <2>0, <3>1 DEF KernelInv
  <2>3. CASE WriteStart
    <3>1. /\ script.at = "start" /\ script'.at = "poll" /\ ~kernel.busy /\ ~kernel.own
          /\ cfg.clearOnRead => ~kernel.done
      BY <1>1, <2>0, <2>3 DEF WriteStart, KernelInv
    <3>2. kernel' = [busy |-> TRUE, done |-> kernel.done /\ cfg.clearOnRead, own |-> TRUE]
      BY <2>3, <3>1 DEF WriteStart
    <3>3. kernel'.busy /\ kernel'.own /\ ~kernel'.done
      BY <3>1, <3>2
    <3> QED BY <3>1, <3>3
  <2>4. CASE Poll
    <3>1. /\ script.at = "poll" /\ kernel'.busy = kernel.busy /\ kernel'.own = kernel.own
          /\ kernel'.done <=> kernel.done /\ ~cfg.clearOnRead
          /\ script'.at = IF kernel.done THEN "read" ELSE "poll"
      BY <1>1, <2>4 DEF Poll, DoneBit
    <3> QED BY <2>0, <3>1 DEF KernelInv
  <2> QED BY <2>1, <2>2, <2>3, <2>4
<1>4. KernelInv'
  <2>1. kernel'.own /\ ~kernel'.busy => \A c \in Channels : mem'[c] \in {Result, Garbage}
    BY <1>2, <1>3 DEF MemoryInv, KernelInv
  <2> QED BY <1>2, <1>3, <2>1 DEF KernelInv, Result, Garbage, Content
<1>5. ASSUME NEW c \in Channels PROVE MemoryOf(c)'
  <2>1. MemoryOf(c)
    BY DEF MemoryInv
  <2>2. Reader(c).n = Size => kernel'.own /\ ~kernel'.busy
    BY <1>3, <2>1 DEF MemoryOf
  <2>3. ~(script'.at = "read" /\ script'.c > c) /\ script'.at \notin {"compare", "ok", "errors"}
    BY <1>2, ToolsAre
  <2> QED BY <1>2, <2>1, <2>2, <2>3, ScriptGoesOn
<1> QED BY <1>4, <1>5

LEMMA MemoryCompareStep ==
  ASSUME Types, Types', ~Stream, MemoryInv, Compare
  PROVE  KernelInv' /\ \A c \in Channels : MemoryOf(c)'
<1>1. /\ script.at = "compare" /\ script'.at \in {"compare", "ok", "errors", "stopped"}
  BY CompareEffect DEF Types
<1>2. UNCHANGED <<cfg, tool, out, mem, kernel>>
  BY DEF Compare
<1>3. KernelInv'
  BY <1>1, <1>2 DEF MemoryInv, KernelInv, Result, Garbage, Content
<1>4. \A c \in Channels : /\ Reader(c).n = Size => kernel'.own /\ ~kernel'.busy
                          /\ Reader(c).pc = "exit" /\ Reader(c).rc = 0
  BY <1>1, <1>2 DEF MemoryInv, MemoryOf
<1> QED BY <1>2, <1>3, <1>4, ScriptGoesOn DEF MemoryInv

LEMMA MemoryStep ==
  ASSUME Types, Types', ~Stream, MemoryInv, [Next]_vars
  PROVE  MemoryInv'
<1>1. OneAtATime'
  BY OneAtATimeStep DEF MemoryInv
<1>2. KernelInv' /\ \A c \in Channels : MemoryOf(c)'
  <2>1. CASE UNCHANGED vars
    <3>1. UNCHANGED <<cfg, script, tool, out, mem, kernel>>
      BY <2>1 DEF vars
    <3>2. KernelInv'
      BY <3>1 DEF MemoryInv, KernelInv, Result, Garbage, Content
    <3>3. \A c \in Channels : MemoryOf(c)'
      BY <3>1, SameMemoryKeeps DEF MemoryInv, Reader, Writer
    <3> QED BY <3>2, <3>3
  <2>2. CASE ScriptAlone
    <3>1. ~Sleep
      BY DEF MemoryInv, OneAtATime, Sleep
    <3> QED BY <2>2, <3>1, MemoryRanStep, MemoryControlStep, MemoryCompareStep DEF ScriptAlone
  <2>3. ~Launch
    BY DEF Launch
  <2> QED BY <2>1, <2>2, <2>3, MemoryRunStep, MemoryToolStep, MemoryKernelStep, StepsOf
<1>3. CardIdle'
  <2>1. \A c \in Channels : ~ReadWord(c) /\ ~WriteWord(c)
    BY SMTT(30) DEF ReadWord, WriteWord
  <2>2. UNCHANGED <<cfg, sent, rcvd>>
    BY <2>1, Steps DEF vars, cardVars, ScriptAlone, Sleep, Compare, Ran, WriteScalars, CheckIdle,
       WriteStart, Poll, CtrlFails, Launch, Run, KernelFinish, OpenDevice, OpenFile, Memory,
       Moved, GiveUp, Save
  <2> QED BY <2>2 DEF MemoryInv, CardIdle
<1> QED BY <1>1, <1>2, <1>3 DEF MemoryInv

(***************************************************************************)
(* What has been compared                                                  *)
(***************************************************************************)

\* A file that compares equal is, of a tool that has transferred all of it, or of
\* an earlier run.
LEMMA EqualIsVerified ==
  ASSUME Types, Stream => StreamInv, ~Stream => MemoryInv, ~OldFileCompared,
         script.at = "compare", NEW c \in Channels, SameAsReference(c, out[c])
  PROVE  Verified(c)
<1>1. CASE Stream
  <2>1. StreamOf(c) /\ FileOf(c)
    BY <1>1 DEF StreamInv
  <2>2. IF Shell THEN Reader(c).pc = "exit" ELSE Reader(c).pc \in {"dma", "save", "exit"}
    BY <1>1, ToolsAre DEF StreamInv, StartedInTurn, Reader
  <2>3. ~Shell => cfg.script = "main.py"
    BY ConfigsAssumption DEF Types, Shell
  <2>4. out[c].kind # "old"
    BY <1>1, <2>1, <2>2, <2>3 DEF FileOf, OldFileCompared
  <2>5. out[c].kind = "words" /\ out[c].words = Reference(c)
    BY <2>1, <2>4 DEF FileOf, SameAsReference
  <2>6. Size \in Nat /\ Size # 0 /\ DOMAIN Reference(c) = 1 .. Size
    BY ConfigsAssumption DEF Reference
  <2>7. out[c] # Empty
    <3>1. Empty.words = <<>> /\ Len(<<>>) = 0
      BY DEF Empty, Content
    <3>2. 1 \in DOMAIN Reference(c)
      BY <2>6
    <3>3. 1 \notin DOMAIN <<>>
      OBVIOUS
    <3> QED BY <2>5, <3>1, <3>2, <3>3
  <2>8. Reader(c).pc = "exit" /\ out[c] = Reader(c).data /\ (Reader(c).n = Size => Reader(c).rc = 0)
    BY <2>1, <2>5, <2>7 DEF FileOf
  <2>9. FirstWords(c, Reader(c).n) = Reference(c)
    BY <2>1, <2>5, <2>8 DEF StreamOf, Content
  <2>10. Reader(c).n = Size
    <3>1. Reader(c).n \in 0 .. Size
      BY MemoryTypes
    <3>2. DOMAIN FirstWords(c, Reader(c).n) = 1 .. Reader(c).n
      BY DEF FirstWords
    <3>3. 1 .. Reader(c).n = 1 .. Size
      BY <2>6, <2>9, <3>2
    <3>4. Size \in 1 .. Size
      BY <2>6
    <3> QED BY <2>6, <3>1, <3>3, <3>4
  <2> QED BY <1>1, <2>8, <2>10 DEF Verified
<1>2. CASE ~Stream
  <2>1. /\ Reader(c).pc = "exit" /\ Reader(c).rc = 0 /\ Reader(c).n = Size /\ out[c] = mem[c]
        /\ kernel.own /\ ~kernel.busy
    BY <1>2 DEF MemoryInv, MemoryOf, KernelInv
  <2>2. mem[c] \in {Result, Garbage}
    BY <1>2, <2>1 DEF MemoryInv, KernelInv
  <2>3. out[c] = Result
    BY <2>1, <2>2 DEF SameAsReference, Result, Garbage, Content
  <2> QED BY <1>2, <2>1, <2>3 DEF Verified
<1> QED BY <1>1, <1>2

\* What has been compared stays as it was.
LEMMA VerifiedStays ==
  ASSUME Types, Types', Stream => StreamInv, ~Stream => MemoryInv, [Next]_vars,
         script.at \in {"compare", "ok"}, NEW c \in Channels, Verified(c)
  PROVE  Verified(c)'
<1>1. cfg' = cfg /\ Reader(c)' = Reader(c) /\ out'[c] = out[c]
  <2>1. CASE UNCHANGED vars \/ ScriptAlone \/ KernelFinish
    <3>1. UNCHANGED <<cfg, tool, out>>
      BY <2>1, Kept DEF ScriptAlone
    <3> QED BY <3>1 DEF Reader
  <2>2. ~Launch /\ ~Run
    BY ToolsAre DEF Launch, Run
  <2>3. ASSUME NEW t \in Tools, ToolStep(t)
        PROVE  cfg' = cfg /\ Reader(c)' = Reader(c) /\ out'[c] = out[c]
    <3>1. OneMoves(t) /\ cfg' = cfg /\ tool[t].pc # "exit"
      BY <2>3, ToolStepMoves
    <3>2. t # <<"read", c>>
      BY <3>1 DEF Verified, Reader
    <3>3. Reader(c)' = Reader(c)
      BY <3>1, <3>2, ToolsAre DEF OneMoves, Reader
    <3>4. Stream
      BY <2>3, ToolOfScript
    <3>5. out'[c] = out[c]
      <4>1. CASE IsReader(t)
        <5>1. t[2] # c /\ t[2] \in Channels
          BY <3>2, <4>1, ToolsAre, SMTT(30) DEF IsReader
        <5>2. \/ out' = out \/ out' = [out EXCEPT ![t[2]] = Empty]
              \/ out' = [out EXCEPT ![t[2]] = tool[t].data]
          BY <2>3 DEF ToolStep, OpenDevice, OpenFile, Memory, Moved, GiveUp, Save,
             ReadWord, WriteWord
        <5> QED BY <5>1, <5>2 DEF Types
      <4>2. CASE ~IsReader(t)
        <5>1. \A d \in Channels : Writer(d).pc # "save"
          BY <3>4 DEF StreamInv, StreamOf
        <5>2. ~Save(t)
          BY <4>2, <5>1, ToolsAre, SMTT(30) DEF Save, Writer, IsReader
        <5>3. out' = out
          BY <2>3, <4>2, <5>2 DEF ToolStep, OpenDevice, OpenFile, Memory, Moved, GiveUp,
             ReadWord, WriteWord
        <5> QED BY <5>3
      <4> QED BY <4>1, <4>2
    <3> QED BY <3>1, <3>3, <3>5
  <2> QED BY <2>1, <2>2, <2>3, StepsOf
<1> QED BY <1>1 DEF Verified, SameAsReference, Reference, Stream, Result, Content

LEMMA ComparedStep ==
  ASSUME Types, Types', Stream => StreamInv, ~Stream => MemoryInv, ComparedInv, [Next]_vars
  PROVE  ComparedInv'
<1>0. /\ script.c \in {0, 1} /\ script.at \in Places /\ script.error \in BOOLEAN
      /\ cfg' = cfg /\ (OldFileCompared' <=> OldFileCompared)
  <2>1. cfg' = cfg
    BY Steps DEF vars, ScriptAlone, Sleep, Compare, Ran, WriteScalars, CheckIdle, WriteStart,
       Poll, CtrlFails, Launch, Run, KernelFinish, OpenDevice, OpenFile, Memory, Moved,
       GiveUp, Save, ReadWord, WriteWord
  <2>2. script.error \in BOOLEAN
    BY DEF Types
  <2> QED BY <2>1, <2>2, MemoryTypes DEF OldFileCompared, Stream
<1>1. CASE Compare
  <2>0. script.at = "compare"
    BY <1>1, CompareEffect
  <2>1. ASSUME ~OldFileCompared, ~Bad, NEW k \in Channels, k <= script.c
        PROVE  Verified(k)'
    <3>1. ~script.error /\ SameAsReference(script.c, out[script.c])
      BY <2>1 DEF Bad
    <3>2. k \in {0, 1}
      BY ToolsAre
    <3>3. CASE k = script.c
      BY <2>0, <2>1, <3>1, <3>3, EqualIsVerified, VerifiedStays
    <3>4. CASE script.c > k
      BY <2>0, <2>1, <3>1, <3>4, VerifiedStays DEF ComparedInv
    <3> QED BY <1>0, <2>1, <3>2, <3>3, <3>4
  <2>2. CASE script' = [script EXCEPT !.at = "stopped"]
    <3>1. script'.at = "stopped"
      BY <2>2 DEF Types
    <3> QED BY <3>1 DEF ComparedInv
  <2>3. CASE script.c = 0 /\ script' = [at |-> "compare", c |-> 1, error |-> Bad]
    <3>1. script'.at = "compare" /\ script'.c = 1 /\ script'.error = Bad
      BY <2>3
    <3>2. ASSUME ~OldFileCompared, NEW c \in Channels, script'.c > c, ~script'.error
          PROVE  Verified(c)'
      <4>1. ~Bad
        BY <3>1, <3>2
      <4>2. c <= script.c
        BY <2>3, <3>1, <3>2, ToolsAre
      <4> QED BY <2>1, <3>2, <4>1, <4>2
    <3> QED BY <1>0, <3>1, <3>2 DEF ComparedInv
  <2>4. CASE script.c = 1 /\ ~Bad /\ script' = [at |-> "ok", c |-> 1, error |-> FALSE]
    <3>1. script'.at = "ok" /\ ~script'.error
      BY <2>4
    <3>2. \A c \in Channels : c <= script.c
      BY <2>4, ToolsAre
    <3>3. ~OldFileCompared => \A c \in Channels : Verified(c)'
      BY <2>1, <2>4, <3>2
    <3> QED BY <1>0, <3>1, <3>3 DEF ComparedInv
  <2>5. CASE script' = [at |-> "errors", c |-> 1, error |-> TRUE]
    <3>1. script'.at = "errors"
      BY <2>5
    <3> QED BY <3>1 DEF ComparedInv
  <2> QED BY <1>1, <2>2, <2>3, <2>4, <2>5, CompareEffect
<1>2. CASE script' = script
  <2>1. \A c \in Channels : Verified(c) /\ script.at \in {"compare", "ok"} => Verified(c)'
    BY VerifiedStays
  <2> QED BY <1>0, <1>2, <2>1 DEF ComparedInv
<1>3. ASSUME /\ script.at \notin {"compare", "ok", "errors", "stopped"}
             /\ script'.at \notin {"ok", "errors"} /\ script'.error = script.error
             /\ script'.at = "compare" => script'.c = 0
      PROVE  ComparedInv'
  <2>1. ~script'.error
    BY <1>3 DEF ComparedInv
  <2>2. \A c \in Channels : ~(script'.c > c /\ script'.c = 0)
    BY ToolsAre
  <2> QED BY <1>3, <2>1, <2>2 DEF ComparedInv
<1>4. \A at : At(at).at = at /\ At(at).c = script.c /\ At(at).error = script.error
  BY DEF At, Types
<1>5. CASE Launch \/ Ran
  <2>1. script.at \in {"read", "write"} /\ script' \in {Advanced, At("stopped")}
    BY <1>5, ToolsAre DEF Launch, Ran
  <2>2. After(script.at) \in {"write", "compare", "scalars", "wait", "sleep"}
    BY <2>1 DEF After
  <2>3. script'.error = script.error /\ script'.at \notin {"ok", "errors"}
        /\ (script'.at = "compare" => script'.c = 0)
    BY <1>4, <2>1, <2>2, AdvancedIs
  <2> QED BY <1>3, <2>1, <2>3
<1>6. CASE Sleep
  <2>1. script.at \in {"sleep", "wait"} /\ script' = At("compare")
    BY <1>6 DEF Sleep
  <2>2. script.c = 0
    BY <2>1 DEF StreamInv, StartedInTurn, MemoryInv, OneAtATime
  <2> QED BY <1>3, <1>4, <2>1, <2>2
<1>7. CASE WriteScalars \/ CheckIdle \/ WriteStart \/ Poll \/ CtrlFails
  <2>1. CASE Poll /\ ~DoneBit(kernel)
    BY <1>2, <2>1 DEF Poll
  <2>2. CASE ~(Poll /\ ~DoneBit(kernel))
    <3>1. /\ script.at \in {"scalars", "check", "start", "poll"}
          /\ script' \in {At("check"), At("start"), At("stopped"), At("poll"), At("read")}
      BY <1>7, <2>2 DEF WriteScalars, CheckIdle, WriteStart, Poll, CtrlFails
    <3> QED BY <1>3, <1>4, <3>1
  <2> QED BY <2>1, <2>2
<1>8. CASE UNCHANGED vars \/ Run \/ KernelFinish
  BY <1>2, <1>8 DEF vars, Run, KernelFinish
<1>9. ASSUME NEW t \in Tools, ToolStep(t) PROVE ComparedInv'
  BY <1>2, <1>9, ToolStepMoves
<1> QED BY <1>1, <1>5, <1>6, <1>7, <1>8, <1>9, StepsOf DEF ScriptAlone

(***************************************************************************)
(* The theorems                                                            *)
(***************************************************************************)

LEMMA InitTypes ==
  ASSUME Init PROVE Types
<1>1. cfg \in Configs
  BY DEF Init
<1>2. script \in [at : Places, c : Channels, error : BOOLEAN]
  <2>1. script = [at |-> IF cfg.template = "PCI_STREAM" THEN "read" ELSE "write",
                  c |-> 0, error |-> FALSE]
    BY DEF Init
  <2> QED BY <2>1, ToolsAre DEF Places
<1>3. tool \in [Tools -> ToolRec]
  <2>1. tool = [t \in Tools |-> [pc |-> "off", n |-> 0, data |-> Empty, rc |-> 0]]
    BY DEF Init
  <2>2. [pc |-> "off", n |-> 0, data |-> Empty, rc |-> 0] \in ToolRec
    <3>1. 0 \in 0 .. Size /\ 0 \in {0, EINVAL, EIO} /\ "off" \in Pcs
      BY ConfigsAssumption DEF Pcs
    <3> QED BY <3>1, ContentsAre DEF ToolRec
  <2> QED BY <2>1, <2>2
<1>4. out \in [Channels -> Contents] /\ mem \in [Channels -> Contents]
  BY ContentsAre DEF Init
<1>5. kernel \in [busy : BOOLEAN, done : BOOLEAN, own : BOOLEAN]
  <2>1. {FALSE} \cup {"killed" \in cfg.faults} \subseteq BOOLEAN
    OBVIOUS
  <2> DEFINE B == {FALSE} \cup {"killed" \in cfg.faults}
  <2>2. kernel \in [busy : B, done : B, own : {FALSE}]
    BY DEF Init
  <2> HIDE DEF B
  <2>3. B \subseteq BOOLEAN
    BY <2>1 DEF B
  <2> QED BY <2>2, <2>3
<1>6. sent \in [Channels -> Nat] /\ rcvd \in [Channels -> Nat] /\ base = [c \in Channels |-> 0]
  <2>1. cfg.residue \in [{0, 1} -> 0 .. Buffer] /\ 0 .. Buffer \subseteq Nat
    BY <1>1, ConfigsAssumption
  <2>2. sent = cfg.residue /\ rcvd = [c \in Channels |-> 0] /\ base = [c \in Channels |-> 0]
    BY DEF Init
  <2> QED BY <2>1, <2>2, ToolsAre
<1> QED BY <1>1, <1>2, <1>3, <1>4, <1>5, <1>6 DEF Types, ToolRec

LEMMA InitInv ==
  ASSUME Init PROVE IInv
<1>1. Types
  BY InitTypes
<1>2. /\ script.at = (IF Stream THEN "read" ELSE "write") /\ script.c = 0 /\ ~script.error
  BY DEF Init, Stream
<1>3. \A t \in Tools : /\ tool[t].pc = "off" /\ tool[t].n = 0 /\ tool[t].rc = 0
                       /\ tool[t].data = Empty
  BY DEF Init
<1>4. \A c \in Channels : /\ Reader(c).pc = "off" /\ Writer(c).pc = "off"
                          /\ Reader(c).n = 0 /\ Writer(c).n = 0 /\ Reader(c).data = Empty
  BY <1>3, ToolsAre DEF Reader, Writer
<1>5. Stream => StreamInv
  <2> SUFFICES ASSUME Stream PROVE StreamInv
    OBVIOUS
  <2>1. StartedInTurn
    BY <1>2, <1>4, ToolsAre DEF StartedInTurn
  <2>2. ASSUME NEW c \in Channels PROVE StreamOf(c)
    <3>1. FirstWords(c, 0) = <<>>
      BY <1>1, WordsAre, EmptySeq
    <3>2. Reader(c).data = Content("words", FirstWords(c, Reader(c).n))
      BY <1>4, <3>1 DEF Empty
    <3>3. rcvd[c] = 0 /\ sent[c] = cfg.residue[c] /\ \A d \in Channels : sent[d] \in Nat
      BY <1>1 DEF Init, Types
    <3>4. Size \in Nat /\ cfg.residue[c] \in Nat
      BY <1>1, Residue
    <3> QED BY <1>4, <3>2, <3>3, <3>4 DEF StreamOf
  <2>3. ASSUME NEW c \in Channels PROVE FileOf(c)
    <3>1. out[c] = IF cfg.old THEN Old ELSE Missing
      BY DEF Init
    <3> QED BY <1>4, <3>1 DEF FileOf, Old, Missing, Content
  <2> QED BY <2>1, <2>2, <2>3 DEF StreamInv
<1>6. ~Stream => MemoryInv
  <2> SUFFICES ASSUME ~Stream PROVE MemoryInv
    OBVIOUS
  <2>1. OneAtATime
    BY <1>2, <1>3 DEF OneAtATime, Running
  <2>2. ~kernel.own
    BY DEF Init
  <2>3. KernelInv
    BY <1>2, <2>2 DEF KernelInv
  <2>4. ASSUME NEW c \in Channels PROVE MemoryOf(c)
    <3>1. mem[c] = Old
      BY DEF Init
    <3>2. Size # 0
      BY <1>1, MemoryTypes
    <3> QED BY <1>2, <1>4, <3>1, <3>2, ContentsDiffer DEF MemoryOf
  <2>5. CardIdle
    BY DEF CardIdle, Init
  <2> QED BY <2>1, <2>3, <2>4, <2>5 DEF MemoryInv
<1>7. ComparedInv
  BY <1>2 DEF ComparedInv
<1> QED BY <1>1, <1>5, <1>6, <1>7 DEF IInv

\* The inductive invariant: where the script is and what it has started, what the
\* card, the tools and the files hold of the words of a channel, or what the kernel
\* has made of the memory, and what has been compared (main.py, dma_utils).
THEOREM TestInvariant == Spec => []IInv
<1>1. Init => IInv
  BY InitInv
<1>2. IInv /\ [Next]_vars => IInv'
  <2> SUFFICES ASSUME IInv, [Next]_vars PROVE IInv'
    OBVIOUS
  <2>1. Types /\ (Stream => StreamInv) /\ (~Stream => MemoryInv) /\ ComparedInv
    BY DEF IInv
  <2>2. Types'
    BY <2>1, TypesStep, SMTT(30)
  <2>3. Stream' <=> Stream
    BY Steps DEF vars, ScriptAlone, Sleep, Compare, Ran, WriteScalars, CheckIdle, WriteStart,
       Poll, CtrlFails, Launch, Run, KernelFinish, OpenDevice, OpenFile, Memory, Moved,
       GiveUp, Save, ReadWord, WriteWord, Stream
  <2>4. Stream => StreamInv'
    BY <2>1, <2>2, StreamStep
  <2>5. ~Stream => MemoryInv'
    BY <2>1, <2>2, MemoryStep
  <2>6. ComparedInv'
    BY <2>1, <2>2, ComparedStep
  <2> QED BY <2>2, <2>3, <2>4, <2>5, <2>6 DEF IInv
<1> QED BY <1>1, <1>2, PTL DEF Spec

\* The values every variable ranges over, for every setting, transfer size and
\* buffer: among them the return codes a script takes for success (dma_to_device.c,
\* dma_from_device.c).
THEOREM TestTypes == Spec => []TypeOK
<1>1. IInv => TypeOK
  <2> SUFFICES ASSUME IInv PROVE TypeOK
    OBVIOUS
  <2>1. Types
    BY DEF IInv
  <2>2. cfg \in Configs /\ script.c \in Channels /\ script.error \in BOOLEAN
        /\ kernel \in [busy : BOOLEAN, done : BOOLEAN, own : BOOLEAN]
    BY <2>1 DEF Types
  <2>3. script.at \in {"read", "write", "sleep", "wait", "scalars", "check", "start",
                       "poll", "compare", "ok", "errors", "stopped"}
    BY <2>1 DEF Types, Places
  <2>4. \A t \in Tools :
          /\ tool[t].pc \in {"off", "open", "file", "dma", "save", "exit"}
          /\ tool[t].n \in 0 .. Size /\ tool[t].rc \in {0, EINVAL, EIO}
    BY <2>1, RecordOf DEF ToolRec, Pcs
  <2>5. ASSUME NEW c \in Channels PROVE rcvd[c] <= sent[c] /\ sent[c] <= cfg.residue[c] + Size
    <3>1. Writer(c).n \in 0 .. Size /\ cfg.residue[c] \in Nat /\ Size \in Nat
      BY <2>1, MemoryTypes, Residue
    <3>2. CASE Stream
      <4>1. sent[c] = cfg.residue[c] + Writer(c).n /\ rcvd[c] <= sent[c]
        BY <3>2 DEF IInv, StreamInv, StreamOf
      <4> QED BY <3>1, <4>1
    <3>3. CASE ~Stream
      <4>1. sent[c] = cfg.residue[c] /\ rcvd[c] = 0
        BY <3>3 DEF IInv, MemoryInv, CardIdle
      <4> QED BY <3>1, <4>1
    <3> QED BY <3>2, <3>3
  <2> QED BY <2>2, <2>3, <2>4, <2>5 DEF TypeOK
<1> QED BY <1>1, TestInvariant, PTL

\* A test that is reported as successful has taken place, whatever goes wrong and
\* whatever an earlier run has left in the card, unless main.py compares the files of
\* an earlier run: the shell script waits for its tools and removes the files, and the
\* memory test returns what its own run of the kernel computed
\* (dma_streaming_test.sh, main.py, startKernelExecution).
THEOREM OkIsTransferred == Spec => [](~OldFileCompared => OkMeansTransferred)
<1>1. ASSUME IInv, ~OldFileCompared, script.at = "ok", NEW c \in Channels
      PROVE  /\ tool[<<"read", c>>].n = Size /\ tool[<<"read", c>>].rc = 0
             /\ cfg.residue[c] < Size \/ ~Stream => tool[<<"write", c>>].n = Size
             /\ IF Stream THEN cfg.residue[c] < Size => rcvd[c] = sent[c]
                          ELSE kernel.own /\ out[c] = Result
  <2>0. Types /\ \A d \in Channels : Verified(d)
    BY <1>1 DEF IInv, ComparedInv
  <2>1. /\ Reader(c).n = Size /\ Reader(c).rc = 0
        /\ out[c] = IF Stream THEN Reader(c).data ELSE Result
    BY <2>0 DEF Verified
  <2>2. CASE ~Stream
    <3>1. kernel.own /\ ~kernel.busy /\ Reader(c).pc = "exit" /\ out[c] = mem[c]
      BY <1>1, <2>2 DEF IInv, MemoryInv, KernelInv, MemoryOf
    <3>2. Writer(c).n = Size
      BY <1>1, <2>1, <2>2, <3>1 DEF IInv, MemoryInv, MemoryOf
    <3> QED BY <2>1, <2>2, <3>1, <3>2 DEF Reader, Writer
  <2>3. ASSUME Stream, cfg.residue[c] < Size
        PROVE  Writer(c).n = Size /\ rcvd[c] = sent[c]
    <3>1. \A d \in Channels : StreamOf(d) /\ FileOf(d)
      BY <1>1, <2>3 DEF IInv, StreamInv
    <3>2. Size \in Nat \ {0} /\ cfg.residue[c] \in Nat
      BY <1>1, <2>0, Residue
    \* The first channel compares equal word by word, so nothing was left over.
    <3>3. 0 \in Channels /\ 1 \in Channels
      BY ToolsAre
    <3>4. FirstWords(0, Size) = Reference(0)
      <4>1. /\ Reader(0).n = Size /\ out[0] = Reader(0).data /\ SameAsReference(0, out[0])
        BY <2>0, <2>3, <3>3 DEF Verified
      <4>2. out[0] = Content("words", FirstWords(0, Size))
        BY <3>1, <3>3, <4>1 DEF StreamOf
      <4> QED BY <4>1, <4>2 DEF SameAsReference, Content
    <3>5. Place(0, Size) = Size /\ Place(1, Size) = Size
      <4>1. Size \in 1 .. Size
        BY <3>2
      <4>2. FirstWords(0, Size)[Size] = <<Place(0, Size), Place(1, Size)>>
        BY <4>1 DEF FirstWords, WordAt
      <4>3. Reference(0)[Size] = <<Size, Size>>
        BY <4>1 DEF Reference
      <4> QED BY <3>4, <4>2, <4>3
    <3>6. cfg.residue[c] = 0
      <4>1. c \in {0, 1} /\ Place(c, Size) = Size
        BY <3>5, ToolsAre
      <4> QED BY <2>3, <3>2, <4>1 DEF Place
    <3>7. /\ sent[c] = Writer(c).n /\ rcvd[c] <= Size /\ Size <= rcvd[c] /\ rcvd[c] <= sent[c]
          /\ Writer(c).n \in 0 .. Size /\ rcvd[c] \in Nat
      <4>1. Writer(c).n \in 0 .. Size
        BY <2>0, MemoryTypes
      <4>2. rcvd[c] \in Nat
        BY <2>0 DEF Types
      <4> QED BY <2>1, <3>1, <3>2, <3>6, <4>1, <4>2 DEF StreamOf
    <3> QED BY <3>2, <3>7
  <2> QED BY <2>1, <2>2, <2>3 DEF Reader, Writer
<1>2. IInv => (~OldFileCompared => OkMeansTransferred)
  BY <1>1 DEF OkMeansTransferred
<1> QED BY <1>2, TestInvariant, PTL

\* The memory is read only when the kernel has finished the run this script started
\* (startKernelExecution): in every setting, also behind a killed earlier run.
THEOREM ReadAfterDone == Spec => ResultsReadAfterDone
<1>1. ASSUME IInv, [Next]_vars, NEW c \in Channels, ~Stream,
             tool[<<"read", c>>].n # tool'[<<"read", c>>].n
      PROVE  kernel.own /\ ~kernel.busy
  <2>0. Types /\ MemoryInv
    BY <1>1 DEF IInv
  <2>1. ~UNCHANGED tool
    BY <1>1
  <2>2. ~(UNCHANGED vars \/ ScriptAlone \/ KernelFinish)
    BY <2>0, <2>1, Kept DEF ScriptAlone
  <2>3. ~Launch
    BY <1>1 DEF Launch
  <2>4. CASE Run
    <3>1. /\ <<script.at, script.c>> \in Tools
          /\ Left(<<script.at, script.c>>, "open", tool[<<script.at, script.c>>].n,
                  tool[<<script.at, script.c>>].data, tool[<<script.at, script.c>>].rc)
      BY <2>0, <2>4, StartedDoes
    <3>2. \A t \in Tools : tool'[t].n = tool[t].n
      BY <2>0, <3>1, LeftIs DEF OneMoves
    <3> QED BY <1>1, <3>2, ToolsAre
  <2>5. ASSUME NEW t \in Tools, ToolStep(t) PROVE kernel.own /\ ~kernel.busy
    <3>1. t = <<script.at, script.c>> /\ OneMoves(t)
      BY <1>1, <2>0, <2>5, ToolOfScript
    <3>2. t = <<"read", c>>
      BY <1>1, <3>1, ToolsAre DEF OneMoves
    <3>3. script.at = "read"
      BY <3>1, <3>2
    <3> QED BY <2>0, <3>3 DEF MemoryInv, KernelInv
  <2> QED BY <1>1, <2>2, <2>3, <2>4, <2>5, StepsOf
<1>2. IInv /\ [Next]_vars =>
        [\A c \in Channels :
           ~Stream /\ tool[<<"read", c>>].n # tool'[<<"read", c>>].n
             => kernel.own /\ ~kernel.busy]_vars
  BY <1>1
<1> QED BY <1>2, TestInvariant, PTL DEF Spec, ResultsReadAfterDone

(***************************************************************************)
(* When nothing fails                                                      *)
(***************************************************************************)

\* Two channels whose counts leave no tool a word to move have moved all of them.
LEMMA NothingLeft ==
  ASSUME NEW s0 \in Nat, NEW s1 \in Nat, NEW r0 \in Nat, NEW r1 \in Nat,
         NEW size \in Nat, NEW buffer \in Nat \ {0},
         s0 <= size, s1 <= size, r0 <= size, r1 <= size,
         r0 <= s0, r0 <= s1, r1 <= s0, r1 <= s1,
         s0 < size => s0 - r0 >= buffer, s1 < size => s1 - r1 >= buffer,
         r0 < size => ~(r0 + 1 <= s0 /\ r0 + 1 <= s1),
         r1 < size => ~(r1 + 1 <= s0 /\ r1 + 1 <= s1)
  PROVE  s0 = size /\ s1 = size /\ r0 = size /\ r1 = size
  OBVIOUS

\* No call of the driver times out: a reader that waits for a word finds it sent,
\* or a writer with room in the card for it.
LEMMA NoneGivesUp ==
  ASSUME IInv, Undisturbed, CalmInv, NEW t \in Tools
  PROVE  ~GiveUp(t)
<1> SUFFICES ASSUME GiveUp(t) PROVE FALSE
  OBVIOUS
<1>1. Types
  BY DEF IInv
<1>2. tool[t].pc = "dma" /\ tool[t].n < Size /\ Stuck(t)
  BY <1>1, GiveUpDoes DEF Undisturbed
<1>3. Stream /\ StreamInv /\ script.at \in {"sleep", "wait", "compare", "ok", "errors", "stopped"}
      /\ \A u \in Tools : tool[u].pc \notin {"open", "file"}
  BY <1>2 DEF Stuck, IInv
<1>4. ASSUME NEW u \in Tools PROVE tool[u].pc = "dma" \/ tool[u].n = Size
  <2>1. tool[u].pc # "off"
    BY <1>3, ToolsAre DEF StreamInv, StartedInTurn, Reader, Writer
  <2>2. tool[u].pc \in Pcs
    BY <1>1, RecordOf DEF ToolRec
  <2> QED BY <1>3, <2>1, <2>2 DEF CalmInv, Pcs
<1>5. Size \in Nat /\ Buffer \in Nat \ {0}
  BY ConfigsAssumption
<1>6. ASSUME NEW c \in Channels
      PROVE  /\ sent[c] \in Nat /\ rcvd[c] \in Nat /\ sent[c] = Writer(c).n /\ rcvd[c] = Reader(c).n
             /\ sent[c] <= Size /\ rcvd[c] <= Size /\ \A d \in Channels : rcvd[c] <= sent[d]
             /\ sent[c] < Size => sent[c] - rcvd[c] >= Buffer
             /\ rcvd[c] < Size => ~(\A d \in Channels : rcvd[c] + 1 <= sent[d])
  <2>1. sent[c] \in Nat /\ rcvd[c] \in Nat /\ base[c] = 0 /\ cfg.residue[c] = 0
    BY <1>1 DEF Types, Undisturbed
  <2>2. Writer(c).n \in 0 .. Size /\ Reader(c).n \in 0 .. Size
    BY <1>1, MemoryTypes
  <2>3. StreamOf(c)
    BY <1>3 DEF StreamInv
  <2>4. sent[c] = Writer(c).n /\ rcvd[c] = Reader(c).n /\ \A d \in Channels : rcvd[c] <= sent[d]
    <3>1. sent[c] = cfg.residue[c] + Writer(c).n /\ \A d \in Channels : rcvd[c] <= sent[d]
      BY <2>3 DEF StreamOf
    <3>2. Reader(c).n = rcvd[c]
      BY <1>3 DEF CalmInv
    <3> QED BY <2>1, <2>2, <3>1, <3>2
  <2>5. sent[c] < Size => sent[c] - rcvd[c] >= Buffer
    <3>1. sent[c] < Size => Writer(c).pc = "dma" /\ Writer(c).n < Size
      BY <1>4, <1>5, <2>1, <2>4, ToolsAre DEF Writer
    <3>2. sent[c] < Size => sent[c] - base[c] - rcvd[c] >= Buffer
      BY <1>2, <3>1 DEF Stuck, Writer
    <3> QED BY <1>5, <2>1, <3>2
  <2>6. rcvd[c] < Size => ~(\A d \in Channels : rcvd[c] + 1 <= sent[d])
    <3>1. rcvd[c] < Size => Reader(c).pc = "dma" /\ Reader(c).n < Size
      BY <1>4, <1>5, <2>1, <2>4, ToolsAre DEF Reader
    <3>2. rcvd[c] < Size => ~Card!Computable(c, rcvd[c] + 1)
      BY <1>2, <3>1 DEF Stuck, Reader
    <3>3. rcvd[c] + 1 \in Nat
      BY <2>1
    <3> QED BY <1>1, <3>2, <3>3, WordOfCard
  <2>7. sent[c] <= Size /\ rcvd[c] <= Size
    BY <1>5, <2>2, <2>4
  <2> QED BY <2>1, <2>4, <2>5, <2>6, <2>7
<1>7. sent[0] = Size /\ sent[1] = Size /\ rcvd[0] = Size /\ rcvd[1] = Size
  <2>1. 0 \in Channels /\ 1 \in Channels /\ \A d \in Channels : d \in {0, 1}
    BY ToolsAre
  <2>2. /\ rcvd[0] < Size => ~(rcvd[0] + 1 <= sent[0] /\ rcvd[0] + 1 <= sent[1])
        /\ rcvd[1] < Size => ~(rcvd[1] + 1 <= sent[0] /\ rcvd[1] + 1 <= sent[1])
    BY <1>6, <2>1
  <2>3. /\ sent[0] \in Nat /\ sent[1] \in Nat /\ rcvd[0] \in Nat /\ rcvd[1] \in Nat
        /\ sent[0] <= Size /\ sent[1] <= Size /\ rcvd[0] <= Size /\ rcvd[1] <= Size
        /\ rcvd[0] <= sent[0] /\ rcvd[0] <= sent[1] /\ rcvd[1] <= sent[0] /\ rcvd[1] <= sent[1]
        /\ sent[0] < Size => sent[0] - rcvd[0] >= Buffer
        /\ sent[1] < Size => sent[1] - rcvd[1] >= Buffer
    BY <1>6, <2>1
  <2> QED BY <1>5, <2>2, <2>3, NothingLeft
<1>8. \A u \in Tools : tool[u].n = Size
  BY <1>6, <1>7, ToolsAre DEF Reader, Writer
<1> QED BY <1>2, <1>5, <1>8

\* A file that is compared is there, and has the words of this run.
LEMMA CalmCompares ==
  ASSUME IInv, Undisturbed, CalmInv, script.at = "compare", NEW c \in Channels
  PROVE  ~(~Shell /\ out[c] = Missing) /\ SameAsReference(c, out[c])
<1>1. Types
  BY DEF IInv
<1>2. CASE Stream
  <2>1. Shell /\ Reader(c).pc = "exit"
    BY <1>2, ToolsAre DEF IInv, StreamInv, StartedInTurn, Undisturbed, Reader
  <2>2. out[c] = Reader(c).data /\ Reader(c).n = Size
    BY <1>2, <2>1, ToolsAre DEF CalmInv, Reader
  <2>3. out[c] = Content("words", FirstWords(c, Size))
    BY <1>2, <2>2 DEF IInv, StreamInv, StreamOf
  <2>4. \A k \in 1 .. Size : WordAt(c, k) = IF c = 0 THEN <<k, k>> ELSE None
    <3>1. cfg.residue[0] = 0 /\ cfg.residue[1] = 0 /\ Size \in Nat
      BY <1>1, MemoryTypes, ToolsAre DEF Undisturbed
    <3>2. \A k \in 1 .. Size : Place(0, k) = k /\ Place(1, k) = k
      BY <3>1 DEF Place
    <3> QED BY <3>2 DEF WordAt
  <2>5. FirstWords(c, Size) = Reference(c)
    BY <2>4 DEF FirstWords, Reference
  <2> QED BY <2>1, <2>3, <2>5 DEF SameAsReference, Content
<1>3. CASE ~Stream
  <2>1. kernel.own /\ ~kernel.busy /\ Reader(c).pc = "exit" /\ Reader(c).rc = 0
    BY <1>3 DEF IInv, MemoryInv, KernelInv, MemoryOf
  <2>2. out[c] = mem[c]
    BY <1>3, <2>1 DEF IInv, MemoryInv, MemoryOf
  <2>3. mem[c] = Result
    BY <1>3, <2>1 DEF CalmInv, CalmKernel
  <2> QED BY <2>2, <2>3 DEF SameAsReference, Result, Missing, Content
<1> QED BY <1>2, <1>3

\* The script goes on.
LEMMA CalmScript ==
  ASSUME IInv, Undisturbed, CalmInv, [Next]_vars
  PROVE  script'.at \notin {"errors", "stopped"} /\ ~script'.error
<1>1. Types /\ script.at \notin {"errors", "stopped"} /\ ~script.error
  BY DEF IInv, CalmInv
<1>2. CASE UNCHANGED vars \/ Run \/ KernelFinish
  <2>1. script' = script
    BY <1>2 DEF vars, Run, KernelFinish
  <2> QED BY <1>1, <2>1
<1>3. ASSUME NEW t \in Tools, ToolStep(t)
      PROVE  script'.at \notin {"errors", "stopped"} /\ ~script'.error
  BY <1>1, <1>3, ToolStepMoves
<1>4. ASSUME script.at \in {"read", "write"}
      PROVE  Advanced.at \notin {"errors", "stopped"} /\ ~Advanced.error
  BY <1>1, <1>4, AdvancedIs DEF After
<1>5. CASE Launch
  <2>1. script.at \in {"read", "write"} /\ script' = Advanced
    BY <1>5, ToolsAre DEF Launch
  <2> QED BY <1>4, <2>1
<1>6. CASE Ran
  <2>1. script.at \in {"read", "write"} /\ <<script.at, script.c>> \in Tools
    BY <1>6, ToolsAre DEF Ran
  <2>2. tool[<<script.at, script.c>>].rc = 0
    BY <2>1 DEF CalmInv
  <2>3. script' = Advanced
    BY <1>6, <2>2 DEF Ran
  <2> QED BY <1>4, <2>1, <2>3
<1>7. \A at : At(at).at = at /\ At(at).error = script.error
  BY <1>1 DEF At, Types
<1>8. CASE Sleep \/ WriteScalars \/ WriteStart \/ Poll
  <2>1. script' \in {At("compare"), At("check"), At("poll"), At("read"), script}
    BY <1>8 DEF Sleep, WriteScalars, WriteStart, Poll
  <2> QED BY <1>1, <1>7, <2>1
<1>9. CASE CheckIdle
  <2>1. script.at = "check"
    BY <1>9 DEF CheckIdle
  <2>2. ~Stream
    BY <2>1 DEF IInv, StreamInv, StartedInTurn
  <2>3. ~kernel.own /\ kernel.busy \in BOOLEAN
    BY <1>1, <2>1, <2>2, MemoryTypes DEF IInv, MemoryInv, KernelInv
  <2>4. ~kernel.busy
    BY <2>2, <2>3 DEF CalmInv, CalmKernel
  <2>5. script' = At("start")
    BY <1>9, <2>4 DEF CheckIdle, IdleBit
  <2> QED BY <1>1, <1>7, <2>5
<1>10. CASE Compare
  <2>1. script.at = "compare" /\ script.c \in Channels
    BY <1>1, <1>10, CompareEffect DEF Types
  <2>2. ~(~Shell /\ out[script.c] = Missing) /\ SameAsReference(script.c, out[script.c])
    BY <2>1, CalmCompares
  <2>3. ~Bad
    BY <1>1, <2>2, Zenon DEF Bad
  <2>4. Bad \in BOOLEAN
    BY DEF Bad
  <2>5. Bad = FALSE
    BY <2>3, <2>4
  <2>6. \/ script' = [at |-> "compare", c |-> 1, error |-> FALSE]
        \/ script' = [at |-> "ok", c |-> 1, error |-> FALSE]
    BY <1>1, <1>10, <2>2, <2>5, CompareEffect, Zenon
  <2> QED BY <2>6
<1>11. ~CtrlFails
  BY DEF CtrlFails, Undisturbed
<1> QED BY <1>2, <1>3, <1>5, <1>6, <1>8, <1>9, <1>10, <1>11, StepsOf DEF ScriptAlone

\* What each tool does then.
LEMMA CalmToolMoves ==
  ASSUME IInv, Undisturbed, CalmInv, NEW t \in Tools, ToolStep(t)
  PROVE  /\ tool'[t].rc = 0
         /\ tool'[t].pc \in {"save", "exit"} => tool'[t].n = Size
<1>1. /\ Types /\ tool[t].rc = 0 /\ cfg.faults = {}
      /\ tool[t].pc = "save" => tool[t].n = Size
  BY DEF IInv, CalmInv, Undisturbed
<1>2. CASE OpenDevice(t)
  <2>1. Left(t, "file", tool[t].n, tool[t].data, tool[t].rc)
    BY <1>1, <1>2, OpenDeviceDoes
  <2> QED BY <1>1, <2>1, LeftIs
<1>3. CASE OpenFile(t)
  <2>1. Left(t, "dma", tool[t].n, tool[t].data, tool[t].rc)
    BY <1>1, <1>3, OpenFileDoes
  <2> QED BY <1>1, <2>1, LeftIs
<1>4. CASE Memory(t)
  <2>1. Left(t, "dma", Size, mem[t[2]], tool[t].rc)
    BY <1>1, <1>4, MemoryDoes
  <2> QED BY <1>1, <2>1, LeftIs
<1>5. CASE Moved(t)
  <2>1. /\ tool[t].n = Size
        /\ \/ Left(t, "save", tool[t].n, tool[t].data, tool[t].rc)
           \/ Left(t, "exit", tool[t].n, tool[t].data, 0)
    BY <1>1, <1>5, MovedDoes
  <2>2. tool'[t].n = tool[t].n /\ tool'[t].rc \in {tool[t].rc, 0}
    BY <1>1, <2>1, LeftIs
  <2> QED BY <1>1, <2>1, <2>2
<1>6. CASE Save(t)
  <2>1. tool[t].pc = "save" /\ Size \in Nat
    BY <1>1, <1>6, SaveDoes, MemoryTypes
  <2>2. tool[t].n = Size /\ ~(tool[t].n < Size)
    BY <1>1, <2>1
  <2>3. Left(t, "exit", tool[t].n, tool[t].data, 0)
    BY <1>1, <1>6, <2>2, SaveDoes
  <2> QED BY <1>1, <2>2, <2>3, LeftIs
<1>7. ~GiveUp(t)
  BY NoneGivesUp
<1>8. ASSUME NEW c \in Channels, t = <<"read", c>>, ReadWord(c)
      PROVE  tool'[t].rc = 0 /\ tool'[t].pc = "dma"
  <2> DEFINE d == [tool[t].data EXCEPT !.words = Append(@, WordAt(c, rcvd[c] + 1))]
  <2>1. Left(t, "dma", tool[t].n + 1, d, tool[t].rc)
    BY <1>1, <1>8, ReadWordDoes
  <2> HIDE DEF d
  <2> QED BY <1>1, <2>1, LeftIs
<1>9. ASSUME NEW c \in Channels, t = <<"write", c>>, WriteWord(c)
      PROVE  tool'[t].rc = 0 /\ tool'[t].pc = "dma"
  <2>1. Left(t, "dma", tool[t].n + 1, tool[t].data, tool[t].rc)
    BY <1>1, <1>9, WriteWordDoes
  <2> QED BY <1>1, <2>1, LeftIs
<1> QED BY <1>2, <1>3, <1>4, <1>5, <1>6, <1>7, <1>8, <1>9 DEF ToolStep

LEMMA CalmTools ==
  ASSUME IInv, Undisturbed, CalmInv, [Next]_vars, NEW u \in Tools
  PROVE  /\ tool'[u].rc = 0
         /\ tool'[u].pc \in {"save", "exit"} => tool'[u].n = Size
<1>1. /\ Types /\ tool[u].rc = 0
      /\ tool[u].pc \in {"save", "exit"} => tool[u].n = Size
  BY DEF IInv, CalmInv
<1>2. CASE UNCHANGED vars \/ ScriptAlone \/ KernelFinish
  <2>1. tool' = tool
    BY <1>1, <1>2, Kept DEF ScriptAlone
  <2> QED BY <1>1, <2>1
<1>3. CASE Launch \/ Run
  <2> DEFINE t == <<script.at, script.c>>
  <2>1. t \in Tools /\ Left(t, "open", tool[t].n, tool[t].data, tool[t].rc)
    BY <1>1, <1>3, StartedDoes
  <2>2. /\ tool'[t].pc = "open" /\ tool'[t].rc = tool[t].rc
        /\ u # t => tool'[u] = tool[u]
    BY <1>1, <2>1, LeftIs DEF OneMoves
  <2>3. tool[t].rc = 0
    BY <2>1 DEF CalmInv
  <2>4. CASE u = t
    BY <2>2, <2>3, <2>4
  <2>5. CASE u # t
    BY <1>1, <2>2, <2>5
  <2> QED BY <2>4, <2>5
<1>4. ASSUME NEW t \in Tools, ToolStep(t)
      PROVE  /\ tool'[u].rc = 0
             /\ tool'[u].pc \in {"save", "exit"} => tool'[u].n = Size
  <2>1. u # t => tool'[u] = tool[u]
    BY <1>1, <1>4, ToolStepMoves DEF OneMoves
  <2> QED BY <1>1, <1>4, <2>1, CalmToolMoves
<1> QED BY <1>2, <1>3, <1>4, StepsOf

\* Every word that the card has returned is in a tool, and then in its file.
LEMMA CalmChannel ==
  ASSUME IInv, IInv', Stream, Undisturbed, CalmInv, [Next]_vars, NEW c \in Channels
  PROVE  /\ Reader(c)'.n = rcvd'[c]
         /\ Reader(c)'.pc = "exit" => out'[c] = Reader(c)'.data
<1>1. /\ Types /\ Types' /\ StreamOf(c) /\ Reader(c).n = rcvd[c]
      /\ Reader(c).pc = "exit" => out[c] = Reader(c).data
  BY DEF IInv, CalmInv, StreamInv
<1>2. CASE UNCHANGED vars \/ ScriptAlone \/ KernelFinish
  <2>1. UNCHANGED <<tool, out, rcvd>>
    BY <1>1, <1>2, Kept DEF ScriptAlone, cardVars
  <2> QED BY <1>1, <2>1 DEF Reader
<1>3. CASE Launch
  <2> DEFINE t == <<script.at, script.c>>
  <2>1. /\ t \in Tools /\ Left(t, "open", tool[t].n, tool[t].data, tool[t].rc)
        /\ rcvd' = rcvd /\ out' = IF IsReader(t) THEN Removed(script.c) ELSE out
    BY <1>1, <1>3, StartedDoes DEF cardVars, Launch
  <2>2. /\ tool'[t].pc = "open" /\ tool'[t].n = tool[t].n
        /\ \A u \in Tools : u # t => tool'[u] = tool[u]
    BY <1>1, <2>1, LeftIs DEF OneMoves
  <2>3. CASE t = <<"read", c>>
    BY <1>1, <2>1, <2>2, <2>3 DEF Reader
  <2>4. CASE t # <<"read", c>>
    <3>1. Reader(c)' = Reader(c)
      BY <2>2, <2>4, ToolsAre DEF Reader
    <3>2. out'[c] = out[c]
      <4>1. IsReader(t) => script.c # c
        BY <2>1, <2>4, ToolsAre DEF IsReader
      <4>2. script.c \in Channels
        BY <1>1 DEF Types
      <4> QED BY <1>1, <2>1, <4>1, <4>2 DEF Removed, Types
    <3> QED BY <1>1, <2>1, <3>1, <3>2
  <2> QED BY <2>3, <2>4
<1>4. ASSUME NEW t \in Tools, ToolStep(t), t # <<"read", c>>
      PROVE  /\ Reader(c)'.n = rcvd'[c]
             /\ Reader(c)'.pc = "exit" => out'[c] = Reader(c)'.data
  <2>1. Reader(c)' = Reader(c)
    BY <1>1, <1>4, ToolStepMoves, ToolsAre DEF OneMoves, Reader
  <2>2. out'[c] = out[c]
    <3>1. IsReader(t) => t[2] # c /\ t[2] \in Channels
      BY <1>4, ToolsAre DEF IsReader
    <3>2. ~IsReader(t) => ~Save(t)
      <4>1. \A d \in Channels : Writer(d).pc # "save"
        BY SMTT(30) DEF IInv, StreamInv, StreamOf
      <4> QED BY <1>4, <4>1, ToolsAre DEF Save, Writer, IsReader
    <3>3. \/ out' = out
          \/ IsReader(t) /\ out' = [out EXCEPT ![t[2]] = Empty]
          \/ IsReader(t) /\ out' = [out EXCEPT ![t[2]] = tool[t].data]
      BY <1>4, <3>2 DEF ToolStep, OpenDevice, OpenFile, Memory, Moved, GiveUp, Save,
         ReadWord, WriteWord
    <3> QED BY <1>1, <3>1, <3>3 DEF Types
  <2>3. rcvd'[c] = rcvd[c]
    <3>1. CASE \E d \in Channels : t = <<"read", d>> /\ ReadWord(d)
      <4>1. PICK d \in Channels : t = <<"read", d>> /\ ReadWord(d)
        BY <3>1
      <4>2. d # c /\ rcvd' = [rcvd EXCEPT ![d] = rcvd[d] + 1]
        BY <1>1, <1>4, <4>1, ReadWordDoes
      <4> QED BY <1>1, <4>2 DEF Types
    <3>2. CASE \E d \in Channels : t = <<"write", d>> /\ WriteWord(d)
      BY <1>1, <3>2, WriteWordDoes
    <3>3. CASE \/ OpenDevice(t) \/ OpenFile(t) \/ Memory(t) \/ Moved(t) \/ GiveUp(t) \/ Save(t)
      BY <3>3 DEF OpenDevice, OpenFile, Memory, Moved, GiveUp, Save, cardVars
    <3> QED BY <1>4, <3>1, <3>2, <3>3 DEF ToolStep
  <2> QED BY <1>1, <2>1, <2>2, <2>3
<1>5. ASSUME ToolStep(<<"read", c>>)
      PROVE  /\ Reader(c)'.n = rcvd'[c]
             /\ Reader(c)'.pc = "exit" => out'[c] = Reader(c)'.data
  <2> DEFINE t == <<"read", c>>
  <2>1. /\ t \in Tools /\ t[2] = c /\ IsReader(t) /\ tool[t] = Reader(c)
        /\ tool'[t] = Reader(c)' /\ cfg.faults = {}
    BY ToolsAre DEF IsReader, Reader, Undisturbed
  <2>2. CASE OpenDevice(t) \/ OpenFile(t) \/ Moved(t)
    <3>1. /\ \/ Left(t, "file", tool[t].n, tool[t].data, tool[t].rc)
             \/ Left(t, "dma", tool[t].n, tool[t].data, tool[t].rc)
             \/ Left(t, "save", tool[t].n, tool[t].data, tool[t].rc)
          /\ rcvd' = rcvd
      BY <1>1, <2>1, <2>2, OpenDeviceDoes, OpenFileDoes, MovedDoes DEF cardVars
    <3>2. tool'[t].n = tool[t].n /\ tool'[t].pc # "exit"
      BY <1>1, <2>1, <3>1, LeftIs
    <3> QED BY <1>1, <2>1, <3>1, <3>2
  <2>3. CASE Save(t)
    <3>1. /\ Left(t, "exit", tool[t].n, tool[t].data, IF tool[t].n < Size THEN EIO ELSE 0)
          /\ out' = [out EXCEPT ![c] = tool[t].data] /\ rcvd' = rcvd
      BY <1>1, <2>1, <2>3, SaveDoes DEF cardVars
    <3>2. tool'[t].n = tool[t].n /\ tool'[t].data = tool[t].data
      BY <1>1, <2>1, <3>1, LeftIs
    <3>3. out'[c] = tool[t].data
      BY <1>1, <3>1 DEF Types
    <3> QED BY <1>1, <2>1, <3>1, <3>2, <3>3
  <2>4. ~Memory(t)
    BY DEF Memory
  <2>5. ~GiveUp(t)
    BY <2>1, NoneGivesUp
  <2>6. CASE ReadWord(c)
    <3>1. Left(t, "dma", rcvd[c] + 1, Content("words", FirstWords(c, rcvd[c] + 1)), tool[t].rc)
      BY <1>1, <2>6, ReadWordHas
    <3>2. tool'[t].n = rcvd[c] + 1 /\ tool'[t].pc = "dma"
      BY <1>1, <2>1, <3>1, LeftIs
    <3>3. rcvd' = [rcvd EXCEPT ![c] = rcvd[c] + 1]
      BY <1>1, <2>6, ReadWordDoes
    <3>4. rcvd'[c] = rcvd[c] + 1
      BY <1>1, <3>3 DEF Types
    <3> QED BY <2>1, <3>2, <3>4
  <2> QED BY <1>5, <2>2, <2>3, <2>4, <2>5, <2>6 DEF ToolStep
<1>6. ~Run
  BY DEF Run
<1> QED BY <1>2, <1>3, <1>4, <1>5, <1>6, StepsOf

\* The kernel works on the input of this run, and on that alone.
LEMMA CalmKernelTool ==
  ASSUME IInv, ~Stream, Undisturbed, CalmInv, NEW t \in Tools, ToolStep(t)
  PROVE  CalmKernel'
<1>1. /\ Types /\ MemoryInv /\ CalmKernel
  BY DEF IInv, CalmInv
<1>2. /\ t = <<script.at, script.c>> /\ script.at \in {"read", "write"}
      /\ UNCHANGED <<cfg, script, kernel>> /\ script.c \in Channels
      /\ \A c \in Channels : c # script.c =>
           Writer(c)' = Writer(c) /\ mem'[c] = mem[c]
  BY <1>1, ToolOfScript, ToolsAre
<1>3. CASE script.at = "read"
  <2>1. kernel.own /\ ~kernel.busy /\ IsReader(t)
    BY <1>1, <1>2, <1>3, ToolsAre, SMTT(30) DEF MemoryInv, KernelInv, IsReader
  <2>2. mem' = mem
    BY <1>2, <2>1, ToolsAre DEF ToolStep, OpenDevice, OpenFile, Memory, Moved, GiveUp, Save,
       ReadWord, WriteWord
  <2> QED BY <1>1, <1>2, <1>3, <2>1, <2>2 DEF CalmKernel, Result, Content
<1>4. CASE script.at = "write"
  <2>1. ~kernel.own /\ ~kernel.busy
    BY <1>1, <1>4, MemoryTypes DEF MemoryInv, KernelInv, CalmKernel
  <2>2. ASSUME NEW c \in Channels, c = script.c, Writer(c)'.n = Size
        PROVE  mem'[c] = Input
    <3>1. t = <<"write", c>> /\ ~IsReader(t) /\ tool[t] = Writer(c) /\ tool'[t] = Writer(c)' /\ t[2] = c
      BY <1>2, <1>4, <2>2 DEF IsReader, Writer
    <3>2. CASE Memory(t)
      <4>1. mem' = [mem EXCEPT ![c] = Input]
        BY <1>1, <3>1, <3>2, MemoryDoes
      <4> QED BY <1>1, <4>1 DEF Types
    <3>3. CASE OpenDevice(t) \/ OpenFile(t) \/ Moved(t) \/ Save(t)
      <4>1. mem' = mem /\ \/ Left(t, "file", tool[t].n, tool[t].data, tool[t].rc)
                          \/ Left(t, "dma", tool[t].n, tool[t].data, tool[t].rc)
                          \/ Left(t, "save", tool[t].n, tool[t].data, tool[t].rc)
                          \/ \E rc : Left(t, "exit", tool[t].n, tool[t].data, rc)
        BY <1>1, <3>3, OpenDeviceDoes, OpenFileDoes, MovedDoes, SaveDoes
      <4>2. \A pc, rc : Left(t, pc, tool[t].n, tool[t].data, rc) => tool'[t].n = tool[t].n
        BY <1>1, LeftIs
      <4>3. Writer(c).n = Size
        BY <2>2, <3>1, <4>1, <4>2
      <4> QED BY <1>1, <2>1, <4>1, <4>3 DEF CalmKernel
    <3>4. ~GiveUp(t)
      BY NoneGivesUp
    <3>5. \A d \in Channels : ~ReadWord(d) /\ ~WriteWord(d)
      BY DEF ReadWord, WriteWord
    <3> QED BY <3>2, <3>3, <3>4, <3>5 DEF ToolStep
  <2>3. ASSUME NEW c \in Channels, Writer(c)'.n = Size
        PROVE  mem'[c] = Input
    <3>1. CASE c = script.c
      BY <2>2, <2>3, <3>1
    <3>2. CASE c # script.c
      BY <1>1, <1>2, <2>1, <2>3, <3>2 DEF CalmKernel
    <3> QED BY <3>1, <3>2
  <2>4. ASSUME NEW c \in Channels, script.c > c PROVE Writer(c)'.pc = "exit"
    <3>1. c # script.c /\ Writer(c).pc = "exit"
      BY <1>1, <1>4, <2>4, ToolsAre DEF CalmKernel
    <3> QED BY <1>2, <3>1
  <2> QED BY <1>2, <1>4, <2>1, <2>3, <2>4 DEF CalmKernel, Input, Content
<1> QED BY <1>2, <1>3, <1>4

LEMMA CalmKernelScript ==
  ASSUME IInv, ~Stream, Undisturbed, CalmInv, ScriptAlone
  PROVE  CalmKernel'
<1>1. /\ Types /\ MemoryInv /\ CalmKernel /\ kernel.own \in BOOLEAN /\ kernel.busy \in BOOLEAN
      /\ script.c \in {0, 1}
  BY MemoryTypes DEF IInv, CalmInv
<1>2. UNCHANGED <<cfg, tool, out>> /\ mem' = mem /\ \A c \in Channels : Writer(c)' = Writer(c)
  <2>1. UNCHANGED <<cfg, tool, out>>
    BY <1>1, Kept DEF ScriptAlone
  <2>2. mem' = mem
    BY DEF ScriptAlone, Sleep, Compare, Ran, WriteScalars, CheckIdle, WriteStart, Poll, CtrlFails
  <2> QED BY <2>1, <2>2 DEF Writer
<1>3. \A at : At(at).at = at /\ At(at).c = script.c
  BY <1>1 DEF At, Types
<1>4. ASSUME kernel'.busy = kernel.busy, kernel'.own = kernel.own,
             ASSUME NEW c \in Channels,
                    \/ script'.at = "write" /\ script'.c > c
                    \/ script'.at \in {"scalars", "check", "start"}
             PROVE  Writer(c).pc = "exit"
      PROVE  CalmKernel'
  BY <1>1, <1>2, <1>4 DEF CalmKernel, Input, Result, Content
<1>5. CASE Ran
  <2> DEFINE t == <<script.at, script.c>>
  <2>1. /\ t \in Tools /\ kernel' = kernel /\ tool[t].pc = "exit" /\ tool[t].rc = 0
        /\ script' = Advanced
    BY <1>5 DEF Ran, CalmInv
  <2>2. script.at \in {"read", "write"}
    BY <2>1, ToolsAre
  <2>3. CASE script.at = "read"
    <3>1. script'.at \in {"read", "compare"}
      BY <1>1, <2>1, <2>3, AdvancedIs DEF After
    <3> QED BY <1>4, <2>1, <3>1
  <2>4. CASE script.at = "write" /\ script.c = 0
    <3>1. script'.at = "write" /\ script'.c = 1 /\ Writer(0).pc = "exit"
      BY <1>1, <2>1, <2>4, AdvancedIs DEF Writer
    <3>2. \A c \in Channels : 1 > c => c = 0
      BY ToolsAre
    <3> QED BY <1>4, <2>1, <3>1, <3>2
  <2>5. CASE script.at = "write" /\ script.c = 1
    <3>1. Writer(1).pc = "exit" /\ Writer(0).pc = "exit"
      BY <1>1, <2>1, <2>5, ToolsAre DEF Writer, CalmKernel
    <3>2. \A c \in Channels : Writer(c).pc = "exit"
      BY <3>1, ToolsAre
    <3> QED BY <1>4, <2>1, <3>2
  <2> QED BY <1>1, <2>2, <2>3, <2>4, <2>5
<1>6. CASE Compare
  <2>1. script'.at \in {"compare", "ok", "errors", "stopped"} /\ kernel' = kernel
    BY <1>1, <1>6, CompareEffect DEF Compare, Types
  <2> QED BY <1>4, <2>1
<1>7. CASE WriteScalars \/ CheckIdle \/ Poll
  <2>1. /\ kernel' \in {kernel, CtrlRead(kernel)}
        /\ \/ script.at \in {"scalars", "check"} /\ script'.at \in {"check", "start", "stopped"}
           \/ script.at = "poll" /\ script'.at \in {"poll", "read"}
    BY <1>3, <1>7 DEF WriteScalars, CheckIdle, Poll
  <2>2. kernel'.busy = kernel.busy /\ kernel'.own = kernel.own
    BY <1>1, <2>1 DEF CtrlRead, Types
  <2> QED BY <1>1, <1>4, <2>1, <2>2 DEF CalmKernel
<1>8. CASE WriteStart
  <2>1. /\ script.at = "start" /\ script'.at = "poll"
        /\ kernel' = IF kernel.busy THEN kernel
                     ELSE [busy |-> TRUE, done |-> kernel.done /\ cfg.clearOnRead, own |-> TRUE]
    BY <1>3, <1>8 DEF WriteStart
  <2>2. ~kernel.own /\ ~kernel.busy
    BY <1>1, <2>1 DEF MemoryInv, KernelInv
  <2>3. \A c \in Channels : Writer(c).n = Size /\ mem[c] = Input
    <3>1. \A c \in Channels : Writer(c).pc = "exit"
      BY <1>1, <2>1 DEF CalmKernel
    <3>2. \A c \in Channels : Writer(c).n = Size
      BY <3>1, ToolsAre DEF CalmInv, Writer
    <3> QED BY <1>1, <2>2, <3>2 DEF CalmKernel
  <2>4. kernel'.busy /\ kernel'.own
    BY <2>1, <2>2
  <2> QED BY <1>2, <2>1, <2>3, <2>4 DEF CalmKernel, Input, Content
<1>9. ~Sleep /\ ~CtrlFails
  BY <1>1 DEF MemoryInv, OneAtATime, Sleep, CtrlFails, Undisturbed
<1> QED BY <1>5, <1>6, <1>7, <1>8, <1>9 DEF ScriptAlone

LEMMA CalmKernelStep ==
  ASSUME IInv, ~Stream, Undisturbed, CalmInv, [Next]_vars
  PROVE  CalmKernel'
<1>1. /\ Types /\ MemoryInv /\ CalmKernel
  BY DEF IInv, CalmInv
<1>2. CASE UNCHANGED vars
  <2>1. UNCHANGED <<script, tool, mem, kernel>>
    BY <1>2 DEF vars
  <2> QED BY <1>1, <2>1 DEF CalmKernel, Writer, Input, Result, Content
<1>3. CASE KernelFinish
  <2>1. /\ kernel.busy /\ UNCHANGED <<script, tool>>
        /\ kernel' = [kernel EXCEPT !.busy = FALSE, !.done = TRUE]
    BY <1>3 DEF KernelFinish
  <2>2. kernel.own /\ \A c \in Channels : mem[c] = Input
    BY <1>1, <2>1 DEF CalmKernel
  <2>3. mem' = [c \in Channels |-> Computed(mem[c])]
    <3>1. PICK S \in SUBSET Channels :
            /\ kernel.own => S = Channels
            /\ mem' = [c \in Channels |-> IF c \in S THEN Computed(mem[c]) ELSE mem[c]]
      BY <1>3 DEF KernelFinish
    <3> QED BY <2>2, <3>1
  <2>4. \A c \in Channels : mem'[c] = Result
    BY <2>2, <2>3 DEF Computed
  <2>5. kernel'.own /\ ~kernel'.busy
    BY <1>1, <2>1, <2>2 DEF Types
  <2> QED BY <1>1, <2>1, <2>4, <2>5 DEF CalmKernel, Writer, Result, Content
<1>4. CASE Run
  <2> DEFINE t == <<script.at, script.c>>
  <2>1. /\ t \in Tools /\ Left(t, "open", tool[t].n, tool[t].data, tool[t].rc)
        /\ UNCHANGED <<script, mem, kernel>> /\ tool[t].pc = "off"
    BY <1>1, <1>4, StartedDoes DEF Run
  <2>2. tool'[t].n = tool[t].n /\ \A u \in Tools : u # t => tool'[u] = tool[u]
    BY <1>1, <2>1, LeftIs DEF OneMoves
  <2>3. \A c \in Channels : Writer(c)'.n = Writer(c).n
    BY <2>2, ToolsAre DEF Writer
  <2>4. script.at \in {"read", "write"}
    BY <2>1, ToolsAre
  <2>5. ASSUME NEW c \in Channels, script.at = "write", script.c > c
        PROVE  Writer(c)'.pc = "exit"
    <3>1. script.c # c
      BY <1>1, <2>5, MemoryTypes, ToolsAre
    <3>2. Writer(c)' = Writer(c)
      BY <2>2, <3>1, ToolsAre DEF Writer
    <3> QED BY <1>1, <2>5, <3>2 DEF CalmKernel
  <2> QED BY <1>1, <2>1, <2>3, <2>4, <2>5 DEF CalmKernel, Input, Result, Content
<1>5. CASE ScriptAlone
  BY <1>5, CalmKernelScript
<1>6. ~Launch
  BY DEF Launch
<1> QED BY <1>2, <1>3, <1>4, <1>5, <1>6, CalmKernelTool, StepsOf

LEMMA InitCalm ==
  ASSUME Init, Undisturbed
  PROVE  CalmInv
<1>1. Types
  BY InitInv DEF IInv
<1>2. /\ script.at \in {"read", "write"} /\ script.c = 0 /\ ~script.error
      /\ \A t \in Tools : tool[t].pc = "off" /\ tool[t].n = 0 /\ tool[t].rc = 0
      /\ \A c \in Channels : rcvd[c] = 0
  BY DEF Init
<1>3. ~kernel.busy /\ ~kernel.own
  <2>1. "killed" \notin cfg.faults
    BY DEF Undisturbed
  <2>2. kernel \in [busy : {FALSE} \cup {"killed" \in cfg.faults},
                    done : {FALSE} \cup {"killed" \in cfg.faults},
                    own : {FALSE}]
    BY DEF Init
  <2>3. kernel.busy \in {FALSE} \cup {"killed" \in cfg.faults} /\ kernel.own \in {FALSE}
    BY <2>2
  <2>4. ("killed" \in cfg.faults) = FALSE
    BY <2>1
  <2>5. kernel.busy \in {FALSE} /\ kernel.own \in {FALSE}
    BY <2>3, <2>4
  <2>6. ~(TRUE \in {FALSE}) /\ kernel.busy = FALSE /\ kernel.own = FALSE
    BY <2>5
  <2> QED BY <2>6
<1>4. Size # 0 /\ \A c \in Channels : <<"read", c>> \in Tools /\ <<"write", c>> \in Tools
  BY <1>1, MemoryTypes, ToolsAre
<1>5. CalmKernel
  <2>1. \A c \in Channels : Writer(c).n # Size
    BY <1>2, <1>4 DEF Writer
  <2>2. \A c \in Channels : ~(script.c > c)
    BY <1>2, ToolsAre
  <2> QED BY <1>2, <1>3, <2>1, <2>2 DEF CalmKernel
<1> QED BY <1>2, <1>4, <1>5 DEF CalmInv, Reader

\* Without a fault, and with nothing left in the card, no call of the driver times
\* out and no check of the scripts fails.
THEOREM CalmTest == Spec => []Calm
<1>1. Init => Calm
  BY InitCalm DEF Calm
<1>2. IInv /\ IInv' /\ Calm /\ [Next]_vars => Calm'
  <2> SUFFICES ASSUME IInv, IInv', Calm, [Next]_vars, Undisturbed' PROVE CalmInv'
    BY SMTT(30) DEF Calm
  <2>1. cfg' = cfg
    BY Steps DEF vars, ScriptAlone, Sleep, Compare, Ran, WriteScalars, CheckIdle, WriteStart,
       Poll, CtrlFails, Launch, Run, KernelFinish, OpenDevice, OpenFile, Memory, Moved,
       GiveUp, Save, ReadWord, WriteWord
  <2>2. Undisturbed /\ CalmInv /\ (Stream' <=> Stream)
    BY <2>1 DEF Calm, Undisturbed, Stream, Shell
  <2>3. script'.at \notin {"errors", "stopped"} /\ ~script'.error
    BY <2>2, CalmScript
  <2>4. \A t \in Tools : /\ tool'[t].rc = 0
                         /\ tool'[t].pc \in {"save", "exit"} => tool'[t].n = Size
    BY <2>2, CalmTools
  <2>5. Stream' => \A c \in Channels :
          /\ Reader(c)'.n = rcvd'[c]
          /\ Reader(c)'.pc = "exit" => out'[c] = Reader(c)'.data
    BY <2>2, CalmChannel
  <2>6. ~Stream' => CalmKernel'
    BY <2>2, CalmKernelStep
  <2> QED BY <2>3, <2>4, <2>5, <2>6 DEF CalmInv
<1> QED BY <1>1, <1>2, TestInvariant, PTL DEF Spec

\* When nothing fails a test that has ended was successful, although the tools, the
\* card and the script run at their own pace: however few words the card can hold
\* and however the four transfers interleave, none of them waits until its driver
\* gives up (dma_streaming_test.sh, hbm_ddr_mm_test).
THEOREM UndisturbedTest == Spec => []UndisturbedTestSucceeds
<1>1. Calm => UndisturbedTestSucceeds
  BY DEF Calm, CalmInv, Undisturbed, UndisturbedTestSucceeds, Ended
<1> QED BY <1>1, CalmTest, PTL
=============================================================================
