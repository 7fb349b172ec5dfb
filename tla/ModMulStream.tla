---------------------------- MODULE ModMulStream ----------------------------
(***************************************************************************)
(* What the accelerator card promises a host that streams words into it:   *)
(* every channel returns, in order and exactly once, the result of every   *)
(* word (of every pair of words, when the channels are paired), it holds   *)
(* no more than Buffer words of a channel, and a reset forgets the words   *)
(* that are inside and nothing else.  No clock, FIFO or pipeline appears.  *)
(* VaddCdc implements it.                                                  *)
(***************************************************************************)
EXTENDS Integers

CONSTANTS
  Paired,   \* the channels are the two operands of one multiplication
  Buffer,   \* words of a channel the card may hold
  PKT,      \* words per packet of each channel
  None      \* the operand that is not there

Channels == {0, 1}

VARIABLES
  up,     \* the card is out of reset
  sent,   \* words sent by the host on each channel
  base,   \* ... of them, before the last reset
  rcvd,   \* results received since the last reset
  got     \* the last result received on each channel

vars == <<up, sent, base, rcvd, got>>

\* The operands of the k-th result of channel c since the last reset.
OperandsOf(c, k) ==
  CASE ~Paired          -> <<c, base[c] + k>>
    [] Paired /\ c = 0  -> <<base[0] + k, base[1] + k>>
    [] Paired /\ c = 1  -> None

\* The words the k-th result of channel c needs have been sent.
Computable(c, k) ==
  \A d \in Channels : (Paired \/ d = c) => base[d] + k <= sent[d]

\* The packets a channel's results end: those of channel 0, when the channels are
\* paired, even if the host sends channel 1 packets of another length.
ResultPacket(c) == PKT[IF Paired THEN 0 ELSE c]

Init ==
  /\ up = FALSE
  /\ sent = [c \in Channels |-> 0]
  /\ base = [c \in Channels |-> 0]
  /\ rcvd = [c \in Channels |-> 0]
  /\ got  = [c \in Channels |-> [data |-> None, last |-> FALSE]]

Send(c) ==
  /\ up
  /\ sent[c] - base[c] - rcvd[c] < Buffer
  /\ sent' = [sent EXCEPT ![c] = @ + 1]
  /\ UNCHANGED <<up, base, rcvd, got>>

Receive(c) ==
  LET k == rcvd[c] + 1 IN
  /\ up
  /\ Computable(c, k)
  /\ rcvd' = [rcvd EXCEPT ![c] = k]
  /\ got'  = [got EXCEPT ![c] = [data |-> OperandsOf(c, k),
                                 last |-> k % ResultPacket(c) = 0]]
  /\ UNCHANGED <<up, sent, base>>

Down ==
  /\ up
  /\ up'   = FALSE
  /\ base' = sent
  /\ rcvd' = [c \in Channels |-> 0]
  /\ UNCHANGED <<sent, got>>

Up ==
  /\ ~up
  /\ up' = TRUE
  /\ UNCHANGED <<sent, base, rcvd, got>>

Next ==
  \/ \E c \in Channels : Send(c) \/ Receive(c)
  \/ Down
  \/ Up

Spec == Init /\ [][Next]_vars

=============================================================================
