-------------------------- MODULE XdmaEngineProofs --------------------------
(***************************************************************************)
(* Proofs about XdmaEngine for synchronous requests, the read() and        *)
(* write() of the tools: any number of them, of any length, on a ring of   *)
(* any size, with signals, timeouts, errors, late service routines and a   *)
(* reset.                                                                  *)
(***************************************************************************)
EXTENDS XdmaEngine, FiniteSetTheorems, TLAPS

(***************************************************************************)
(* The inductive invariant                                                 *)
(***************************************************************************)

Active == {"init", "check", "queue", "wait", "claim", "free"}
Built  == {"check", "queue", "wait", "claim", "free"}
Placed == {"check", "queue", "wait", "claim"}

\* The records have their fields (lengths and results are of no concern here).
Shape ==
  /\ DOMAIN call = Reqs
  /\ \A r \in Reqs : DOMAIN call[r] = {"pc", "idx", "k", "done", "rv", "ret"}
  /\ DOMAIN xfer = Reqs
  /\ \A r \in Reqs : /\ DOMAIN xfer[r] = 0 .. 1
                     /\ \A k \in 0 .. 1 : DOMAIN xfer[r][k] = DOMAIN NoXfer
  /\ DOMAIN engine = {"running", "shutdown", "desc_idx", "desc_used", "desc_dequeued"}
  /\ ring \in [Slots -> Desc]
  /\ hw \in [run : BOOLEAN, busy : BOOLEAN, next : Slots \cup {Null}, desc : Desc,
             old : BOOLEAN, count : 0 .. CountMod - 1, stop : BOOLEAN, err : BOOLEAN]
  /\ moved \in [Reqs -> Seq(Nat)]

\* One call at a time is past the mutex.
Exclusion ==
  /\ \A r \in Reqs : call[r].pc \in Active => desc_lock = r
  /\ \A r \in Reqs : call[r].pc # "queued" /\ call[r].k = 0 /\ xfer[r][1] = NoXfer

\* What a call has behind it, and where its transfer lies.
CallInv(r) ==
  LET c == call[r]
      x == xfer[r][0]
  IN
  /\ c.idx \in Nat /\ c.rv \in {0, EIO, ERESTARTSYS}
  /\ x.first \in Nat /\ x.num \in Nat /\ x.cmpl \in Nat /\ x.lastInReq \in BOOLEAN
  /\ c.pc \in {"idle", "mutex"} => c.idx = 0
  /\ c.pc = "init" => c.idx < Len(cfg.sdesc[r]) /\ Len(moved[r]) >= c.idx
  /\ c.pc \in Built =>
       /\ x.num >= 1 /\ x.num <= c.idx /\ c.idx <= Len(cfg.sdesc[r])
       /\ ~x.lastInReq => c.idx < Len(cfg.sdesc[r])
  /\ c.pc \in Placed => Len(moved[r]) >= c.idx - x.num
  /\ c.pc \in {"check", "queue"} => x.state = "NEW"
  /\ c.pc = "free" => x.state = "COMPLETED" \/ c.rv < 0
  /\ x.state = "COMPLETED" => Len(moved[r]) >= c.idx

\* The transfer's descriptors are in the ring, chained in order.
RingInv ==
  \A r \in Reqs : call[r].pc \in Placed =>
    LET x == xfer[r][0] IN
    \A s \in SlotsOf(x) :
      /\ ring[s].req = r
      /\ ring[s].next = IF s = x.first + x.num - 1 THEN Null ELSE s + 1

\* The list is empty or holds the transfer of the one call that waits; an
\* engine that runs has something to run on.
ListInv ==
  /\ \/ list = <<>>
     \/ \E r \in Reqs : /\ list = <<<<r, 0>>>>
                        /\ call[r].pc \in {"wait", "claim"}
                        /\ xfer[r][0].state = "SUBMITTED"
  /\ engine.running => list # <<>>

\* A piece of this run is on its way.
Fetched == IF hw.desc # Zeroed /\ ~hw.old THEN 1 ELSE 0

\* The card's count is of this run: that many pieces of the listed transfer
\* have moved, and what is on its way and what it will fetch is ahead of them.
RunInv ==
  \A r \in Reqs : list = <<<<r, 0>>>> =>
    LET x == xfer[r][0] IN
    /\ engine.desc_dequeued = 0
    /\ Len(moved[r]) >= call[r].idx - x.num + hw.count
    /\ Fetched = 1 => hw.desc.req = r
    /\ IF hw.next = Null THEN hw.count + Fetched <= x.num
       ELSE hw.next \in SlotsOf(x) /\ hw.count + Fetched <= hw.next - x.first

SyncInv ==
  /\ TypeOK /\ Shape /\ Exclusion /\ (\A r \in Reqs : CallInv(r))
  /\ RingInv /\ ListInv /\ RunInv

IInv == ~cfg.async => SyncInv

-----------------------------------------------------------------------------
(***************************************************************************)
(* Two frames: steps of one call that leave the engine alone, and steps    *)
(* that leave the calls and their transfers alone.                         *)
(***************************************************************************)

\* Call r goes from one place to the next, the others stay.
Goes(r, from, to) ==
  /\ DOMAIN call' = Reqs
  /\ \A q \in Reqs : DOMAIN call'[q] = DOMAIN call[q]
  /\ \A q \in Reqs \ {r} : call'[q] = call[q]
  /\ call[r].pc = from /\ call'[r].pc = to
  /\ call'[r].idx = call[r].idx /\ call'[r].k = call[r].k

LEMMA OnlyHolder ==
  ASSUME Exclusion, NEW q \in Reqs, NEW r \in Reqs,
         call[q].pc \in Active, call[r].pc \in Active
  PROVE  q = r
  BY DEF Exclusion

\* A call that has the mutex and does not wait finds the list empty.
LEMMA NobodyWaits ==
  ASSUME Exclusion, ListInv, NEW r \in Reqs, call[r].pc \in Active \ {"wait", "claim"}
  PROVE  list = <<>> /\ ~engine.running
  BY DEF Exclusion, ListInv, Active

LEMMA CallFrame ==
  ASSUME SyncInv, NEW r \in Reqs, NEW from, NEW to,
         Goes(r, from, to), call'[r].rv = call[r].rv,
         <<from, to>> \in {<<"idle", "mutex">>, <<"idle", "done">>, <<"mutex", "init">>,
                           <<"check", "queue">>, <<"check", "done">>,
                           <<"queue", "done">>, <<"wait", "claim">>},
         UNCHANGED <<cfg, xfer, engine, list, ring, work, hw, moved>>,
         desc_lock' \in Reqs \cup {None},
         \A q \in Reqs : call'[q].pc \in Active => desc_lock' = q,
         from = "mutex" => 0 < Len(cfg.sdesc[r])
  PROVE  SyncInv'
  <1> USE DEF SyncInv, Goes
  <1>1. TypeOK'
    <2>1. \A q \in Reqs : /\ call'[q].pc \in {"idle", "mutex", "init", "check", "queue",
                                               "wait", "claim", "free", "queued", "done"}
                           /\ call'[q].k \in 0 .. 2
      BY SMTT(30) DEF TypeOK
    <2> QED BY <2>1 DEF TypeOK
  <1>2. Shape'
    BY DEF Shape
  <1>3. Exclusion'
    BY DEF Exclusion
  <1>4. ASSUME NEW q \in Reqs PROVE CallInv(q)'
    <2>1. CASE q # r
      BY <2>1 DEF CallInv, Built, Placed
    <2>2. CASE q = r /\ from # "mutex"
      BY <2>2 DEF CallInv, Built, Placed
    <2>3. CASE q = r /\ from = "mutex"
      <3>1. Len(moved[r]) \in Nat
        BY DEF Shape
      <3> QED BY <2>3, <3>1 DEF CallInv, Built, Placed
    <2> QED BY <2>1, <2>2, <2>3
  <1>5. RingInv'
    BY DEF RingInv, Placed, SlotsOf
  <1>6. ListInv'
    BY DEF ListInv
  <1>7. RunInv'
    BY DEF RunInv, SlotsOf, Fetched, ListInv
  <1> QED BY <1>1, <1>2, <1>3, <1>4, <1>5, <1>6, <1>7

\* A call that has found its transfer completed or failed.
LEMMA ClaimFrame ==
  ASSUME SyncInv, NEW r \in Reqs, Goes(r, "claim", "free"),
         UNCHANGED <<cfg, xfer, desc_lock, engine, list, ring, work, hw, moved>>,
         \/ xfer[r][0].state = "COMPLETED" /\ call'[r].rv = 0
         \/ xfer[r][0].state = "FAILED" /\ call'[r].rv = EIO
  PROVE  SyncInv'
  <1> USE DEF SyncInv, Goes
  <1>1. TypeOK'
    <2>1. \A q \in Reqs : /\ call'[q].pc \in {"idle", "mutex", "init", "check", "queue",
                                               "wait", "claim", "free", "queued", "done"}
                           /\ call'[q].k \in 0 .. 2
      BY DEF TypeOK
    <2> QED BY <2>1 DEF TypeOK
  <1>2. Shape'
    BY DEF Shape
  <1>3. Exclusion'
    BY DEF Exclusion, Active
  <1>4. ASSUME NEW q \in Reqs PROVE CallInv(q)'
    BY DEF CallInv, Built, Placed, EIO
  <1>5. RingInv'
    BY DEF RingInv, Placed, SlotsOf
  <1>6. ListInv'
    BY DEF ListInv
  <1>7. RunInv'
    BY DEF RunInv, SlotsOf, Fetched, ListInv
  <1> QED BY <1>1, <1>2, <1>3, <1>4, <1>5, <1>6, <1>7

LEMMA CardFrame ==
  ASSUME SyncInv,
         UNCHANGED <<cfg, call, xfer, desc_lock, list, ring>>,
         DOMAIN engine' = DOMAIN engine,
         engine'.running \in BOOLEAN, engine'.running => engine.running,
         engine'.shutdown \subseteq {"REQUEST", "IDLE"},
         engine'.desc_idx = engine.desc_idx,
         work' \in [pending : BOOLEAN, at : {"idle", "count"}, err : BOOLEAN],
         hw' \in [run : BOOLEAN, busy : BOOLEAN, next : Slots \cup {Null}, desc : Desc,
                  old : BOOLEAN, count : 0 .. CountMod - 1, stop : BOOLEAN, err : BOOLEAN],
         moved' \in [Reqs -> Seq(Nat)],
         \A r \in Reqs : Len(moved'[r]) >= Len(moved[r]),
         RunInv'
  PROVE  SyncInv'
  <1> USE DEF SyncInv
  <1>1. Shape'
    BY DEF Shape
  <1>2. TypeOK'
    BY DEF TypeOK
  <1>3. Exclusion'
    BY DEF Exclusion
  <1>4. ASSUME NEW q \in Reqs PROVE CallInv(q)'
    <2>1. Len(moved[q]) \in Nat /\ Len(moved'[q]) \in Nat /\ Len(moved'[q]) >= Len(moved[q])
      BY DEF Shape
    <2> QED BY <2>1, SMTT(30) DEF CallInv
  <1>5. RingInv'
    BY DEF RingInv, SlotsOf
  <1>6. ListInv'
    BY DEF ListInv
  <1> QED BY <1>1, <1>2, <1>3, <1>4, <1>5, <1>6

\* The same for a step that leaves the card's run alone.
LEMMA DriverFrame ==
  ASSUME SyncInv,
         UNCHANGED <<cfg, call, xfer, desc_lock, list, ring, moved>>,
         DOMAIN engine' = DOMAIN engine,
         engine'.running \in BOOLEAN, engine'.running => engine.running,
         engine'.shutdown \subseteq {"REQUEST", "IDLE"},
         engine'.desc_idx = engine.desc_idx, engine'.desc_dequeued = engine.desc_dequeued,
         work' \in [pending : BOOLEAN, at : {"idle", "count"}, err : BOOLEAN],
         hw' \in [run : BOOLEAN, busy : BOOLEAN, next : Slots \cup {Null}, desc : Desc,
                  old : BOOLEAN, count : 0 .. CountMod - 1, stop : BOOLEAN, err : BOOLEAN],
         hw'.next = hw.next, hw'.desc = hw.desc, hw'.old = hw.old, hw'.count = hw.count
  PROVE  SyncInv'
  <1>1. moved \in [Reqs -> Seq(Nat)] /\ \A r \in Reqs : Len(moved[r]) \in Nat
    BY DEF SyncInv, Shape
  <1>2. RunInv'
    BY DEF SyncInv, RunInv, SlotsOf, Fetched
  <1> QED BY <1>1, <1>2, CardFrame

(***************************************************************************)
(* The caller's steps                                                      *)
(***************************************************************************)

LEMMA SubmitStep ==
  ASSUME SyncInv, ~cfg.async, NEW r \in Reqs, Submit(r)
  PROVE  SyncInv'
  <1>1. /\ UNCHANGED <<cfg, xfer, engine, list, ring, work, hw, moved>>
        /\ call[r].pc = "idle"
    BY DEF Submit, ghostVars
  <1>2. CASE dev.offline
    <2>1. /\ call' = [call EXCEPT ![r].pc = "done", ![r].done = 0, ![r].ret = EBUSY]
          /\ desc_lock' = IF desc_lock = r THEN None ELSE desc_lock
      BY <1>2 DEF Submit, Return
    <2>2. Goes(r, "idle", "done") /\ call'[r].rv = call[r].rv
      BY <1>1, <2>1 DEF SyncInv, Shape, Goes
    <2>3. desc_lock' \in Reqs \cup {None}
      BY <2>1 DEF SyncInv, TypeOK
    <2>4. \A q \in Reqs : call'[q].pc \in Active => desc_lock' = q
      BY <2>1, <2>2 DEF SyncInv, Exclusion, Goes, Active
    <2> QED BY <1>1, <2>2, <2>3, <2>4, CallFrame
  <1>3. CASE ~dev.offline
    <2>1. call' = [call EXCEPT ![r].pc = "mutex"] /\ desc_lock' = desc_lock
      BY <1>3 DEF Submit
    <2>2. Goes(r, "idle", "mutex") /\ call'[r].rv = call[r].rv
      BY <1>1, <2>1 DEF SyncInv, Shape, Goes
    <2>3. desc_lock' \in Reqs \cup {None}
      BY <2>1 DEF SyncInv, TypeOK
    <2>4. \A q \in Reqs : call'[q].pc \in Active => desc_lock' = q
      BY <2>1, <2>2 DEF SyncInv, Exclusion, Goes, Active
    <2> QED BY <1>1, <2>2, <2>3, <2>4, CallFrame
  <1> QED BY <1>2, <1>3

LEMMA LockDescsStep ==
  ASSUME SyncInv, NEW r \in Reqs, LockDescs(r)
  PROVE  SyncInv'
  <1>1. /\ UNCHANGED <<cfg, xfer, engine, list, ring, work, hw, moved>>
        /\ call[r].pc = "mutex" /\ desc_lock = None /\ desc_lock' = r
        /\ call' = [call EXCEPT ![r].pc = "init"]
    BY DEF LockDescs, ghostVars
  <1>2. Goes(r, "mutex", "init") /\ call'[r].rv = call[r].rv
    BY <1>1 DEF SyncInv, Shape, Goes
  <1>3. \A q \in Reqs : call'[q].pc \in Active => desc_lock' = q
    BY <1>1, <1>2, ConfigsAssumption DEF SyncInv, Exclusion, Goes
  <1>4. 0 < Len(cfg.sdesc[r])
    <2>1. cfg \in Configs
      BY DEF SyncInv, TypeOK
    <2>2. cfg.sdesc[r] \in Seq(1 .. desc_blen_max) /\ cfg.sdesc[r] # <<>>
      BY <2>1, ConfigsAssumption
    <2> QED BY <2>2
  <1> QED BY <1>1, <1>2, <1>3, <1>4, CallFrame

LEMMA CheckOnlineStep ==
  ASSUME SyncInv, NEW r \in Reqs, CheckOnline(r)
  PROVE  SyncInv'
  <1>1. /\ UNCHANGED <<cfg, xfer, engine, list, ring, work, hw, moved>>
        /\ call[r].pc = "check"
    BY DEF CheckOnline, ghostVars
  <1>2. CASE dev.offline
    <2> DEFINE d == call[r].done
    <2>1. /\ call' = [call EXCEPT ![r].pc = "done", ![r].done = d,
                                  ![r].ret = IF d > 0 THEN d ELSE EBUSY]
          /\ desc_lock' = IF desc_lock = r THEN None ELSE desc_lock
      BY <1>2 DEF CheckOnline, Return
    <2> HIDE DEF d
    <2>2. Goes(r, "check", "done") /\ call'[r].rv = call[r].rv
      BY <1>1, <2>1 DEF SyncInv, Shape, Goes
    <2>3. desc_lock' \in Reqs \cup {None}
      BY <2>1 DEF SyncInv, TypeOK
    <2>4. \A q \in Reqs : call'[q].pc \in Active => desc_lock' = q
      BY <1>1, <2>1, <2>2 DEF SyncInv, Exclusion, Goes, Active
    <2> QED BY <1>1, <2>2, <2>3, <2>4, CallFrame
  <1>3. CASE ~dev.offline
    <2>1. call' = [call EXCEPT ![r].pc = "queue"] /\ desc_lock' = desc_lock
      BY <1>3 DEF CheckOnline
    <2>2. Goes(r, "check", "queue") /\ call'[r].rv = call[r].rv
      BY <1>1, <2>1 DEF SyncInv, Shape, Goes
    <2>3. desc_lock' \in Reqs \cup {None}
      BY <2>1 DEF SyncInv, TypeOK
    <2>4. \A q \in Reqs : call'[q].pc \in Active => desc_lock' = q
      BY <1>1, <2>1, <2>2 DEF SyncInv, Exclusion, Goes, Active
    <2> QED BY <1>1, <2>2, <2>3, <2>4, CallFrame
  <1> QED BY <1>2, <1>3

LEMMA RefuseTransferStep ==
  ASSUME SyncInv, NEW r \in Reqs, RefuseTransfer(r)
  PROVE  SyncInv'
  <1> DEFINE d == call[r].done
  <1>1. /\ UNCHANGED <<cfg, xfer, engine, list, ring, work, hw, moved>>
        /\ call[r].pc = "queue"
        /\ call' = [call EXCEPT ![r].pc = "done", ![r].done = d,
                                ![r].ret = IF d > 0 THEN d ELSE EBUSY]
        /\ desc_lock' = IF desc_lock = r THEN None ELSE desc_lock
    BY DEF RefuseTransfer, Return, ghostVars
  <1> HIDE DEF d
  <1>2. Goes(r, "queue", "done") /\ call'[r].rv = call[r].rv
    BY <1>1 DEF SyncInv, Shape, Goes
  <1>3. desc_lock' \in Reqs \cup {None}
    BY <1>1 DEF SyncInv, TypeOK
  <1>4. \A q \in Reqs : call'[q].pc \in Active => desc_lock' = q
    BY <1>1, <1>2 DEF SyncInv, Exclusion, Goes, Active
  <1> QED BY <1>1, <1>2, <1>3, <1>4, CallFrame

LEMMA WakeStep ==
  ASSUME SyncInv, NEW r \in Reqs, Wake(r)
  PROVE  SyncInv'
  <1>1. /\ UNCHANGED <<cfg, xfer, engine, list, ring, work, hw, moved, desc_lock>>
        /\ call[r].pc = "wait"
        /\ call' = [call EXCEPT ![r].pc = "claim"]
    BY DEF Wake, ghostVars
  <1>2. Goes(r, "wait", "claim") /\ call'[r].rv = call[r].rv
    BY <1>1 DEF SyncInv, Shape, Goes
  <1>3. desc_lock' \in Reqs \cup {None}
    BY <1>1 DEF SyncInv, TypeOK
  <1>4. \A q \in Reqs : call'[q].pc \in Active => desc_lock' = q
    BY <1>1, <1>2 DEF SyncInv, Exclusion, Goes, Active
  <1> QED BY <1>1, <1>2, <1>3, <1>4, CallFrame

\* The transfer takes at least one slot, no more than it wants, up to the end.
LEMMA RoomBounds ==
  ASSUME NEW first \in Slots, NEW want \in Nat, want >= 1
  PROVE  /\ Room(first, want) \in 1 .. want
         /\ first + Room(first, want) <= DescMax
  BY ConfigsAssumption DEF Room, Slots

LEMMA ElementsOfSeq ==
  ASSUME NEW S, NEW s \in Seq(S)
  PROVE  \A i \in 1 .. Len(s) : s[i] \in S
  OBVIOUS

LEMMA TransferInitStep ==
  ASSUME SyncInv, ~cfg.async, NEW r \in Reqs, TransferInit(r)
  PROVE  SyncInv'
  <1> DEFINE sw    == cfg.sdesc[r]
             idx   == call[r].idx
             first == engine.desc_idx
             num   == Room(first, Min2(Len(sw) - idx, DescMax))
             mine  == first .. first + num - 1
             len   == MapThenSumSet(LAMBDA s : sw[idx + 1 + s - first], mine)
  <1>1. /\ UNCHANGED <<cfg, desc_lock, list, work, hw, moved>>
        /\ call[r].pc = "init" /\ call[r].k = 0
        /\ call' = [call EXCEPT ![r].pc = "check", ![r].idx = idx + num]
        /\ engine' = [engine EXCEPT !.desc_idx = (first + num) % DescMax,
                                    !.desc_used = @ + num]
        /\ xfer' = [xfer EXCEPT ![r][0] =
             [state |-> "NEW", first |-> first, num |-> num, cmpl |-> 0,
              len |-> len, lastInReq |-> idx + num = Len(sw)]]
        /\ ring' = [s \in Slots |->
             IF s \in mine
               THEN [req |-> r, len |-> sw[idx + 1 + s - first],
                     last |-> s = first + num - 1,
                     next |-> IF s = first + num - 1 THEN Null ELSE s + 1, res |-> s]
               ELSE ring[s]]
    BY DEF SyncInv, Exclusion, TransferInit, ghostVars
  <1>2. /\ cfg \in Configs /\ sw \in Seq(1 .. desc_blen_max) /\ Len(sw) \in Nat
        /\ DescMax \in Nat /\ DescMax > 0
    BY ConfigsAssumption DEF SyncInv, TypeOK
  <1>3. first \in Slots /\ idx \in Nat /\ idx < Len(sw) /\ Len(moved[r]) \in Nat
        /\ Len(moved[r]) >= idx
    <2>1. first \in Slots
      BY DEF SyncInv, TypeOK
    <2>2. CallInv(r) /\ Len(moved[r]) \in Nat
      BY DEF SyncInv, Shape
    <2>3. idx \in Nat /\ idx < Len(sw) /\ Len(moved[r]) >= idx
      BY <1>1, <2>2 DEF CallInv
    <2> QED BY <2>1, <2>2, <2>3
  <1>4. num \in 1 .. Len(sw) - idx /\ first + num <= DescMax
    <2> DEFINE want == Min2(Len(sw) - idx, DescMax)
    <2>1. want \in 1 .. Len(sw) - idx
      BY <1>2, <1>3 DEF Min2
    <2>2. num = Room(first, want)
      OBVIOUS
    <2> HIDE DEF want, num, sw, idx, first
    <2>3. want \in Nat /\ want >= 1 /\ Len(sw) - idx \in Int /\ want <= Len(sw) - idx
      BY <2>1, <1>2, <1>3
    <2>4. num \in 1 .. want /\ first + num <= DescMax
      BY <2>2, <2>3, <1>3, RoomBounds
    <2> QED BY <2>3, <2>4
  <1>5. \A s \in mine : sw[idx + 1 + s - first] \in 1 .. desc_blen_max /\ s \in Slots
    <2> SUFFICES ASSUME NEW s \in mine
                 PROVE  sw[idx + 1 + s - first] \in 1 .. desc_blen_max /\ s \in Slots
      OBVIOUS
    <2>1. first \in Nat /\ s \in first .. first + num - 1
      BY <1>3 DEF Slots
    <2> HIDE DEF num, sw, idx, first, mine, len
    <2>2. idx + 1 + s - first \in 1 .. Len(sw) /\ s \in Slots
      BY <2>1, <1>2, <1>3, <1>4 DEF Slots
    <2>3. \A i \in 1 .. Len(sw) : sw[i] \in 1 .. desc_blen_max
      BY <1>2, ElementsOfSeq
    <2> QED BY <2>2, <2>3
  <1>6. list = <<>> /\ ~engine.running
    BY <1>1, NobodyWaits DEF SyncInv, Active
  <1> HIDE DEF num, len, sw
  <1>7. \A q \in Reqs \ {r} : call[q].pc \notin Active
    BY <1>1, OnlyHolder DEF SyncInv, Active
  <1>8. /\ DOMAIN call' = Reqs
        /\ \A q \in Reqs : DOMAIN call'[q] = DOMAIN call[q]
        /\ \A q \in Reqs \ {r} : call'[q] = call[q]
        /\ call'[r].pc = "check" /\ call'[r].idx = idx + num
        /\ call'[r].k = call[r].k /\ call'[r].rv = call[r].rv
    BY <1>1 DEF SyncInv, Shape
  <1>9. /\ DOMAIN xfer' = Reqs
        /\ \A q \in Reqs \ {r} : xfer'[q] = xfer[q]
        /\ DOMAIN xfer'[r] = 0 .. 1 /\ xfer'[r][1] = xfer[r][1]
        /\ DOMAIN xfer'[r][0] = DOMAIN NoXfer
        /\ xfer'[r][0].state = "NEW" /\ xfer'[r][0].first = first /\ xfer'[r][0].num = num
        /\ xfer'[r][0].cmpl = 0 /\ xfer'[r][0].lastInReq = (idx + num = Len(sw))
    BY <1>1 DEF SyncInv, Shape, NoXfer
  <1>10. /\ DOMAIN engine' = DOMAIN engine /\ engine'.running = engine.running
         /\ engine'.shutdown = engine.shutdown /\ engine'.desc_idx \in Slots
         /\ engine'.desc_dequeued = engine.desc_dequeued
    <2>1. first \in Nat
      BY <1>3 DEF Slots
    <2>2. (first + num) % DescMax \in Slots
      BY <2>1, <1>2, <1>4 DEF Slots
    <2> QED BY <1>1, <2>2 DEF SyncInv, Shape
  <1>11. ring' \in [Slots -> Desc]
    <2>1. \A s \in mine : (IF s = first + num - 1 THEN Null ELSE s + 1) \in Slots \cup {Null}
      <3>1. first \in Nat
        BY <1>3 DEF Slots
      <3> QED BY <3>1, <1>2, <1>4, SMTT(30) DEF Slots
    <2>2. \A s \in mine : ring'[s] \in Desc
      BY <1>1, <1>5, <2>1 DEF Desc
    <2>3. ring \in [Slots -> Desc]
      BY DEF SyncInv, Shape
    <2> QED BY <1>1, <1>5, <2>2, <2>3
  <1>12. Shape'
    BY <1>1, <1>8, <1>9, <1>10, <1>11 DEF SyncInv, Shape
  <1>13. TypeOK'
    <2>1. \A k \in 0 .. 1 : /\ xfer'[r][k].state \in XferStates
                            /\ xfer'[r][k].cmpl \in 0 .. xfer'[r][k].num
                            /\ xfer'[r][k].first + xfer'[r][k].num <= DescMax
      <3>1. CASE TRUE
        BY <1>9, <1>4, <1>2 DEF SyncInv, TypeOK, XferStates
      <3> QED BY <3>1
    <2>2. \A s \in Slots : ring'[s] \in Desc
      BY <1>11
    <2>3. \A q \in Reqs : /\ call'[q].pc \in {"idle", "mutex", "init", "check", "queue",
                                               "wait", "claim", "free", "queued", "done"}
                           /\ call'[q].k \in 0 .. 2
      BY <1>8 DEF SyncInv, TypeOK
    <2>4. \A q \in Reqs \ {r} : \A k \in 0 .. 1 :
            /\ xfer'[q][k].state \in XferStates
            /\ xfer'[q][k].cmpl \in 0 .. xfer'[q][k].num
            /\ xfer'[q][k].first + xfer'[q][k].num <= DescMax
      BY <1>9 DEF SyncInv, TypeOK
    <2>5. /\ cfg' \in Configs /\ desc_lock' \in Reqs \cup {None}
          /\ list' \in Seq(Reqs \X (0 .. 1))
          /\ work' \in [pending : BOOLEAN, at : {"idle", "count"}, err : BOOLEAN]
          /\ hw'.desc \in Desc /\ hw'.count \in 0 .. CountMod - 1
      BY <1>1 DEF SyncInv, TypeOK
    <2>6. engine'.running \in BOOLEAN /\ engine'.shutdown \subseteq {"REQUEST", "IDLE"}
          /\ engine'.desc_idx \in Slots
      BY <1>10 DEF SyncInv, TypeOK
    <2> QED BY <2>1, <2>2, <2>3, <2>4, <2>5, <2>6 DEF TypeOK
  <1>14. Exclusion'
    BY <1>1, <1>8, <1>9 DEF SyncInv, Exclusion, Active
  <1>15. ASSUME NEW q \in Reqs PROVE CallInv(q)'
    <2>1. CASE q # r
      BY <2>1, <1>1, <1>8, <1>9 DEF SyncInv, CallInv
    <2>2. CASE q = r
      <3>1. first \in Nat
        BY <1>3 DEF Slots
      <3>2. call[r].rv \in {0, EIO, ERESTARTSYS}
        BY DEF SyncInv, CallInv
      <3>3. /\ cfg'.sdesc[r] = sw /\ Len(moved'[r]) = Len(moved[r])
            /\ call'[r].idx = idx + num
        BY <1>1, <1>8 DEF sw
      <3> HIDE DEF idx, first, mine
      <3>4. /\ idx + num \in Nat /\ num \in Nat /\ num >= 1 /\ num <= idx + num
            /\ idx + num <= Len(sw) /\ (idx + num # Len(sw) => idx + num < Len(sw))
            /\ Len(moved[r]) >= (idx + num) - num
        BY <1>2, <1>3, <1>4
      <3> DEFINE c == call'[r]
                 x == xfer'[r][0]
                 l == Len(cfg'.sdesc[r])
                 m == Len(moved'[r])
      <3>5. /\ c.pc = "check" /\ c.idx = idx + num /\ c.rv \in {0, EIO, ERESTARTSYS}
            /\ x.state = "NEW" /\ x.first \in Nat /\ x.num = num /\ x.cmpl = 0
            /\ x.lastInReq = (idx + num = Len(sw))
        BY <3>1, <3>2, <1>8, <1>9, Zenon
      <3>6. l = Len(sw) /\ m = Len(moved[r])
        BY <3>3, Zenon
      <3> HIDE DEF c, x, l, m
      <3>7. /\ c.idx \in Nat /\ x.num \in Nat /\ x.cmpl \in Nat /\ x.lastInReq \in BOOLEAN
            /\ x.num >= 1 /\ x.num <= c.idx /\ c.idx <= l /\ m >= c.idx - x.num
            /\ ~x.lastInReq => c.idx < l
        <4>1. c.idx \in Nat /\ x.num \in Nat /\ x.cmpl \in Nat
          BY <3>4, <3>5
        <4>2. x.lastInReq \in BOOLEAN
          BY <3>5
        <4>3. /\ x.num >= 1 /\ x.num <= c.idx /\ c.idx <= l /\ m >= c.idx - x.num
          BY <3>4, <3>5, <3>6, Zenon
        <4>4. ASSUME ~x.lastInReq PROVE c.idx < l
          <5>1. idx + num # Len(sw)
            BY <3>5, <4>4
          <5> QED BY <3>4, <3>5, <3>6, <5>1, Zenon
        <4> QED BY <4>1, <4>2, <4>3, <4>4, Zenon
      <3>8. CallInv(r)'
        BY <3>5, <3>7 DEF CallInv, Built, Placed, c, x, l, m
      <3> QED BY <2>2, <3>8
    <2> QED BY <2>1, <2>2
  <1>16. RingInv'
    <2> SUFFICES ASSUME NEW q \in Reqs, call'[q].pc \in Placed,
                        NEW s \in SlotsOf(xfer[q][0])'
                 PROVE  /\ ring'[s].req = q
                        /\ ring'[s].next = IF s = xfer'[q][0].first + xfer'[q][0].num - 1
                                             THEN Null ELSE s + 1
      BY DEF RingInv
    <2>1. q = r
      BY <1>7, <1>8 DEF Active, Placed
    <2>2. s \in mine
      BY <2>1, <1>9 DEF SlotsOf
    <2> QED BY <2>1, <2>2, <1>1, <1>5, <1>9
  <1>17. ListInv'
    BY <1>1, <1>6, <1>10 DEF ListInv
  <1>18. RunInv'
    BY <1>1, <1>6 DEF RunInv
  <1> QED BY <1>12, <1>13, <1>14, <1>15, <1>16, <1>17, <1>18, SMTT(30) DEF SyncInv

LEMMA TransferQueueStep ==
  ASSUME SyncInv, ~cfg.async, NEW r \in Reqs, TransferQueue(r)
  PROVE  SyncInv'
  <1>1. call[r].pc = "queue" /\ call[r].k = 0
    BY DEF SyncInv, Exclusion, TransferQueue
  <1>2. list = <<>> /\ ~engine.running
    BY <1>1, NobodyWaits DEF SyncInv, Active
  <1>3. /\ UNCHANGED <<cfg, desc_lock, ring, work, moved>>
        /\ xfer' = [xfer EXCEPT ![r][0].state = "SUBMITTED"]
        /\ list' = Append(list, <<r, 0>>)
        /\ engine' = Started(engine)
        /\ hw' = HwStarted(hw, Xfer(Head(Append(list, <<r, 0>>))).first)
    BY <1>1, <1>2 DEF TransferQueue, ghostVars
  <1>4. call' = [call EXCEPT ![r].pc = "wait", ![r].k = @]
    BY DEF TransferQueue
  <1>5. list' = <<<<r, 0>>>> /\ Xfer(Head(Append(list, <<r, 0>>))) = xfer[r][0]
    BY <1>2, <1>3 DEF Xfer
  <1>6. Goes(r, "queue", "wait") /\ call'[r].rv = call[r].rv
    BY <1>1, <1>4 DEF SyncInv, Shape, Goes
  <1>7. /\ DOMAIN xfer' = Reqs
        /\ \A q \in Reqs \ {r} : xfer'[q] = xfer[q]
        /\ DOMAIN xfer'[r] = 0 .. 1 /\ xfer'[r][1] = xfer[r][1]
        /\ DOMAIN xfer'[r][0] = DOMAIN NoXfer
        /\ xfer'[r][0].state = "SUBMITTED" /\ xfer'[r][0].first = xfer[r][0].first
        /\ xfer'[r][0].num = xfer[r][0].num /\ xfer'[r][0].cmpl = xfer[r][0].cmpl
        /\ xfer'[r][0].lastInReq = xfer[r][0].lastInReq
    BY <1>3 DEF SyncInv, Shape, NoXfer
  <1>8. /\ DOMAIN engine' = DOMAIN engine /\ engine'.running = TRUE
        /\ engine'.shutdown = {} /\ engine'.desc_idx = engine.desc_idx
        /\ engine'.desc_dequeued = 0
    BY <1>3 DEF SyncInv, Shape, Started
  <1> DEFINE x == xfer[r][0]
  <1>9. /\ x.first \in Nat /\ x.num \in Nat /\ x.num >= 1 /\ x.first + x.num <= DescMax
        /\ call[r].idx \in Nat /\ Len(moved[r]) >= call[r].idx - x.num
    BY <1>1 DEF SyncInv, CallInv, TypeOK, Built, Placed
  <1>10. /\ hw' \in [run : BOOLEAN, busy : BOOLEAN, next : Slots \cup {Null}, desc : Desc,
                     old : BOOLEAN, count : 0 .. CountMod - 1, stop : BOOLEAN, err : BOOLEAN]
         /\ hw'.next = x.first /\ hw'.count = 0 /\ hw'.desc = hw.desc
         /\ hw'.old = (hw.desc # Zeroed)
    <2>1. x.first \in Slots /\ 0 \in 0 .. CountMod - 1
      BY <1>9, ConfigsAssumption DEF Slots
    <2>2. hw' = HwStarted(hw, x.first)
      BY <1>3, <1>5
    <2> HIDE DEF x
    <2> QED BY <2>1, <2>2 DEF SyncInv, Shape, HwStarted
  <1>11. Shape'
    BY <1>3, <1>6, <1>7, <1>8, <1>10 DEF SyncInv, Shape, Goes
  <1>12. TypeOK'
    <2>1. \A k \in 0 .. 1 : /\ xfer'[r][k].state \in XferStates
                            /\ xfer'[r][k].cmpl \in 0 .. xfer'[r][k].num
                            /\ xfer'[r][k].first + xfer'[r][k].num <= DescMax
      <3>1. \A k \in 0 .. 1 : /\ xfer[r][k].state \in XferStates
                              /\ xfer[r][k].cmpl \in 0 .. xfer[r][k].num
                              /\ xfer[r][k].first + xfer[r][k].num <= DescMax
        BY DEF SyncInv, TypeOK
      <3>2. \A k \in 0 .. 1 : k = 0 \/ k = 1
        OBVIOUS
      <3> QED BY <3>1, <3>2, <1>7 DEF XferStates
    <2>2. list' \in Seq(Reqs \X (0 .. 1))
      BY <1>5
    <2>3. hw'.desc \in Desc /\ hw'.count \in 0 .. CountMod - 1
      BY <1>10
    <2>4. \A q \in Reqs : /\ call'[q].pc \in {"idle", "mutex", "init", "check", "queue",
                                               "wait", "claim", "free", "queued", "done"}
                           /\ call'[q].k \in 0 .. 2
      BY <1>6 DEF SyncInv, TypeOK, Goes
    <2>5. \A q \in Reqs \ {r} : \A k \in 0 .. 1 :
            /\ xfer'[q][k].state \in XferStates
            /\ xfer'[q][k].cmpl \in 0 .. xfer'[q][k].num
            /\ xfer'[q][k].first + xfer'[q][k].num <= DescMax
      BY <1>7 DEF SyncInv, TypeOK
    <2>6. /\ cfg' \in Configs /\ desc_lock' \in Reqs \cup {None}
          /\ \A s \in Slots : ring'[s] \in Desc
          /\ work' \in [pending : BOOLEAN, at : {"idle", "count"}, err : BOOLEAN]
      BY <1>3 DEF SyncInv, TypeOK
    <2>7. engine'.running \in BOOLEAN /\ engine'.shutdown \subseteq {"REQUEST", "IDLE"}
          /\ engine'.desc_idx \in Slots
      BY <1>8 DEF SyncInv, TypeOK
    <2> QED BY <2>1, <2>2, <2>3, <2>4, <2>5, <2>6, <2>7 DEF TypeOK
  <1>13. Exclusion'
    BY <1>1, <1>3, <1>6, <1>7, SMTT(30) DEF SyncInv, Exclusion, Active, Goes
  <1>14. ASSUME NEW q \in Reqs PROVE CallInv(q)'
    <2>1. CASE q # r
      BY <2>1, <1>3, <1>6, <1>7 DEF SyncInv, CallInv, Goes
    <2>2. CASE q = r
      BY <2>2, <1>3, <1>6, <1>7 DEF SyncInv, CallInv, Goes, Built, Placed
    <2> QED BY <2>1, <2>2
  <1>15. RingInv'
    BY <1>3, <1>6, <1>7 DEF SyncInv, RingInv, Goes, SlotsOf, Placed
  <1>16. ListInv'
    BY <1>5, <1>6, <1>7 DEF ListInv, Goes
  <1>17. RunInv'
    <2> SUFFICES ASSUME NEW q \in Reqs, list' = <<<<q, 0>>>>
                 PROVE  /\ engine'.desc_dequeued = 0
                        /\ Len(moved'[q]) >= call'[q].idx - xfer'[q][0].num + hw'.count
                        /\ Fetched' = 1 => hw'.desc.req = q
                        /\ IF hw'.next = Null THEN hw'.count + Fetched' <= xfer'[q][0].num
                           ELSE /\ hw'.next \in SlotsOf(xfer[q][0])'
                                /\ hw'.count + Fetched' <= hw'.next - xfer'[q][0].first
      BY DEF RunInv
    <2>1. q = r
      BY <1>5
    <2>2. Fetched' = 0
      BY <1>10 DEF Fetched
    <2>3. hw'.next # Null
      BY <1>9, <1>10 DEF Null
    <2>4. moved'[r] = moved[r] /\ call'[r].idx = call[r].idx
      BY <1>3, <1>6 DEF Goes
    <2>5. xfer'[r][0].first = x.first /\ xfer'[r][0].num = x.num
      BY <1>7
    <2>6. hw'.next = x.first /\ hw'.count = 0 /\ engine'.desc_dequeued = 0
      BY <1>8, <1>10
    <2>7. SlotsOf(xfer[r][0])' = x.first .. (x.first + x.num) - 1
      BY <1>9, <2>5 DEF SlotsOf
    <2> HIDE DEF x
    <2>8. x.first \in x.first .. (x.first + x.num) - 1 /\ 0 <= x.first - x.first
      BY <1>9
    <2>9. Len(moved[r]) >= (call[r].idx - x.num) + 0
      <3>1. Len(moved[r]) \in Nat
        BY DEF SyncInv, Shape
      <3> QED BY <1>9, <3>1
    <2> QED BY <2>1, <2>2, <2>3, <2>4, <2>5, <2>6, <2>7, <2>8, <2>9
  <1> QED BY <1>11, <1>12, <1>13, <1>14, <1>15, <1>16, <1>17 DEF SyncInv

LEMMA ClaimCompletedStep ==
  ASSUME SyncInv, NEW r \in Reqs, ClaimCompleted(r)
  PROVE  SyncInv'
  <1> DEFINE done == call[r].done + DataOf(xfer[r][0], xfer[r][0].cmpl)
  <1>1. /\ UNCHANGED <<cfg, xfer, desc_lock, engine, list, ring, work, hw, moved>>
        /\ call[r].pc = "claim" /\ xfer[r][0].state = "COMPLETED"
        /\ call' = [call EXCEPT ![r].pc = "free", ![r].rv = 0, ![r].done = done]
    BY DEF ClaimCompleted, ghostVars
  <1> HIDE DEF done
  <1>2. Goes(r, "claim", "free") /\ call'[r].rv = 0
    BY <1>1 DEF SyncInv, Shape, Goes
  <1> QED BY <1>1, <1>2, ClaimFrame

LEMMA ClaimFailedStep ==
  ASSUME SyncInv, NEW r \in Reqs, ClaimFailed(r)
  PROVE  SyncInv'
  <1>1. /\ UNCHANGED <<cfg, xfer, desc_lock, engine, list, ring, work, hw, moved>>
        /\ call[r].pc = "claim" /\ xfer[r][0].state = "FAILED"
        /\ call' = [call EXCEPT ![r].pc = "free", ![r].rv = EIO]
    BY DEF ClaimFailed, ghostVars
  <1>2. Goes(r, "claim", "free") /\ call'[r].rv = EIO
    BY <1>1 DEF SyncInv, Shape, Goes
  <1> QED BY <1>1, <1>2, ClaimFrame

LEMMA ClaimAbortedStep ==
  ASSUME SyncInv, NEW r \in Reqs, ClaimAborted(r)
  PROVE  SyncInv'
  <1>1. /\ UNCHANGED <<cfg, desc_lock, ring, work, moved>>
        /\ call[r].pc = "claim" /\ xfer[r][0].state = "SUBMITTED"
        /\ list' = WithoutHead(<<r, 0>>)
        /\ xfer' = [xfer EXCEPT ![r][0].state = "ABORTED"]
        /\ engine' = Stopped(engine) /\ hw' = HwStopped(hw)
        /\ call' = [call EXCEPT ![r].pc = "free", ![r].rv = ERESTARTSYS]
    BY DEF ClaimAborted, ghostVars
  <1>2. Goes(r, "claim", "free") /\ call'[r].rv = ERESTARTSYS
    BY <1>1 DEF SyncInv, Shape, Goes
  <1>3. /\ DOMAIN xfer' = Reqs
        /\ \A q \in Reqs \ {r} : xfer'[q] = xfer[q]
        /\ DOMAIN xfer'[r] = 0 .. 1 /\ xfer'[r][1] = xfer[r][1]
        /\ DOMAIN xfer'[r][0] = DOMAIN NoXfer
        /\ xfer'[r][0].state = "ABORTED" /\ xfer'[r][0].first = xfer[r][0].first
        /\ xfer'[r][0].num = xfer[r][0].num /\ xfer'[r][0].cmpl = xfer[r][0].cmpl
        /\ xfer'[r][0].lastInReq = xfer[r][0].lastInReq
    BY <1>1 DEF SyncInv, Shape, NoXfer
  <1>4. list' = <<>>
    <2>1. CASE list = <<>>
      BY <1>1, <2>1 DEF WithoutHead
    <2>2. ASSUME NEW q \in Reqs, list = <<<<q, 0>>>>, call[q].pc \in {"wait", "claim"}
          PROVE  list' = <<>>
      <3>1. q = r
        BY <1>1, <2>2, OnlyHolder DEF SyncInv, Active
      <3> QED BY <1>1, <2>2, <3>1 DEF WithoutHead
    <2> QED BY <2>1, <2>2 DEF SyncInv, ListInv
  <1>5. /\ DOMAIN engine' = DOMAIN engine /\ engine'.running = FALSE
        /\ engine'.shutdown = engine.shutdown /\ engine'.desc_idx = engine.desc_idx
    BY <1>1 DEF SyncInv, Shape, Stopped
  <1>6. hw' \in [run : BOOLEAN, busy : BOOLEAN, next : Slots \cup {Null}, desc : Desc,
                 old : BOOLEAN, count : 0 .. CountMod - 1, stop : BOOLEAN, err : BOOLEAN]
    BY <1>1 DEF SyncInv, Shape, HwStopped
  <1>7. Shape'
    BY <1>1, <1>2, <1>3, <1>5, <1>6 DEF SyncInv, Shape, Goes
  <1>8. TypeOK'
    <2>1. \A q \in Reqs : /\ call'[q].pc \in {"idle", "mutex", "init", "check", "queue",
                                               "wait", "claim", "free", "queued", "done"}
                           /\ call'[q].k \in 0 .. 2
      BY <1>2 DEF SyncInv, TypeOK, Goes
    <2>2. \A q \in Reqs : \A k \in 0 .. 1 :
            /\ xfer'[q][k].state \in XferStates
            /\ xfer'[q][k].cmpl \in 0 .. xfer'[q][k].num
            /\ xfer'[q][k].first + xfer'[q][k].num <= DescMax
      <3>1. \A k \in 0 .. 1 : k = 0 \/ k = 1
        OBVIOUS
      <3> QED BY <1>3, <3>1 DEF SyncInv, TypeOK, XferStates
    <2>3. /\ cfg' \in Configs /\ desc_lock' \in Reqs \cup {None}
          /\ \A s \in Slots : ring'[s] \in Desc
          /\ work' \in [pending : BOOLEAN, at : {"idle", "count"}, err : BOOLEAN]
      BY <1>1 DEF SyncInv, TypeOK
    <2>4. engine'.running \in BOOLEAN /\ engine'.shutdown \subseteq {"REQUEST", "IDLE"}
          /\ engine'.desc_idx \in Slots
      BY <1>5 DEF SyncInv, TypeOK
    <2>5. list' \in Seq(Reqs \X (0 .. 1)) /\ hw'.desc \in Desc
          /\ hw'.count \in 0 .. CountMod - 1
      BY <1>4, <1>6
    <2> QED BY <2>1, <2>2, <2>3, <2>4, <2>5 DEF TypeOK
  <1>9. Exclusion'
    BY <1>1, <1>2, <1>3 DEF SyncInv, Exclusion, Active, Goes
  <1>10. ASSUME NEW q \in Reqs PROVE CallInv(q)'
    <2>1. CASE q # r
      BY <2>1, <1>1, <1>2, <1>3 DEF SyncInv, CallInv, Goes
    <2>2. CASE q = r
      BY <2>2, <1>1, <1>2, <1>3 DEF SyncInv, CallInv, Goes, Built, Placed, ERESTARTSYS
    <2> QED BY <2>1, <2>2
  <1>11. RingInv'
    BY <1>1, <1>2, <1>3 DEF SyncInv, RingInv, Goes, SlotsOf, Placed
  <1>12. ListInv' /\ RunInv'
    BY <1>4, <1>5 DEF ListInv, RunInv
  <1> QED BY <1>7, <1>8, <1>9, <1>10, <1>11, <1>12 DEF SyncInv

LEMMA ReleaseStep ==
  ASSUME SyncInv, NEW r \in Reqs, Release(r)
  PROVE  SyncInv'
  <1> DEFINE d == call[r].done
             ret == IF d > 0 THEN d ELSE call[r].rv
  <1>1. /\ UNCHANGED <<cfg, xfer, list, work, hw, moved>>
        /\ call[r].pc = "free"
        /\ engine' = GivenBack(engine, xfer[r][0].num)
        /\ ring' = Cleared(ring, SlotsOf(xfer[r][0]))
    BY DEF Release, ghostVars
  <1>2. list = <<>> /\ ~engine.running
    BY <1>1, NobodyWaits DEF SyncInv, Active
  <1>3. \A q \in Reqs \ {r} : call[q].pc \notin Active
    BY <1>1, OnlyHolder DEF SyncInv, Active
  <1>4. \/ /\ call' = [call EXCEPT ![r].pc = "done", ![r].done = d, ![r].ret = ret]
           /\ desc_lock' = IF desc_lock = r THEN None ELSE desc_lock
        \/ /\ call' = [call EXCEPT ![r].pc = "init"]
           /\ desc_lock' = desc_lock
           /\ ~(call[r].rv < 0) /\ ~xfer[r][0].lastInReq
    BY DEF Release, Return
  <1> HIDE DEF d, ret
  <1>5. /\ DOMAIN call' = Reqs
        /\ \A q \in Reqs : DOMAIN call'[q] = DOMAIN call[q]
        /\ \A q \in Reqs \ {r} : call'[q] = call[q]
        /\ call'[r].idx = call[r].idx /\ call'[r].k = call[r].k /\ call'[r].rv = call[r].rv
        /\ \/ call'[r].pc = "done"
           \/ /\ call'[r].pc = "init" /\ desc_lock' = desc_lock
              /\ ~(call[r].rv < 0) /\ ~xfer[r][0].lastInReq
    <2>1. CASE /\ call' = [call EXCEPT ![r].pc = "done", ![r].done = d, ![r].ret = ret]
               /\ desc_lock' = IF desc_lock = r THEN None ELSE desc_lock
      BY <2>1 DEF SyncInv, Shape
    <2>2. CASE /\ call' = [call EXCEPT ![r].pc = "init"]
               /\ desc_lock' = desc_lock
               /\ ~(call[r].rv < 0) /\ ~xfer[r][0].lastInReq
      <3>1. /\ DOMAIN call' = Reqs
            /\ \A q \in Reqs : DOMAIN call'[q] = DOMAIN call[q]
            /\ \A q \in Reqs \ {r} : call'[q] = call[q]
            /\ call'[r].idx = call[r].idx /\ call'[r].k = call[r].k
            /\ call'[r].rv = call[r].rv /\ call'[r].pc = "init"
        BY <2>2 DEF SyncInv, Shape
      <3> QED BY <2>2, <3>1
    <2> QED BY <1>4, <2>1, <2>2
  <1>6. /\ DOMAIN engine' = DOMAIN engine /\ engine'.running = engine.running
        /\ engine'.shutdown = engine.shutdown /\ engine'.desc_idx = engine.desc_idx
    BY <1>1 DEF SyncInv, Shape, GivenBack
  <1>7. ring' \in [Slots -> Desc]
    BY <1>1 DEF SyncInv, Shape, Cleared, Desc
  <1>8. Shape'
    BY <1>1, <1>5, <1>6, <1>7 DEF SyncInv, Shape
  <1>9. desc_lock' \in Reqs \cup {None}
    BY <1>4 DEF SyncInv, TypeOK
  <1>10. TypeOK'
    <2>1. \A q \in Reqs : /\ call'[q].pc \in {"idle", "mutex", "init", "check", "queue",
                                               "wait", "claim", "free", "queued", "done"}
                           /\ call'[q].k \in 0 .. 2
      BY <1>5 DEF SyncInv, TypeOK
    <2>2. \A q \in Reqs : \A k \in 0 .. 1 :
            /\ xfer'[q][k].state \in XferStates
            /\ xfer'[q][k].cmpl \in 0 .. xfer'[q][k].num
            /\ xfer'[q][k].first + xfer'[q][k].num <= DescMax
      BY <1>1 DEF SyncInv, TypeOK
    <2>3. /\ cfg' \in Configs
          /\ work' \in [pending : BOOLEAN, at : {"idle", "count"}, err : BOOLEAN]
          /\ list' \in Seq(Reqs \X (0 .. 1)) /\ hw'.desc \in Desc
          /\ hw'.count \in 0 .. CountMod - 1
      BY <1>1 DEF SyncInv, TypeOK
    <2>4. engine'.running \in BOOLEAN /\ engine'.shutdown \subseteq {"REQUEST", "IDLE"}
          /\ engine'.desc_idx \in Slots
      BY <1>6 DEF SyncInv, TypeOK
    <2>5. \A s \in Slots : ring'[s] \in Desc
      BY <1>7
    <2> QED BY <1>9, <2>1, <2>2, <2>3, <2>4, <2>5 DEF TypeOK
  <1>11. Exclusion'
    BY <1>1, <1>3, <1>4, <1>5 DEF SyncInv, Exclusion, Active
  <1>12. ASSUME NEW q \in Reqs PROVE CallInv(q)'
    <2>1. CASE q # r
      BY <2>1, <1>1, <1>5 DEF SyncInv, CallInv
    <2>2. CASE q = r
      BY <2>2, <1>1, <1>5 DEF SyncInv, CallInv, Built, Placed
    <2> QED BY <2>1, <2>2
  <1>13. RingInv'
    BY <1>3, <1>5 DEF RingInv, Placed, Active
  <1>14. ListInv' /\ RunInv'
    BY <1>1, <1>2, <1>6 DEF ListInv, RunInv
  <1> QED BY <1>8, <1>10, <1>11, <1>12, <1>13, <1>14 DEF SyncInv

LEMMA CallerStep ==
  ASSUME SyncInv, ~cfg.async, NEW r \in Reqs, Caller(r)
  PROVE  SyncInv'
  BY SubmitStep, LockDescsStep, TransferInitStep, CheckOnlineStep, RefuseTransferStep,
     TransferQueueStep, WakeStep, ClaimCompletedStep, ClaimFailedStep,
     ClaimAbortedStep, ReleaseStep DEF Caller

(***************************************************************************)
(* Interrupt, service routine, reset                                       *)
(***************************************************************************)

\* What the frames ask of variables that stay as they are.
LEMMA KnownTypes ==
  ASSUME SyncInv
  PROVE  /\ engine.running \in BOOLEAN /\ engine.shutdown \subseteq {"REQUEST", "IDLE"}
         /\ work \in [pending : BOOLEAN, at : {"idle", "count"}, err : BOOLEAN]
         /\ hw \in [run : BOOLEAN, busy : BOOLEAN, next : Slots \cup {Null}, desc : Desc,
                    old : BOOLEAN, count : 0 .. CountMod - 1, stop : BOOLEAN, err : BOOLEAN]
         /\ moved \in [Reqs -> Seq(Nat)]
         /\ \A r \in Reqs : Len(moved[r]) \in Nat
         /\ DOMAIN engine = {"running", "shutdown", "desc_idx", "desc_used", "desc_dequeued"}
  BY DEF SyncInv, TypeOK, Shape

LEMMA InterruptStep ==
  ASSUME SyncInv, Interrupt
  PROVE  SyncInv'
  <1>1. /\ UNCHANGED <<cfg, call, xfer, desc_lock, engine, list, ring, hw, moved>>
        /\ work' = [work EXCEPT !.pending = TRUE]
    BY DEF Interrupt, ghostVars
  <1>2. work' \in [pending : BOOLEAN, at : {"idle", "count"}, err : BOOLEAN]
    BY <1>1, KnownTypes
  <1> QED BY <1>1, <1>2, KnownTypes, DriverFrame

LEMMA ServiceStoppedStep ==
  ASSUME SyncInv, ServiceStopped
  PROVE  SyncInv'
  <1>1. /\ UNCHANGED <<cfg, call, xfer, desc_lock, engine, list, ring, moved>>
        /\ work' = [work EXCEPT !.pending = FALSE]
        /\ hw' = [hw EXCEPT !.stop = FALSE, !.err = FALSE]
    BY DEF ServiceStopped, ghostVars
  <1>2. work' \in [pending : BOOLEAN, at : {"idle", "count"}, err : BOOLEAN]
    BY <1>1, KnownTypes
  <1>3. /\ hw' \in [run : BOOLEAN, busy : BOOLEAN, next : Slots \cup {Null}, desc : Desc,
                    old : BOOLEAN, count : 0 .. CountMod - 1, stop : BOOLEAN, err : BOOLEAN]
        /\ hw'.next = hw.next /\ hw'.desc = hw.desc /\ hw'.old = hw.old
        /\ hw'.count = hw.count
    BY <1>1, KnownTypes
  <1> QED BY <1>1, <1>2, <1>3, KnownTypes, DriverFrame

LEMMA ServiceStatusStep ==
  ASSUME SyncInv, ServiceStatus
  PROVE  SyncInv'
  <1>1. /\ UNCHANGED <<cfg, call, xfer, desc_lock, list, ring, moved>>
        /\ work' = [pending |-> FALSE, at |-> "count", err |-> hw.err]
        /\ engine' = IF hw.busy THEN engine ELSE Stopped(engine)
        /\ hw' = [hw EXCEPT !.stop = FALSE, !.err = FALSE, !.run = @ /\ hw.busy]
    BY DEF ServiceStatus, ghostVars
  <1>2. work' \in [pending : BOOLEAN, at : {"idle", "count"}, err : BOOLEAN]
    BY <1>1, KnownTypes
  <1>3. /\ hw' \in [run : BOOLEAN, busy : BOOLEAN, next : Slots \cup {Null}, desc : Desc,
                    old : BOOLEAN, count : 0 .. CountMod - 1, stop : BOOLEAN, err : BOOLEAN]
        /\ hw'.next = hw.next /\ hw'.desc = hw.desc /\ hw'.old = hw.old
        /\ hw'.count = hw.count
    BY <1>1, KnownTypes
  <1>4. /\ DOMAIN engine' = DOMAIN engine
        /\ engine'.running \in BOOLEAN /\ (engine'.running => engine.running)
        /\ engine'.shutdown = engine.shutdown /\ engine'.desc_idx = engine.desc_idx
        /\ engine'.desc_dequeued = engine.desc_dequeued
    BY <1>1, KnownTypes DEF Stopped
  <1> QED BY <1>1, <1>2, <1>3, <1>4, KnownTypes, DriverFrame

LEMMA ServiceNothingStep ==
  ASSUME SyncInv, ServiceNothing
  PROVE  SyncInv'
  <1>1. /\ UNCHANGED <<cfg, call, xfer, desc_lock, engine, list, ring, hw, moved>>
        /\ work' = [work EXCEPT !.at = "idle"]
    BY DEF ServiceNothing, ghostVars
  <1>2. work' \in [pending : BOOLEAN, at : {"idle", "count"}, err : BOOLEAN]
    BY <1>1, KnownTypes
  <1> QED BY <1>1, <1>2, KnownTypes, DriverFrame

LEMMA OfflineStep ==
  ASSUME SyncInv, OfflineFlag \/ OfflineIrq \/ OnlineRegs \/ OnlineIrq \/ OnlineFlag
  PROVE  SyncInv'
  <1>1. UNCHANGED <<cfg, call, xfer, desc_lock, engine, list, ring, work, hw, moved>>
    BY DEF OfflineFlag, OfflineIrq, OnlineRegs, OnlineIrq, OnlineFlag, ghostVars
  <1> QED BY <1>1, KnownTypes, DriverFrame

LEMMA OfflineStopStep ==
  ASSUME SyncInv, OfflineStop
  PROVE  SyncInv'
  <1>1. /\ UNCHANGED <<cfg, call, xfer, desc_lock, list, ring, work, moved>>
        /\ engine' = [Stopped(engine) EXCEPT !.shutdown = @ \cup {"REQUEST"}]
        /\ hw' = HwStopped(hw)
    BY DEF OfflineStop, ghostVars
  <1>2. /\ hw' \in [run : BOOLEAN, busy : BOOLEAN, next : Slots \cup {Null}, desc : Desc,
                    old : BOOLEAN, count : 0 .. CountMod - 1, stop : BOOLEAN, err : BOOLEAN]
        /\ hw'.next = hw.next /\ hw'.desc = hw.desc /\ hw'.old = hw.old
        /\ hw'.count = hw.count
    BY <1>1, KnownTypes DEF HwStopped
  <1>3. /\ DOMAIN engine' = DOMAIN engine /\ engine'.running = FALSE
        /\ engine'.shutdown = engine.shutdown \cup {"REQUEST"}
        /\ engine'.desc_idx = engine.desc_idx
        /\ engine'.desc_dequeued = engine.desc_dequeued
    BY <1>1, KnownTypes DEF Stopped
  <1>4. engine'.shutdown \subseteq {"REQUEST", "IDLE"}
    BY <1>3, KnownTypes
  <1> QED BY <1>1, <1>2, <1>3, <1>4, KnownTypes, DriverFrame

LEMMA OnlineAcceptStep ==
  ASSUME SyncInv, OnlineAccept
  PROVE  SyncInv'
  <1>1. /\ UNCHANGED <<cfg, call, xfer, desc_lock, list, ring, work, hw, moved>>
        /\ engine' = [engine EXCEPT !.shutdown = @ \ {"REQUEST"}]
    BY DEF OnlineAccept, ghostVars
  <1>2. /\ DOMAIN engine' = DOMAIN engine /\ engine'.running = engine.running
        /\ engine'.shutdown = engine.shutdown \ {"REQUEST"}
        /\ engine'.desc_idx = engine.desc_idx
        /\ engine'.desc_dequeued = engine.desc_dequeued
    BY <1>1, KnownTypes
  <1>3. engine'.shutdown \subseteq {"REQUEST", "IDLE"}
    BY <1>2, KnownTypes
  <1> QED BY <1>1, <1>2, <1>3, KnownTypes, DriverFrame

LEMMA ResetCardStep ==
  ASSUME SyncInv, ResetCard
  PROVE  SyncInv'
  <1>1. /\ UNCHANGED <<cfg, call, xfer, desc_lock, engine, list, ring, work, moved>>
        /\ hw' = Card
    BY DEF ResetCard, ghostVars
  <1>2. Card \in [run : BOOLEAN, busy : BOOLEAN, next : Slots \cup {Null}, desc : Desc,
                  old : BOOLEAN, count : 0 .. CountMod - 1, stop : BOOLEAN, err : BOOLEAN]
    BY ConfigsAssumption DEF Card, Desc
  <1>3. RunInv'
    <2> SUFFICES ASSUME NEW r \in Reqs, list = <<<<r, 0>>>>
                 PROVE  LET x == xfer[r][0] IN
                        /\ engine.desc_dequeued = 0
                        /\ Len(moved[r]) >= call[r].idx - x.num + Card.count
                        /\ Fetched' = 1 => Card.desc.req = r
                        /\ IF Card.next = Null THEN Card.count + Fetched' <= x.num
                           ELSE /\ Card.next \in SlotsOf(x)
                                /\ Card.count + Fetched' <= Card.next - x.first
      BY <1>1 DEF RunInv, SlotsOf
    <2>1. Fetched' = 0 /\ Card.count = 0 /\ Card.next = Null
      BY <1>1 DEF Fetched, Card
    <2>2. engine.desc_dequeued = 0 /\ Len(moved[r]) >= call[r].idx - xfer[r][0].num + hw.count
      BY DEF SyncInv, RunInv
    <2>3. xfer[r][0].num \in Nat /\ call[r].idx \in Nat /\ hw.count \in Nat
          /\ Len(moved[r]) \in Nat
      BY KnownTypes DEF SyncInv, CallInv
    <2> QED BY <2>1, <2>2, <2>3
  <1> QED BY <1>1, <1>2, <1>3, KnownTypes, CardFrame

(***************************************************************************)
(* The card                                                                *)
(***************************************************************************)

\* What is known of the transfer the list holds.
LEMMA Listed ==
  ASSUME SyncInv, NEW r \in Reqs, list = <<<<r, 0>>>>
  PROVE  /\ call[r].pc \in Placed /\ xfer[r][0].state = "SUBMITTED"
         /\ xfer[r][0].first \in Nat /\ xfer[r][0].num \in Nat /\ call[r].idx \in Nat
         /\ xfer[r][0].num >= 1 /\ xfer[r][0].num <= call[r].idx
         /\ xfer[r][0].first + xfer[r][0].num <= DescMax
         /\ hw.count \in Nat /\ Fetched \in {0, 1} /\ Len(moved[r]) \in Nat
         /\ DescMax \in Nat /\ CountMod \in Nat /\ DescMax < CountMod
  <1>1. call[r].pc \in {"wait", "claim"} /\ xfer[r][0].state = "SUBMITTED"
    BY DEF SyncInv, ListInv
  <1>2. /\ xfer[r][0].first \in Nat /\ xfer[r][0].num \in Nat /\ call[r].idx \in Nat
        /\ xfer[r][0].num >= 1 /\ xfer[r][0].num <= call[r].idx
    BY <1>1 DEF SyncInv, CallInv, Built
  <1>3. xfer[r][0].first + xfer[r][0].num <= DescMax
    BY DEF SyncInv, TypeOK
  <1>4. CountMod \in Nat /\ DescMax \in Nat /\ DescMax < CountMod
    BY ConfigsAssumption
  <1>5. hw.count \in Nat /\ Fetched \in {0, 1}
    BY <1>4, KnownTypes DEF Fetched
  <1> QED BY <1>1, <1>2, <1>3, <1>4, <1>5, KnownTypes DEF Placed

\* RunInv of the next state, for the transfer that is listed.
LEMMA RunIntro ==
  ASSUME SyncInv, UNCHANGED <<call, xfer, engine, list>>,
         \A r \in Reqs : list = <<<<r, 0>>>> =>
           /\ Len(moved'[r]) >= call[r].idx - xfer[r][0].num + hw'.count
           /\ Fetched' = 1 => hw'.desc.req = r
           /\ hw'.next = Null => hw'.count + Fetched' <= xfer[r][0].num
           /\ hw'.next # Null => /\ hw'.next \in SlotsOf(xfer[r][0])
                                 /\ hw'.count + Fetched' <= hw'.next - xfer[r][0].first
  PROVE  RunInv'
  <1>1. \A r \in Reqs : list = <<<<r, 0>>>> => engine.desc_dequeued = 0
    BY DEF SyncInv, RunInv
  <1> QED BY <1>1 DEF RunInv, SlotsOf

\* One slot on, with a piece more on its way.
LEMMA NextSlot ==
  ASSUME NEW f \in Nat, NEW m \in Nat, NEW h \in Nat, NEW c \in Nat, NEW e \in {0, 1},
         NEW g, g = 0, f <= h, h < f + m - 1, c + g <= h - f
  PROVE  h + 1 \in f .. f + m - 1 /\ c + e <= (h + 1) - f
  OBVIOUS

LEMMA HwFetchStep ==
  ASSUME SyncInv, HwFetch
  PROVE  SyncInv'
  <1>1. /\ UNCHANGED <<cfg, call, xfer, desc_lock, engine, list, ring, work, moved>>
        /\ hw.desc = Zeroed /\ hw.next # Null
    BY DEF HwFetch, hostVars, ghostVars
  <1>2. CASE ring[hw.next] = Zeroed
    <2>1. hw' = [hw EXCEPT !.err = TRUE, !.busy = FALSE]
      BY <1>2 DEF HwFetch
    <2>2. /\ hw' \in [run : BOOLEAN, busy : BOOLEAN, next : Slots \cup {Null}, desc : Desc,
                      old : BOOLEAN, count : 0 .. CountMod - 1, stop : BOOLEAN, err : BOOLEAN]
          /\ hw'.next = hw.next /\ hw'.desc = hw.desc /\ hw'.old = hw.old
          /\ hw'.count = hw.count
      BY <2>1, KnownTypes
    <2> QED BY <1>1, <2>2, KnownTypes, DriverFrame
  <1>3. CASE ring[hw.next] # Zeroed
    <2> DEFINE d == ring[hw.next]
    <2>1. hw' = [hw EXCEPT !.desc = d, !.next = d.next]
      BY <1>3 DEF HwFetch
    <2>2. hw.next \in Slots /\ d \in Desc
      BY <1>1, KnownTypes DEF SyncInv, Shape
    <2>3. d.next \in Slots \cup {Null}
      BY <1>3, <2>2 DEF Desc
    <2>4. /\ hw' \in [run : BOOLEAN, busy : BOOLEAN, next : Slots \cup {Null}, desc : Desc,
                      old : BOOLEAN, count : 0 .. CountMod - 1, stop : BOOLEAN, err : BOOLEAN]
          /\ hw'.next = d.next /\ hw'.desc = d /\ hw'.old = hw.old
          /\ hw'.count = hw.count
      <3> HIDE DEF d
      <3> QED BY <2>1, <2>2, <2>3, KnownTypes
    <2>5. ASSUME NEW r \in Reqs, list = <<<<r, 0>>>>
          PROVE  /\ Len(moved'[r]) >= call[r].idx - xfer[r][0].num + hw'.count
                 /\ Fetched' = 1 => hw'.desc.req = r
                 /\ hw'.next = Null => hw'.count + Fetched' <= xfer[r][0].num
                 /\ hw'.next # Null =>
                      /\ hw'.next \in SlotsOf(xfer[r][0])
                      /\ hw'.count + Fetched' <= hw'.next - xfer[r][0].first
      <3> DEFINE x == xfer[r][0]
      <3>1. /\ Len(moved[r]) >= call[r].idx - x.num + hw.count
            /\ hw.next \in SlotsOf(x) /\ hw.count + Fetched <= hw.next - x.first
        BY <1>1, <2>5 DEF SyncInv, RunInv
      <3>2. d.req = r /\ d.next = IF hw.next = x.first + x.num - 1 THEN Null ELSE hw.next + 1
        BY <2>5, <3>1, Listed DEF SyncInv, RingInv
      <3>3. x.first \in Nat /\ x.num \in Nat /\ hw.next \in Nat /\ hw.count \in Nat
        BY <2>2, <2>5, Listed, ConfigsAssumption DEF Slots
      <3>4. Fetched = 0 /\ Fetched' \in {0, 1}
        BY <1>1 DEF Fetched
      <3> HIDE DEF x, d
      <3>5. d.next = Null => hw.count + Fetched' <= x.num
        BY <3>1, <3>2, <3>3, <3>4, SMTT(30) DEF SlotsOf, Null
      <3>6. d.next # Null => d.next \in SlotsOf(x) /\ hw.count + Fetched' <= d.next - x.first
        <4>1. CASE hw.next = x.first + x.num - 1
          BY <4>1, <3>2
        <4>2. CASE hw.next # x.first + x.num - 1
          <5>1. d.next = hw.next + 1
            BY <4>2, <3>2
          <5>2. x.first <= hw.next /\ hw.next < x.first + x.num - 1
            BY <4>2, <3>1, <3>3, SMTT(30) DEF SlotsOf
          <5> DEFINE f == x.first
                     m == x.num
                     h == hw.next
                     c == hw.count
          <5>3. /\ f \in Nat /\ m \in Nat /\ h \in Nat /\ c \in Nat
                /\ f <= h /\ h < f + m - 1
            BY <5>2, <3>3
          <5>4. d.next = h + 1 /\ SlotsOf(x) = f .. f + m - 1
            BY <5>1 DEF SlotsOf
          <5>5. c + Fetched <= h - f
            BY <3>1
          <5> HIDE DEF f, m, h, c
          <5>6. h + 1 \in f .. f + m - 1 /\ c + Fetched' <= (h + 1) - f
            BY <5>3, <5>5, <3>4, NextSlot, Zenon
          <5> QED BY <5>4, <5>6 DEF c, f
        <4> QED BY <4>1, <4>2
      <3> QED BY <1>1, <2>4, <3>1, <3>2, <3>5, <3>6 DEF x
    <2>6. RunInv'
      <3> HIDE DEF d
      <3> QED BY <1>1, <2>5, RunIntro
    <2> QED BY <1>1, <2>4, <2>6, KnownTypes, CardFrame
  <1> QED BY <1>2, <1>3

LEMMA SmallMod ==
  ASSUME NEW a \in Nat, NEW n \in Nat, a < n
  PROVE  a % n = a
  OBVIOUS

LEMMA HwMoveStep ==
  ASSUME SyncInv, HwMove
  PROVE  SyncInv'
  <1> DEFINE d == hw.desc
  <1>1. /\ UNCHANGED <<cfg, call, xfer, desc_lock, engine, list, ring, work>>
        /\ d # Zeroed
        /\ hw' = [hw EXCEPT
              !.desc = Zeroed, !.old = FALSE,
              !.count = IF hw.old THEN @ ELSE (@ + 1) % CountMod,
              !.stop = @ \/ (d.last /\ (hw.old => "stray" \in cfg.faults)),
              !.busy = hw.old \/ (IF d.last THEN "busy" \in cfg.faults ELSE hw.run)]
    BY DEF HwMove, hostVars
  <1>2. d \in [req : Reqs, len : 1 .. desc_blen_max, last : BOOLEAN,
               next : Slots \cup {Null}, res : Slots]
    BY <1>1, KnownTypes DEF Desc
  <1>3. PICK len \in IF cfg.stream THEN 1 .. d.len ELSE {d.len} :
          moved' = [moved EXCEPT ![d.req] = Append(@, len)]
    BY DEF HwMove
  <1>4. len \in Nat
    BY <1>2, <1>3, ConfigsAssumption
  <1>5. /\ moved' \in [Reqs -> Seq(Nat)]
        /\ Len(moved'[d.req]) = Len(moved[d.req]) + 1
        /\ \A r \in Reqs \ {d.req} : moved'[r] = moved[r]
    BY <1>2, <1>3, <1>4, KnownTypes
  <1>6. \A r \in Reqs : Len(moved'[r]) >= Len(moved[r])
    <2> SUFFICES ASSUME NEW r \in Reqs PROVE Len(moved'[r]) >= Len(moved[r])
      OBVIOUS
    <2>1. Len(moved[r]) \in Nat
      BY KnownTypes
    <2> HIDE DEF d
    <2> QED BY <2>1, <1>5
  <1>7. hw.count \in 0 .. CountMod - 1 /\ CountMod \in Nat /\ CountMod > 0
    BY KnownTypes, ConfigsAssumption
  <1>8. /\ hw' \in [run : BOOLEAN, busy : BOOLEAN, next : Slots \cup {Null}, desc : Desc,
                    old : BOOLEAN, count : 0 .. CountMod - 1, stop : BOOLEAN, err : BOOLEAN]
        /\ hw'.next = hw.next /\ hw'.desc = Zeroed
        /\ hw'.count = IF hw.old THEN hw.count ELSE (hw.count + 1) % CountMod
    <2>1. (hw.count + 1) % CountMod \in 0 .. CountMod - 1
      BY <1>7
    <2>2. d.last \in BOOLEAN /\ hw.old \in BOOLEAN /\ hw.stop \in BOOLEAN /\ hw.run \in BOOLEAN
      BY <1>2, KnownTypes
    <2>3. /\ (hw.stop \/ (d.last /\ (hw.old => "stray" \in cfg.faults))) \in BOOLEAN
          /\ (hw.old \/ (IF d.last THEN "busy" \in cfg.faults ELSE hw.run)) \in BOOLEAN
      BY <2>2
    <2>4. Zeroed \in Desc
      BY DEF Desc
    <2> HIDE DEF d
    <2> QED BY <1>1, <1>7, <2>1, <2>3, <2>4, KnownTypes, ZenonT(60)
  <1>9. Fetched' = 0
    BY <1>8 DEF Fetched
  <1>10. ASSUME NEW r \in Reqs, list = <<<<r, 0>>>>
         PROVE  /\ Len(moved'[r]) >= call[r].idx - xfer[r][0].num + hw'.count
                /\ hw'.count + Fetched' <= hw.count + Fetched
    <2>1. /\ Len(moved[r]) >= call[r].idx - xfer[r][0].num + hw.count
          /\ Fetched = 1 => d.req = r
          /\ hw.count + Fetched <= xfer[r][0].num
      <3>1. /\ Len(moved[r]) >= call[r].idx - xfer[r][0].num + hw.count
            /\ Fetched = 1 => d.req = r
            /\ IF hw.next = Null THEN hw.count + Fetched <= xfer[r][0].num
               ELSE /\ hw.next \in SlotsOf(xfer[r][0])
                    /\ hw.count + Fetched <= hw.next - xfer[r][0].first
        BY <1>10 DEF SyncInv, RunInv
      <3>2. /\ xfer[r][0].num \in Nat /\ xfer[r][0].first \in Nat
            /\ hw.count \in Nat /\ Fetched \in Nat
        BY <1>10, Listed
      <3>3. hw.next # Null => hw.next <= xfer[r][0].first + xfer[r][0].num - 1
                              /\ hw.next \in Int
        BY <3>1, <3>2 DEF SlotsOf
      <3> QED BY <3>1, <3>2, <3>3, SMTT(30)
    <2>2. /\ xfer[r][0].num \in Nat /\ call[r].idx \in Nat /\ hw.count \in Nat
          /\ Len(moved[r]) \in Nat /\ Len(moved'[r]) \in Nat
          /\ xfer[r][0].num < CountMod
      BY <1>5, <1>10, Listed, SMTT(30)
    <2>3. CASE hw.old
      <3>1. Fetched = 0
        BY <2>3 DEF Fetched
      <3> QED BY <2>1, <2>2, <2>3, <3>1, <1>6, <1>8, <1>9, SMTT(30)
    <2>4. CASE ~hw.old
      <3>1. Fetched = 1
        BY <2>4, <1>1 DEF Fetched
      <3>2. hw'.count = hw.count + 1
        <4>1. hw.count + 1 \in Nat /\ hw.count + 1 < CountMod
          BY <2>1, <2>2, <3>1, <1>7, SMTT(30)
        <4>2. (hw.count + 1) % CountMod = hw.count + 1
          BY <4>1, <1>7, SmallMod
        <4> QED BY <2>4, <4>2, <1>8
      <3>3. Len(moved'[r]) = Len(moved[r]) + 1
        BY <2>1, <3>1, <1>5
      <3> QED BY <2>1, <2>2, <3>1, <3>2, <3>3, <1>9, SMTT(30)
    <2> QED BY <2>3, <2>4
  <1>11. RunInv'
    <2>1. ASSUME NEW r \in Reqs, list = <<<<r, 0>>>>
          PROVE  /\ hw.next = Null => hw'.count + Fetched' <= xfer[r][0].num
                 /\ hw.next # Null =>
                      /\ hw.next \in SlotsOf(xfer[r][0])
                      /\ hw'.count + Fetched' <= hw.next - xfer[r][0].first
      <3>1. /\ hw.next = Null => hw.count + Fetched <= xfer[r][0].num
            /\ hw.next # Null => /\ hw.next \in SlotsOf(xfer[r][0])
                                 /\ hw.count + Fetched <= hw.next - xfer[r][0].first
        BY <2>1 DEF SyncInv, RunInv
      <3>2. hw'.count + Fetched' <= hw.count + Fetched
        BY <2>1, <1>10
      <3>3. /\ xfer[r][0].num \in Nat /\ xfer[r][0].first \in Nat
            /\ hw.count \in Nat /\ hw'.count \in Nat /\ Fetched \in Nat
        BY <2>1, <1>7, <1>8, Listed
      <3> QED BY <3>1, <3>2, <3>3, <1>9 DEF SlotsOf
    <2> QED BY <1>1, <1>8, <1>9, <1>10, <2>1, RunIntro
  <1> QED BY <1>1, <1>5, <1>6, <1>8, <1>11, KnownTypes, CardFrame

LEMMA HwIdleStep ==
  ASSUME SyncInv, HwIdle
  PROVE  SyncInv'
  <1>1. /\ UNCHANGED <<cfg, call, xfer, desc_lock, engine, list, ring, work, moved>>
        /\ hw' = [hw EXCEPT !.busy = FALSE]
    BY DEF HwIdle, hostVars, ghostVars
  <1>2. /\ hw' \in [run : BOOLEAN, busy : BOOLEAN, next : Slots \cup {Null}, desc : Desc,
                    old : BOOLEAN, count : 0 .. CountMod - 1, stop : BOOLEAN, err : BOOLEAN]
        /\ hw'.next = hw.next /\ hw'.desc = hw.desc /\ hw'.old = hw.old
        /\ hw'.count = hw.count
    BY <1>1, KnownTypes
  <1> QED BY <1>1, <1>2, KnownTypes, DriverFrame

LEMMA HwErrorStep ==
  ASSUME SyncInv, HwError
  PROVE  SyncInv'
  <1>1. /\ UNCHANGED <<cfg, call, xfer, desc_lock, engine, list, ring, work, moved>>
        /\ hw' = [hw EXCEPT !.err = TRUE, !.busy = FALSE, !.desc = Zeroed, !.old = FALSE]
    BY DEF HwError, hostVars, ghostVars
  <1>2. /\ hw' \in [run : BOOLEAN, busy : BOOLEAN, next : Slots \cup {Null}, desc : Desc,
                    old : BOOLEAN, count : 0 .. CountMod - 1, stop : BOOLEAN, err : BOOLEAN]
        /\ hw'.next = hw.next /\ hw'.desc = Zeroed /\ hw'.count = hw.count
    BY <1>1, KnownTypes DEF Desc
  <1>3. Fetched' = 0
    BY <1>2 DEF Fetched
  <1>4. ASSUME NEW r \in Reqs, list = <<<<r, 0>>>>
        PROVE  /\ Len(moved[r]) >= call[r].idx - xfer[r][0].num + hw.count
               /\ hw.next = Null => hw.count <= xfer[r][0].num
               /\ hw.next # Null => /\ hw.next \in SlotsOf(xfer[r][0])
                                    /\ hw.count <= hw.next - xfer[r][0].first
    <2>1. /\ Len(moved[r]) >= call[r].idx - xfer[r][0].num + hw.count
          /\ hw.next = Null => hw.count + Fetched <= xfer[r][0].num
          /\ hw.next # Null => /\ hw.next \in SlotsOf(xfer[r][0])
                               /\ hw.count + Fetched <= hw.next - xfer[r][0].first
      BY <1>4 DEF SyncInv, RunInv
    <2>2. hw.count \in Nat /\ Fetched \in {0, 1} /\ xfer[r][0].num \in Nat
          /\ xfer[r][0].first \in Nat
      BY <1>4, Listed
    <2>3. hw.next # Null => hw.next \in Nat
      <3> SUFFICES ASSUME hw.next # Null PROVE hw.next \in Nat
        OBVIOUS
      <3>1. hw.next \in xfer[r][0].first .. xfer[r][0].first + xfer[r][0].num - 1
        BY <2>1 DEF SlotsOf
      <3> QED BY <2>2, <3>1
    <2>4. hw.next = Null => hw.count <= xfer[r][0].num
      BY <2>1, <2>2
    <2>5. hw.next # Null => hw.count <= hw.next - xfer[r][0].first
      BY <2>1, <2>2, <2>3
    <2> QED BY <2>1, <2>4, <2>5
  <1>5. hw.count \in Nat
    BY KnownTypes, ConfigsAssumption
  <1>6. RunInv'
    BY <1>1, <1>2, <1>3, <1>4, <1>5, RunIntro
  <1> QED BY <1>1, <1>2, <1>6, KnownTypes, CardFrame

(***************************************************************************)
(* The service routine's account                                           *)
(***************************************************************************)

\* The sum over no transfers, and over the first one.
LEMMA NoDescs == DescsOf(0) = 0
  <1> DEFINE Def(g) == g = [s \in SUBSET (1 .. 0) |->
               IF s = {} THEN 0 ELSE LET x == CHOOSE x \in s : TRUE
                                     IN  Xfer(list[x]).num + g[s \ {x}]]
             iter == CHOOSE g : Def(g)
  <1>1. 1 .. 0 = {}
    OBVIOUS
  <1>2. Def([s \in SUBSET (1 .. 0) |-> 0])
    BY <1>1
  <1>3. Def(iter)
    BY <1>2
  <1>4. DescsOf(0) = iter[1 .. 0]
    BY DEF DescsOf, MapThenSumSet, MapThenFoldSet
  <1> QED BY <1>1, <1>3, <1>4

LEMMA DescsOfFirst ==
  ASSUME Xfer(list[1]).num \in Nat
  PROVE  DescsOf(1) = Xfer(list[1]).num
  <1> DEFINE num(x) == Xfer(list[x]).num
             Def(g) == g = [s \in SUBSET (1 .. 1) |->
               IF s = {} THEN 0 ELSE LET x == CHOOSE x \in s : TRUE
                                     IN  num(x) + g[s \ {x}]]
             iter == CHOOSE g : Def(g)
             sum  == [s \in SUBSET (1 .. 1) |-> IF s = {} THEN 0 ELSE num(1)]
  <1>1. 1 .. 1 = {1}
    OBVIOUS
  <1>2. \A s \in SUBSET (1 .. 1) : s = {} \/ s = {1}
    BY <1>1
  <1>3. (CHOOSE x \in {1} : TRUE) = 1 /\ {1} \ {1} = {}
    OBVIOUS
  <1>4. num(1) \in Nat
    OBVIOUS
  <1>5. DescsOf(1) = iter[1 .. 1]
    BY DEF DescsOf, MapThenSumSet, MapThenFoldSet
  <1> HIDE DEF num
  <1>6. \A s \in SUBSET (1 .. 1) :
          sum[s] = IF s = {} THEN 0 ELSE LET x == CHOOSE x \in s : TRUE
                                         IN  num(x) + sum[s \ {x}]
    <2>1. sum[{}] = 0 /\ sum[{1}] = num(1)
      BY <1>1
    <2> HIDE DEF sum
    <2>2. num(1) + 0 = num(1)
      BY <1>4
    <2>3. ASSUME NEW s \in SUBSET (1 .. 1), s = {1}
          PROVE  sum[s] = LET x == CHOOSE x \in s : TRUE IN num(x) + sum[s \ {x}]
      BY <1>3, <2>1, <2>2, <2>3
    <2> QED BY <1>2, <2>1, <2>3
  <1>7. Def(sum)
    BY <1>6
  <1>8. Def(iter)
    BY <1>7
  <1>9. iter[{1}] = num(1) + iter[{}] /\ iter[{}] = 0
    <2> HIDE DEF iter
    <2>1. {} \in SUBSET (1 .. 1) /\ {1} \in SUBSET (1 .. 1) /\ {1} # {}
      BY <1>1
    <2>2. iter[{}] = 0
      BY <1>8, <2>1
    <2>3. iter[{1}] = LET x == CHOOSE x \in {1} : TRUE IN num(x) + iter[{1} \ {x}]
      BY <1>8, <2>1
    <2> QED BY <1>3, <2>2, <2>3
  <1> QED BY <1>1, <1>4, <1>5, <1>9 DEF num

\* The count is never past the one transfer that is listed.
LEMMA NonePast ==
  ASSUME SyncInv, NEW r \in Reqs, list = <<<<r, 0>>>>, NEW left \in Nat, left = hw.count
  PROVE  Cardinality(Past(left)) = 0 /\ left - DescsOf(0) = left
  <1> DEFINE x == xfer[r][0]
  <1>1. x.num \in Nat /\ x.first \in Nat /\ hw.count \in Nat /\ Fetched \in {0, 1}
    BY Listed
  <1>2. Len(list) = 1 /\ Xfer(list[1]) = x /\ 1 .. Len(list) = {1}
    BY DEF Xfer
  <1>3. DescsOf(1) = x.num
    BY <1>1, <1>2, DescsOfFirst
  <1>4. left <= x.num
    <2>1. /\ hw.next = Null => hw.count + Fetched <= x.num
          /\ hw.next # Null => /\ hw.next \in SlotsOf(x)
                               /\ hw.count + Fetched <= hw.next - x.first
      BY DEF SyncInv, RunInv
    <2> HIDE DEF x
    <2> QED BY <1>1, <2>1 DEF SlotsOf
  <1>5. Past(left) = {}
    <2> HIDE DEF x
    <2>1. ASSUME NEW i \in Past(left) PROVE FALSE
      <3>1. i = 1 /\ left > DescsOf(i)
        BY <1>2 DEF Past
      <3> QED BY <1>1, <1>3, <1>4, <3>1
    <2> QED BY <2>1
  <1> QED BY <1>5, FS_EmptySet, NoDescs

\* What the service routine does to the one transfer that may be listed: it is
\* completed or failed, and the engine is stopped.
LEMMA ServiceTransfersEffect ==
  ASSUME SyncInv, ~cfg.async, ServiceTransfers
  PROVE  /\ UNCHANGED <<cfg, desc_lock, ring, result, dev, moved, late>>
         /\ DOMAIN call' = Reqs /\ \A r \in Reqs : call'[r] = call[r]
         /\ list' = <<>> /\ hw.count # 0 /\ work.at = "count"
         /\ work' = [work EXCEPT !.at = "idle"]
         /\ irq' = [irq EXCEPT !.enabled = TRUE]
         /\ DOMAIN engine' = DOMAIN engine /\ engine'.running = FALSE
         /\ engine'.shutdown \subseteq {"REQUEST", "IDLE"}
         /\ "REQUEST" \in engine'.shutdown => "REQUEST" \in engine.shutdown
         /\ engine'.desc_idx = engine.desc_idx
         /\ engine'.desc_used = engine.desc_used - MapThenSumSet(LAMBDA x : x.num, {})
         /\ hw' = HwStopped(hw) \/ (hw' = hw /\ ~engine.running)
         /\ DOMAIN xfer' = Reqs
         /\ \A r \in Reqs :
              /\ DOMAIN xfer'[r] = 0 .. 1 /\ xfer'[r][1] = xfer[r][1]
              /\ list # <<<<r, 0>>>> => xfer'[r][0] = xfer[r][0]
              /\ list = <<<<r, 0>>>> => xfer'[r][0] = FinalState(xfer[r][0], hw.count)
  <1> DEFINE left  == (hw.count - engine.desc_dequeued) % CountMod
             p     == Cardinality(Past(left))
             final == p < Len(list)
             q     == IF final THEN p + 1 ELSE p
             off   == {list[i] : i \in 1 .. q}
             n     == left - DescsOf(p)
             xf    == [r \in Reqs |-> [k \in 0 .. 1 |->
                        CASE <<r, k>> \notin off -> xfer[r][k]
                          [] final /\ list[q] = <<r, k>> -> FinalState(xfer[r][k], n)
                          [] OTHER -> [xfer[r][k] EXCEPT !.state = "COMPLETED"]]]
             failed == final /\ work.err
             ended == {r \in Reqs : cfg.async /\
                         \E k \in 0 .. 1 : <<r, k>> \in off /\ xfer[r][k].lastInReq}
             freed == UNION {{xf[r][k] : k \in Accounted(xf, r)} : r \in ended}
             given == MapThenSumSet(LAMBDA x : x.num, freed)
             took  == DescsOf(IF failed THEN p ELSE q)
             e     == [GivenBack(engine, given) EXCEPT
                        !.running = @ /\ ~failed, !.desc_dequeued = @ + took]
             h     == IF failed THEN HwStopped(hw) ELSE hw
             l     == SubSeq(list, q + 1, Len(list))
             rs    == Resumed(e, h, l, xf)
  <1>1. /\ xfer' = xf /\ list' = l /\ engine' = rs[1] /\ hw' = rs[2]
        /\ ring' = Cleared(ring, UNION {SlotsOf(x) : x \in freed})
        /\ call' = [c \in Reqs |->
             IF c \in ended THEN [call[c] EXCEPT !.pc = "done", !.ret = AsyncDone(xf, c)]
                            ELSE call[c]]
        /\ work' = [work EXCEPT !.at = "idle"]
        /\ irq' = [irq EXCEPT !.enabled = TRUE]
        /\ hw.count # 0 /\ work.at = "count"
        /\ UNCHANGED <<cfg, desc_lock, moved, result, dev, late>>
    BY DEF ServiceTransfers, ghostVars
  <1>2. ended = {} /\ freed = {}
    OBVIOUS
  <1>given. given = MapThenSumSet(LAMBDA x : x.num, {})
    BY <1>2
  <1> HIDE DEF given, took
  <1>3. ring' = ring
    <2>1. UNION {SlotsOf(x) : x \in freed} = {}
      BY <1>2
    <2>2. ring' = [s \in Slots |-> ring[s]]
      BY <1>1, <2>1 DEF Cleared
    <2> QED BY <2>2, SMTT(30) DEF SyncInv, Shape
  <1>4. DOMAIN call' = Reqs /\ \A c \in Reqs : call'[c] = call[c]
    BY <1>1, <1>2
  \* The transfers, and the list.
  <1> DEFINE Taken ==
        /\ l = <<>>
        /\ \A r \in Reqs :
             /\ xf[r][1] = xfer[r][1]
             /\ list # <<<<r, 0>>>> => xf[r][0] = xfer[r][0]
             /\ list = <<<<r, 0>>>> => xf[r][0] = FinalState(xfer[r][0], hw.count)
  <1>5. Taken
    <2>1. CASE list = <<>>
      <3>1. Len(list) = 0 /\ 1 .. 0 = {}
        BY <2>1
      <3>2. Past(left) = {}
        BY <3>1 DEF Past
      <3>3. p = 0
        BY <3>2, FS_EmptySet
      <3>4. q = 0 /\ off = {} /\ l = <<>> /\ ~final
        BY <2>1, <3>1, <3>3
      <3> HIDE DEF off, l, q, final, n
      <3>5. \A r \in Reqs : xf[r][0] = xfer[r][0] /\ xf[r][1] = xfer[r][1]
        BY <3>4
      <3> QED BY <2>1, <3>4, <3>5
    <2>2. ASSUME NEW r \in Reqs, list = <<<<r, 0>>>>
          PROVE  Taken
      <3> DEFINE x == xfer[r][0]
      <3>1. left = hw.count /\ left \in Nat
        <4>1. engine.desc_dequeued = 0
          BY <2>2 DEF SyncInv, RunInv
        <4>2. hw.count \in 0 .. CountMod - 1 /\ CountMod \in Nat
          BY KnownTypes, ConfigsAssumption
        <4>3. (hw.count - 0) % CountMod = hw.count
          BY <4>2, SmallMod
        <4> QED BY <4>1, <4>2, <4>3
      <3> HIDE DEF left
      <3>2. p = 0 /\ n = hw.count
        BY <2>2, <3>1, NonePast
      <3> HIDE DEF p, n
      <3>3. Len(list) = 1 /\ list[1] = <<r, 0>>
        BY <2>2
      <3>4. q = 1 /\ final
        BY <3>2, <3>3
      <3>5. off = {<<r, 0>>} /\ l = <<>> /\ list[q] = <<r, 0>>
        <4>1. l = <<>>
          <5>1. SubSeq(list, 2, 1) = <<>>
            BY <2>2
          <5> HIDE DEF q
          <5> QED BY <3>3, <3>4, <5>1
        <4>2. off = {list[1]}
          <5>1. 1 .. 1 = {1}
            OBVIOUS
          <5> HIDE DEF q
          <5> QED BY <3>4, <5>1
        <4> HIDE DEF q, off, l
        <4> QED BY <3>3, <3>4, <4>1, <4>2
      <3> HIDE DEF q, off, l, final
      <3>6. \A s \in Reqs : /\ xf[s][1] = xfer[s][1]
                            /\ s # r => xf[s][0] = xfer[s][0]
        BY <3>5
      <3>7. xf[r][0] = FinalState(x, hw.count)
        BY <3>2, <3>4, <3>5
      <3>8. \A s \in Reqs : list = <<<<s, 0>>>> => s = r
        BY <2>2
      <3> HIDE DEF xf
      <3> QED BY <3>5, <3>6, <3>7, <3>8, <2>2
    <2> QED BY <2>1, <2>2 DEF SyncInv, ListInv
  \* The engine is stopped.
  <1>6. /\ DOMAIN engine' = DOMAIN engine /\ engine'.running = FALSE
        /\ engine'.shutdown \subseteq {"REQUEST", "IDLE"}
        /\ "REQUEST" \in engine'.shutdown => "REQUEST" \in engine.shutdown
        /\ engine'.desc_idx = engine.desc_idx
        /\ engine'.desc_used = engine.desc_used - given
        /\ hw' = HwStopped(hw) \/ (hw' = hw /\ ~engine.running)
    <2>1. /\ DOMAIN e = DOMAIN engine /\ e.running \in BOOLEAN
          /\ e.shutdown = engine.shutdown /\ e.desc_idx = engine.desc_idx
          /\ e.desc_used = engine.desc_used - given
          /\ e.running = (engine.running /\ ~failed)
      BY KnownTypes DEF GivenBack
    <2>2. HwStopped(HwStopped(hw)) = HwStopped(hw)
      <3>1. \A g \in [run : BOOLEAN, busy : BOOLEAN, next : Slots \cup {Null}, desc : Desc,
                 old : BOOLEAN, count : 0 .. CountMod - 1, stop : BOOLEAN, err : BOOLEAN] :
              HwStopped(HwStopped(g)) = HwStopped(g)
        BY DEF HwStopped
      <3> QED BY <3>1, KnownTypes
    <2>3. h = IF failed THEN HwStopped(hw) ELSE hw
      BY SMTT(30)
    <2> HIDE DEF e, h, l, xf, failed
    <2>4. IF ~e.running
            THEN /\ hw' = h
                 /\ engine' = [e EXCEPT !.shutdown =
                                 IF "REQUEST" \in @ THEN @ \cup {"IDLE"} ELSE @]
            ELSE engine' = Stopped(e) /\ hw' = HwStopped(h)
      BY <1>1, <1>5 DEF Resumed
    <2>5. hw' = HwStopped(hw) \/ (hw' = hw /\ ~engine.running)
      BY <2>1, <2>2, <2>3, <2>4
    <2> QED BY <2>1, <2>4, <2>5, KnownTypes, SMTT(30) DEF Stopped
  <1>7. DOMAIN xfer' = Reqs /\ \A r \in Reqs : DOMAIN xfer'[r] = 0 .. 1
    BY <1>1
  <1>8. list' = <<>> /\ xfer' = xf
    BY <1>1, <1>5
  <1>9. \A r \in Reqs :
          /\ DOMAIN xfer'[r] = 0 .. 1 /\ xfer'[r][1] = xfer[r][1]
          /\ list # <<<<r, 0>>>> => xfer'[r][0] = xfer[r][0]
          /\ list = <<<<r, 0>>>> => xfer'[r][0] = FinalState(xfer[r][0], hw.count)
    <2>1. \A r \in Reqs :
            /\ xf[r][1] = xfer[r][1]
            /\ list # <<<<r, 0>>>> => xf[r][0] = xfer[r][0]
            /\ list = <<<<r, 0>>>> => xf[r][0] = FinalState(xfer[r][0], hw.count)
      BY <1>5
    <2> HIDE DEF xf
    <2> QED BY <2>1, <1>7, <1>8, SMTT(30)
  <1>10. /\ UNCHANGED <<cfg, desc_lock, ring, result, dev, moved, late>>
         /\ hw.count # 0 /\ work.at = "count"
         /\ work' = [work EXCEPT !.at = "idle"]
         /\ irq' = [irq EXCEPT !.enabled = TRUE]
    BY <1>1, <1>3
  <1>11. engine'.desc_used = engine.desc_used - MapThenSumSet(LAMBDA x : x.num, {})
    BY <1>6, <1>given
  <1> HIDE DEF xf, l, off, q, p, n, left, e, h, rs, ended, freed, final, failed, Taken
  <1> QED BY <1>4, <1>6, <1>7, <1>8, <1>9, <1>10, <1>11, SMTT(30)

LEMMA FinalStateShape ==
  ASSUME SyncInv, NEW r \in Reqs, list = <<<<r, 0>>>>
  PROVE  LET x == xfer[r][0]
             y == FinalState(x, hw.count)
         IN  /\ DOMAIN y = DOMAIN NoXfer
             /\ y.first = x.first /\ y.num = x.num /\ y.len = x.len
             /\ y.lastInReq = x.lastInReq
             /\ y.state \in {"COMPLETED", "FAILED"} /\ y.cmpl \in 0 .. x.num
             /\ y.state = "COMPLETED" => hw.count >= x.num /\ ~work.err /\ y.cmpl = x.num
             /\ y.state = "FAILED" => hw.count < x.num \/ work.err
  <1> DEFINE x == xfer[r][0]
             n == hw.count
  <1>1. DOMAIN x = DOMAIN NoXfer /\ x.num \in Nat /\ x.cmpl \in 0 .. x.num
    BY DEF SyncInv, Shape, TypeOK, CallInv
  <1>2. n \in Nat
    BY Listed
  <1> HIDE DEF x, n
  <1>3. x.num \in 0 .. x.num /\ (n < x.num => n \in 0 .. x.num)
    BY <1>1, <1>2
  <1>4. /\ DOMAIN FinalState(x, n) = DOMAIN NoXfer
        /\ FinalState(x, n).first = x.first /\ FinalState(x, n).num = x.num
        /\ FinalState(x, n).len = x.len /\ FinalState(x, n).lastInReq = x.lastInReq
        /\ FinalState(x, n).state \in {"COMPLETED", "FAILED"}
        /\ FinalState(x, n).cmpl \in 0 .. x.num
        /\ FinalState(x, n).state = "COMPLETED" =>
             n >= x.num /\ ~work.err /\ FinalState(x, n).cmpl = x.num
        /\ FinalState(x, n).state = "FAILED" => n < x.num \/ work.err
    BY <1>1, <1>2, <1>3 DEF FinalState, NoXfer
  <1> QED BY <1>4 DEF x, n

LEMMA ServiceTransfersStep ==
  ASSUME SyncInv, ~cfg.async, ServiceTransfers
  PROVE  SyncInv'
  <1>1. /\ UNCHANGED <<cfg, desc_lock, ring, moved>>
        /\ DOMAIN call' = Reqs /\ \A r \in Reqs : call'[r] = call[r]
        /\ list' = <<>> /\ work' = [work EXCEPT !.at = "idle"]
        /\ DOMAIN engine' = DOMAIN engine /\ engine'.running = FALSE
        /\ engine'.shutdown \subseteq {"REQUEST", "IDLE"}
        /\ engine'.desc_idx = engine.desc_idx
        /\ hw' = HwStopped(hw) \/ hw' = hw
        /\ DOMAIN xfer' = Reqs /\ \A r \in Reqs : DOMAIN xfer'[r] = 0 .. 1
    BY ServiceTransfersEffect
  <1>2. \A r \in Reqs :
          /\ xfer'[r][1] = xfer[r][1]
          /\ list # <<<<r, 0>>>> => xfer'[r][0] = xfer[r][0]
          /\ list = <<<<r, 0>>>> =>
               /\ DOMAIN xfer'[r][0] = DOMAIN NoXfer
               /\ xfer'[r][0].first = xfer[r][0].first /\ xfer'[r][0].num = xfer[r][0].num
               /\ xfer'[r][0].lastInReq = xfer[r][0].lastInReq
               /\ xfer'[r][0].state \in {"COMPLETED", "FAILED"}
               /\ xfer'[r][0].cmpl \in 0 .. xfer[r][0].num
               /\ xfer'[r][0].state = "COMPLETED" => hw.count >= xfer[r][0].num
    <2> SUFFICES ASSUME NEW r \in Reqs, list = <<<<r, 0>>>>
                 PROVE  /\ DOMAIN xfer'[r][0] = DOMAIN NoXfer
                        /\ xfer'[r][0].first = xfer[r][0].first
                        /\ xfer'[r][0].num = xfer[r][0].num
                        /\ xfer'[r][0].lastInReq = xfer[r][0].lastInReq
                        /\ xfer'[r][0].state \in {"COMPLETED", "FAILED"}
                        /\ xfer'[r][0].cmpl \in 0 .. xfer[r][0].num
                        /\ xfer'[r][0].state = "COMPLETED" => hw.count >= xfer[r][0].num
      BY ServiceTransfersEffect
    <2>1. xfer'[r][0] = FinalState(xfer[r][0], hw.count)
      BY ServiceTransfersEffect
    <2> QED BY <2>1, FinalStateShape
  <1>3. hw' \in [run : BOOLEAN, busy : BOOLEAN, next : Slots \cup {Null}, desc : Desc,
                 old : BOOLEAN, count : 0 .. CountMod - 1, stop : BOOLEAN, err : BOOLEAN]
    <2> DEFINE HwType == [run : BOOLEAN, busy : BOOLEAN, next : Slots \cup {Null},
                          desc : Desc, old : BOOLEAN, count : 0 .. CountMod - 1,
                          stop : BOOLEAN, err : BOOLEAN]
    <2>1. \A g \in HwType : HwStopped(g) \in HwType
      BY DEF HwStopped
    <2>2. hw \in HwType
      BY KnownTypes
    <2> HIDE DEF HwType
    <2>3. hw' \in HwType
      BY <1>1, <2>1, <2>2
    <2> QED BY <2>3 DEF HwType
  <1>4. work' \in [pending : BOOLEAN, at : {"idle", "count"}, err : BOOLEAN]
    BY <1>1, KnownTypes
  <1>5. \A k \in 0 .. 1 : k = 0 \/ k = 1
    OBVIOUS
  <1>6. Shape'
    <2>1. \A r \in Reqs : \A k \in 0 .. 1 : DOMAIN xfer'[r][k] = DOMAIN NoXfer
      <3> SUFFICES ASSUME NEW r \in Reqs, NEW k \in 0 .. 1
                   PROVE  DOMAIN xfer'[r][k] = DOMAIN NoXfer
        OBVIOUS
      <3>1. DOMAIN xfer[r][k] = DOMAIN NoXfer
        BY DEF SyncInv, Shape
      <3>2. CASE k = 0 /\ list = <<<<r, 0>>>>
        BY <3>2, <1>2
      <3>3. CASE k = 0 /\ list # <<<<r, 0>>>>
        BY <3>1, <3>3, <1>2
      <3>4. CASE k = 1
        BY <3>1, <3>4, <1>2
      <3> QED BY <1>5, <3>2, <3>3, <3>4
    <2> QED BY <1>1, <1>3, <2>1 DEF SyncInv, Shape
  <1>7. TypeOK'
    <2>1. \A r \in Reqs : \A k \in 0 .. 1 :
            /\ xfer'[r][k].state \in XferStates
            /\ xfer'[r][k].cmpl \in 0 .. xfer'[r][k].num
            /\ xfer'[r][k].first + xfer'[r][k].num <= DescMax
      BY <1>2, <1>5, SMTT(30) DEF SyncInv, TypeOK, XferStates
    <2>2. \A r \in Reqs : /\ call'[r].pc \in {"idle", "mutex", "init", "check", "queue",
                                               "wait", "claim", "free", "queued", "done"}
                           /\ call'[r].k \in 0 .. 2
      BY <1>1 DEF SyncInv, TypeOK
    <2>3. /\ cfg' \in Configs /\ desc_lock' \in Reqs \cup {None}
          /\ \A s \in Slots : ring'[s] \in Desc
      BY <1>1 DEF SyncInv, TypeOK
    <2>4. engine'.running \in BOOLEAN /\ engine'.desc_idx \in Slots
      BY <1>1 DEF SyncInv, TypeOK
    <2>5. list' \in Seq(Reqs \X (0 .. 1)) /\ hw'.desc \in Desc
          /\ hw'.count \in 0 .. CountMod - 1
      BY <1>1, <1>3
    <2> QED BY <1>1, <1>4, <2>1, <2>2, <2>3, <2>4, <2>5 DEF TypeOK
  <1>8. Exclusion'
    BY <1>1, <1>2 DEF SyncInv, Exclusion
  <1>9. ASSUME NEW r \in Reqs PROVE CallInv(r)'
    <2>1. CallInv(r) /\ UNCHANGED <<cfg, moved>> /\ call'[r] = call[r]
      BY <1>1 DEF SyncInv
    <2>2. CASE list # <<<<r, 0>>>>
      BY <2>1, <2>2, <1>2 DEF CallInv
    <2>3. CASE list = <<<<r, 0>>>>
      <3>1. /\ call[r].pc \in Placed /\ call[r].pc \notin {"check", "queue", "free", "init"}
            /\ call[r].idx \in Nat /\ xfer[r][0].num \in Nat /\ hw.count \in Nat
            /\ Len(moved[r]) \in Nat
        BY <2>3, Listed DEF SyncInv, ListInv, Placed
      <3>2. Len(moved[r]) >= call[r].idx - xfer[r][0].num + hw.count
        BY <2>3 DEF SyncInv, RunInv
      <3>3. /\ xfer'[r][0].first = xfer[r][0].first /\ xfer'[r][0].num = xfer[r][0].num
            /\ xfer'[r][0].lastInReq = xfer[r][0].lastInReq
            /\ xfer'[r][0].cmpl \in Nat
            /\ xfer'[r][0].state = "COMPLETED" => hw.count >= xfer[r][0].num
        BY <2>3, <3>1, <1>2
      <3>4. xfer'[r][0].state = "COMPLETED" => Len(moved[r]) >= call[r].idx
        BY <3>1, <3>2, <3>3
      <3> QED BY <2>1, <3>1, <3>3, <3>4 DEF CallInv, Placed
    <2> QED BY <2>2, <2>3
  <1>10. RingInv'
    <2>1. \A r \in Reqs : /\ xfer'[r][0].first = xfer[r][0].first
                          /\ xfer'[r][0].num = xfer[r][0].num
      BY <1>2
    <2> QED BY <2>1, <1>1 DEF SyncInv, RingInv, SlotsOf
  <1>11. ListInv' /\ RunInv'
    BY <1>1 DEF ListInv, RunInv
  <1> QED BY <1>6, <1>7, <1>8, <1>9, <1>10, <1>11 DEF SyncInv


(***************************************************************************)
(* The theorems                                                            *)
(***************************************************************************)

LEMMA Start ==
  ASSUME Init, ~cfg.async
  PROVE  SyncInv
  <1> USE DEF Init
  <1>1. /\ DescMax \in Nat \ {0} /\ CountMod \in Nat /\ CountMod > DescMax
        /\ cfg.start \in Slots
    BY ConfigsAssumption DEF Slots
  <1>2. \A r \in Reqs : /\ call[r] = [pc |-> "idle", idx |-> 0, k |-> 0, done |-> 0,
                                      rv |-> 0, ret |-> Pending]
                        /\ xfer[r][0] = NoXfer /\ xfer[r][1] = NoXfer
                        /\ moved[r] = <<>>
    OBVIOUS
  <1>3. hw \in [run : BOOLEAN, busy : BOOLEAN, next : Slots \cup {Null}, desc : Desc,
                old : BOOLEAN, count : 0 .. CountMod - 1, stop : BOOLEAN, err : BOOLEAN]
    BY <1>1 DEF Card, Desc
  <1>4. Zeroed \in Desc
    BY DEF Desc
  <1>5. Shape
    BY <1>3, <1>4 DEF Shape, NoXfer
  <1>6. TypeOK
    <2>1. \A r \in Reqs : \A k \in 0 .. 1 : xfer[r][k] = NoXfer
      OBVIOUS
    <2>2. /\ NoXfer.state \in XferStates /\ NoXfer.cmpl \in 0 .. NoXfer.num
          /\ NoXfer.first + NoXfer.num <= DescMax
      BY <1>1 DEF NoXfer, XferStates
    <2>3. \A r \in Reqs : call[r].pc = "idle" /\ call[r].k = 0
      BY <1>2
    <2>4. engine.running = FALSE /\ engine.shutdown = {} /\ engine.desc_idx \in Slots
      BY <1>1
    <2>5. hw.desc \in Desc /\ hw.count \in 0 .. CountMod - 1
      BY <1>3
    <2> QED BY <1>4, <2>1, <2>2, <2>3, <2>4, <2>5 DEF TypeOK
  <1>7. Exclusion
    BY <1>2 DEF Exclusion, Active
  <1>8. \A r \in Reqs : CallInv(r)
    <2> SUFFICES ASSUME NEW r \in Reqs PROVE CallInv(r)
      OBVIOUS
    <2>1. /\ call[r].idx = 0 /\ call[r].rv = 0 /\ call[r].pc = "idle"
          /\ xfer[r][0].first = 0 /\ xfer[r][0].num = 0 /\ xfer[r][0].cmpl = 0
          /\ xfer[r][0].lastInReq = FALSE /\ xfer[r][0].state = "NEW"
      BY <1>2 DEF NoXfer
    <2>2. 0 \in Nat /\ ~(call[r].pc \in Built) /\ ~(call[r].pc \in Placed)
      BY <2>1 DEF Built, Placed
    <2> HIDE DEF Init
    <2> QED BY <2>1, <2>2 DEF CallInv
  <1>9. RingInv /\ ListInv /\ RunInv
    BY <1>2 DEF RingInv, ListInv, RunInv, Placed
  <1> QED BY <1>5, <1>6, <1>7, <1>8, <1>9 DEF SyncInv

LEMMA Stutter ==
  ASSUME SyncInv, UNCHANGED vars
  PROVE  SyncInv'
  <1>1. UNCHANGED <<cfg, call, xfer, desc_lock, engine, list, ring, work, hw, moved>>
    BY SMTT(30) DEF vars, hostVars
  <1> QED BY <1>1, KnownTypes, DriverFrame

\* The setting never changes.
LEMMA SettingStays ==
  ASSUME [Next]_vars
  PROVE  cfg' = cfg
  BY ZenonT(60) DEF Next, vars, Caller, Submit, LockDescs, TransferInit, CheckOnline, RefuseTransfer,
         TransferQueue, Wake, ClaimCompleted, ClaimFailed, ClaimAborted, Release,
         Interrupt, Service, ServiceStopped, ServiceStatus, ServiceNothing,
         ServiceTransfers, OfflineFlag, Recovery, OfflineStop, OfflineIrq, ResetCard,
         OnlineRegs, OnlineAccept, OnlineIrq, OnlineFlag, CardStep, HwFetch, HwMove,
         HwIdle, HwError

LEMMA Inductive == IInv /\ [Next]_vars => IInv'
  <1> SUFFICES ASSUME SyncInv, ~cfg.async, [Next]_vars PROVE SyncInv'
    BY SettingStays DEF IInv
  <1>1. ASSUME NEW r \in Reqs, Caller(r) PROVE SyncInv'
    BY <1>1, CallerStep
  <1>2. ASSUME Interrupt PROVE SyncInv'
    BY <1>2, InterruptStep
  <1>3. ASSUME Service PROVE SyncInv'
    BY <1>3, ServiceStoppedStep, ServiceStatusStep, ServiceNothingStep,
       ServiceTransfersStep DEF Service
  <1>4. ASSUME OfflineFlag \/ Recovery PROVE SyncInv'
    BY <1>4, OfflineStep, OfflineStopStep, ResetCardStep, OnlineAcceptStep DEF Recovery
  <1>5. ASSUME CardStep \/ HwError PROVE SyncInv'
    BY <1>5, HwFetchStep, HwMoveStep, HwIdleStep, HwErrorStep DEF CardStep
  <1>6. ASSUME UNCHANGED vars PROVE SyncInv'
    BY <1>6, Stutter
  <1> QED BY <1>1, <1>2, <1>3, <1>4, <1>5, <1>6 DEF Next

\* The invariant of the synchronous engine: exclusion, the calls' accounts, the
\* ring, the list and the card's count, after any interleaving of callers,
\* late service routines, signals, timeouts, errors and a reset (xdma_xfer_submit,
\* engine_service).
THEOREM SynchronousInvariant == Spec => []IInv
  <1>1. Init => IInv
    BY Start DEF IInv
  <1> QED BY <1>1, Inductive, PTL DEF Spec

\* Every variable of the driver and of the card keeps its type, and no transfer
\* reaches past the end of the ring (transfer_init).
THEOREM SynchronousTypes == Spec => [](~cfg.async => TypeOK)
  <1>1. IInv => (~cfg.async => TypeOK)
    BY DEF IInv, SyncInv
  <1> QED BY <1>1, SynchronousInvariant, PTL

\* No transfer stays on the engine's list when its call has given it up, whatever
\* the timeout or the signal raced (transfer_abort, engine_service_final_transfer).
THEOREM SynchronousListIsOfOpenCalls == Spec => [](~cfg.async => ListIsOfOpenCalls)
  <1>1. ASSUME SyncInv, ~cfg.async PROVE ListIsOfOpenCalls
    <2>1. CASE list = <<>>
      BY <2>1 DEF ListIsOfOpenCalls
    <2>2. ASSUME NEW r \in Reqs, list = <<<<r, 0>>>>, call[r].pc \in {"wait", "claim"},
                 xfer[r][0].state = "SUBMITTED"
          PROVE  ListIsOfOpenCalls
      <3>1. Len(list) = 1 /\ list[1] = <<r, 0>> /\ Xfer(list[1]) = xfer[r][0]
        BY <2>2 DEF Xfer
      <3> QED BY <1>1, <2>2, <3>1 DEF ListIsOfOpenCalls
    <2> QED BY <1>1, <2>1, <2>2 DEF SyncInv, ListInv
  <1> QED BY <1>1, SynchronousInvariant, PTL DEF IInv

\* A transfer is marked COMPLETED only when the card has moved the whole of it:
\* the count that the service routine reads is never that of another run
\* (engine_service, engine_start).
THEOREM SynchronousCompletedIsMoved == Spec => [](~cfg.async => CompletedIsMoved)
  <1>1. ASSUME SyncInv, ~cfg.async PROVE CompletedIsMoved
    <2> SUFFICES ASSUME NEW r \in Reqs, NEW k \in 0 .. 1, xfer[r][k].state = "COMPLETED"
                 PROVE  Len(moved[r]) >= UpTo(r, k)
      BY DEF CompletedIsMoved
    <2>1. k = 0
      <3>1. xfer[r][1].state = "NEW"
        BY <1>1 DEF SyncInv, Exclusion, NoXfer
      <3> QED BY <3>1
    <2> QED BY <1>1, <2>1 DEF SyncInv, CallInv, UpTo
  <1> QED BY <1>1, SynchronousInvariant, PTL DEF IInv
=============================================================================
