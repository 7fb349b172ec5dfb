--------------------------- MODULE XdmaCallsProofs ---------------------------
(***************************************************************************)
(* What the synchronous engine of XdmaEngine promises its callers, proved  *)
(* for any number of calls of any length on a ring of any size: it         *)
(* implements DmaCalls, accounts for its descriptors, fails a transfer     *)
(* only for a reason, and completes what nothing disturbs.  The invariant  *)
(* of XdmaEngineProofs says that what a call counts has moved; the ones    *)
(* here say that it is exactly this and what becomes of the rest.          *)
(***************************************************************************)
EXTENDS XdmaEngineProofs, FiniteSums

(***************************************************************************)
(* The invariants                                                          *)
(***************************************************************************)

\* Data in the first j pieces moved for call r.
Data(r, j) == SumOver(moved[r], 1 .. j)

\* Pieces of call r that were behind it when its transfer was built.
Before(r) == call[r].idx - xfer[r][0].num

\* The call has an error to return, or has returned.
GivenUp(r) ==
  \/ call[r].pc = "done"
  \/ call[r].pc \in {"wait", "claim"} /\ xfer[r][0].state = "FAILED"
  \/ call[r].pc = "free" /\ call[r].rv < 0

\* The call counts whole transfers, and its transfer is of the right pieces.
Accounts(r) ==
  LET c == call[r]
      x == xfer[r][0]
      sw == cfg.sdesc[r]
  IN
  /\ c.done \in Nat
  /\ c.ret # Pending \/ late[r] => c.pc = "done"
  /\ moved[r] \in Seq(1 .. desc_blen_max) /\ Len(moved[r]) <= Len(sw)
  /\ ~cfg.stream => \A i \in 1 .. Len(moved[r]) : moved[r][i] = sw[i]
  /\ c.pc \in {"idle", "mutex"} => c.done = 0 /\ Len(moved[r]) = 0
  /\ c.pc = "init" => Len(moved[r]) = c.idx /\ c.done = Data(r, c.idx)
  /\ c.pc \in {"check", "queue"} => Len(moved[r]) = Before(r)
  /\ c.pc \in Placed => c.done = Data(r, Before(r))
  /\ c.pc \in Built =>
       /\ x.lastInReq = (c.idx = Len(sw)) /\ x.len \in Int
       /\ SumOver(sw, 1 .. c.idx) = SumOver(sw, 1 .. Before(r)) + x.len
  /\ c.pc = "free" =>
       \/ c.rv = 0 /\ Len(moved[r]) = c.idx /\ c.done = Data(r, c.idx)
       \/ c.rv < 0 /\ Len(moved[r]) >= Before(r) /\ c.done = Data(r, Before(r))
  /\ c.pc \in {"wait", "claim"} =>
       /\ x.state \in {"SUBMITTED", "COMPLETED", "FAILED"}
       /\ x.state = "SUBMITTED" => list = <<<<r, 0>>>>
       /\ x.state = "COMPLETED" =>
            /\ Len(moved[r]) = c.idx /\ x.cmpl = x.num /\ hw.desc = Zeroed
            /\ cfg.stream =>
                 \A i \in 1 .. x.num : result[x.first - 1 + i] = moved[r][Before(r) + i]

\* The descriptors of a transfer in the ring are of the pieces not yet moved.
Pieces ==
  \A r \in Reqs : call[r].pc \in Placed =>
    LET x == xfer[r][0] IN
    \A i \in 1 .. x.num :
      /\ ring[x.first - 1 + i].len = cfg.sdesc[r][Before(r) + i]
      /\ ring[x.first - 1 + i].res = x.first - 1 + i
      /\ ring[x.first - 1 + i].last = (i = x.num)

\* The piece on its way is the next one of a call that waits for it or that
\* will say, or has said, that it was cut short.
OnItsWay ==
  hw.desc # Zeroed =>
    LET d == hw.desc IN
    /\ hw.busy /\ ~late[d.req]
    /\ Len(moved[d.req]) < Len(cfg.sdesc[d.req])
    /\ ~cfg.stream => d.len = cfg.sdesc[d.req][Len(moved[d.req]) + 1]
    /\ hw.old \/ list = <<>> => GivenUp(d.req)

\* The card's count is exactly of what has moved of the listed transfer.
Exact ==
  /\ ~engine.running => ~hw.run
  /\ hw.old => hw.desc # Zeroed /\ hw.count = 0
  /\ \A r \in Reqs : list = <<<<r, 0>>>> =>
       LET x == xfer[r][0] IN
       /\ hw.run \/ hw.desc # Zeroed \/ hw.count # 0 =>
            Len(moved[r]) = Before(r) + hw.count
       /\ hw.run /\ hw.busy =>
            hw.count + Fetched = IF hw.next = Null THEN x.num ELSE hw.next - x.first
       /\ Fetched = 1 => /\ hw.desc.res = x.first + hw.count
                         /\ hw.desc.last = (hw.next = Null)
       /\ cfg.stream =>
            \A i \in 1 .. hw.count : result[x.first - 1 + i] = moved[r][Before(r) + i]

\* What Exact says of the listed transfer.
ExactOf(r) ==
  LET x == xfer[r][0] IN
  /\ hw.run \/ hw.desc # Zeroed \/ hw.count # 0 =>
       Len(moved[r]) = Before(r) + hw.count
  /\ hw.run /\ hw.busy =>
       hw.count + Fetched = IF hw.next = Null THEN x.num ELSE hw.next - x.first
  /\ Fetched = 1 => /\ hw.desc.res = x.first + hw.count
                    /\ hw.desc.last = (hw.next = Null)
  /\ cfg.stream =>
       \A i \in 1 .. hw.count : result[x.first - 1 + i] = moved[r][Before(r) + i]

\* What the card writes to is there.
Fields == DOMAIN result = Slots /\ DOMAIN late = Reqs

DataInv == (\A r \in Reqs : Accounts(r)) /\ Pieces /\ OnItsWay /\ Exact /\ Fields

-----------------------------------------------------------------------------
LEMMA ExactByListed ==
  /\ Exact <=> /\ ~engine.running => ~hw.run
               /\ hw.old => hw.desc # Zeroed /\ hw.count = 0
               /\ \A r \in Reqs : list = <<<<r, 0>>>> => ExactOf(r)
  /\ Exact' <=> /\ ~engine'.running => ~hw'.run
                /\ hw'.old => hw'.desc # Zeroed /\ hw'.count = 0
                /\ \A r \in Reqs : list' = <<<<r, 0>>>> => ExactOf(r)'
  BY Zenon DEF Exact, ExactOf

(***************************************************************************)
(* Sums over what has moved                                                *)
(***************************************************************************)

\* What a call consists of.
LEMMA CallOf ==
  ASSUME SyncInv, NEW r \in Reqs
  PROVE  /\ cfg.sdesc[r] \in Seq(1 .. desc_blen_max) /\ Len(cfg.sdesc[r]) \in Nat
         /\ \A i \in 1 .. Len(cfg.sdesc[r]) : cfg.sdesc[r][i] \in 1 .. desc_blen_max
         /\ cfg.stream \in BOOLEAN
         /\ desc_blen_max \in Nat /\ DescMax \in Nat
         /\ moved[r] \in Seq(Nat) /\ Len(moved[r]) \in Nat
         /\ call[r].idx \in Nat /\ xfer[r][0].first \in Nat /\ xfer[r][0].num \in Nat
  <1>1. cfg \in Configs
    BY DEF SyncInv, TypeOK
  <1>2. cfg.sdesc[r] \in Seq(1 .. desc_blen_max) /\ cfg.stream \in BOOLEAN
    BY <1>1, ConfigsAssumption
  <1>3. \A i \in 1 .. Len(cfg.sdesc[r]) : cfg.sdesc[r][i] \in 1 .. desc_blen_max
    BY <1>2, ElementsOfSeq
  <1> QED BY <1>2, <1>3, ConfigsAssumption, KnownTypes DEF SyncInv, CallInv

LEMMA DataOfNone ==
  ASSUME NEW r \in Reqs
  PROVE  Data(r, 0) = 0
  <1>1. 1 .. 0 = {}
    OBVIOUS
  <1> QED BY <1>1, SumOfNone DEF Data

\* Every piece has at least one unit.
LEMMA DataGrows ==
  ASSUME SyncInv, NEW r \in Reqs, Accounts(r), NEW j \in 0 .. Len(moved[r])
  PROVE  Data(r, j) \in Nat /\ Data(r, j) >= j
  <1>1. j \in Nat /\ desc_blen_max \in Nat /\ Len(moved[r]) \in Nat
    BY CallOf
  <1>2. \A i \in 1 .. j : moved[r][i] \in 1 .. desc_blen_max
    <2>1. moved[r] \in Seq(1 .. desc_blen_max)
      BY DEF Accounts
    <2>2. \A i \in 1 .. Len(moved[r]) : moved[r][i] \in 1 .. desc_blen_max
      BY <2>1, ElementsOfSeq
    <2> QED BY <1>1, <2>2
  <1>3. SumOver(moved[r], 1 .. j) \in j * 1 .. j * desc_blen_max
    <2> DEFINE one == 1
               hi  == desc_blen_max
               F   == moved[r]
    <2>1. one \in Int /\ hi \in Int /\ \A i \in 1 .. j : F[i] \in one .. hi
      BY <1>1, <1>2
    <2> HIDE DEF one, hi, F
    <2>2. SumOver(F, 1 .. j) \in j * one .. j * hi
      BY <1>1, <2>1, SumBounds
    <2> QED BY <2>2 DEF one, hi, F
  <1>4. j * 1 = j /\ j * desc_blen_max \in Int
    BY <1>1
  <1> QED BY <1>1, <1>3, <1>4 DEF Data

\* The terms of G after the first b are kept in F from first on.
Copied(G, b, F, first, n) ==
  /\ \A i \in 1 .. b + n : G[i] \in Int
  /\ \A i \in 1 .. n : F[first - 1 + i] = G[b + i]

\* The sum of the first b + n terms is that of the first b and of the n others.
LEMMA SumOfPart ==
  ASSUME NEW first \in Nat, NEW b \in Nat, NEW n \in Nat, NEW F, NEW G,
         Copied(G, b, F, first, n)
  PROVE  SumOver(G, 1 .. b + n) = SumOver(G, 1 .. b) + SumOver(F, first .. first + n - 1)
  <1>1. PICK a \in Int : a = first - 1
    OBVIOUS
  <1>2. Continues(G, b, F, a, n)
    BY <1>1 DEF Continues, Copied
  <1>3. a + 1 .. a + n = first .. first + n - 1
    BY <1>1
  <1> QED BY <1>2, <1>3, SumContinued

\* A completed transfer adds exactly its pieces to what the call counts.
LEMMA CompletedData ==
  ASSUME SyncInv, NEW r \in Reqs, Accounts(r),
         call[r].pc = "claim", xfer[r][0].state = "COMPLETED"
  PROVE  call[r].done + DataOf(xfer[r][0], xfer[r][0].cmpl) = Data(r, call[r].idx)
  <1> DEFINE x  == xfer[r][0]
             b  == Before(r)
             sw == cfg.sdesc[r]
  <1>1. /\ x.first \in Nat /\ x.num \in Nat /\ call[r].idx \in Nat
        /\ x.num <= call[r].idx
    BY CallOf DEF SyncInv, CallInv, Built
  <1>2. b \in Nat /\ call[r].idx = b + x.num
    BY <1>1 DEF Before
  <1>3. /\ call[r].done = Data(r, b) /\ Len(moved[r]) = call[r].idx /\ x.cmpl = x.num
        /\ Len(moved[r]) <= Len(sw)
        /\ SumOver(sw, 1 .. call[r].idx) = SumOver(sw, 1 .. b) + x.len
        /\ ~cfg.stream => \A i \in 1 .. Len(moved[r]) : moved[r][i] = sw[i]
        /\ cfg.stream => \A i \in 1 .. x.num : result[x.first - 1 + i] = moved[r][b + i]
    BY DEF Accounts, Placed, Built
  <1>4. \A i \in 1 .. b + x.num : moved[r][i] \in Int
    <2>1. \A i \in 1 .. Len(moved[r]) : moved[r][i] \in Nat
      BY CallOf, ElementsOfSeq
    <2> QED BY <1>1, <1>2, <1>3, <2>1
  <1>5. CASE cfg.stream
    <2>1. DataOf(x, x.cmpl) = SumOver(result, x.first .. x.first + x.num - 1)
      BY <1>3, <1>5 DEF DataOf, SumOver
    <2>2. PICK first \in Nat, m \in Nat, n \in Nat : first = x.first /\ m = b /\ n = x.num
      BY <1>1, <1>2
    <2>3. Copied(moved[r], m, result, first, n)
      <3> HIDE DEF b, x
      <3>1. \A i \in 1 .. n : result[first - 1 + i] = moved[r][m + i]
        BY <1>3, <1>5, <2>2
      <3>2. \A i \in 1 .. m + n : moved[r][i] \in Int
        BY <1>4, <2>2
      <3> QED BY <3>1, <3>2 DEF Copied
    <2> HIDE DEF b, x
    <2>4. SumOver(moved[r], 1 .. m + n) =
            SumOver(moved[r], 1 .. m) + SumOver(result, first .. first + n - 1)
      BY <2>3, SumOfPart
    <2> QED BY <1>2, <1>3, <2>1, <2>2, <2>4 DEF Data, x
  <1>6. CASE ~cfg.stream
    <2>1. DataOf(x, x.cmpl) = x.len
      BY <1>6 DEF DataOf
    <2>2. \A i \in 1 .. call[r].idx : moved[r][i] = sw[i] /\ moved[r][i] \in Int
      BY <1>1, <1>2, <1>3, <1>4, <1>6
    <2>3. SumOver(moved[r], 1 .. call[r].idx) = SumOver(sw, 1 .. call[r].idx)
      <3>1. IsFiniteSet(1 .. call[r].idx)
        BY <1>1, FiniteInterval
      <3> DEFINE F == moved[r]
                 n == call[r].idx
      <3>2. \A i \in 1 .. n : F[i] = sw[i] /\ F[i] \in Int
        BY <2>2
      <3> HIDE DEF F, sw, n
      <3>3. SumOver(F, 1 .. n) = SumOver(sw, 1 .. n)
        BY <3>1, <3>2, SumOfEquals DEF n
      <3> QED BY <3>3 DEF F, n
    <2>4. SumOver(moved[r], 1 .. b) = SumOver(sw, 1 .. b)
      <3>1. IsFiniteSet(1 .. b) /\ \A i \in 1 .. b : i \in 1 .. call[r].idx
        <4> HIDE DEF b, x
        <4>1. IsFiniteSet(1 .. b)
          BY <1>2, FiniteInterval
        <4>2. \A i \in 1 .. b : i \in 1 .. call[r].idx
          BY <1>1, <1>2
        <4> QED BY <4>1, <4>2
      <3> QED BY <2>2, <3>1, SumOfEquals
    <2> QED BY <1>3, <2>1, <2>3, <2>4 DEF Data
  <1> QED BY <1>5, <1>6, CallOf

-----------------------------------------------------------------------------
(***************************************************************************)
(* DataInv: two frames, as in XdmaEngineProofs                             *)
(***************************************************************************)

\* A step of one call that leaves the engine, the transfers and the card alone.
LEMMA CallDataFrame ==
  ASSUME SyncInv, DataInv, NEW r \in Reqs, NEW from, NEW to, Goes(r, from, to),
         UNCHANGED <<cfg, xfer, engine, list, ring, result, hw, moved, late>>,
         Accounts(r)', GivenUp(r) => GivenUp(r)', to \in Placed => from \in Placed
  PROVE  DataInv'
  <1> USE DEF Goes
  <1>1. ASSUME NEW q \in Reqs PROVE Accounts(q)'
    <2>1. CASE q # r
      <3>1. Accounts(q) /\ call'[q] = call[q]
        BY <2>1 DEF DataInv
      <3> QED BY <3>1 DEF Accounts, Before, Data
    <2> QED BY <2>1, SMTT(30)
  <1>2. \A q \in Reqs : /\ call'[q].idx = call[q].idx
                        /\ call'[q].pc \in Placed => call[q].pc \in Placed
                        /\ GivenUp(q) => GivenUp(q)'
    <2>1. \A q \in Reqs \ {r} : GivenUp(q) => GivenUp(q)'
      BY DEF GivenUp
    <2> QED BY <2>1
  <1>3. Pieces'
    BY <1>2 DEF DataInv, Pieces, Before
  <1>4. OnItsWay'
    <2>1. hw.desc # Zeroed => hw.desc.req \in Reqs
      BY KnownTypes DEF Desc
    <2> QED BY <1>2, <2>1 DEF DataInv, OnItsWay
  <1>5. Exact'
    BY <1>2 DEF DataInv, Exact, Fetched, Before
  <1> QED BY <1>1, <1>3, <1>4, <1>5 DEF DataInv, Fields

\* A step that leaves the calls and what the card is at alone.
LEMMA CardDataFrame ==
  ASSUME SyncInv, DataInv,
         UNCHANGED <<cfg, call, xfer, list, ring, result, moved, late>>,
         hw'.next = hw.next, hw'.desc = hw.desc, hw'.old = hw.old, hw'.count = hw.count,
         hw.desc # Zeroed => hw'.busy = hw.busy,
         hw'.run => hw.run, hw'.run /\ hw'.busy => hw.busy,
         ~engine'.running => ~hw'.run
  PROVE  DataInv'
  <1>1. ASSUME NEW q \in Reqs PROVE Accounts(q)'
    <2>1. Accounts(q)
      BY DEF DataInv
    <2> QED BY <2>1 DEF Accounts, Before, Data
  <1>2. Pieces'
    BY DEF DataInv, Pieces, Before
  <1>3. OnItsWay'
    BY DEF DataInv, OnItsWay, GivenUp
  <1>4. Exact'
    BY DEF DataInv, Exact, Fetched, Before
  <1> QED BY <1>1, <1>2, <1>3, <1>4 DEF DataInv, Fields

(***************************************************************************)
(* DataInv: the steps of the caller                                        *)
(***************************************************************************)

\* A call that returns before its transfer is queued.
LEMMA ReturnData ==
  ASSUME SyncInv, DataInv, NEW r \in Reqs, NEW from, Goes(r, from, "done"),
         call'[r].done \in Nat,
         UNCHANGED <<cfg, xfer, engine, list, ring, result, hw, moved, late>>
  PROVE  DataInv'
  <1>1. Accounts(r)'
    BY DEF Goes, DataInv, Accounts, Placed, Built
  <1>2. GivenUp(r) => GivenUp(r)'
    BY DEF Goes, GivenUp
  <1>3. "done" \notin Placed
    BY DEF Placed
  <1> QED BY <1>1, <1>2, <1>3, CallDataFrame

LEMMA SubmitData ==
  ASSUME SyncInv, DataInv, ~cfg.async, NEW r \in Reqs, Submit(r)
  PROVE  DataInv'
  <1>1. /\ UNCHANGED <<cfg, xfer, engine, list, ring, result, hw, moved, late>>
        /\ call[r].pc = "idle"
    BY DEF Submit, ghostVars
  <1>2. CASE dev.offline
    <2>1. call' = [call EXCEPT ![r].pc = "done", ![r].done = 0, ![r].ret = EBUSY]
      BY <1>2 DEF Submit, Return
    <2>2. Goes(r, "idle", "done") /\ call'[r].done = 0
      BY <1>1, <2>1 DEF SyncInv, Shape, Goes
    <2> QED BY <1>1, <2>2, ReturnData
  <1>3. CASE ~dev.offline
    <2>1. call' = [call EXCEPT ![r].pc = "mutex"]
      BY <1>3 DEF Submit
    <2>2. /\ Goes(r, "idle", "mutex") /\ call'[r].done = call[r].done
          /\ call'[r].ret = call[r].ret
      BY <1>1, <2>1 DEF SyncInv, Shape, Goes
    <2>3. Accounts(r)'
      BY <1>1, <2>2 DEF Goes, DataInv, Accounts, Placed, Built
    <2>4. (GivenUp(r) => GivenUp(r)') /\ "mutex" \notin Placed
      BY <1>1 DEF GivenUp, Placed
    <2> QED BY <1>1, <2>2, <2>3, <2>4, CallDataFrame
  <1> QED BY <1>2, <1>3

LEMMA LockDescsData ==
  ASSUME SyncInv, DataInv, NEW r \in Reqs, LockDescs(r)
  PROVE  DataInv'
  <1>1. /\ UNCHANGED <<cfg, xfer, engine, list, ring, result, hw, moved, late>>
        /\ call[r].pc = "mutex" /\ call' = [call EXCEPT ![r].pc = "init"]
    BY DEF LockDescs, ghostVars
  <1>2. /\ Goes(r, "mutex", "init") /\ call'[r].done = call[r].done
        /\ call'[r].ret = call[r].ret
    BY <1>1 DEF SyncInv, Shape, Goes
  <1>3. call[r].idx = 0
    BY <1>1 DEF SyncInv, CallInv
  <1>4. Accounts(r)'
    <2>1. Data(r, 0) = 0 /\ Data(r, 0)' = Data(r, 0)
      BY <1>1, DataOfNone DEF Data
    <2> QED BY <1>1, <1>2, <1>3, <2>1 DEF Goes, DataInv, Accounts, Placed, Built, Data
  <1>5. (GivenUp(r) => GivenUp(r)') /\ "init" \notin Placed
    BY <1>1 DEF GivenUp, Placed
  <1> QED BY <1>1, <1>2, <1>4, <1>5, CallDataFrame

LEMMA CheckOnlineData ==
  ASSUME SyncInv, DataInv, NEW r \in Reqs, CheckOnline(r)
  PROVE  DataInv'
  <1>1. /\ UNCHANGED <<cfg, xfer, engine, list, ring, result, hw, moved, late>>
        /\ call[r].pc = "check"
    BY DEF CheckOnline, ghostVars
  <1>2. CASE dev.offline
    <2> DEFINE d == call[r].done
    <2>1. /\ call' = [call EXCEPT ![r].pc = "done", ![r].done = d,
                                  ![r].ret = IF d > 0 THEN d ELSE EBUSY]
          /\ d \in Nat
      BY <1>2 DEF CheckOnline, Return, DataInv, Accounts
    <2> HIDE DEF d
    <2>2. Goes(r, "check", "done") /\ call'[r].done = d
      BY <1>1, <2>1 DEF SyncInv, Shape, Goes
    <2> QED BY <1>1, <2>1, <2>2, ReturnData
  <1>3. CASE ~dev.offline
    <2>1. call' = [call EXCEPT ![r].pc = "queue"]
      BY <1>3 DEF CheckOnline
    <2>2. /\ Goes(r, "check", "queue") /\ call'[r].done = call[r].done
          /\ call'[r].ret = call[r].ret
      BY <1>1, <2>1 DEF SyncInv, Shape, Goes
    <2>3. Accounts(r)'
      BY <1>1, <2>2 DEF Goes, DataInv, Accounts, Placed, Built, Before, Data
    <2>4. (GivenUp(r) => GivenUp(r)') /\ "check" \in Placed
      BY <1>1 DEF GivenUp, Placed
    <2> QED BY <1>1, <2>2, <2>3, <2>4, CallDataFrame
  <1> QED BY <1>2, <1>3

LEMMA RefuseTransferData ==
  ASSUME SyncInv, DataInv, NEW r \in Reqs, RefuseTransfer(r)
  PROVE  DataInv'
  <1> DEFINE d == call[r].done
  <1>1. /\ UNCHANGED <<cfg, xfer, engine, list, ring, result, hw, moved, late>>
        /\ call[r].pc = "queue" /\ d \in Nat
        /\ call' = [call EXCEPT ![r].pc = "done", ![r].done = d,
                                ![r].ret = IF d > 0 THEN d ELSE EBUSY]
    BY DEF RefuseTransfer, Return, ghostVars, DataInv, Accounts
  <1> HIDE DEF d
  <1>2. Goes(r, "queue", "done") /\ call'[r].done = d
    BY <1>1 DEF SyncInv, Shape, Goes
  <1> QED BY <1>1, <1>2, ReturnData

LEMMA WakeData ==
  ASSUME SyncInv, DataInv, NEW r \in Reqs, Wake(r)
  PROVE  DataInv'
  <1>1. /\ UNCHANGED <<cfg, xfer, engine, list, ring, result, hw, moved, late>>
        /\ call[r].pc = "wait" /\ call' = [call EXCEPT ![r].pc = "claim"]
    BY DEF Wake, ghostVars
  <1>2. /\ Goes(r, "wait", "claim") /\ call'[r].done = call[r].done
        /\ call'[r].ret = call[r].ret
    BY <1>1, SMTT(30) DEF SyncInv, Shape, Goes
  <1>3. Accounts(r)'
    BY <1>1, <1>2 DEF Goes, DataInv, Accounts, Placed, Built, Before, Data
  <1>4. (GivenUp(r) => GivenUp(r)') /\ "wait" \in Placed
    BY <1>1, <1>2 DEF GivenUp, Placed, Goes
  <1> QED BY <1>1, <1>2, <1>3, <1>4, CallDataFrame

LEMMA ClaimFailedData ==
  ASSUME SyncInv, DataInv, NEW r \in Reqs, ClaimFailed(r)
  PROVE  DataInv'
  <1>1. /\ UNCHANGED <<cfg, xfer, engine, list, ring, result, hw, moved, late>>
        /\ call[r].pc = "claim" /\ xfer[r][0].state = "FAILED"
        /\ call' = [call EXCEPT ![r].pc = "free", ![r].rv = EIO]
    BY DEF ClaimFailed, ghostVars
  <1>2. /\ Goes(r, "claim", "free") /\ call'[r].done = call[r].done
        /\ call'[r].ret = call[r].ret /\ call'[r].rv = EIO /\ EIO < 0
    BY <1>1 DEF SyncInv, Shape, Goes, EIO
  <1>3. Len(moved[r]) >= Before(r)
    BY <1>1, SMTT(30) DEF SyncInv, CallInv, Placed, Before
  <1>4. Accounts(r)'
    BY <1>1, <1>2, <1>3 DEF Goes, DataInv, Accounts, Placed, Built, Before, Data
  <1>5. (GivenUp(r) => GivenUp(r)') /\ "free" \notin Placed
    BY <1>2 DEF GivenUp, Placed, Goes
  <1> QED BY <1>1, <1>2, <1>4, <1>5, CallDataFrame

LEMMA ClaimCompletedData ==
  ASSUME SyncInv, DataInv, NEW r \in Reqs, ClaimCompleted(r)
  PROVE  DataInv'
  <1> DEFINE d == call[r].done + DataOf(xfer[r][0], xfer[r][0].cmpl)
  <1>1. /\ UNCHANGED <<cfg, xfer, engine, list, ring, result, hw, moved, late>>
        /\ call[r].pc = "claim" /\ xfer[r][0].state = "COMPLETED"
        /\ call' = [call EXCEPT ![r].pc = "free", ![r].rv = 0, ![r].done = d]
    BY DEF ClaimCompleted, ghostVars
  <1>2. Accounts(r) /\ Len(moved[r]) = call[r].idx
    BY <1>1 DEF DataInv, Accounts
  <1>3. d = Data(r, call[r].idx)
    BY <1>1, <1>2, CompletedData
  <1>4. call[r].idx \in 0 .. Len(moved[r]) /\ d \in Nat
    <2>1. call[r].idx \in 0 .. Len(moved[r])
      BY <1>2, CallOf
    <2> QED BY <1>2, <1>3, <2>1, DataGrows
  <1> HIDE DEF d
  <1>5. /\ Goes(r, "claim", "free") /\ call'[r].done = d
        /\ call'[r].ret = call[r].ret /\ call'[r].rv = 0
    BY <1>1, SMTT(30) DEF SyncInv, Shape, Goes
  <1>6. Accounts(r)'
    BY <1>1, <1>2, <1>3, <1>4, <1>5 DEF Goes, Accounts, Placed, Built, Before, Data
  <1>7. (GivenUp(r) => GivenUp(r)') /\ "free" \notin Placed
    BY <1>1 DEF GivenUp, Placed
  <1> QED BY <1>1, <1>5, <1>6, <1>7, CallDataFrame

(***************************************************************************)
(* DataInv: the interrupt, the service routine and the reset               *)
(***************************************************************************)

\* The card and what the driver knows of its run stay as they are.
LEMMA SameCardData ==
  ASSUME SyncInv, DataInv,
         UNCHANGED <<cfg, call, xfer, list, ring, result, moved, late, hw>>,
         engine'.running = engine.running
  PROVE  DataInv'
  <1>1. ~engine.running => ~hw.run
    BY DEF DataInv, Exact
  <1> QED BY <1>1, CardDataFrame

LEMMA InterruptData ==
  ASSUME SyncInv, DataInv, Interrupt
  PROVE  DataInv'
  BY SameCardData DEF Interrupt, ghostVars

LEMMA ServiceStoppedData ==
  ASSUME SyncInv, DataInv, ServiceStopped
  PROVE  DataInv'
  <1>1. /\ UNCHANGED <<cfg, call, xfer, list, ring, result, moved, late, engine>>
        /\ hw' = [hw EXCEPT !.stop = FALSE, !.err = FALSE] /\ ~engine.running
    BY DEF ServiceStopped, ghostVars
  <1>2. /\ hw'.next = hw.next /\ hw'.desc = hw.desc /\ hw'.old = hw.old
        /\ hw'.count = hw.count /\ hw'.busy = hw.busy /\ hw'.run = hw.run
    BY <1>1 DEF SyncInv, Shape
  <1>3. ~hw.run
    BY <1>1 DEF DataInv, Exact
  <1> QED BY <1>1, <1>2, <1>3, CardDataFrame

LEMMA ServiceStatusData ==
  ASSUME SyncInv, DataInv, ServiceStatus
  PROVE  DataInv'
  <1>1. /\ UNCHANGED <<cfg, call, xfer, list, ring, result, moved, late>>
        /\ hw' = [hw EXCEPT !.stop = FALSE, !.err = FALSE, !.run = @ /\ hw.busy]
        /\ engine.running /\ engine' = IF hw.busy THEN engine ELSE Stopped(engine)
    BY DEF ServiceStatus, ghostVars
  <1>2. /\ hw'.next = hw.next /\ hw'.desc = hw.desc /\ hw'.old = hw.old
        /\ hw'.count = hw.count /\ hw'.busy = hw.busy /\ hw'.run = (hw.run /\ hw.busy)
    BY <1>1 DEF SyncInv, Shape
  <1>3. ~engine'.running => ~hw.busy
    BY <1>1
  <1> QED BY <1>1, <1>2, <1>3, CardDataFrame

LEMMA ServiceNothingData ==
  ASSUME SyncInv, DataInv, ServiceNothing
  PROVE  DataInv'
  BY SameCardData DEF ServiceNothing, ghostVars

LEMMA OfflineFlagData ==
  ASSUME SyncInv, DataInv, OfflineFlag
  PROVE  DataInv'
  BY SameCardData DEF OfflineFlag, ghostVars

LEMMA OfflineStopData ==
  ASSUME SyncInv, DataInv, OfflineStop
  PROVE  DataInv'
  <1>1. /\ UNCHANGED <<cfg, call, xfer, list, ring, result, moved, late>>
        /\ hw' = [hw EXCEPT !.run = FALSE]
    BY DEF OfflineStop, HwStopped, ghostVars
  <1>2. /\ hw'.next = hw.next /\ hw'.desc = hw.desc /\ hw'.old = hw.old
        /\ hw'.count = hw.count /\ hw'.busy = hw.busy /\ hw'.run = FALSE
    BY <1>1 DEF SyncInv, Shape
  <1> QED BY <1>1, <1>2, CardDataFrame

LEMMA OnlineData ==
  ASSUME SyncInv, DataInv, OfflineIrq \/ OnlineRegs \/ OnlineAccept \/ OnlineIrq \/ OnlineFlag
  PROVE  DataInv'
  <1>1. UNCHANGED <<cfg, call, xfer, list, ring, result, moved, late, hw>>
    BY DEF OfflineIrq, OnlineRegs, OnlineAccept, OnlineIrq, OnlineFlag, ghostVars
  <1>2. engine'.running = engine.running
    BY DEF SyncInv, Shape, OfflineIrq, OnlineRegs, OnlineAccept, OnlineIrq, OnlineFlag
  <1> QED BY <1>1, <1>2, SameCardData

\* The reset loses what was on its way; what has not been completed by then
\* never is.
LEMMA ResetCardData ==
  ASSUME SyncInv, DataInv, ResetCard
  PROVE  DataInv'
  <1>1. /\ UNCHANGED <<cfg, call, xfer, engine, list, ring, result, moved, late>>
        /\ hw' = Card
    BY DEF ResetCard, ghostVars
  <1>2. /\ hw'.desc = Zeroed /\ ~hw'.run /\ ~hw'.busy /\ ~hw'.old /\ hw'.count = 0
    BY <1>1 DEF Card
  <1>3. ASSUME NEW q \in Reqs PROVE Accounts(q)'
    <2>1. Accounts(q)
      BY DEF DataInv
    <2> QED BY <1>1, <1>2, <2>1 DEF Accounts, Before, Data
  <1>4. Pieces'
    BY <1>1 DEF DataInv, Pieces, Before
  <1>5. OnItsWay'
    BY <1>2 DEF OnItsWay
  <1>6. Exact'
    <2>1. Fetched' = 0
      BY <1>2 DEF Fetched
    <2> QED BY <1>1, <1>2, <2>1 DEF DataInv, Exact
  <1> QED BY <1>1, <1>3, <1>4, <1>5, <1>6 DEF DataInv, Fields

(***************************************************************************)
(* DataInv: the card                                                       *)
(***************************************************************************)

LEMMA HwIdleData ==
  ASSUME SyncInv, DataInv, HwIdle
  PROVE  DataInv'
  <1>1. /\ UNCHANGED <<cfg, call, xfer, engine, list, ring, result, moved, late>>
        /\ hw' = [hw EXCEPT !.busy = FALSE] /\ hw.desc = Zeroed
    BY DEF HwIdle, hostVars, ghostVars
  <1>2. /\ hw'.next = hw.next /\ hw'.desc = hw.desc /\ hw'.old = hw.old
        /\ hw'.count = hw.count /\ hw'.busy = FALSE /\ hw'.run = hw.run
    BY <1>1 DEF SyncInv, Shape
  <1>3. ~engine.running => ~hw.run
    BY DEF DataInv, Exact
  <1> QED BY <1>1, <1>2, <1>3, CardDataFrame

LEMMA HwErrorData ==
  ASSUME SyncInv, DataInv, HwError
  PROVE  DataInv'
  <1>1. /\ UNCHANGED <<cfg, call, xfer, engine, list, ring, result, moved, late>>
        /\ hw' = [hw EXCEPT !.err = TRUE, !.busy = FALSE, !.desc = Zeroed, !.old = FALSE]
        /\ hw.desc # Zeroed
    BY DEF HwError, hostVars, ghostVars
  <1>2. /\ hw'.desc = Zeroed /\ hw'.run = hw.run /\ ~hw'.busy /\ ~hw'.old
        /\ hw'.count = hw.count
    BY <1>1 DEF SyncInv, Shape
  <1>3. ASSUME NEW q \in Reqs PROVE Accounts(q)'
    <2>1. Accounts(q)
      BY DEF DataInv
    <2> QED BY <1>1, <1>2, <2>1 DEF Accounts, Before, Data
  <1>4. Pieces'
    BY <1>1 DEF DataInv, Pieces, Before
  <1>5. OnItsWay'
    BY <1>2 DEF OnItsWay
  <1>6. Exact'
    <2>1. Fetched' = 0
      BY <1>2 DEF Fetched
    <2> QED BY <1>1, <1>2, <2>1 DEF DataInv, Exact, Before
  <1> QED BY <1>1, <1>3, <1>4, <1>5, <1>6 DEF DataInv, Fields

\* A running card works for the call that waits; the descriptor it fetches is
\* of the piece after those it has counted.
LEMMA Fetch ==
  ASSUME SyncInv, DataInv, hw.run, hw.busy, hw.desc = Zeroed, hw.next # Null
  PROVE  \E r \in Reqs :
           /\ list = <<<<r, 0>>>> /\ call[r].pc \in {"wait", "claim"}
           /\ xfer[r][0].state = "SUBMITTED" /\ ~hw.old /\ engine.running
           /\ hw.next = xfer[r][0].first + hw.count
           /\ hw.count + 1 \in 1 .. xfer[r][0].num
           /\ Len(moved[r]) = Before(r) + hw.count
           /\ ring[hw.next].req = r
           /\ ring[hw.next].len = cfg.sdesc[r][Len(moved[r]) + 1]
           /\ ring[hw.next].res = hw.next
           /\ ring[hw.next].last = (hw.count + 1 = xfer[r][0].num)
           /\ ring[hw.next].next = IF hw.count + 1 = xfer[r][0].num THEN Null
                                   ELSE hw.next + 1
  <1>1. engine.running /\ list # <<>> /\ ~hw.old
    BY DEF SyncInv, ListInv, DataInv, Exact
  <1>2. PICK r \in Reqs : /\ list = <<<<r, 0>>>> /\ call[r].pc \in {"wait", "claim"}
                          /\ xfer[r][0].state = "SUBMITTED"
    BY <1>1 DEF SyncInv, ListInv
  <1> DEFINE x == xfer[r][0]
  <1>3. Fetched = 0 /\ hw.count \in Nat /\ hw.next \in Int
    BY KnownTypes DEF Fetched, Slots, Null
  <1>4. /\ hw.next \in SlotsOf(x)
        /\ hw.count + Fetched = hw.next - x.first
        /\ Len(moved[r]) = Before(r) + hw.count
    BY <1>2 DEF SyncInv, RunInv, DataInv, Exact
  <1>5. x.first \in Nat /\ x.num \in Nat
    BY CallOf
  <1>6. /\ hw.next = x.first + hw.count /\ hw.count + 1 \in 1 .. x.num
        /\ x.first - 1 + (hw.count + 1) = hw.next
        /\ hw.next = x.first + x.num - 1 <=> hw.count + 1 = x.num
    <2>1. hw.next \in x.first .. x.first + x.num - 1 /\ hw.count = hw.next - x.first
      BY <1>3, <1>4 DEF SlotsOf
    <2> DEFINE f == x.first
               n == x.num
               c == hw.count
               s == hw.next
    <2>2. /\ f \in Nat /\ n \in Nat /\ c \in Nat /\ s \in Int
          /\ s \in f .. f + n - 1 /\ c = s - f
      BY <1>3, <1>5, <2>1
    <2> HIDE DEF f, n, c, s
    <2>3. /\ s = f + c /\ c + 1 \in 1 .. n /\ f - 1 + (c + 1) = s
          /\ s = f + n - 1 <=> c + 1 = n
      BY <2>2
    <2> QED BY <2>3 DEF f, n, c, s
  <1>7. /\ ring[hw.next].req = r
        /\ ring[hw.next].next = IF hw.count + 1 = x.num THEN Null ELSE hw.next + 1
    <2>1. \A s \in SlotsOf(x) :
            /\ ring[s].req = r
            /\ ring[s].next = IF s = x.first + x.num - 1 THEN Null ELSE s + 1
      BY <1>2 DEF SyncInv, RingInv, Placed
    <2> HIDE DEF x
    <2>2. /\ ring[hw.next].req = r
          /\ ring[hw.next].next = IF hw.next = x.first + x.num - 1 THEN Null ELSE hw.next + 1
      BY <1>4, <2>1
    <2> QED BY <1>3, <1>5, <1>6, <2>2
  <1>8. /\ ring[hw.next].len = cfg.sdesc[r][Before(r) + (hw.count + 1)]
        /\ ring[hw.next].res = hw.next
        /\ ring[hw.next].last = (hw.count + 1 = x.num)
    <2>1. \A i \in 1 .. x.num : /\ ring[x.first - 1 + i].len = cfg.sdesc[r][Before(r) + i]
                                /\ ring[x.first - 1 + i].res = x.first - 1 + i
                                /\ ring[x.first - 1 + i].last = (i = x.num)
      BY <1>2 DEF DataInv, Pieces, Placed
    <2> HIDE DEF x
    <2>2. PICK i \in 1 .. x.num : i = hw.count + 1
      BY <1>3, <1>5, <1>6
    <2>3. x.first - 1 + i = hw.next
      BY <1>3, <1>5, <1>6, <2>2
    <2> QED BY <2>1, <2>2, <2>3
  <1>9. Before(r) + (hw.count + 1) = Len(moved[r]) + 1
    <2>1. Before(r) \in Int
      BY CallOf DEF Before
    <2> QED BY <1>3, <1>4, <2>1
  <1>10. /\ hw.next = x.first + hw.count /\ hw.count + 1 \in 1 .. x.num
         /\ Len(moved[r]) = Before(r) + hw.count
    <2> HIDE DEF x
    <2> QED BY <1>3, <1>4, <1>5, <1>6
  <1>11. ring[hw.next].len = cfg.sdesc[r][Len(moved[r]) + 1]
    BY <1>8, <1>9
  <1>12. /\ hw.next = xfer[r][0].first + hw.count
         /\ hw.count + 1 \in 1 .. xfer[r][0].num
         /\ ring[hw.next].last = (hw.count + 1 = xfer[r][0].num)
         /\ ring[hw.next].next = IF hw.count + 1 = xfer[r][0].num THEN Null
                                 ELSE hw.next + 1
    BY <1>7, <1>8, <1>10, SMTT(30)
  <1> WITNESS r \in Reqs
  <1> QED BY <1>1, <1>2, <1>7, <1>8, <1>10, <1>11, <1>12

\* The pointer that follows the descriptor fetched tells how many there are.
LEMMA NextAfterFetch ==
  ASSUME NEW first \in Nat, NEW num \in Nat, NEW count \in Nat, NEW next,
         count + 1 = num => next = Null,
         count + 1 # num => next = (first + count) + 1
  PROVE  /\ next = Null => count + 1 = num
         /\ next # Null => count + 1 = next - first
         /\ count + 1 = num <=> next = Null
  BY DEF Null

LEMMA HwFetchData ==
  ASSUME SyncInv, DataInv, HwFetch
  PROVE  DataInv'
  <1>1. /\ UNCHANGED <<cfg, call, xfer, engine, list, ring, result, moved, late>>
        /\ hw.run /\ hw.busy /\ hw.desc = Zeroed /\ hw.next # Null
    BY DEF HwFetch, hostVars, ghostVars
  <1>2. CASE ring[hw.next] = Zeroed
    <2>1. hw' = [hw EXCEPT !.err = TRUE, !.busy = FALSE]
      BY <1>2 DEF HwFetch
    <2>2. /\ hw'.next = hw.next /\ hw'.desc = hw.desc /\ hw'.old = hw.old
          /\ hw'.count = hw.count /\ hw'.busy = FALSE /\ hw'.run = hw.run
      BY <2>1 DEF SyncInv, Shape
    <2>3. ~engine.running => ~hw.run
      BY DEF DataInv, Exact
    <2> QED BY <1>1, <2>2, <2>3, CardDataFrame
  <1>3. CASE ring[hw.next] # Zeroed
    <2>1. hw' = [hw EXCEPT !.desc = ring[hw.next], !.next = ring[hw.next].next]
      BY <1>3 DEF HwFetch
    <2>2. /\ hw'.next = ring[hw.next].next /\ hw'.desc = ring[hw.next] /\ hw'.old = hw.old
          /\ hw'.count = hw.count /\ hw'.busy = hw.busy /\ hw'.run = hw.run
      BY <2>1 DEF SyncInv, Shape
    <2>3. PICK r \in Reqs :
            /\ list = <<<<r, 0>>>> /\ call[r].pc \in {"wait", "claim"}
            /\ xfer[r][0].state = "SUBMITTED" /\ ~hw.old /\ engine.running
            /\ hw.next = xfer[r][0].first + hw.count
            /\ hw.count + 1 \in 1 .. xfer[r][0].num
            /\ Len(moved[r]) = Before(r) + hw.count
            /\ ring[hw.next].req = r
            /\ ring[hw.next].len = cfg.sdesc[r][Len(moved[r]) + 1]
            /\ ring[hw.next].res = hw.next
            /\ ring[hw.next].last = (hw.count + 1 = xfer[r][0].num)
            /\ ring[hw.next].next = IF hw.count + 1 = xfer[r][0].num THEN Null
                                    ELSE hw.next + 1
      BY <1>1, Fetch
    <2>4. /\ xfer[r][0].first \in Nat /\ xfer[r][0].num \in Nat /\ call[r].idx \in Nat
          /\ Len(cfg.sdesc[r]) \in Nat /\ hw.count \in Nat
      BY CallOf, KnownTypes
    <2>5. ASSUME NEW q \in Reqs PROVE Accounts(q)'
      <3>1. Accounts(q)
        BY DEF DataInv
      <3>2. ~(call[q].pc \in {"wait", "claim"} /\ xfer[q][0].state = "COMPLETED")
        <4>1. call[q].pc \in {"wait", "claim"} => q = r
          BY <2>3, OnlyHolder DEF SyncInv, Active
        <4> QED BY <2>3, <4>1
      <3> QED BY <1>1, <3>1, <3>2 DEF Accounts, Before, Data
    <2>6. Pieces'
      BY <1>1 DEF DataInv, Pieces, Before
    <2>7. OnItsWay'
      <3>1. ~late[r]
        BY <2>3, SMTT(30) DEF DataInv, Accounts
      <3>2. Len(moved[r]) < Len(cfg.sdesc[r])
        <4>1. call[r].idx <= Len(cfg.sdesc[r])
          BY <2>3 DEF SyncInv, CallInv, Built
        <4> DEFINE n == xfer[r][0].num
                   i == call[r].idx
                   l == Len(cfg.sdesc[r])
                   m == Len(moved[r])
        <4>2. m = (i - n) + hw.count /\ hw.count + 1 <= n /\ i <= l
          BY <2>3, <2>4, <4>1 DEF Before
        <4>3. n \in Nat /\ i \in Nat /\ l \in Nat /\ hw.count \in Nat
          BY <2>4
        <4> HIDE DEF n, i, l, m
        <4>4. m < l
          BY <4>2, <4>3
        <4> QED BY <4>4 DEF l, m
      <3> QED BY <1>1, <2>2, <2>3, <3>1, <3>2, SMTT(30) DEF OnItsWay
    <2>8. Exact'
      <3>1. Fetched' = 1
        BY <1>3, <2>2, <2>3 DEF Fetched
      <3>0. /\ hw'.next = Null => hw'.count + 1 = xfer[r][0].num
            /\ hw'.next # Null => hw'.count + 1 = hw'.next - xfer[r][0].first
            /\ hw'.count + 1 = xfer[r][0].num <=> hw'.next = Null
        <4>0. /\ hw'.next = ring[hw.next].next /\ hw'.count = hw.count
              /\ hw.next = xfer[r][0].first + hw.count
              /\ ring[hw.next].next = IF hw.count + 1 = xfer[r][0].num THEN Null
                                      ELSE hw.next + 1
          BY <2>2, <2>3, Zenon
        <4>1. /\ hw'.count + 1 = xfer[r][0].num => hw'.next = Null
              /\ hw'.count + 1 # xfer[r][0].num =>
                   hw'.next = (xfer[r][0].first + hw'.count) + 1
          BY <4>0, Zenon
        <4>2. hw'.count \in Nat
          BY <2>2, <2>4
        <4> DEFINE first == xfer[r][0].first
                   num   == xfer[r][0].num
                   count == hw'.count
                   next  == hw'.next
        <4>3. /\ first \in Nat /\ num \in Nat /\ count \in Nat
              /\ count + 1 = num => next = Null
              /\ count + 1 # num => next = (first + count) + 1
          BY <2>4, <4>1, <4>2, Zenon
        <4> HIDE DEF first, num, count, next
        <4>4. /\ next = Null => count + 1 = num
              /\ next # Null => count + 1 = next - first
              /\ count + 1 = num <=> next = Null
          BY <4>3, NextAfterFetch
        <4> QED BY <4>4, Zenon DEF first, num, count, next
      <3>2. hw'.count + Fetched' = IF hw'.next = Null THEN xfer[r][0].num
                                   ELSE hw'.next - xfer[r][0].first
        BY <3>0, <3>1, Zenon
      <3>3. hw'.desc.res = xfer[r][0].first + hw'.count
            /\ hw'.desc.last = (hw'.next = Null)
        <4>1. hw'.desc.res = xfer[r][0].first + hw'.count
          BY <2>2, <2>3, Zenon
        <4>2. hw'.desc.last = (hw'.count + 1 = xfer[r][0].num)
          BY <2>2, <2>3, Zenon
        <4> QED BY <3>0, <4>1, <4>2, Zenon
      <3>4. /\ ~hw'.old /\ list' = <<<<r, 0>>>>
            /\ ~engine.running => ~hw.run
            /\ cfg.stream => \A i \in 1 .. hw.count :
                 result[xfer[r][0].first - 1 + i] = moved[r][Before(r) + i]
        BY <1>1, <2>2, <2>3 DEF DataInv, Exact
      <3>5. /\ xfer' = xfer /\ moved' = moved /\ result' = result /\ cfg' = cfg
            /\ Before(r)' = Before(r) /\ hw'.count = hw.count
        BY <1>1, <2>2 DEF Before
      <3>6. Len(moved[r]) = Before(r) + hw.count
        BY <2>3
      <3>7. ExactOf(r)'
        BY <3>2, <3>3, <3>4, <3>5, <3>6, Zenon DEF ExactOf
      <3>8. \A q \in Reqs : list' = <<<<q, 0>>>> => q = r
        BY <3>4
      <3>9. engine'.running
        BY <1>1, <2>3
      <3> QED BY <3>4, <3>7, <3>8, <3>9, ExactByListed, Zenon
    <2> QED BY <1>1, <2>5, <2>6, <2>7, <2>8 DEF DataInv, Fields
  <1> QED BY <1>2, <1>3

\* What a call has already been given stays what it is as more moves.
LEMMA SumOfPrefix ==
  ASSUME NEW s \in Seq(Nat), NEW e \in Nat, NEW j \in 0 .. Len(s)
  PROVE  SumOver(Append(s, e), 1 .. j) = SumOver(s, 1 .. j)
  <1>1. Append(s, e) \in Seq(Nat)
    OBVIOUS
  <1>2. IsFiniteSet(1 .. j)
    BY FiniteInterval
  <1>3. \A i \in 1 .. j : s[i] = Append(s, e)[i] /\ s[i] \in Int
    OBVIOUS
  <1> QED BY <1>2, <1>3, SumOfEquals

\* What a move does: the piece belongs to a call that has been given up and the
\* present run knows nothing of it, or to the call that waits for this run.
LEMMA MoveEffect ==
  ASSUME SyncInv, DataInv, HwMove
  PROVE  \E r \in Reqs, len \in 1 .. desc_blen_max :
           /\ UNCHANGED <<cfg, call, xfer, engine, list, ring>>
           /\ ~late[r] /\ Len(moved[r]) < Len(cfg.sdesc[r])
           /\ ~cfg.stream => len = cfg.sdesc[r][Len(moved[r]) + 1]
           /\ moved' = [moved EXCEPT ![r] = Append(@, len)]
           /\ late' = [late EXCEPT ![r] = call[r].ret # Pending]
           /\ hw.busy /\ hw.desc # Zeroed
           /\ hw'.desc = Zeroed /\ hw'.run = hw.run /\ hw'.next = hw.next /\ ~hw'.old
           /\ DOMAIN result' = Slots
           /\ \/ /\ hw.old \/ list = <<>>
                 /\ GivenUp(r)
                 /\ hw.old => hw'.count = hw.count /\ hw.count = 0
              \/ /\ ~hw.old /\ list = <<<<r, 0>>>>
                 /\ call[r].pc \in {"wait", "claim"} /\ xfer[r][0].state = "SUBMITTED"
                 /\ Fetched = 1 /\ hw'.count = hw.count + 1
                 /\ hw.count + 1 <= xfer[r][0].num
                 /\ cfg.stream =>
                      result' = [result EXCEPT ![xfer[r][0].first + hw.count] = len]
  <1> DEFINE d == hw.desc
  <1>1. /\ UNCHANGED <<cfg, call, xfer, engine, list, ring>>
        /\ d # Zeroed
        /\ hw' = [hw EXCEPT
              !.desc = Zeroed, !.old = FALSE,
              !.count = IF hw.old THEN @ ELSE (@ + 1) % CountMod,
              !.stop = @ \/ (d.last /\ (hw.old => "stray" \in cfg.faults)),
              !.busy = hw.old \/ (IF d.last THEN "busy" \in cfg.faults ELSE hw.run)]
        /\ late' = [late EXCEPT ![d.req] = call[d.req].ret # Pending]
    BY DEF HwMove, hostVars
  <1>2. d \in [req : Reqs, len : 1 .. desc_blen_max, last : BOOLEAN,
               next : Slots \cup {Null}, res : Slots]
    BY <1>1, KnownTypes DEF Desc
  <1>3. PICK len \in IF cfg.stream THEN 1 .. d.len ELSE {d.len} :
          /\ moved' = [moved EXCEPT ![d.req] = Append(@, len)]
          /\ result' = IF cfg.stream THEN [result EXCEPT ![d.res] = len] ELSE result
    BY DEF HwMove
  <1>4. len \in 1 .. desc_blen_max /\ (~cfg.stream => len = d.len)
    <2>1. d.len \in Nat /\ d.len <= desc_blen_max /\ d.len >= 1 /\ desc_blen_max \in Nat
      BY <1>2, ConfigsAssumption
    <2>2. CASE cfg.stream
      BY <1>3, <2>1, <2>2
    <2>3. CASE ~cfg.stream
      BY <1>3, <2>1, <2>3
    <2> QED BY <2>2, <2>3
  <1>5. PICK r \in Reqs : r = d.req
    BY <1>2
  <1>6. /\ hw.busy /\ ~late[r] /\ Len(moved[r]) < Len(cfg.sdesc[r])
        /\ ~cfg.stream => len = cfg.sdesc[r][Len(moved[r]) + 1]
        /\ hw.old \/ list = <<>> => GivenUp(r)
    BY <1>1, <1>4, <1>5 DEF DataInv, OnItsWay
  <1>7. /\ hw'.desc = Zeroed /\ hw'.run = hw.run /\ hw'.next = hw.next /\ ~hw'.old
        /\ hw'.count = IF hw.old THEN hw.count ELSE (hw.count + 1) % CountMod
    <2> HIDE DEF d
    <2> QED BY <1>1 DEF SyncInv, Shape
  <1>8. DOMAIN result' = Slots
    BY <1>3 DEF DataInv, Fields
  <1>9. CASE hw.old \/ list = <<>>
    <2>1. GivenUp(r) /\ (hw.old => hw'.count = hw.count /\ hw.count = 0)
      BY <1>6, <1>7, <1>9 DEF DataInv, Exact
    <2>2. /\ moved' = [moved EXCEPT ![r] = Append(@, len)]
          /\ late' = [late EXCEPT ![r] = call[r].ret # Pending]
          /\ hw.desc # Zeroed /\ UNCHANGED <<cfg, call, xfer, engine, list, ring>>
      BY <1>1, <1>3, <1>5
    <2>3. len \in 1 .. desc_blen_max
      BY <1>4
    <2> HIDE DEF d
    <2> WITNESS r \in Reqs, len \in 1 .. desc_blen_max
    <2> QED BY <1>6, <1>7, <1>8, <1>9, <2>1, <2>2
  <1>10. CASE ~hw.old /\ list # <<>>
    <2>1. PICK q \in Reqs : /\ list = <<<<q, 0>>>> /\ call[q].pc \in {"wait", "claim"}
                            /\ xfer[q][0].state = "SUBMITTED"
      BY <1>10 DEF SyncInv, ListInv
    <2>2. Fetched = 1
      BY <1>1, <1>10 DEF Fetched
    <2>3. q = r /\ d.res = xfer[q][0].first + hw.count
      BY <1>5, <2>1, <2>2 DEF SyncInv, RunInv, DataInv, Exact
    <2>4. /\ xfer[r][0].num \in Nat /\ xfer[r][0].first \in Nat /\ hw.count \in Nat
          /\ xfer[r][0].num < CountMod /\ CountMod \in Nat
      BY <2>1, <2>3, Listed, ConfigsAssumption, SMTT(30)
    <2>5. hw.count + 1 <= xfer[r][0].num
      <3>1. IF hw.next = Null THEN hw.count + Fetched <= xfer[r][0].num
            ELSE /\ hw.next \in SlotsOf(xfer[r][0])
                 /\ hw.count + Fetched <= hw.next - xfer[r][0].first
        BY <2>1, <2>3 DEF SyncInv, RunInv
      <3>2. hw.next # Null => hw.next <= xfer[r][0].first + xfer[r][0].num - 1
                              /\ hw.next \in Int
        BY <3>1, <2>4 DEF SlotsOf
      <3> QED BY <2>2, <2>4, <3>1, <3>2
    <2>6. hw'.count = hw.count + 1
      <3>1. hw.count + 1 \in Nat /\ hw.count + 1 < CountMod
        BY <2>4, <2>5
      <3> QED BY <1>7, <1>10, <2>4, <3>1, SmallMod
    <2>7. cfg.stream => result' = [result EXCEPT ![xfer[r][0].first + hw.count] = len]
      <3> HIDE DEF d
      <3> QED BY <1>3, <2>3
    <2>8. /\ moved' = [moved EXCEPT ![r] = Append(@, len)]
          /\ late' = [late EXCEPT ![r] = call[r].ret # Pending]
      BY <1>1, <1>3, <1>5
    <2>9. /\ list = <<<<r, 0>>>> /\ call[r].pc \in {"wait", "claim"}
          /\ xfer[r][0].state = "SUBMITTED"
      BY <2>1, <2>3
    <2>10. hw.desc # Zeroed /\ UNCHANGED <<cfg, call, xfer, engine, list, ring>>
      BY <1>1
    <2> HIDE DEF d
    <2>11. len \in 1 .. desc_blen_max
      BY <1>4
    <2> WITNESS r \in Reqs, len \in 1 .. desc_blen_max
    <2> QED BY <1>6, <1>7, <1>8, <1>10, <2>2, <2>5, <2>6, <2>7, <2>8, <2>9, <2>10
  <1> QED BY <1>9, <1>10

\* The data of the earlier pieces, and of the other calls, when a piece moves.
LEMMA DataKept ==
  ASSUME SyncInv, NEW r \in Reqs, NEW len \in 1 .. desc_blen_max,
         moved' = [moved EXCEPT ![r] = Append(@, len)]
  PROVE  /\ moved' \in [Reqs -> Seq(Nat)]
         /\ moved'[r] = Append(moved[r], len) /\ Len(moved'[r]) = Len(moved[r]) + 1
         /\ \A i \in 1 .. Len(moved[r]) : moved'[r][i] = moved[r][i]
         /\ moved'[r][Len(moved[r]) + 1] = len
         /\ \A j \in 0 .. Len(moved[r]) : Data(r, j)' = Data(r, j)
         /\ \A q \in Reqs \ {r} : moved'[q] = moved[q]
  <1>1. moved \in [Reqs -> Seq(Nat)] /\ len \in Nat
    BY KnownTypes, ConfigsAssumption
  <1>2. moved'[r] = Append(moved[r], len)
    BY <1>1
  <1>3. ASSUME NEW j \in 0 .. Len(moved[r]) PROVE Data(r, j)' = Data(r, j)
    <2>1. moved[r] \in Seq(Nat)
      BY <1>1
    <2>2. SumOver(Append(moved[r], len), 1 .. j) = SumOver(moved[r], 1 .. j)
      BY <1>1, <2>1, SumOfPrefix
    <2> QED BY <1>2, <2>2 DEF Data
  <1> QED BY <1>1, <1>2, <1>3

LEMMA SlotsOfPieces ==
  ASSUME NEW f \in Nat, NEW n \in Nat, NEW c \in Nat, c + 1 <= n,
         DescMax \in Nat, f + n <= DescMax
  PROVE  \A i \in 1 .. c + 1 : f - 1 + i \in Slots
  BY DEF Slots

LEMMA HwMoveData ==
  ASSUME SyncInv, DataInv, HwMove
  PROVE  DataInv'
  <1>1. PICK r \in Reqs, len \in 1 .. desc_blen_max :
           /\ UNCHANGED <<cfg, call, xfer, engine, list, ring>>
           /\ ~late[r] /\ Len(moved[r]) < Len(cfg.sdesc[r])
           /\ ~cfg.stream => len = cfg.sdesc[r][Len(moved[r]) + 1]
           /\ moved' = [moved EXCEPT ![r] = Append(@, len)]
           /\ late' = [late EXCEPT ![r] = call[r].ret # Pending]
           /\ hw.busy /\ hw.desc # Zeroed
           /\ hw'.desc = Zeroed /\ hw'.run = hw.run /\ hw'.next = hw.next /\ ~hw'.old
           /\ DOMAIN result' = Slots
           /\ \/ /\ hw.old \/ list = <<>>
                 /\ GivenUp(r)
                 /\ hw.old => hw'.count = hw.count /\ hw.count = 0
              \/ /\ ~hw.old /\ list = <<<<r, 0>>>>
                 /\ call[r].pc \in {"wait", "claim"} /\ xfer[r][0].state = "SUBMITTED"
                 /\ Fetched = 1 /\ hw'.count = hw.count + 1
                 /\ hw.count + 1 <= xfer[r][0].num
                 /\ cfg.stream =>
                      result' = [result EXCEPT ![xfer[r][0].first + hw.count] = len]
    BY MoveEffect
  <1>2. /\ moved' \in [Reqs -> Seq(Nat)]
        /\ moved'[r] = Append(moved[r], len) /\ Len(moved'[r]) = Len(moved[r]) + 1
        /\ \A i \in 1 .. Len(moved[r]) : moved'[r][i] = moved[r][i]
        /\ moved'[r][Len(moved[r]) + 1] = len
        /\ \A j \in 0 .. Len(moved[r]) : Data(r, j)' = Data(r, j)
        /\ \A q \in Reqs \ {r} : moved'[q] = moved[q]
    BY <1>1, DataKept
  <1>3. /\ \A q \in Reqs \ {r} : late'[q] = late[q]
        /\ late'[r] => call[r].ret # Pending
        /\ DOMAIN late' = Reqs
    BY <1>1 DEF DataInv, Fields
  <1>4. /\ Len(moved[r]) \in Nat /\ Len(cfg.sdesc[r]) \in Nat /\ call[r].idx \in Nat
        /\ xfer[r][0].num \in Nat /\ xfer[r][0].first \in Nat /\ desc_blen_max \in Nat
        /\ hw.count \in Nat
    BY CallOf, KnownTypes
  <1>5. \A q \in Reqs : ~(call[q].pc \in {"wait", "claim"} /\ xfer[q][0].state = "COMPLETED")
    BY <1>1 DEF DataInv, Accounts
  <1>6. ASSUME NEW q \in Reqs, q # r PROVE Accounts(q)'
    <2>1. Accounts(q) /\ moved'[q] = moved[q] /\ late'[q] = late[q]
      BY <1>2, <1>3, <1>6 DEF DataInv
    <2>2. UNCHANGED <<cfg, call, xfer, list>>
      BY <1>1
    <2>3. ~(call[q].pc \in {"wait", "claim"} /\ xfer[q][0].state = "COMPLETED")
      BY <1>5
    <2> QED BY <2>1, <2>2, <2>3 DEF Accounts, Before, Data
  <1>7. Accounts(r)'
    <2>1. Accounts(r)
      BY DEF DataInv
    <2>2. /\ call'[r] = call[r] /\ xfer'[r] = xfer[r] /\ cfg' = cfg /\ list' = list
          /\ Before(r)' = Before(r)
      BY <1>1 DEF Before
    <2>3. \/ call[r].pc = "done"
          \/ call[r].pc \in {"wait", "claim"}
          \/ call[r].pc = "free" /\ call[r].rv < 0
      BY <1>1 DEF GivenUp
    <2>4. moved'[r] \in Seq(1 .. desc_blen_max) /\ Len(moved'[r]) <= Len(cfg.sdesc[r])
      <3>1. moved'[r] \in Seq(1 .. desc_blen_max)
        BY <1>2, <2>1 DEF Accounts
      <3> QED BY <1>1, <1>2, <1>4, <3>1
    <2>5. ~cfg.stream => \A i \in 1 .. Len(moved'[r]) : moved'[r][i] = cfg.sdesc[r][i]
      <3> SUFFICES ASSUME ~cfg.stream, NEW i \in 1 .. Len(moved'[r])
                   PROVE  moved'[r][i] = cfg.sdesc[r][i]
        OBVIOUS
      <3>1. CASE i = Len(moved[r]) + 1
        BY <1>1, <1>2, <3>1
      <3>2. CASE i # Len(moved[r]) + 1
        <4>1. i \in 1 .. Len(moved[r])
          BY <1>2, <1>4, <3>2, SMTT(30)
        <4> QED BY <1>2, <2>1, <4>1 DEF Accounts
      <3> QED BY <3>1, <3>2
    <2>6. /\ call[r].pc \in Placed => Before(r) \in 0 .. Len(moved[r])
          /\ call[r].pc = "free" /\ call[r].rv < 0 => Before(r) \in 0 .. Len(moved[r])
          /\ call[r].pc = "free" => ~(call[r].rv = 0)
      <3>1. call[r].pc \in Built => Before(r) \in Nat
        BY <1>4 DEF SyncInv, CallInv, Before
      <3>2. call[r].pc \in Placed => Len(moved[r]) >= Before(r)
        BY DEF SyncInv, CallInv, Before
      <3>3. call[r].pc = "free" /\ call[r].rv < 0 => Len(moved[r]) >= Before(r)
        BY <2>1 DEF Accounts
      <3> QED BY <1>4, <2>3, <3>1, <3>2, <3>3 DEF Placed, Built
    <2>7. /\ call[r].pc \in Placed => call[r].done = Data(r, Before(r))'
          /\ call[r].pc = "free" => /\ call[r].rv < 0 /\ Len(moved'[r]) >= Before(r)
                                    /\ call[r].done = Data(r, Before(r))'
      <3>1. Before(r) \in 0 .. Len(moved[r]) => Data(r, Before(r))' = Data(r, Before(r))
        BY <1>2, <2>2 DEF Data
      <3>2. Len(moved'[r]) >= Len(moved[r])
        BY <1>2, <1>4
      <3>3. Before(r) \in 0 .. Len(moved[r]) => Len(moved'[r]) >= Before(r)
        BY <1>2, <1>4
      <3>4. /\ call[r].pc \in Placed => call[r].done = Data(r, Before(r))
            /\ call[r].pc = "free" /\ ~(call[r].rv = 0) =>
                 call[r].rv < 0 /\ call[r].done = Data(r, Before(r))
        BY <2>1 DEF Accounts
      <3>5. CASE call[r].pc \in Placed
        <4>1. Before(r) \in 0 .. Len(moved[r]) /\ call[r].pc # "free"
          BY <2>6, <3>5 DEF Placed
        <4> QED BY <3>1, <3>4, <3>5, <4>1
      <3>6. CASE call[r].pc = "free"
        <4>1. Before(r) \in 0 .. Len(moved[r]) /\ call[r].pc \notin Placed
              /\ ~(call[r].rv = 0) /\ call[r].rv < 0
          BY <2>3, <2>6, <3>6, SMTT(30) DEF Placed
        <4> QED BY <3>1, <3>3, <3>4, <3>6, <4>1
      <3> QED BY <3>5, <3>6
    <2> QED BY <1>3, <1>5, <2>1, <2>2, <2>3, <2>4, <2>5, <2>7 DEF Accounts, Built, Placed
  <1>8. Pieces'
    BY <1>1 DEF DataInv, Pieces, Before
  <1>9. OnItsWay'
    BY <1>1 DEF OnItsWay
  <1>10. Exact'
    <2>1. Fetched' = 0
      BY <1>1 DEF Fetched
    <2> SUFFICES ASSUME NEW q \in Reqs, list = <<<<q, 0>>>>
                 PROVE  /\ hw.run \/ hw'.count # 0 =>
                             Len(moved'[q]) = Before(q) + hw'.count
                        /\ hw.run => hw'.count = IF hw.next = Null THEN xfer[q][0].num
                                                 ELSE hw.next - xfer[q][0].first
                        /\ cfg.stream => \A i \in 1 .. hw'.count :
                             result'[xfer[q][0].first - 1 + i] = moved'[q][Before(q) + i]
      <3>1. ~engine.running => ~hw.run
        BY DEF DataInv, Exact
      <3>2. hw'.count + 0 = hw'.count
        <4>1. hw'.count \in Int
          <5>1. SyncInv'
            BY HwMoveStep
          <5>2. hw'.count \in 0 .. CountMod - 1
            BY <5>1 DEF SyncInv, TypeOK
          <5> QED BY <5>2, ConfigsAssumption
        <4> QED BY <4>1
      <3>3. /\ UNCHANGED <<cfg, call, xfer, engine, list>> /\ hw'.desc = Zeroed
            /\ hw'.run = hw.run /\ hw'.next = hw.next /\ ~hw'.old
        BY <1>1
      <3> QED BY <2>1, <3>1, <3>2, <3>3 DEF Exact, Before
    <2>2. /\ Len(moved[q]) = Before(q) + hw.count
          /\ hw.run => hw.count + Fetched = IF hw.next = Null THEN xfer[q][0].num
                                            ELSE hw.next - xfer[q][0].first
          /\ cfg.stream => \A i \in 1 .. hw.count :
               result[xfer[q][0].first - 1 + i] = moved[q][Before(q) + i]
      BY <1>1 DEF DataInv, Exact
    <2>3. CASE hw.old \/ list = <<>>
      <3>1. GivenUp(r) /\ hw'.count = 0 /\ hw.count = 0
        BY <1>1, <2>3
      <3>2. q # r
        BY <3>1 DEF SyncInv, ListInv, GivenUp
      <3>3. Fetched = 0
        BY <2>3 DEF Fetched
      <3> QED BY <1>2, <2>2, <3>1, <3>2, <3>3
    <2>4. CASE ~(hw.old \/ list = <<>>)
      <3>1. /\ list = <<<<r, 0>>>>
            /\ Fetched = 1 /\ hw'.count = hw.count + 1
            /\ hw.count + 1 <= xfer[r][0].num
            /\ cfg.stream => result' = [result EXCEPT ![xfer[r][0].first + hw.count] = len]
        BY <1>1, <2>4
      <3>2. q = r
        BY <3>1
      <3>3. Before(r) \in Int /\ Len(moved'[r]) = Before(r) + hw'.count
        <4>1. Before(r) \in Int
          BY <1>4 DEF Before
        <4>2. /\ Len(moved'[r]) = Len(moved[r]) + 1 /\ hw'.count = hw.count + 1
              /\ Len(moved[r]) = Before(r) + hw.count
          BY <1>2, <2>2, <3>1, <3>2
        <4> QED BY <1>4, <4>1, <4>2
      <3>4. ASSUME cfg.stream
            PROVE  \A i \in 1 .. hw'.count :
                     result'[xfer[r][0].first - 1 + i] = moved'[r][Before(r) + i]
        <4>1. /\ result' = [result EXCEPT ![xfer[r][0].first + hw.count] = len]
              /\ DOMAIN result = Slots
          BY <3>1, <3>4 DEF DataInv, Fields
        <4>2. \A i \in 1 .. hw.count + 1 : xfer[r][0].first - 1 + i \in Slots
          <5>1. xfer[r][0].first + xfer[r][0].num <= DescMax
            BY DEF SyncInv, TypeOK
          <5>2. DescMax \in Nat
            BY ConfigsAssumption
          <5>3. hw.count + 1 <= xfer[r][0].num
            BY <3>1
          <5> QED BY <1>4, <5>1, <5>2, <5>3, SlotsOfPieces
        <4>3. Len(moved[r]) = Before(r) + hw.count
          BY <2>2, <3>2, Zenon
        <4>4. Before(r) >= 0
          <5>1. call[r].pc \in Built
            BY <1>1, <2>4, Zenon DEF Built
          <5>2. xfer[r][0].num <= call[r].idx
            BY <5>1, Zenon DEF SyncInv, CallInv
          <5> QED BY <1>4, <5>2 DEF Before
        <4>5. \A i \in 1 .. hw.count :
                result[xfer[r][0].first - 1 + i] = moved[r][Before(r) + i]
          BY <2>2, <3>2, <3>4, Zenon
        <4>6. \A i \in 1 .. hw.count + 1 :
                result'[xfer[r][0].first - 1 + i] = moved'[r][Before(r) + i]
          <5> DEFINE f    == xfer[r][0].first
                     c    == hw.count
                     b    == Before(r)
                     res  == result
                     res2 == result'
                     m    == moved[r]
                     m2   == moved'[r]
          <5>1. /\ f \in Nat /\ c \in Nat /\ b \in Int /\ b >= 0 /\ Len(m) = b + c
                /\ m2[Len(m) + 1] = len
            BY <1>2, <1>4, <3>3, <4>3, <4>4, Zenon
          <5>2. /\ DOMAIN res = Slots /\ res2 = [res EXCEPT ![f + c] = len]
                /\ \A i \in 1 .. Len(m) : m2[i] = m[i]
                /\ \A i \in 1 .. c + 1 : f - 1 + i \in Slots
                /\ \A i \in 1 .. c : res[f - 1 + i] = m[b + i]
            BY <1>2, <4>1, <4>2, <4>5, Zenon
          <5> HIDE DEF f, c, b, res, res2, m, m2
          <5>3. \A i \in 1 .. c + 1 : res2[f - 1 + i] = m2[b + i]
            <6> SUFFICES ASSUME NEW i \in 1 .. c + 1 PROVE res2[f - 1 + i] = m2[b + i]
              OBVIOUS
            <6>1. CASE i = c + 1
              <7>1. f - 1 + i = f + c /\ b + i = Len(m) + 1
                BY <5>1, <6>1
              <7>2. f + c \in DOMAIN res
                BY <5>2, <7>1
              <7>3. res2[f + c] = len
                BY <5>2, <7>2, Zenon
              <7> QED BY <5>1, <7>1, <7>3, Zenon
            <6>2. CASE i # c + 1
              <7>1. i \in 1 .. c /\ f - 1 + i # f + c /\ b + i \in 1 .. Len(m)
                BY <5>1, <6>2
              <7>2. f - 1 + i \in DOMAIN res
                BY <5>2, Zenon
              <7>3. res2[f - 1 + i] = res[f - 1 + i]
                BY <5>2, <7>1, <7>2, Zenon
              <7> QED BY <5>2, <7>1, <7>3, Zenon
            <6> QED BY <6>1, <6>2
          <5> QED BY <5>3, Zenon DEF f, c, b, res2, m2
        <4>7. hw'.count = hw.count + 1
          BY <3>1
        <4> QED BY <4>6, <4>7, Zenon
      <3>5. cfg.stream => \A i \in 1 .. hw'.count :
                result'[xfer[r][0].first - 1 + i] = moved'[r][Before(r) + i]
        BY <3>4, Zenon
      <3>6. hw.run => hw.count + 1 = IF hw.next = Null THEN xfer[r][0].num
                                     ELSE hw.next - xfer[r][0].first
        BY <2>2, <3>1, <3>2, Zenon
      <3>7. hw'.count = hw.count + 1
        BY <3>1
      <3> QED BY <3>2, <3>3, <3>5, <3>6, <3>7, Zenon
    <2> QED BY <2>3, <2>4
  <1> QED BY <1>1, <1>3, <1>6, <1>7, <1>8, <1>9, <1>10 DEF DataInv, Fields

(***************************************************************************)
(* DataInv: a transfer is built, queued, given up and given back           *)
(***************************************************************************)

\* The length of a transfer of num pieces from the one after idx on, as
\* transfer_init adds it up for the slots from first on.
PieceSum(sw, idx, first, num) ==
  MapThenSumSet(LAMBDA s : sw[idx + 1 + s - first], first .. first + num - 1)

LEMMA SumOfPieces ==
  ASSUME NEW sw, NEW idx \in Nat, NEW first \in Nat, NEW num \in Nat,
         \A i \in 1 .. idx + num : sw[i] \in Int
  PROVE  /\ PieceSum(sw, idx, first, num) \in Int
         /\ SumOver(sw, 1 .. idx + num) =
              SumOver(sw, 1 .. idx) + PieceSum(sw, idx, first, num)
  <1> DEFINE S == first .. first + num - 1
             F == [s \in S |-> sw[idx + 1 + s - first]]
             Def(g) == g = [s \in SUBSET S |->
                              IF s = {} THEN 0 ELSE LET x == CHOOSE x \in s : TRUE
                                                    IN  sw[idx + 1 + x - first] + g[s \ {x}]]
             iter == CHOOSE g : Def(g)
  <1>1. IsFiniteSet(S)
    BY FiniteInterval
  <1>2. \A s \in S : F[s] \in Int
    <2>1. \A s \in S : idx + 1 + s - first \in 1 .. idx + num
      OBVIOUS
    <2> QED BY <2>1
  <1>3. PieceSum(sw, idx, first, num) = iter[S]
    BY DEF PieceSum, MapThenSumSet, MapThenFoldSet
  <1>4. ASSUME NEW g PROVE Sums(F, S, g) <=> Def(g)
    <2> DEFINE A(s) == IF s = {} THEN 0 ELSE LET x == CHOOSE x \in s : TRUE
                                             IN  F[x] + g[s \ {x}]
               B(s) == IF s = {} THEN 0 ELSE LET x == CHOOSE x \in s : TRUE
                                             IN  sw[idx + 1 + x - first] + g[s \ {x}]
    <2>1. ASSUME NEW s \in SUBSET S PROVE A(s) = B(s)
      <3>1. ASSUME NEW x \in s PROVE F[x] = sw[idx + 1 + x - first]
        OBVIOUS
      <3>2. s # {} => (CHOOSE x \in s : TRUE) \in s
        OBVIOUS
      <3> HIDE DEF F, S
      <3> QED BY <3>1, <3>2
    <2> HIDE DEF A, B, F, S
    <2>2. [s \in SUBSET S |-> A(s)] = [s \in SUBSET S |-> B(s)]
      BY <2>1
    <2> QED BY <2>2 DEF Sums, A, B
  <1> HIDE DEF F, S
  <1>5. PICK g : Sums(F, S, g)
    BY <1>1, <1>2, SumsExist
  <1>6. Def(iter)
    <2>1. Def(g)
      BY <1>4, <1>5
    <2> HIDE DEF Def
    <2> QED BY <2>1
  <1>7. Sums(F, S, iter)
    BY <1>4, <1>6
  <1> HIDE DEF iter, Def
  <1>8. PieceSum(sw, idx, first, num) = SumOver(F, S)
    BY <1>1, <1>2, <1>3, <1>7, SumOverIs
  <1>9. SumOver(F, S) \in Int
    BY <1>1, <1>2, SumIsInt
  <1>10. Copied(sw, idx, F, first, num)
    <2>1. \A i \in 1 .. num : first - 1 + i \in S /\ idx + 1 + (first - 1 + i) - first = idx + i
      BY DEF S
    <2>2. \A s \in S : F[s] = sw[idx + 1 + s - first]
      BY DEF F
    <2> QED BY <2>1, <2>2 DEF Copied
  <1>11. SumOver(sw, 1 .. idx + num) = SumOver(sw, 1 .. idx) + SumOver(F, S)
    BY <1>10, SumOfPart DEF S
  <1> QED BY <1>8, <1>9, <1>11

\* What transfer_init does.
LEMMA TransferInitEffect ==
  ASSUME SyncInv, ~cfg.async, NEW r \in Reqs, TransferInit(r)
  PROVE  \E first \in Nat, num \in Nat :
           /\ num >= 1 /\ call[r].idx + num <= Len(cfg.sdesc[r]) /\ first + num <= DescMax
           /\ UNCHANGED <<cfg, desc_lock, list, work, dev, hw, irq, moved, late>>
           /\ call[r].pc = "init" /\ list = <<>> /\ ~engine.running
           /\ \A q \in Reqs \ {r} : /\ call[q].pc \notin Active
                                    /\ call'[q] = call[q] /\ xfer'[q] = xfer[q]
           /\ call'[r].pc = "check" /\ call'[r].idx = call[r].idx + num
           /\ call'[r].done = call[r].done /\ call'[r].ret = call[r].ret
           /\ call'[r].rv = call[r].rv
           /\ xfer'[r][0] =
                [state |-> "NEW", first |-> first, num |-> num, cmpl |-> 0,
                 len |-> PieceSum(cfg.sdesc[r], call[r].idx, first, num),
                 lastInReq |-> call[r].idx + num = Len(cfg.sdesc[r])]
           /\ engine'.running = engine.running /\ engine'.shutdown = engine.shutdown
           /\ engine'.desc_used = engine.desc_used + num
           /\ \A s \in first .. first + num - 1 :
                ring'[s] = [req |-> r, len |-> cfg.sdesc[r][call[r].idx + 1 + s - first],
                            last |-> s = first + num - 1,
                            next |-> IF s = first + num - 1 THEN Null ELSE s + 1, res |-> s]
           /\ DOMAIN result' = Slots
  <1> DEFINE sw    == cfg.sdesc[r]
             idx   == call[r].idx
             f0    == engine.desc_idx
             n0    == Room(f0, Min2(Len(sw) - idx, DescMax))
             mine  == f0 .. f0 + n0 - 1
  <1>1. /\ UNCHANGED <<cfg, desc_lock, list, work, dev, hw, irq, moved, late>>
        /\ call[r].pc = "init" /\ call[r].k = 0
        /\ call' = [call EXCEPT ![r].pc = "check", ![r].idx = idx + n0]
        /\ engine' = [engine EXCEPT !.desc_idx = (f0 + n0) % DescMax,
                                    !.desc_used = @ + n0]
        /\ xfer' = [xfer EXCEPT ![r][0] =
             [state |-> "NEW", first |-> f0, num |-> n0, cmpl |-> 0,
              len |-> PieceSum(sw, idx, f0, n0), lastInReq |-> idx + n0 = Len(sw)]]
        /\ ring' = [s \in Slots |->
             IF s \in mine
               THEN [req |-> r, len |-> sw[idx + 1 + s - f0],
                     last |-> s = f0 + n0 - 1,
                     next |-> IF s = f0 + n0 - 1 THEN Null ELSE s + 1, res |-> s]
               ELSE ring[s]]
        /\ DOMAIN result' = Slots
    BY DEF SyncInv, Exclusion, TransferInit, ghostVars, PieceSum
  <1>2. /\ Len(sw) \in Nat /\ DescMax \in Nat /\ DescMax > 0
    BY CallOf, ConfigsAssumption, SMTT(30)
  <1>3. f0 \in Slots /\ f0 \in Nat /\ idx \in Nat /\ idx < Len(sw)
    <2>1. engine.desc_idx \in Slots
      BY Zenon DEF SyncInv, TypeOK
    <2>2. engine.desc_idx \in Nat
      BY <2>1 DEF Slots
    <2>3. CallInv(r) /\ call[r].pc = "init"
      BY <1>1, Zenon DEF SyncInv
    <2>4. call[r].idx \in Nat /\ call[r].idx < Len(cfg.sdesc[r])
      BY <2>3, Zenon DEF CallInv
    <2> QED BY <2>1, <2>2, <2>4, Zenon
  <1>4. n0 \in 1 .. Len(sw) - idx /\ f0 + n0 <= DescMax
    <2>1. Min2(Len(sw) - idx, DescMax) \in 1 .. Len(sw) - idx
      BY <1>2, <1>3 DEF Min2
    <2> DEFINE want == Min2(Len(sw) - idx, DescMax)
    <2>2. want \in Nat /\ want >= 1
      BY <1>2, <1>3, <2>1
    <2> HIDE DEF want, f0
    <2>3. Room(f0, want) \in 1 .. want /\ f0 + Room(f0, want) <= DescMax
      BY <1>3, <2>2, RoomBounds
    <2>4. want \in Nat /\ want <= Len(sw) - idx
      BY <1>2, <1>3, <2>1 DEF want
    <2> HIDE DEF sw, idx
    <2>5. Room(f0, want) \in 1 .. Len(sw) - idx
      BY <1>2, <1>3, <2>3, <2>4
    <2> QED BY <2>3, <2>5 DEF want
  <1>5. list = <<>> /\ ~engine.running
    BY <1>1, NobodyWaits DEF SyncInv, Active
  <1>6. \A q \in Reqs \ {r} : call[q].pc \notin Active
    BY <1>1, OnlyHolder DEF SyncInv, Active
  <1> HIDE DEF n0, sw, f0, idx
  <1>7. /\ \A q \in Reqs \ {r} : call'[q] = call[q]
        /\ call'[r].pc = "check" /\ call'[r].idx = idx + n0
        /\ call'[r].done = call[r].done /\ call'[r].ret = call[r].ret
        /\ call'[r].rv = call[r].rv
    BY <1>1 DEF SyncInv, Shape
  <1>8. /\ \A q \in Reqs \ {r} : xfer'[q] = xfer[q]
        /\ xfer'[r][0] =
             [state |-> "NEW", first |-> f0, num |-> n0, cmpl |-> 0,
              len |-> PieceSum(sw, idx, f0, n0), lastInReq |-> idx + n0 = Len(sw)]
    BY <1>1 DEF SyncInv, Shape
  <1>9. /\ engine'.running = engine.running /\ engine'.shutdown = engine.shutdown
        /\ engine'.desc_used = engine.desc_used + n0
    BY <1>1 DEF SyncInv, Shape
  <1>10. \A s \in f0 .. f0 + n0 - 1 :
           ring'[s] = [req |-> r, len |-> sw[idx + 1 + s - f0],
                       last |-> s = f0 + n0 - 1,
                       next |-> IF s = f0 + n0 - 1 THEN Null ELSE s + 1, res |-> s]
    <2>1. \A s \in f0 .. f0 + n0 - 1 : s \in Slots
      BY <1>2, <1>3, <1>4 DEF Slots
    <2> QED BY <1>1, <2>1
  <1>11. n0 \in Nat /\ n0 >= 1 /\ idx + n0 <= Len(sw)
    BY <1>2, <1>3, <1>4
  <1>12. f0 \in Nat /\ n0 \in Nat
    BY <1>3, <1>11
  <1>13. UNCHANGED <<cfg, desc_lock, list, work, dev, hw, irq, moved, late>>
         /\ call[r].pc = "init" /\ DOMAIN result' = Slots
    BY <1>1
  <1> HIDE DEF mine
  <1> USE <1>12
  <1> WITNESS f0 \in Nat, n0 \in Nat
  <1> QED BY <1>4, <1>5, <1>6, <1>7, <1>8, <1>9, <1>10, <1>11, <1>13, SMTT(30) DEF sw, idx

LEMMA TransferInitData ==
  ASSUME SyncInv, DataInv, ~cfg.async, NEW r \in Reqs, TransferInit(r)
  PROVE  DataInv'
  <1>1. PICK first \in Nat, num \in Nat :
           /\ num >= 1 /\ call[r].idx + num <= Len(cfg.sdesc[r]) /\ first + num <= DescMax
           /\ UNCHANGED <<cfg, desc_lock, list, work, dev, hw, irq, moved, late>>
           /\ call[r].pc = "init" /\ list = <<>> /\ ~engine.running
           /\ \A q \in Reqs \ {r} : /\ call[q].pc \notin Active
                                    /\ call'[q] = call[q] /\ xfer'[q] = xfer[q]
           /\ call'[r].pc = "check" /\ call'[r].idx = call[r].idx + num
           /\ call'[r].done = call[r].done /\ call'[r].ret = call[r].ret
           /\ call'[r].rv = call[r].rv
           /\ xfer'[r][0] =
                [state |-> "NEW", first |-> first, num |-> num, cmpl |-> 0,
                 len |-> PieceSum(cfg.sdesc[r], call[r].idx, first, num),
                 lastInReq |-> call[r].idx + num = Len(cfg.sdesc[r])]
           /\ engine'.running = engine.running /\ engine'.shutdown = engine.shutdown
           /\ engine'.desc_used = engine.desc_used + num
           /\ \A s \in first .. first + num - 1 :
                ring'[s] = [req |-> r, len |-> cfg.sdesc[r][call[r].idx + 1 + s - first],
                            last |-> s = first + num - 1,
                            next |-> IF s = first + num - 1 THEN Null ELSE s + 1, res |-> s]
           /\ DOMAIN result' = Slots
    BY TransferInitEffect
  <1> DEFINE sw  == cfg.sdesc[r]
             idx == call[r].idx
             len == PieceSum(sw, idx, first, num)
  <1>2. /\ idx \in Nat /\ Len(sw) \in Nat /\ idx + num <= Len(sw)
        /\ \A i \in 1 .. Len(sw) : sw[i] \in 1 .. desc_blen_max
        /\ desc_blen_max \in Nat
    BY <1>1, CallOf
  <1>3. len \in Int /\ SumOver(sw, 1 .. idx + num) = SumOver(sw, 1 .. idx) + len
    <2> HIDE DEF sw, idx
    <2>1. \A i \in 1 .. idx + num : sw[i] \in Int
      BY <1>2
    <2> QED BY <1>2, <2>1, SumOfPieces
  <1>4. /\ xfer'[r][0].num = num /\ xfer'[r][0].first = first /\ xfer'[r][0].len = len
        /\ xfer'[r][0].lastInReq = (idx + num = Len(sw)) /\ call'[r].idx = idx + num
        /\ cfg' = cfg /\ moved' = moved /\ late' = late
    BY <1>1
  <1> HIDE DEF sw, len, idx
  <1>5. Before(r)' = idx
    BY <1>2, <1>4 DEF Before
  <1>6. ASSUME NEW q \in Reqs, q # r PROVE Accounts(q)'
    <2>1. /\ Accounts(q) /\ call'[q] = call[q] /\ xfer'[q] = xfer[q] /\ call[q].pc \notin Active
          /\ UNCHANGED <<cfg, moved, late>>
      BY <1>1, <1>6 DEF DataInv
    <2> QED BY <2>1 DEF Accounts, Before, Data, Active, Built, Placed
  <1>7. Accounts(r)'
    <2>1. Accounts(r) /\ call[r].pc = "init"
      BY <1>1 DEF DataInv
    <2>2. /\ call[r].done \in Nat
          /\ call[r].ret = Pending /\ ~late[r]
          /\ moved[r] \in Seq(1 .. desc_blen_max) /\ Len(moved[r]) <= Len(sw)
          /\ ~cfg.stream => \A i \in 1 .. Len(moved[r]) : moved[r][i] = sw[i]
          /\ Len(moved[r]) = idx /\ call[r].done = Data(r, idx)
      BY <2>1 DEF Accounts, sw, idx
    <2>3. call'[r].done = call[r].done /\ call'[r].ret = call[r].ret /\ call'[r].pc = "check"
      BY <1>1
    <2>4. call[r].done = Data(r, Before(r))'
      BY <1>4, <1>5, <2>2 DEF Data
    <2>5. SumOver(sw, 1 .. call'[r].idx) = SumOver(sw, 1 .. Before(r)') + xfer'[r][0].len
      BY <1>3, <1>4, <1>5
    <2>6. xfer'[r][0].lastInReq = (call'[r].idx = Len(sw)) /\ xfer'[r][0].len \in Int
      BY <1>3, <1>4
    <2>7. sw = cfg'.sdesc[r]
      BY <1>4 DEF sw
    <2> QED BY <1>4, <1>5, <2>2, <2>3, <2>4, <2>5, <2>6, <2>7 DEF Accounts, Built, Placed
  <1>8. Pieces'
    <2> SUFFICES ASSUME NEW q \in Reqs, call'[q].pc \in Placed, NEW i \in 1 .. xfer'[q][0].num
                 PROVE  /\ ring'[xfer'[q][0].first - 1 + i].len =
                             cfg'.sdesc[q][Before(q)' + i]
                        /\ ring'[xfer'[q][0].first - 1 + i].res = xfer'[q][0].first - 1 + i
                        /\ ring'[xfer'[q][0].first - 1 + i].last = (i = xfer'[q][0].num)
      BY DEF Pieces
    <2>1. q = r
      BY <1>1 DEF Active, Placed
    <2>2. i \in 1 .. num
      BY <1>4, <2>1
    <2>3. /\ first - 1 + i \in first .. first + num - 1
          /\ idx + 1 + (first - 1 + i) - first = idx + i
          /\ (first - 1 + i = first + num - 1) <=> (i = num)
      BY <1>2, <2>2, SMTT(30)
    <2>4. ring'[first - 1 + i] =
            [req |-> r, len |-> sw[idx + 1 + (first - 1 + i) - first],
             last |-> first - 1 + i = first + num - 1,
             next |-> IF first - 1 + i = first + num - 1 THEN Null ELSE (first - 1 + i) + 1,
             res |-> first - 1 + i]
      BY <1>1, <2>3 DEF sw, idx
    <2>5. /\ ring'[first - 1 + i].len = sw[idx + i] /\ ring'[first - 1 + i].res = first - 1 + i
          /\ ring'[first - 1 + i].last = (i = num)
      BY <2>3, <2>4
    <2> QED BY <1>4, <1>5, <2>1, <2>5 DEF sw
  <1>9. OnItsWay'
    <2>1. ASSUME hw.desc # Zeroed
          PROVE  hw.desc.req \in Reqs /\ GivenUp(hw.desc.req) /\ GivenUp(hw.desc.req)'
      <3>1. hw.desc.req \in Reqs
        BY <2>1, KnownTypes DEF Desc
      <3>2. GivenUp(hw.desc.req)
        BY <1>1, <2>1 DEF DataInv, OnItsWay
      <3>3. hw.desc.req # r
        BY <1>1, <3>2 DEF GivenUp
      <3> QED BY <1>1, <3>1, <3>2, <3>3 DEF GivenUp
    <2> QED BY <1>1, <2>1 DEF DataInv, OnItsWay
  <1>10. Exact'
    BY <1>1 DEF DataInv, Exact
  <1> QED BY <1>1, <1>6, <1>7, <1>8, <1>9, <1>10 DEF DataInv, Fields

LEMMA TransferQueueData ==
  ASSUME SyncInv, DataInv, ~cfg.async, NEW r \in Reqs, TransferQueue(r)
  PROVE  DataInv'
  <1>1. call[r].pc = "queue" /\ call[r].k = 0
    BY DEF SyncInv, Exclusion, TransferQueue
  <1>2. list = <<>> /\ ~engine.running
    BY <1>1, NobodyWaits DEF SyncInv, Active
  <1>3. /\ UNCHANGED <<cfg, ring, result, moved, late>>
        /\ xfer' = [xfer EXCEPT ![r][0].state = "SUBMITTED"]
        /\ list' = Append(list, <<r, 0>>)
        /\ engine' = Started(engine)
        /\ hw' = HwStarted(hw, Xfer(Head(Append(list, <<r, 0>>))).first)
        /\ call' = [call EXCEPT ![r].pc = "wait", ![r].k = @]
    BY <1>1, <1>2 DEF TransferQueue, ghostVars
  <1>4. list' = <<<<r, 0>>>> /\ Xfer(Head(Append(list, <<r, 0>>))) = xfer[r][0]
    BY <1>2, <1>3 DEF Xfer
  <1>5. /\ Goes(r, "queue", "wait") /\ call'[r].done = call[r].done
        /\ call'[r].ret = call[r].ret /\ call'[r].rv = call[r].rv
    BY <1>1, <1>3 DEF SyncInv, Shape, Goes
  <1>6. /\ \A q \in Reqs \ {r} : xfer'[q] = xfer[q]
        /\ xfer'[r][0].state = "SUBMITTED" /\ xfer'[r][0].first = xfer[r][0].first
        /\ xfer'[r][0].num = xfer[r][0].num /\ xfer'[r][0].len = xfer[r][0].len
        /\ xfer'[r][0].lastInReq = xfer[r][0].lastInReq
    BY <1>3 DEF SyncInv, Shape, NoXfer
  <1>7. engine'.running = TRUE
    BY <1>3 DEF SyncInv, Shape, Started
  <1>8. /\ hw'.run /\ hw'.busy /\ hw'.next = xfer[r][0].first /\ hw'.count = 0
        /\ hw'.desc = hw.desc /\ hw'.old = (hw.desc # Zeroed)
    <2>1. hw' = HwStarted(hw, xfer[r][0].first)
      BY <1>3, <1>4
    <2> QED BY <2>1 DEF SyncInv, Shape, HwStarted
  <1>9. /\ xfer[r][0].first \in Nat /\ Len(moved[r]) \in Nat
        /\ call[r].idx \in Nat /\ xfer[r][0].num \in Nat
    BY CallOf
  <1>10. \A q \in Reqs \ {r} : call[q].pc \notin Active
    BY <1>1, OnlyHolder DEF SyncInv, Active
  <1>11. \A q \in Reqs : Before(q)' = Before(q)
    BY <1>5, <1>6 DEF Before, Goes
  <1>12. ASSUME NEW q \in Reqs, q # r PROVE Accounts(q)'
    <2>1. /\ Accounts(q) /\ call'[q] = call[q] /\ xfer'[q] = xfer[q] /\ call[q].pc \notin Active
          /\ UNCHANGED <<cfg, moved, late>>
      BY <1>3, <1>5, <1>6, <1>10, <1>12 DEF DataInv, Goes
    <2> QED BY <2>1 DEF Accounts, Before, Data, Active, Built, Placed
  <1>13. Accounts(r)'
    <2>1. Accounts(r)
      BY DEF DataInv
    <2>2. UNCHANGED <<cfg, moved, late>> /\ call[r].pc = "queue" /\ call'[r].pc = "wait"
          /\ call'[r].idx = call[r].idx
      BY <1>3, <1>5 DEF Goes
    <2>3. /\ call[r].done \in Nat /\ call[r].ret = Pending /\ ~late[r]
          /\ moved[r] \in Seq(1 .. desc_blen_max) /\ Len(moved[r]) <= Len(cfg.sdesc[r])
          /\ ~cfg.stream => \A i \in 1 .. Len(moved[r]) : moved[r][i] = cfg.sdesc[r][i]
          /\ call[r].done = Data(r, Before(r))
          /\ xfer[r][0].lastInReq = (call[r].idx = Len(cfg.sdesc[r])) /\ xfer[r][0].len \in Int
          /\ SumOver(cfg.sdesc[r], 1 .. call[r].idx) =
               SumOver(cfg.sdesc[r], 1 .. Before(r)) + xfer[r][0].len
      BY <2>1, <2>2 DEF Accounts, Built, Placed
    <2>4. /\ Before(r)' = Before(r) /\ Data(r, Before(r))' = Data(r, Before(r))
          /\ cfg' = cfg /\ moved' = moved /\ late' = late
          /\ call'[r].pc = "wait" /\ call'[r].idx = call[r].idx
          /\ call'[r].done = call[r].done /\ call'[r].ret = call[r].ret
          /\ xfer'[r][0].state = "SUBMITTED" /\ xfer'[r][0].len = xfer[r][0].len
          /\ xfer'[r][0].lastInReq = xfer[r][0].lastInReq
          /\ list' = <<<<r, 0>>>>
      BY <1>4, <1>5, <1>6, <1>11, <2>2, Zenon DEF Data
    <2> QED BY <2>3, <2>4 DEF Accounts
  <1>14. Pieces'
    <2>1. \A q \in Reqs : call'[q].pc \in Placed => q = r
      BY <1>5, <1>10 DEF Goes, Active, Placed
    <2>2. call[r].pc \in Placed
      BY <1>1 DEF Placed
    <2>3. /\ ring' = ring /\ cfg' = cfg /\ Before(r)' = Before(r)
          /\ xfer'[r][0].num = xfer[r][0].num /\ xfer'[r][0].first = xfer[r][0].first
      BY <1>3, <1>6, <1>11
    <2>4. \A i \in 1 .. xfer[r][0].num :
            /\ ring[xfer[r][0].first - 1 + i].len = cfg.sdesc[r][Before(r) + i]
            /\ ring[xfer[r][0].first - 1 + i].res = xfer[r][0].first - 1 + i
            /\ ring[xfer[r][0].first - 1 + i].last = (i = xfer[r][0].num)
      BY <2>2, Zenon DEF DataInv, Pieces
    <2> SUFFICES ASSUME NEW q \in Reqs, call'[q].pc \in Placed,
                        NEW i \in 1 .. xfer'[q][0].num
                 PROVE  /\ ring'[xfer'[q][0].first - 1 + i].len
                             = cfg'.sdesc[q][Before(q)' + i]
                        /\ ring'[xfer'[q][0].first - 1 + i].res = xfer'[q][0].first - 1 + i
                        /\ ring'[xfer'[q][0].first - 1 + i].last = (i = xfer'[q][0].num)
      BY DEF Pieces
    <2>5. q = r
      BY <2>1
    <2>6. i \in 1 .. xfer[r][0].num
      BY <2>3, <2>5, Zenon
    <2>7. ring'[xfer'[q][0].first - 1 + i] = ring[xfer[r][0].first - 1 + i]
      BY <2>3, <2>5, Zenon
    <2>8. cfg'.sdesc[q][Before(q)' + i] = cfg.sdesc[r][Before(r) + i]
      BY <2>3, <2>5, Zenon
    <2>9. /\ ring'[xfer'[q][0].first - 1 + i].len = cfg'.sdesc[q][Before(q)' + i]
          /\ ring'[xfer'[q][0].first - 1 + i].res = xfer[r][0].first - 1 + i
          /\ ring'[xfer'[q][0].first - 1 + i].last = (i = xfer[r][0].num)
      <3> DEFINE d == ring[xfer[r][0].first - 1 + i]
                 e == ring'[xfer'[q][0].first - 1 + i]
      <3>1. e = d
        BY <2>7
      <3>2. /\ d.len = cfg.sdesc[r][Before(r) + i] /\ d.res = xfer[r][0].first - 1 + i
            /\ d.last = (i = xfer[r][0].num)
        BY <2>4, <2>6, Zenon
      <3> HIDE DEF d, e
      <3>3. /\ e.len = cfg'.sdesc[q][Before(q)' + i] /\ e.res = xfer[r][0].first - 1 + i
            /\ e.last = (i = xfer[r][0].num)
        BY <2>8, <3>1, <3>2, Zenon
      <3> QED BY <3>3, Zenon DEF e
    <2>10. xfer'[q][0].num = xfer[r][0].num /\ xfer'[q][0].first = xfer[r][0].first
      BY <2>3, <2>5, Zenon
    <2> QED BY <2>9, <2>10, Zenon
  <1>15. OnItsWay'
    <2>1. \A q \in Reqs : GivenUp(q) => GivenUp(q)'
      <3>1. ~GivenUp(r)
        BY <1>1 DEF GivenUp
      <3>2. \A q \in Reqs \ {r} : call'[q] = call[q] /\ xfer'[q] = xfer[q]
        BY <1>5, <1>6 DEF Goes
      <3>3. \A q \in Reqs \ {r} : GivenUp(q) => GivenUp(q)'
        BY <3>2 DEF GivenUp
      <3> QED BY <3>1, <3>3
    <2>2. hw.desc # Zeroed => hw.desc.req \in Reqs
      BY KnownTypes DEF Desc
    <2> QED BY <1>2, <1>3, <1>8, <2>1, <2>2 DEF DataInv, OnItsWay
  <1>16. Exact'
    <2>1. Fetched' = 0
      BY <1>8 DEF Fetched
    <2>2. Len(moved[r]) = Before(r)
      BY <1>1 DEF DataInv, Accounts
    <2>3. hw'.next # Null
      BY <1>8, <1>9 DEF Null
    <2>4. Before(r) + 0 = Before(r) /\ xfer[r][0].first - xfer[r][0].first = 0
      BY <1>9, <2>2
    <2>5. \A q \in Reqs : list' = <<<<q, 0>>>> => q = r
      BY <1>4
    <2> SUFFICES ASSUME NEW q \in Reqs, list' = <<<<q, 0>>>>
                 PROVE  /\ Len(moved'[q]) = Before(q)' + hw'.count
                        /\ hw'.count + Fetched' = hw'.next - xfer'[q][0].first
      <3>1. \A i \in 1 .. hw'.count : FALSE
        BY <1>8
      <3>2. hw'.old => hw'.desc # Zeroed /\ hw'.count = 0
        BY <1>8
      <3> QED BY <1>7, <2>1, <2>3, <3>1, <3>2 DEF Exact
    <2>6. q = r /\ xfer'[r][0].first = xfer[r][0].first /\ moved' = moved
      BY <1>3, <1>6, <2>5
    <2> QED BY <1>8, <1>11, <2>1, <2>2, <2>4, <2>6
  <1> QED BY <1>3, <1>12, <1>13, <1>14, <1>15, <1>16 DEF DataInv, Fields

\* A call that loses patience finds its transfer on the list.
LEMMA AbortedList ==
  ASSUME SyncInv, NEW r \in Reqs, ClaimAborted(r)
  PROVE  list' = <<>> /\ (list = <<>> \/ list = <<<<r, 0>>>>)
  <1>1. call[r].pc = "claim" /\ list' = WithoutHead(<<r, 0>>)
    BY DEF ClaimAborted
  <1>2. CASE list = <<>>
    BY <1>1, <1>2 DEF WithoutHead
  <1>3. ASSUME NEW q \in Reqs, list = <<<<q, 0>>>>, call[q].pc \in {"wait", "claim"}
        PROVE  list' = <<>> /\ list = <<<<r, 0>>>>
    <2>1. q = r
      BY <1>1, <1>3, OnlyHolder DEF SyncInv, Active
    <2> QED BY <1>1, <1>3, <2>1 DEF WithoutHead
  <1> QED BY <1>2, <1>3 DEF SyncInv, ListInv

LEMMA ClaimAbortedData ==
  ASSUME SyncInv, DataInv, NEW r \in Reqs, ClaimAborted(r)
  PROVE  DataInv'
  <1>1. /\ UNCHANGED <<cfg, ring, result, moved, late>>
        /\ call[r].pc = "claim" /\ xfer[r][0].state = "SUBMITTED"
        /\ xfer' = [xfer EXCEPT ![r][0].state = "ABORTED"]
        /\ engine' = Stopped(engine) /\ hw' = HwStopped(hw)
        /\ call' = [call EXCEPT ![r].pc = "free", ![r].rv = ERESTARTSYS]
    BY DEF ClaimAborted, ghostVars
  <1>2. /\ Goes(r, "claim", "free") /\ call'[r].rv = ERESTARTSYS /\ ERESTARTSYS < 0
        /\ call'[r].done = call[r].done /\ call'[r].ret = call[r].ret
    BY <1>1 DEF SyncInv, Shape, Goes, ERESTARTSYS
  <1>3. /\ \A q \in Reqs \ {r} : xfer'[q] = xfer[q]
        /\ xfer'[r][0].num = xfer[r][0].num /\ xfer'[r][0].len = xfer[r][0].len
        /\ xfer'[r][0].lastInReq = xfer[r][0].lastInReq
    BY <1>1 DEF SyncInv, Shape, NoXfer
  <1>4. list' = <<>> /\ (list = <<>> \/ list = <<<<r, 0>>>>)
    BY AbortedList
  <1>5. /\ ~hw'.run /\ hw'.desc = hw.desc /\ hw'.old = hw.old /\ hw'.count = hw.count
        /\ hw'.busy = hw.busy
    BY <1>1 DEF SyncInv, Shape, HwStopped
  <1>6. \A q \in Reqs \ {r} : call[q].pc \notin Active
    BY <1>1, OnlyHolder DEF SyncInv, Active
  <1>7. \A q \in Reqs : Before(q)' = Before(q)
    BY <1>2, <1>3 DEF Before, Goes
  <1>8. ASSUME NEW q \in Reqs, q # r PROVE Accounts(q)'
    <2>1. /\ Accounts(q) /\ call'[q] = call[q] /\ xfer'[q] = xfer[q] /\ call[q].pc \notin Active
          /\ UNCHANGED <<cfg, moved, late>>
      BY <1>1, <1>2, <1>3, <1>6, <1>8 DEF DataInv, Goes
    <2> QED BY <2>1 DEF Accounts, Before, Data, Active, Built, Placed
  <1>9. Accounts(r)'
    <2>1. Accounts(r)
      BY DEF DataInv
    <2>2. UNCHANGED <<cfg, moved, late>> /\ call[r].pc = "claim" /\ call'[r].pc = "free"
          /\ call'[r].idx = call[r].idx
      BY <1>1, <1>2 DEF Goes
    <2>3. Len(moved[r]) >= Before(r)
      BY <1>1 DEF SyncInv, CallInv, Placed, Before
    <2> QED BY <1>2, <1>3, <1>7, <2>1, <2>2, <2>3 DEF Accounts, Data, Built, Placed
  <1>10. Pieces'
    BY <1>2, <1>6 DEF Goes, Active, Placed, Pieces
  <1>11. OnItsWay'
    <2>1. \A q \in Reqs : GivenUp(q) => GivenUp(q)'
      <3>1. ~GivenUp(r)
        BY <1>1 DEF GivenUp
      <3>2. \A q \in Reqs \ {r} : call'[q] = call[q] /\ xfer'[q] = xfer[q]
        BY <1>2, <1>3 DEF Goes
      <3>3. \A q \in Reqs \ {r} : GivenUp(q) => GivenUp(q)'
        BY <3>2 DEF GivenUp
      <3> QED BY <3>1, <3>3
    <2>2. GivenUp(r)'
      BY <1>2 DEF GivenUp, Goes
    <2>3. ASSUME NEW q \in Reqs, hw.desc # Zeroed, hw.desc.req = q PROVE GivenUp(q)'
      <3>1. CASE hw.old \/ list = <<>>
        <4>1. GivenUp(q)
          BY <2>3, <3>1 DEF DataInv, OnItsWay
        <4> QED BY <2>1, <4>1
      <3>2. CASE ~hw.old /\ list = <<<<r, 0>>>>
        <4>1. Fetched = 1
          BY <2>3, <3>2 DEF Fetched
        <4>2. q = r
          BY <2>3, <3>2, <4>1 DEF SyncInv, RunInv
        <4> QED BY <2>2, <4>2
      <3> QED BY <1>4, <3>1, <3>2
    <2>4. hw.desc # Zeroed => hw.desc.req \in Reqs
      BY KnownTypes DEF Desc
    <2> QED BY <1>1, <1>5, <2>3, <2>4 DEF DataInv, OnItsWay
  <1>12. Exact'
    BY <1>4, <1>5 DEF DataInv, Exact
  <1> QED BY <1>1, <1>8, <1>9, <1>10, <1>11, <1>12 DEF DataInv, Fields

\* What the end of a transfer does to its call.
LEMMA ReleaseEffect ==
  ASSUME SyncInv, NEW r \in Reqs, Release(r)
  PROVE  /\ UNCHANGED <<cfg, xfer, list, result, work, dev, hw, irq, moved, late>>
         /\ call[r].pc = "free" /\ list = <<>> /\ ~engine.running
         /\ engine' = GivenBack(engine, xfer[r][0].num)
         /\ engine'.running = engine.running
         /\ \A q \in Reqs \ {r} : call[q].pc \notin Active /\ call'[q] = call[q]
         /\ call'[r].idx = call[r].idx /\ call'[r].done = call[r].done
         /\ call'[r].rv = call[r].rv
         /\ \/ /\ call'[r].pc = "done" /\ (call[r].rv < 0 \/ xfer[r][0].lastInReq)
               /\ call'[r].ret = IF call[r].done > 0 THEN call[r].done ELSE call[r].rv
            \/ /\ call'[r].pc = "init" /\ ~(call[r].rv < 0) /\ ~xfer[r][0].lastInReq
               /\ call'[r].ret = call[r].ret
  <1> DEFINE d == call[r].done
             ret == IF d > 0 THEN d ELSE call[r].rv
  <1>1. /\ UNCHANGED <<cfg, xfer, list, result, work, dev, hw, irq, moved, late>>
        /\ call[r].pc = "free"
        /\ engine' = GivenBack(engine, xfer[r][0].num)
    BY DEF Release, ghostVars
  <1>2. list = <<>> /\ ~engine.running
    BY <1>1, NobodyWaits DEF SyncInv, Active
  <1>3. \A q \in Reqs \ {r} : call[q].pc \notin Active
    BY <1>1, OnlyHolder DEF SyncInv, Active
  <1>4. engine'.running = engine.running
    BY <1>1 DEF SyncInv, Shape, GivenBack
  <1>5. CASE call[r].rv < 0 \/ xfer[r][0].lastInReq
    <2>1. call' = [call EXCEPT ![r].pc = "done", ![r].done = d, ![r].ret = ret]
      BY <1>5 DEF Release, Return
    <2> HIDE DEF d, ret
    <2>2. /\ \A q \in Reqs \ {r} : call'[q] = call[q]
          /\ call'[r].idx = call[r].idx /\ call'[r].done = d /\ call'[r].rv = call[r].rv
          /\ call'[r].pc = "done" /\ call'[r].ret = ret
      BY <2>1 DEF SyncInv, Shape
    <2> QED BY <1>1, <1>2, <1>3, <1>4, <1>5, <2>2 DEF d, ret
  <1>6. CASE ~(call[r].rv < 0 \/ xfer[r][0].lastInReq)
    <2>1. call' = [call EXCEPT ![r].pc = "init"]
      BY <1>6 DEF Release
    <2>2. /\ \A q \in Reqs \ {r} : call'[q] = call[q]
          /\ call'[r].idx = call[r].idx /\ call'[r].done = d /\ call'[r].rv = call[r].rv
          /\ call'[r].pc = "init" /\ call'[r].ret = call[r].ret
      BY <2>1 DEF SyncInv, Shape
    <2> QED BY <1>1, <1>2, <1>3, <1>4, <1>6, <2>2
  <1> QED BY <1>5, <1>6

LEMMA ReleaseData ==
  ASSUME SyncInv, DataInv, NEW r \in Reqs, Release(r)
  PROVE  DataInv'
  <1>1. /\ UNCHANGED <<cfg, xfer, list, result, hw, moved, late>>
        /\ call[r].pc = "free" /\ list = <<>> /\ engine'.running = engine.running
        /\ \A q \in Reqs \ {r} : call[q].pc \notin Active /\ call'[q] = call[q]
        /\ call'[r].idx = call[r].idx /\ call'[r].done = call[r].done
        /\ call'[r].rv = call[r].rv
        /\ \/ call'[r].pc = "done"
           \/ call'[r].pc = "init" /\ ~(call[r].rv < 0) /\ call'[r].ret = call[r].ret
    BY ReleaseEffect
  <1>2. ASSUME NEW q \in Reqs, q # r PROVE Accounts(q)'
    <2>1. /\ Accounts(q) /\ call'[q] = call[q] /\ call[q].pc \notin Active
          /\ UNCHANGED <<cfg, xfer, moved, late>>
      BY <1>1, <1>2 DEF DataInv
    <2> QED BY <2>1 DEF Accounts, Before, Data, Active, Built, Placed
  <1>3. Accounts(r)'
    <2>1. Accounts(r) /\ UNCHANGED <<cfg, xfer, moved, late>>
      BY <1>1 DEF DataInv
    <2> QED BY <1>1, <2>1 DEF Accounts, Data, Built, Placed
  <1>4. Pieces'
    BY <1>1 DEF Active, Placed, Pieces
  <1>5. OnItsWay'
    <2>1. ASSUME hw.desc # Zeroed
          PROVE  hw.desc.req \in Reqs /\ GivenUp(hw.desc.req)'
      <3>1. hw.desc.req \in Reqs
        BY <2>1, KnownTypes DEF Desc
      <3>2. GivenUp(hw.desc.req)
        BY <1>1, <2>1 DEF DataInv, OnItsWay
      <3> QED BY <1>1, <3>1, <3>2 DEF GivenUp
    <2> QED BY <1>1, <2>1 DEF DataInv, OnItsWay
  <1>6. Exact'
    BY <1>1 DEF DataInv, Exact
  <1> QED BY <1>1, <1>2, <1>3, <1>4, <1>5, <1>6 DEF DataInv, Fields

(***************************************************************************)
(* DataInv: the service routine ends the transfer                          *)
(***************************************************************************)

\* A transfer that is found complete has been moved, and nothing is on its way.
LEMMA CompletedRun ==
  ASSUME SyncInv, DataInv, NEW r \in Reqs, list = <<<<r, 0>>>>,
         hw.count # 0, hw.count >= xfer[r][0].num
  PROVE  /\ hw.count = xfer[r][0].num /\ Len(moved[r]) = call[r].idx
         /\ hw.desc = Zeroed /\ Fetched = 0
  <1> DEFINE x == xfer[r][0]
  <1>1. /\ x.first \in Nat /\ x.num \in Nat /\ hw.count \in Nat /\ Fetched \in {0, 1}
        /\ call[r].idx \in Nat
    BY Listed
  <1>2. /\ hw.next = Null => hw.count + Fetched <= x.num
        /\ hw.next # Null => /\ hw.next \in SlotsOf(x)
                             /\ hw.count + Fetched <= hw.next - x.first
    BY DEF SyncInv, RunInv
  <1>3. Len(moved[r]) = Before(r) + hw.count /\ (hw.old => hw.count = 0)
    BY DEF DataInv, Exact
  <1> HIDE DEF x
  <1>4. hw.next # Null => hw.next \in Int /\ hw.next <= x.first + x.num - 1
    BY <1>1, <1>2 DEF SlotsOf
  <1>5. hw.count >= x.num
    BY DEF x
  <1>6. hw.count = x.num /\ Fetched = 0
    BY <1>1, <1>2, <1>4, <1>5
  <1>7. hw.desc = Zeroed
    BY <1>3, <1>6 DEF Fetched
  <1>8. Len(moved[r]) = (call[r].idx - x.num) + x.num
    BY <1>3, <1>6 DEF Before, x
  <1> QED BY <1>1, <1>6, <1>7, <1>8 DEF x

LEMMA ServiceTransfersData ==
  ASSUME SyncInv, DataInv, ~cfg.async, ServiceTransfers
  PROVE  DataInv'
  <1>1. /\ UNCHANGED <<cfg, ring, result, moved, late>>
        /\ \A r \in Reqs : call'[r] = call[r]
        /\ list' = <<>> /\ hw.count # 0 /\ engine'.running = FALSE
        /\ hw' = HwStopped(hw) \/ (hw' = hw /\ ~engine.running)
        /\ \A r \in Reqs :
             /\ list # <<<<r, 0>>>> => xfer'[r][0] = xfer[r][0]
             /\ list = <<<<r, 0>>>> => xfer'[r][0] = FinalState(xfer[r][0], hw.count)
    BY ServiceTransfersEffect
  <1>2. /\ ~hw'.run /\ hw'.desc = hw.desc /\ hw'.old = hw.old /\ hw'.count = hw.count
        /\ hw'.busy = hw.busy
    <2>1. ~engine.running => ~hw.run
      BY DEF DataInv, Exact
    <2> QED BY <1>1, <2>1 DEF SyncInv, Shape, HwStopped
  <1>3. ASSUME NEW r \in Reqs, list = <<<<r, 0>>>>
        PROVE  /\ call[r].pc \in {"wait", "claim"}
               /\ xfer'[r][0].first = xfer[r][0].first /\ xfer'[r][0].num = xfer[r][0].num
               /\ xfer'[r][0].len = xfer[r][0].len
               /\ xfer'[r][0].lastInReq = xfer[r][0].lastInReq
               /\ \/ xfer'[r][0].state = "FAILED"
                  \/ /\ xfer'[r][0].state = "COMPLETED"
                     /\ xfer'[r][0].cmpl = xfer[r][0].num
                     /\ hw.count = xfer[r][0].num /\ Len(moved[r]) = call[r].idx
                     /\ hw.desc = Zeroed
    <2>1. xfer'[r][0] = FinalState(xfer[r][0], hw.count)
      BY <1>1, <1>3
    <2>2. /\ xfer'[r][0].first = xfer[r][0].first /\ xfer'[r][0].num = xfer[r][0].num
          /\ xfer'[r][0].len = xfer[r][0].len
          /\ xfer'[r][0].lastInReq = xfer[r][0].lastInReq
          /\ xfer'[r][0].state \in {"COMPLETED", "FAILED"}
          /\ xfer'[r][0].state = "COMPLETED" =>
               hw.count >= xfer[r][0].num /\ xfer'[r][0].cmpl = xfer[r][0].num
      BY <1>3, <2>1, FinalStateShape
    <2>3. call[r].pc \in {"wait", "claim"}
      BY <1>3 DEF SyncInv, ListInv
    <2>4. CASE xfer'[r][0].state = "COMPLETED"
      <3>1. hw.count = xfer[r][0].num /\ Len(moved[r]) = call[r].idx /\ hw.desc = Zeroed
        BY <1>1, <1>3, <2>2, <2>4, CompletedRun
      <3> QED BY <2>2, <2>3, <2>4, <3>1
    <2>5. CASE xfer'[r][0].state = "FAILED"
      BY <2>2, <2>3, <2>5
    <2> QED BY <2>2, <2>4, <2>5
  <1>4. \A q \in Reqs : /\ xfer'[q][0].first = xfer[q][0].first
                        /\ xfer'[q][0].num = xfer[q][0].num
                        /\ xfer'[q][0].len = xfer[q][0].len
                        /\ xfer'[q][0].lastInReq = xfer[q][0].lastInReq
                        /\ Before(q)' = Before(q)
    <2>1. \A q \in Reqs : /\ xfer'[q][0].first = xfer[q][0].first
                          /\ xfer'[q][0].num = xfer[q][0].num
                          /\ xfer'[q][0].len = xfer[q][0].len
                          /\ xfer'[q][0].lastInReq = xfer[q][0].lastInReq
      BY <1>1, <1>3
    <2> QED BY <1>1, <2>1 DEF Before
  <1>5. ASSUME NEW q \in Reqs, list # <<<<q, 0>>>> PROVE Accounts(q)'
    <2>1. /\ Accounts(q) /\ call'[q] = call[q] /\ xfer'[q][0] = xfer[q][0]
          /\ UNCHANGED <<cfg, moved, late, result>> /\ hw'.desc = hw.desc
      BY <1>1, <1>2, <1>5 DEF DataInv
    <2> QED BY <1>5, <2>1 DEF Accounts, Before, Data
  <1>6. ASSUME NEW q \in Reqs, list = <<<<q, 0>>>> PROVE Accounts(q)'
    <2>1. /\ Accounts(q) /\ call'[q] = call[q]
          /\ UNCHANGED <<cfg, moved, late, result>> /\ hw'.desc = hw.desc
      BY <1>1, <1>2 DEF DataInv
    <2>2. xfer'[q][0].state = "COMPLETED" /\ cfg.stream =>
            \A i \in 1 .. xfer[q][0].num :
              result[xfer[q][0].first - 1 + i] = moved[q][Before(q) + i]
      BY <1>3, <1>6 DEF DataInv, Exact
    <2>3. call[q].pc \in {"wait", "claim"}
      BY <1>3, <1>6
    <2>4. /\ call[q].done \in Nat
          /\ ~(call[q].ret # Pending \/ late[q])
          /\ moved[q] \in Seq(1 .. desc_blen_max) /\ Len(moved[q]) <= Len(cfg.sdesc[q])
          /\ ~cfg.stream => \A i \in 1 .. Len(moved[q]) : moved[q][i] = cfg.sdesc[q][i]
          /\ call[q].done = Data(q, Before(q))
          /\ xfer[q][0].lastInReq = (call[q].idx = Len(cfg.sdesc[q]))
          /\ xfer[q][0].len \in Int
          /\ SumOver(cfg.sdesc[q], 1 .. call[q].idx) =
               SumOver(cfg.sdesc[q], 1 .. Before(q)) + xfer[q][0].len
      BY <2>1, <2>3 DEF Accounts, Built, Placed
    <2>5. call[q].done = Data(q, Before(q))'
      BY <1>4, <2>1, <2>4 DEF Data
    <2>6. /\ xfer'[q][0].state \in {"SUBMITTED", "COMPLETED", "FAILED"}
          /\ ~(xfer'[q][0].state = "SUBMITTED")
          /\ xfer'[q][0].state = "COMPLETED" =>
               /\ Len(moved[q]) = call[q].idx /\ xfer'[q][0].cmpl = xfer[q][0].num
               /\ hw.desc = Zeroed
      BY <1>3, <1>6
    <2> QED BY <1>4, <2>1, <2>2, <2>3, <2>4, <2>5, <2>6, SMTT(30) DEF Accounts
  <1>7. Pieces'
    BY <1>1, <1>4 DEF DataInv, Pieces
  <1>8. OnItsWay'
    <2>1. ASSUME NEW q \in Reqs, hw.desc # Zeroed, hw.desc.req = q PROVE GivenUp(q)'
      <3>1. ~hw.old
        BY <1>1 DEF DataInv, Exact
      <3>2. CASE list = <<>>
        <4>1. GivenUp(q)
          BY <2>1, <3>2 DEF DataInv, OnItsWay
        <4> QED BY <1>1, <3>2, <4>1 DEF GivenUp
      <3>3. ASSUME NEW r \in Reqs, list = <<<<r, 0>>>> PROVE GivenUp(q)'
        <4>1. Fetched = 1
          BY <2>1, <3>1 DEF Fetched
        <4>2. q = r
          BY <2>1, <3>3, <4>1 DEF SyncInv, RunInv
        <4>3. xfer'[q][0].state = "FAILED" /\ call'[q].pc \in {"wait", "claim"}
          BY <1>1, <1>3, <2>1, <3>3, <4>2
        <4> QED BY <4>3 DEF GivenUp
      <3> QED BY <3>2, <3>3 DEF SyncInv, ListInv
    <2>2. hw.desc # Zeroed => hw.desc.req \in Reqs
      BY KnownTypes DEF Desc
    <2> QED BY <1>1, <1>2, <2>1, <2>2 DEF DataInv, OnItsWay
  <1>9. Exact'
    BY <1>1, <1>2 DEF DataInv, Exact
  <1> QED BY <1>1, <1>5, <1>6, <1>7, <1>8, <1>9 DEF DataInv, Fields

(***************************************************************************)
(* DataInv holds                                                           *)
(***************************************************************************)

LEMMA DataStart ==
  ASSUME Init, ~cfg.async
  PROVE  DataInv
  <1>1. /\ \A r \in Reqs : /\ call[r].pc = "idle" /\ call[r].done = 0
                           /\ call[r].ret = Pending /\ moved[r] = <<>> /\ ~late[r]
        /\ list = <<>> /\ ~engine.running
        /\ hw.desc = Zeroed /\ ~hw.run /\ ~hw.old /\ hw.count = 0
        /\ DOMAIN result = Slots /\ DOMAIN late = Reqs
    BY DEF Init, Card
  <1>2. ASSUME NEW r \in Reqs PROVE Accounts(r)
    <2>1. Len(moved[r]) = 0 /\ moved[r] \in Seq(1 .. desc_blen_max)
      <3>1. moved[r] = <<>>
        BY <1>1
      <3>2. Len(<<>>) = 0 /\ <<>> \in Seq(1 .. desc_blen_max)
        OBVIOUS
      <3> QED BY <3>1, <3>2
    <2>2. SyncInv
      BY Start
    <2>3. Len(cfg.sdesc[r]) \in Nat
      BY <2>2, CallOf
    <2> QED BY <1>1, <2>1, <2>3 DEF Accounts, Built, Placed
  <1>3. Pieces /\ OnItsWay /\ Exact
    BY <1>1 DEF Pieces, OnItsWay, Exact, Placed
  <1> QED BY <1>1, <1>2, <1>3 DEF DataInv, Fields

LEMMA DataCaller ==
  ASSUME SyncInv, DataInv, ~cfg.async, NEW r \in Reqs, Caller(r)
  PROVE  DataInv'
  BY SubmitData, LockDescsData, TransferInitData, CheckOnlineData, RefuseTransferData,
     TransferQueueData, WakeData, ClaimCompletedData, ClaimFailedData,
     ClaimAbortedData, ReleaseData DEF Caller

LEMMA DataStep ==
  ASSUME SyncInv, DataInv, ~cfg.async, [Next]_vars
  PROVE  DataInv'
  <1>1. ASSUME NEW r \in Reqs, Caller(r) PROVE DataInv'
    BY <1>1, DataCaller
  <1>2. ASSUME Interrupt PROVE DataInv'
    BY <1>2, InterruptData
  <1>3. ASSUME Service PROVE DataInv'
    BY <1>3, ServiceStoppedData, ServiceStatusData, ServiceNothingData,
       ServiceTransfersData DEF Service
  <1>4. ASSUME OfflineFlag \/ Recovery PROVE DataInv'
    BY <1>4, OfflineFlagData, OfflineStopData, OnlineData, ResetCardData DEF Recovery
  <1>5. ASSUME CardStep \/ HwError PROVE DataInv'
    BY <1>5, HwFetchData, HwMoveData, HwIdleData, HwErrorData DEF CardStep
  <1>6. ASSUME UNCHANGED vars PROVE DataInv'
    BY <1>6, SameCardData DEF vars, hostVars
  <1> QED BY <1>1, <1>2, <1>3, <1>4, <1>5, <1>6 DEF Next

\* What DataInv adds to the invariant of XdmaEngineProofs.
CallsInv == IInv /\ (~cfg.async => DataInv)

\* The data of the calls is accounted for: what a call counts is exactly the data of
\* whole transfers of its own, which the card has moved, and what is on its way
\* is the next piece of a call that waits or has been given up (xdma_xfer_submit,
\* engine_service_final_transfer, transfer_init).
THEOREM SynchronousData == Spec => []CallsInv
  <1>1. Init => CallsInv
    BY Start, DataStart DEF CallsInv, IInv
  <1>2. CallsInv /\ [Next]_vars => CallsInv'
    <2> SUFFICES ASSUME CallsInv, [Next]_vars PROVE CallsInv'
      OBVIOUS
    <2>1. IInv'
      BY Inductive DEF CallsInv
    <2>2. ASSUME ~cfg'.async PROVE DataInv'
      BY <2>2, SettingStays, DataStep DEF CallsInv, IInv
    <2> QED BY <2>1, <2>2 DEF CallsInv
  <1> QED BY <1>1, <1>2, PTL DEF Spec

-----------------------------------------------------------------------------
(***************************************************************************)
(* The engine implements DmaCalls                                          *)
(***************************************************************************)

\* The calls are read() and write(), not requests of the kernel's AIO.
Synchronous == ~cfg.async

\* A step that a caller of DmaCalls does not see.
Unseen == UNCHANGED <<cfg, moved, late>> /\ \A r \in Reqs : call'[r].ret = call[r].ret

LEMMA UnseenStutters ==
  ASSUME Unseen
  PROVE  UNCHANGED Calls!vars
  BY DEF Unseen, Calls!vars

LEMMA SameData ==
  ASSUME NEW r \in Reqs, NEW j
  PROVE  Calls!DataIn(r, j) = Data(r, j)
  BY DEF Calls!DataIn, Data, SumOver, MapThenSumSet, MapThenFoldSet,
         Calls!MapThenSumSet, Calls!MapThenFoldSet

\* A call that returns what the first j pieces held, or an error.
LEMMA CutShortRefines ==
  ASSUME SyncInv, DataInv, NEW r \in Reqs, UNCHANGED <<cfg, moved, late>>,
         \A q \in Reqs \ {r} : call'[q].ret = call[q].ret,
         call[r].ret = Pending, NEW error \in {0, -1, -2, -3},
         NEW j \in 0 .. Len(moved[r]), call[r].done = Data(r, j),
         call'[r].ret = IF call[r].done > 0 THEN call[r].done ELSE error
  PROVE  Calls!CutShort(r)
  <1> DEFINE ret == [q \in Reqs |-> call[q].ret]
  <1>1. ret[r] = Pending
    OBVIOUS
  <1>2. ret' = [ret EXCEPT ![r] = call'[r].ret]
    OBVIOUS
  <1>3. UNCHANGED <<[q \in Reqs |-> Len(cfg.sdesc[q])], moved, late>>
    OBVIOUS
  <1> HIDE DEF ret
  <1>4. \E i \in 0 .. Len(moved[r]), e \in {0, -1, -2, -3} :
          call'[r].ret = IF i = 0 THEN e ELSE Calls!DataIn(r, i)
    <2>1. CASE call[r].done > 0
      <3>1. j # 0
        BY <2>1, DataOfNone
      <3>2. call'[r].ret = Calls!DataIn(r, j)
        BY <2>1, SameData
      <3> QED BY <3>1, <3>2
    <2>2. CASE ~(call[r].done > 0)
      <3>1. 0 \in 0 .. Len(moved[r])
        BY CallOf
      <3>2. call'[r].ret = error
        BY <2>2
      <3> QED BY <3>1, <3>2
    <2> QED BY <2>1, <2>2
  <1> QED BY <1>1, <1>2, <1>3, <1>4 DEF Calls!CutShort, ret

LEMMA SubmitRefines ==
  ASSUME SyncInv, DataInv, ~cfg.async, NEW r \in Reqs, Submit(r)
  PROVE  Calls!CutShort(r) \/ Unseen
  <1>1. UNCHANGED <<cfg, moved, late>> /\ call[r].pc = "idle"
    BY DEF Submit, ghostVars
  <1>2. CASE dev.offline
    <2>1. call' = [call EXCEPT ![r].pc = "done", ![r].done = 0, ![r].ret = EBUSY]
      BY <1>2 DEF Submit, Return
    <2>2. call'[r].ret = -1 /\ \A q \in Reqs \ {r} : call'[q].ret = call[q].ret
      BY <2>1 DEF SyncInv, Shape, EBUSY
    <2>3. call[r].ret = Pending /\ call[r].done = 0 /\ Data(r, 0) = 0
      BY <1>1, DataOfNone DEF DataInv, Accounts
    <2>4. 0 \in 0 .. Len(moved[r])
      BY CallOf
    <2>5. call'[r].ret = IF call[r].done > 0 THEN call[r].done ELSE -1
      BY <2>2, <2>3
    <2>6. -1 \in {0, -1, -2, -3}
      OBVIOUS
    <2> QED BY <1>1, <2>2, <2>3, <2>4, <2>5, <2>6, CutShortRefines
  <1>3. CASE ~dev.offline
    <2>1. call' = [call EXCEPT ![r].pc = "mutex"]
      BY <1>3 DEF Submit
    <2> QED BY <1>1, <2>1 DEF SyncInv, Shape, Unseen
  <1> QED BY <1>2, <1>3

\* A call refused before its transfer is queued counts the transfers before.
LEMMA RefusedRefines ==
  ASSUME SyncInv, DataInv, NEW r \in Reqs, call[r].pc \in {"check", "queue"},
         UNCHANGED <<cfg, moved, late>>, Return(r, call[r].done, EBUSY)
  PROVE  Calls!CutShort(r)
  <1>1. /\ call[r].done \in Nat /\ call[r].ret = Pending
        /\ call[r].done = Data(r, Before(r)) /\ Len(moved[r]) = Before(r)
    BY DEF DataInv, Accounts, Placed
  <1> DEFINE d == call[r].done
  <1>2. call' = [call EXCEPT ![r].pc = "done", ![r].done = d,
                             ![r].ret = IF d > 0 THEN d ELSE EBUSY]
    BY DEF Return
  <1> HIDE DEF d
  <1>3. /\ call'[r].ret = IF d > 0 THEN d ELSE EBUSY
        /\ \A q \in Reqs \ {r} : call'[q].ret = call[q].ret
    BY <1>2 DEF SyncInv, Shape
  <1>4. PICK j \in 0 .. Len(moved[r]) : j = Before(r)
    <2>1. Len(moved[r]) \in Nat
      BY CallOf
    <2> QED BY <1>1, <2>1
  <1>5. call[r].done = Data(r, j)
    BY <1>1, <1>4
  <1>6. call'[r].ret = IF call[r].done > 0 THEN call[r].done ELSE EBUSY
    BY <1>3 DEF d
  <1>7. EBUSY \in {0, -1, -2, -3}
    BY DEF EBUSY
  <1> QED BY <1>1, <1>3, <1>5, <1>6, <1>7, CutShortRefines

LEMMA ReleaseRefines ==
  ASSUME SyncInv, DataInv, NEW r \in Reqs, Release(r)
  PROVE  Calls!CutShort(r) \/ Calls!Complete(r) \/ Unseen
  <1>1. /\ UNCHANGED <<cfg, moved, late>>
        /\ call[r].pc = "free"
        /\ \A q \in Reqs \ {r} : call'[q].ret = call[q].ret
        /\ \/ /\ call[r].rv < 0 \/ xfer[r][0].lastInReq
              /\ call'[r].ret = IF call[r].done > 0 THEN call[r].done ELSE call[r].rv
           \/ call'[r].ret = call[r].ret
    BY ReleaseEffect
  <1>2. /\ call[r].done \in Nat /\ call[r].ret = Pending
        /\ xfer[r][0].lastInReq = (call[r].idx = Len(cfg.sdesc[r]))
        /\ \/ call[r].rv = 0 /\ Len(moved[r]) = call[r].idx /\ call[r].done = Data(r, call[r].idx)
           \/ call[r].rv < 0 /\ Len(moved[r]) >= Before(r) /\ call[r].done = Data(r, Before(r))
    BY <1>1 DEF DataInv, Accounts, Built
  <1>3. /\ call[r].rv \in {0, EIO, ERESTARTSYS} /\ xfer[r][0].num >= 1
        /\ xfer[r][0].num <= call[r].idx /\ xfer[r][0].num \in Nat /\ call[r].idx \in Nat
        /\ Len(moved[r]) \in Nat
    BY <1>1, CallOf DEF SyncInv, CallInv, Built
  <1>4. CASE call'[r].ret = call[r].ret
    BY <1>1, <1>4 DEF Unseen
  <1>5. CASE /\ call[r].rv < 0
             /\ call'[r].ret = IF call[r].done > 0 THEN call[r].done ELSE call[r].rv
    <2>1. PICK j \in 0 .. Len(moved[r]) : j = Before(r)
      BY <1>2, <1>3, <1>5 DEF Before
    <2>2. call[r].done = Data(r, j)
      BY <1>2, <1>5, <2>1
    <2>3. call[r].rv \in {0, -1, -2, -3}
      BY <1>3 DEF EIO, ERESTARTSYS
    <2> QED BY <1>1, <1>2, <1>5, <2>2, <2>3, CutShortRefines
  <1>6. CASE /\ call[r].rv = 0 /\ xfer[r][0].lastInReq
             /\ call'[r].ret = IF call[r].done > 0 THEN call[r].done ELSE call[r].rv
    <2>1. Len(moved[r]) = Len(cfg.sdesc[r]) /\ call[r].done = Data(r, Len(cfg.sdesc[r]))
          /\ Len(cfg.sdesc[r]) >= 1 /\ Len(cfg.sdesc[r]) \in 0 .. Len(moved[r])
      <3>1. call[r].idx = Len(cfg.sdesc[r])
        BY <1>2, <1>6
      <3>2. Len(moved[r]) = call[r].idx /\ call[r].done = Data(r, call[r].idx)
        <4>1. ~(call[r].rv < 0)
          BY <1>6
        <4> QED BY <1>2, <4>1
      <3>3. call[r].idx >= 1
        BY <1>3
      <3>4. Len(cfg.sdesc[r]) \in 0 .. Len(moved[r])
        BY <1>3, <3>1, <3>2
      <3> QED BY <3>1, <3>2, <3>3, <3>4
    <2>2. call[r].done > 0
      <3>1. Accounts(r)
        BY DEF DataInv
      <3>2. Data(r, Len(cfg.sdesc[r])) \in Nat
            /\ Data(r, Len(cfg.sdesc[r])) >= Len(cfg.sdesc[r])
        BY <2>1, <3>1, DataGrows
      <3>3. Len(cfg.sdesc[r]) \in Nat
        BY CallOf
      <3> QED BY <2>1, <3>2, <3>3
    <2>3. call'[r].ret = Calls!DataIn(r, Len(cfg.sdesc[r]))
      BY <1>6, <2>1, <2>2, SameData
    <2> DEFINE ret    == [q \in Reqs |-> call[q].ret]
               pieces == [q \in Reqs |-> Len(cfg.sdesc[q])]
    <2>4. /\ ret[r] = Pending /\ pieces[r] = Len(cfg.sdesc[r])
          /\ ret' = [ret EXCEPT ![r] = call'[r].ret]
          /\ UNCHANGED <<pieces, moved, late>>
      BY <1>1, <1>2
    <2> HIDE DEF ret, pieces
    <2>5. ret' = [ret EXCEPT ![r] = Calls!DataIn(r, pieces[r])]
      BY <2>3, <2>4
    <2> QED BY <2>1, <2>4, <2>5 DEF Calls!Complete, ret, pieces
  <1> QED BY <1>1, <1>2, <1>4, <1>5, <1>6

\* The steps of a caller that no caller of DmaCalls sees.
LEMMA CallerUnseen ==
  ASSUME SyncInv, ~cfg.async, NEW r \in Reqs,
         \/ LockDescs(r) \/ TransferInit(r) \/ TransferQueue(r) \/ Wake(r)
         \/ ClaimCompleted(r) \/ ClaimFailed(r) \/ ClaimAborted(r)
  PROVE  Unseen
  <1>1. CASE LockDescs(r)
    <2>1. UNCHANGED <<cfg, moved, late>> /\ call' = [call EXCEPT ![r].pc = "init"]
      BY <1>1 DEF LockDescs, ghostVars
    <2> QED BY <2>1 DEF SyncInv, Shape, Unseen
  <1>2. CASE TransferInit(r)
    <2> DEFINE n == Room(engine.desc_idx, Min2(Len(cfg.sdesc[r]) - call[r].idx, DescMax))
    <2>1. /\ UNCHANGED <<cfg, moved, late>>
          /\ call' = [call EXCEPT ![r].pc = "check", ![r].idx = @ + n]
      BY <1>2 DEF TransferInit, ghostVars
    <2> HIDE DEF n
    <2> QED BY <2>1, SMTT(30) DEF SyncInv, Shape, Unseen
  <1>3. CASE TransferQueue(r)
    <2>1. /\ UNCHANGED <<cfg, moved, late>>
          /\ call' = [call EXCEPT ![r].pc = "wait", ![r].k = @]
      BY <1>3 DEF TransferQueue, ghostVars
    <2> QED BY <2>1 DEF SyncInv, Shape, Unseen
  <1>4. CASE Wake(r)
    <2>1. UNCHANGED <<cfg, moved, late>> /\ call' = [call EXCEPT ![r].pc = "claim"]
      BY <1>4 DEF Wake, ghostVars
    <2> QED BY <2>1 DEF SyncInv, Shape, Unseen
  <1>5. CASE ClaimCompleted(r)
    <2> DEFINE d == DataOf(xfer[r][0], xfer[r][0].cmpl)
    <2>1. /\ UNCHANGED <<cfg, moved, late>>
          /\ call' = [call EXCEPT ![r].pc = "free", ![r].rv = 0, ![r].done = @ + d]
      BY <1>5 DEF ClaimCompleted, ghostVars
    <2> HIDE DEF d
    <2> QED BY <2>1 DEF SyncInv, Shape, Unseen
  <1>6. CASE ClaimFailed(r)
    <2>1. /\ UNCHANGED <<cfg, moved, late>>
          /\ call' = [call EXCEPT ![r].pc = "free", ![r].rv = EIO]
      BY <1>6 DEF ClaimFailed, ghostVars
    <2> QED BY <2>1 DEF SyncInv, Shape, Unseen
  <1>7. CASE ClaimAborted(r)
    <2>1. /\ UNCHANGED <<cfg, moved, late>>
          /\ call' = [call EXCEPT ![r].pc = "free", ![r].rv = ERESTARTSYS]
      BY <1>7 DEF ClaimAborted, ghostVars
    <2> QED BY <2>1 DEF SyncInv, Shape, Unseen
  <1> QED BY <1>1, <1>2, <1>3, <1>4, <1>5, <1>6, <1>7

\* Every step of a caller is one of DmaCalls, or none.
LEMMA CallerRefines ==
  ASSUME SyncInv, DataInv, ~cfg.async, NEW r \in Reqs, Caller(r)
  PROVE  Calls!CutShort(r) \/ Calls!Complete(r) \/ Unseen
  <1>1. CASE Submit(r)
    BY <1>1, SubmitRefines
  <1>2. CASE CheckOnline(r)
    <2>1. UNCHANGED <<cfg, moved, late>> /\ call[r].pc = "check"
      BY <1>2 DEF CheckOnline, ghostVars
    <2>2. CASE dev.offline
      <3>1. Return(r, call[r].done, EBUSY)
        BY <1>2, <2>2 DEF CheckOnline
      <3> QED BY <2>1, <3>1, RefusedRefines
    <2>3. CASE ~dev.offline
      <3>1. call' = [call EXCEPT ![r].pc = "queue"]
        BY <1>2, <2>3 DEF CheckOnline
      <3> QED BY <2>1, <3>1 DEF SyncInv, Shape, Unseen
    <2> QED BY <2>2, <2>3
  <1>3. CASE RefuseTransfer(r)
    <2>1. /\ UNCHANGED <<cfg, moved, late>> /\ call[r].pc = "queue"
          /\ Return(r, call[r].done, EBUSY)
      BY <1>3 DEF RefuseTransfer, ghostVars
    <2> QED BY <2>1, RefusedRefines
  <1>4. CASE Release(r)
    BY <1>4, ReleaseRefines
  <1>5. CASE \/ LockDescs(r) \/ TransferInit(r) \/ TransferQueue(r) \/ Wake(r)
             \/ ClaimCompleted(r) \/ ClaimFailed(r) \/ ClaimAborted(r)
    BY <1>5, CallerUnseen
  <1> QED BY <1>1, <1>2, <1>3, <1>4, <1>5 DEF Caller

\* The driver's other steps and the card's, but for the one that moves data.
LEMMA OthersUnseen ==
  ASSUME SyncInv, ~cfg.async,
         Interrupt \/ Service \/ OfflineFlag \/ Recovery \/ HwFetch \/ HwIdle \/ HwError
  PROVE  Unseen
  <1>1. CASE ServiceTransfers
    <2>1. UNCHANGED <<cfg, moved, late>> /\ \A r \in Reqs : call'[r] = call[r]
      BY <1>1, ServiceTransfersEffect
    <2> QED BY <2>1 DEF Unseen
  <1>2. CASE Interrupt \/ ServiceStopped \/ ServiceStatus \/ ServiceNothing \/ OfflineFlag
    <2>1. UNCHANGED <<cfg, call, moved, late>>
      BY <1>2 DEF Interrupt, ServiceStopped, ServiceStatus, ServiceNothing, OfflineFlag,
                  ghostVars
    <2> QED BY <2>1 DEF Unseen
  <1>3. CASE Recovery
    <2>1. UNCHANGED <<cfg, call, moved, late>>
      BY <1>3 DEF Recovery, OfflineStop, OfflineIrq, ResetCard, OnlineRegs, OnlineAccept,
                  OnlineIrq, OnlineFlag, ghostVars
    <2> QED BY <2>1 DEF Unseen
  <1>4. CASE HwFetch \/ HwIdle \/ HwError
    <2>1. UNCHANGED <<cfg, call, moved, late>>
      BY <1>4 DEF HwFetch, HwIdle, HwError, hostVars, ghostVars
    <2> QED BY <2>1 DEF Unseen
  <1> QED BY <1>1, <1>2, <1>3, <1>4 DEF Service

LEMMA HwMoveRefines ==
  ASSUME SyncInv, DataInv, HwMove
  PROVE  \E r \in Reqs : \E len \in 1 .. desc_blen_max : Calls!Move(r, len)
  <1>1. PICK r \in Reqs, len \in 1 .. desc_blen_max :
           /\ UNCHANGED <<cfg, call>>
           /\ ~late[r] /\ Len(moved[r]) < Len(cfg.sdesc[r])
           /\ moved' = [moved EXCEPT ![r] = Append(@, len)]
           /\ late' = [late EXCEPT ![r] = call[r].ret # Pending]
    BY MoveEffect
  <1> DEFINE ret    == [q \in Reqs |-> call[q].ret]
             pieces == [q \in Reqs |-> Len(cfg.sdesc[q])]
  <1>2. /\ UNCHANGED <<pieces, ret>> /\ Len(moved[r]) < pieces[r] /\ ~late[r]
        /\ moved' = [moved EXCEPT ![r] = Append(@, len)]
        /\ late' = [late EXCEPT ![r] = ret[r] # Pending]
    BY <1>1
  <1> HIDE DEF ret, pieces
  <1>3. Calls!Move(r, len)
    BY <1>2 DEF Calls!Move, ret, pieces
  <1> QED BY <1>3

LEMMA StepRefines ==
  ASSUME CallsInv, ~cfg.async, [Next]_vars
  PROVE  [Calls!Next]_(Calls!vars)
  <1>1. SyncInv /\ DataInv
    BY DEF CallsInv, IInv
  <1>2. ASSUME NEW r \in Reqs, Caller(r) PROVE Calls!Next \/ UNCHANGED Calls!vars
    <2>1. Calls!CutShort(r) \/ Calls!Complete(r) \/ Unseen
      BY <1>1, <1>2, CallerRefines
    <2> QED BY <2>1, UnseenStutters DEF Calls!Next
  <1>3. CASE Interrupt \/ Service \/ OfflineFlag \/ Recovery \/ HwFetch \/ HwIdle \/ HwError
    BY <1>1, <1>3, OthersUnseen, UnseenStutters
  <1>4. CASE HwMove
    <2>1. PICK r \in Reqs, len \in 1 .. desc_blen_max : Calls!Move(r, len)
      BY <1>1, <1>4, HwMoveRefines
    <2> QED BY <2>1 DEF Calls!Next
  <1>5. CASE UNCHANGED vars
    <2>1. Unseen
      BY <1>5 DEF vars, hostVars, ghostVars, Unseen
    <2> QED BY <2>1, UnseenStutters
  <1> QED BY <1>2, <1>3, <1>4, <1>5 DEF Next, CardStep

LEMMA StartRefines ==
  ASSUME Init
  PROVE  Calls!Init
  <1>1. cfg \in Configs
    BY DEF Init
  <1>2. [r \in Reqs |-> Len(cfg.sdesc[r])] \in [Reqs -> Nat \ {0}]
    <2>1. ASSUME NEW r \in Reqs PROVE Len(cfg.sdesc[r]) \in Nat \ {0}
      <3>1. cfg.sdesc[r] \in Seq(1 .. desc_blen_max) /\ cfg.sdesc[r] # <<>>
        BY <1>1, ConfigsAssumption
      <3> QED BY <3>1
    <2> QED BY <2>1
  <1>3. [r \in Reqs |-> call[r].ret] = [r \in Reqs |-> Pending]
    BY DEF Init
  <1> QED BY <1>2, <1>3 DEF Init, Calls!Init

\* To the programs that call it, the synchronous engine is DmaCalls: whatever
\* signals, timeouts, errors and resets do to descriptors, lists and interrupts, the
\* pieces of a call are moved in order and once, and a call says what has moved
\* (xdma_xfer_submit).
THEOREM SynchronousCallsRefine == Spec /\ Synchronous => ImplementsCalls
  <1>1. Init => Calls!Init
    BY StartRefines
  <1>2. CallsInv /\ Synchronous /\ [Next]_vars => [Calls!Next]_(Calls!vars)
    BY StepRefines DEF Synchronous
  <1>3. Synchronous /\ [Next]_vars => Synchronous'
    BY SettingStays DEF Synchronous
  <1> QED BY <1>1, <1>2, <1>3, SynchronousData, PTL DEF Spec, ImplementsCalls, Calls!Spec

-----------------------------------------------------------------------------
(***************************************************************************)
(* The descriptors are accounted for                                       *)
(***************************************************************************)

\* Without a reset the device is up and what is used is the one transfer built.
UsedInv ==
  "reset" \notin cfg.faults =>
    /\ ~dev.offline /\ dev.pc = "up" /\ irq.handler /\ "REQUEST" \notin engine.shutdown
    /\ \A r \in Reqs : call[r].pc \in Built => engine.desc_used = xfer[r][0].num
    /\ (\A r \in Reqs : call[r].pc \notin Built) => engine.desc_used = 0

\* The descriptors of some transfers, as the driver counts them.
UsedBy(S) == MapThenSumSet(LAMBDA t : Xfer(t).num, S)

LEMMA UsedByIs ==
  ASSUME NEW S, IsFiniteSet(S), \A t \in S : Xfer(t).num \in Int
  PROVE  UsedBy(S) = SumOver([t \in S |-> Xfer(t).num], S)
  <1> DEFINE F == [t \in S |-> Xfer(t).num]
             Def(g) == g = [s \in SUBSET S |->
                              IF s = {} THEN 0 ELSE LET x == CHOOSE x \in s : TRUE
                                                    IN  Xfer(x).num + g[s \ {x}]]
             iter == CHOOSE g : Def(g)
  <1>1. \A t \in S : F[t] \in Int
    OBVIOUS
  <1>2. UsedBy(S) = iter[S]
    BY DEF UsedBy, MapThenSumSet, MapThenFoldSet
  <1>3. ASSUME NEW g PROVE Sums(F, S, g) <=> Def(g)
    <2> DEFINE A(s) == IF s = {} THEN 0 ELSE LET x == CHOOSE x \in s : TRUE
                                             IN  F[x] + g[s \ {x}]
               B(s) == IF s = {} THEN 0 ELSE LET x == CHOOSE x \in s : TRUE
                                             IN  Xfer(x).num + g[s \ {x}]
    <2>1. ASSUME NEW s \in SUBSET S PROVE A(s) = B(s)
      <3>1. ASSUME NEW x \in s PROVE F[x] = Xfer(x).num
        OBVIOUS
      <3>2. s # {} => (CHOOSE x \in s : TRUE) \in s
        OBVIOUS
      <3> HIDE DEF F
      <3> QED BY <3>1, <3>2
    <2> HIDE DEF A, B, F
    <2>2. [s \in SUBSET S |-> A(s)] = [s \in SUBSET S |-> B(s)]
      BY <2>1
    <2> QED BY <2>2 DEF Sums, A, B
  <1> HIDE DEF F
  <1>4. PICK g : Sums(F, S, g)
    BY <1>1, SumsExist
  <1>5. Def(iter)
    <2>1. Def(g)
      BY <1>3, <1>4
    <2> HIDE DEF Def
    <2> QED BY <2>1
  <1>6. Sums(F, S, iter)
    BY <1>3, <1>5
  <1> HIDE DEF iter, Def
  <1>7. UsedBy(S) = SumOver(F, S)
    BY <1>1, <1>2, <1>6, SumOverIs
  <1> QED BY <1>7 DEF F

LEMMA UsedByOne ==
  ASSUME NEW t, Xfer(t).num \in Int
  PROVE  UsedBy({t}) = Xfer(t).num
  <1> DEFINE F == [u \in {t} |-> Xfer(u).num]
  <1>1. IsFiniteSet({}) /\ IsFiniteSet({t}) /\ {} \cup {t} = {t}
    BY FS_EmptySet, FS_Singleton
  <1>2. UsedBy({t}) = SumOver(F, {t})
    BY <1>1, UsedByIs
  <1>3. F[t] = Xfer(t).num /\ \A u \in {} \cup {t} : F[u] \in Int
    OBVIOUS
  <1> HIDE DEF F
  <1>4. SumOver(F, {} \cup {t}) = SumOver(F, {}) + F[t]
    BY <1>1, <1>3, SumWithOneMore
  <1>5. SumOver(F, {}) = 0
    BY SumOfNone
  <1> QED BY <1>1, <1>2, <1>3, <1>4, <1>5

LEMMA UsedByNone == UsedBy({}) = 0
  <1> DEFINE F == [t \in {} |-> Xfer(t).num]
  <1>1. IsFiniteSet({}) /\ \A t \in {} : Xfer(t).num \in Int
    BY FS_EmptySet
  <1>2. UsedBy({}) = SumOver(F, {})
    BY <1>1, UsedByIs
  <1> HIDE DEF F
  <1> QED BY <1>2, SumOfNone

\* The service routine gives back nothing of a synchronous call.
LEMMA NothingGivenBack == MapThenSumSet(LAMBDA x : x.num, {}) = 0
  <1> DEFINE Def(g) == g = [s \in SUBSET {} |->
                              IF s = {} THEN 0 ELSE LET x == CHOOSE x \in s : TRUE
                                                    IN  x.num + g[s \ {x}]]
             iter == CHOOSE g : Def(g)
             zero == [s \in SUBSET {} |-> 0]
  <1>1. MapThenSumSet(LAMBDA x : x.num, {}) = iter[{}]
    BY DEF MapThenSumSet, MapThenFoldSet
  <1>2. Def(zero)
    OBVIOUS
  <1>3. Def(iter)
    <2> HIDE DEF Def, zero
    <2> QED BY <1>2
  <1>4. {} \in SUBSET {}
    OBVIOUS
  <1>5. iter[{}] = 0
    <2> HIDE DEF iter
    <2> QED BY <1>3, <1>4
  <1> QED BY <1>1, <1>5

\* A step that builds no transfer, gives none back and leaves the device up.
LEMMA UsedFrame ==
  ASSUME UsedInv, UNCHANGED <<cfg, dev>>, irq.handler => irq'.handler,
         "REQUEST" \in engine'.shutdown => "REQUEST" \in engine.shutdown,
         engine'.desc_used = engine.desc_used,
         \A r \in Reqs : call'[r].pc \in Built <=> call[r].pc \in Built,
         \A r \in Reqs : call[r].pc \in Built => xfer'[r][0].num = xfer[r][0].num
  PROVE  UsedInv'
  BY DEF UsedInv

LEMMA UsedTransferInit ==
  ASSUME SyncInv, UsedInv, ~cfg.async, NEW r \in Reqs, TransferInit(r)
  PROVE  UsedInv'
  <1>1. PICK first \in Nat, num \in Nat :
         /\ num >= 1 /\ call[r].idx + num <= Len(cfg.sdesc[r]) /\ first + num <= DescMax
         /\ UNCHANGED <<cfg, desc_lock, list, work, dev, hw, irq, moved, late>>
         /\ call[r].pc = "init" /\ list = <<>> /\ ~engine.running
         /\ \A q \in Reqs \ {r} : /\ call[q].pc \notin Active
                                  /\ call'[q] = call[q] /\ xfer'[q] = xfer[q]
         /\ call'[r].pc = "check" /\ call'[r].idx = call[r].idx + num
         /\ call'[r].done = call[r].done /\ call'[r].ret = call[r].ret
         /\ call'[r].rv = call[r].rv
         /\ xfer'[r][0] =
              [state |-> "NEW", first |-> first, num |-> num, cmpl |-> 0,
               len |-> PieceSum(cfg.sdesc[r], call[r].idx, first, num),
               lastInReq |-> call[r].idx + num = Len(cfg.sdesc[r])]
         /\ engine'.running = engine.running /\ engine'.shutdown = engine.shutdown
         /\ engine'.desc_used = engine.desc_used + num
         /\ \A s \in first .. first + num - 1 :
              ring'[s] = [req |-> r, len |-> cfg.sdesc[r][call[r].idx + 1 + s - first],
                          last |-> s = first + num - 1,
                          next |-> IF s = first + num - 1 THEN Null ELSE s + 1, res |-> s]
         /\ DOMAIN result' = Slots
    BY TransferInitEffect
  <1>2. /\ \A q \in Reqs : call[q].pc \notin Built
        /\ \A q \in Reqs \ {r} : call'[q].pc \notin Built
        /\ call'[r].pc \in Built
    BY <1>1 DEF Active, Built
  <1>3. UNCHANGED <<cfg, dev, irq>> /\ engine'.shutdown = engine.shutdown
    BY <1>1
  <1>4. xfer'[r][0].num = num /\ engine'.desc_used = engine.desc_used + num /\ num + 0 = num
    BY <1>1
  <1>5. "reset" \notin cfg.faults => engine'.desc_used = num
    BY <1>2, <1>4 DEF UsedInv
  <1> QED BY <1>2, <1>3, <1>4, <1>5 DEF UsedInv

LEMMA UsedCaller ==
  ASSUME SyncInv, UsedInv, ~cfg.async, NEW r \in Reqs, Caller(r)
  PROVE  UsedInv'
  <1> USE DEF ghostVars
  <1>1. CASE Submit(r)
    <2>1. /\ UNCHANGED <<cfg, dev, irq, engine, xfer>> /\ call[r].pc = "idle"
          /\ \/ call' = [call EXCEPT ![r].pc = "done", ![r].done = 0, ![r].ret = EBUSY]
             \/ call' = [call EXCEPT ![r].pc = "mutex"]
      BY <1>1 DEF Submit, Return
    <2>2. call'[r].pc \in {"done", "mutex"} /\ \A q \in Reqs \ {r} : call'[q] = call[q]
      BY <2>1 DEF SyncInv, Shape
    <2>3. \A q \in Reqs : call'[q].pc \in Built <=> call[q].pc \in Built
      BY <2>1, <2>2 DEF Built
    <2> QED BY <2>1, <2>3, UsedFrame
  <1>2. CASE LockDescs(r)
    <2>1. /\ UNCHANGED <<cfg, dev, irq, engine, xfer>> /\ call[r].pc = "mutex"
          /\ call' = [call EXCEPT ![r].pc = "init"]
      BY <1>2 DEF LockDescs
    <2>2. \A q \in Reqs : call'[q].pc \in Built <=> call[q].pc \in Built
      BY <2>1 DEF SyncInv, Shape, Built
    <2> QED BY <2>1, <2>2, UsedFrame
  <1>3. CASE TransferInit(r)
    BY <1>3, UsedTransferInit
  <1>4. CASE CheckOnline(r)
    <2>1. UNCHANGED <<cfg, dev, irq, engine, xfer>> /\ call[r].pc = "check"
      BY <1>4 DEF CheckOnline
    <2>2. CASE dev.offline
      BY <2>1, <2>2 DEF UsedInv
    <2>3. CASE ~dev.offline
      <3>1. call' = [call EXCEPT ![r].pc = "queue"]
        BY <1>4, <2>3 DEF CheckOnline
      <3>2. \A q \in Reqs : call'[q].pc \in Built <=> call[q].pc \in Built
        BY <2>1, <3>1 DEF SyncInv, Shape, Built
      <3> QED BY <2>1, <3>2, UsedFrame
    <2> QED BY <2>2, <2>3
  <1>5. CASE RefuseTransfer(r)
    BY <1>5 DEF RefuseTransfer, UsedInv
  <1>6. CASE TransferQueue(r)
    <2>1. /\ UNCHANGED <<cfg, dev, irq>> /\ call[r].pc = "queue"
          /\ call' = [call EXCEPT ![r].pc = "wait", ![r].k = @]
          /\ xfer' = [xfer EXCEPT ![r][call[r].k].state = "SUBMITTED"]
          /\ engine' = engine \/ engine' = Started(engine)
      BY <1>6 DEF TransferQueue
    <2>2. \A q \in Reqs : call'[q].pc \in Built <=> call[q].pc \in Built
      BY <2>1 DEF SyncInv, Shape, Built
    <2>3. \A q \in Reqs : xfer'[q][0].num = xfer[q][0].num
      BY <2>1 DEF SyncInv, Shape, Exclusion
    <2>4. engine'.desc_used = engine.desc_used
          /\ ("REQUEST" \in engine'.shutdown => "REQUEST" \in engine.shutdown)
      BY <2>1 DEF SyncInv, Shape, Started
    <2> QED BY <2>1, <2>2, <2>3, <2>4, UsedFrame
  <1>7. CASE Wake(r)
    <2>1. /\ UNCHANGED <<cfg, dev, irq, engine, xfer>> /\ call[r].pc = "wait"
          /\ call' = [call EXCEPT ![r].pc = "claim"]
      BY <1>7 DEF Wake
    <2>2. \A q \in Reqs : call'[q].pc \in Built <=> call[q].pc \in Built
      BY <2>1 DEF SyncInv, Shape, Built
    <2> QED BY <2>1, <2>2, UsedFrame
  <1>8. CASE ClaimCompleted(r)
    <2> DEFINE d == DataOf(xfer[r][0], xfer[r][0].cmpl)
    <2>1. /\ UNCHANGED <<cfg, dev, irq, engine, xfer>> /\ call[r].pc = "claim"
          /\ call' = [call EXCEPT ![r].pc = "free", ![r].rv = 0, ![r].done = @ + d]
      BY <1>8 DEF ClaimCompleted
    <2> HIDE DEF d
    <2>2. \A q \in Reqs : call'[q].pc \in Built <=> call[q].pc \in Built
      BY <2>1 DEF SyncInv, Shape, Built
    <2> QED BY <2>1, <2>2, UsedFrame
  <1>9. CASE ClaimFailed(r)
    <2>1. /\ UNCHANGED <<cfg, dev, irq, engine, xfer>> /\ call[r].pc = "claim"
          /\ call' = [call EXCEPT ![r].pc = "free", ![r].rv = EIO]
      BY <1>9 DEF ClaimFailed
    <2>2. \A q \in Reqs : call'[q].pc \in Built <=> call[q].pc \in Built
      BY <2>1 DEF SyncInv, Shape, Built
    <2> QED BY <2>1, <2>2, UsedFrame
  <1>10. CASE ClaimAborted(r)
    <2>1. /\ UNCHANGED <<cfg, dev, irq>> /\ call[r].pc = "claim"
          /\ call' = [call EXCEPT ![r].pc = "free", ![r].rv = ERESTARTSYS]
          /\ xfer' = [xfer EXCEPT ![r][0].state = "ABORTED"]
          /\ engine' = Stopped(engine)
      BY <1>10 DEF ClaimAborted
    <2>2. \A q \in Reqs : call'[q].pc \in Built <=> call[q].pc \in Built
      BY <2>1 DEF SyncInv, Shape, Built
    <2>3. \A q \in Reqs : xfer'[q][0].num = xfer[q][0].num
      BY <2>1 DEF SyncInv, Shape
    <2>4. engine'.desc_used = engine.desc_used /\ engine'.shutdown = engine.shutdown
      BY <2>1 DEF SyncInv, Shape, Stopped
    <2> QED BY <2>1, <2>2, <2>3, <2>4, UsedFrame
  <1>11. CASE Release(r)
    <2>1. /\ UNCHANGED <<cfg, xfer, dev, irq>>
          /\ call[r].pc = "free"
          /\ engine' = GivenBack(engine, xfer[r][0].num)
          /\ \A q \in Reqs \ {r} : call[q].pc \notin Active /\ call'[q] = call[q]
          /\ call'[r].pc \in {"done", "init"}
      BY <1>11, ReleaseEffect
    <2>2. \A q \in Reqs : call'[q].pc \notin Built
      BY <2>1 DEF Active, Built
    <2>3. engine'.shutdown = engine.shutdown
          /\ engine'.desc_used = engine.desc_used - xfer[r][0].num
      BY <2>1 DEF SyncInv, Shape, GivenBack
    <2>4. "reset" \notin cfg.faults => engine'.desc_used = 0
      <3>1. call[r].pc \in Built /\ xfer[r][0].num \in Nat
        BY <2>1, CallOf DEF Built
      <3> QED BY <2>3, <3>1 DEF UsedInv
    <2> QED BY <2>1, <2>2, <2>3, <2>4 DEF UsedInv
  <1> QED BY <1>1, <1>2, <1>3, <1>4, <1>5, <1>6, <1>7, <1>8, <1>9, <1>10, <1>11 DEF Caller

LEMMA UsedStep ==
  ASSUME SyncInv, UsedInv, ~cfg.async, [Next]_vars
  PROVE  UsedInv'
  <1> USE DEF ghostVars
  <1>1. ASSUME NEW r \in Reqs, Caller(r) PROVE UsedInv'
    BY <1>1, UsedCaller
  <1>2. CASE Interrupt
    <2>1. UNCHANGED <<cfg, dev, engine, call, xfer>> /\ irq' = [irq EXCEPT !.enabled = FALSE]
      BY <1>2 DEF Interrupt
    <2>2. irq.handler => irq'.handler
      BY <2>1
    <2> QED BY <2>1, <2>2, UsedFrame
  <1>3. CASE ServiceStopped \/ ServiceNothing
    <2>1. UNCHANGED <<cfg, dev, engine, call, xfer>> /\ irq' = [irq EXCEPT !.enabled = TRUE]
      BY <1>3 DEF ServiceStopped, ServiceNothing
    <2>2. irq.handler => irq'.handler
      BY <2>1
    <2> QED BY <2>1, <2>2, UsedFrame
  <1>4. CASE ServiceStatus
    <2>1. UNCHANGED <<cfg, dev, irq, call, xfer>> /\ engine' \in {engine, Stopped(engine)}
      BY <1>4 DEF ServiceStatus
    <2>2. engine'.desc_used = engine.desc_used /\ engine'.shutdown = engine.shutdown
      BY <2>1 DEF SyncInv, Shape, Stopped
    <2> QED BY <2>1, <2>2, UsedFrame
  <1>5. CASE ServiceTransfers
    <2>1. /\ UNCHANGED <<cfg, dev>> /\ \A r \in Reqs : call'[r] = call[r]
          /\ irq' = [irq EXCEPT !.enabled = TRUE]
          /\ "REQUEST" \in engine'.shutdown => "REQUEST" \in engine.shutdown
          /\ engine'.desc_used = engine.desc_used - MapThenSumSet(LAMBDA x : x.num, {})
          /\ \A r \in Reqs :
               /\ list # <<<<r, 0>>>> => xfer'[r][0] = xfer[r][0]
               /\ list = <<<<r, 0>>>> => xfer'[r][0] = FinalState(xfer[r][0], hw.count)
      BY <1>5, ServiceTransfersEffect
    <2>2. irq.handler => irq'.handler
      BY <2>1
    <2>3. \A r \in Reqs : xfer'[r][0].num = xfer[r][0].num
      BY <2>1, FinalStateShape
    <2>4. "reset" \notin cfg.faults => engine'.desc_used = engine.desc_used
      <3>1. "reset" \notin cfg.faults => engine.desc_used \in Int
        BY CallOf DEF UsedInv
      <3>2. engine'.desc_used = engine.desc_used - 0
        BY <2>1, NothingGivenBack
      <3> QED BY <3>1, <3>2
    <2> QED BY <2>1, <2>2, <2>3, <2>4, UsedFrame DEF UsedInv
  <1>6. CASE OfflineFlag \/ Recovery
    BY <1>6 DEF UsedInv, OfflineFlag, Recovery, OfflineStop, OfflineIrq, ResetCard,
                OnlineRegs, OnlineAccept, OnlineIrq, OnlineFlag
  <1>7. CASE CardStep \/ HwError
    <2>1. UNCHANGED <<cfg, dev, irq, engine, call, xfer>>
      BY <1>7 DEF CardStep, HwFetch, HwMove, HwIdle, HwError, hostVars
    <2> QED BY <2>1, UsedFrame
  <1>8. CASE UNCHANGED vars
    <2>1. UNCHANGED <<cfg, dev, irq, engine, call, xfer>>
      BY <1>8 DEF vars, hostVars
    <2> QED BY <2>1, UsedFrame
  <1> QED BY <1>1, <1>2, <1>3, <1>4, <1>5, <1>6, <1>7, <1>8 DEF Next, Service

LEMMA UsedStart ==
  ASSUME Init
  PROVE  UsedInv
  BY DEF Init, UsedInv, Built

\* One call at a time holds descriptors, those of its one transfer.
LEMMA HeldIs ==
  ASSUME SyncInv, ~cfg.async
  PROVE  LET held == {t \in Reqs \X (0 .. 1) : Holds(t[1], t[2])} IN
         \/ held = {} /\ \A r \in Reqs : call[r].pc \notin Built
         \/ \E r \in Reqs : held = {<<r, 0>>} /\ call[r].pc \in Built
  <1> DEFINE held == {t \in Reqs \X (0 .. 1) : Holds(t[1], t[2])}
  <1>1. ASSUME NEW r \in Reqs, NEW k \in 0 .. 1
        PROVE  Holds(r, k) <=> k = 0 /\ call[r].pc \in Built
    <2>1. call[r].pc \in {"idle", "mutex", "init", "check", "queue", "wait", "claim",
                          "free", "queued", "done"}
      BY DEF SyncInv, TypeOK
    <2>2. call[r].pc # "queued"
      BY DEF SyncInv, Exclusion
    <2> QED BY <2>1, <2>2 DEF Holds, Built
  <1>2. \A t : t \in held <=> \E r \in Reqs : t = <<r, 0>> /\ call[r].pc \in Built
    <2>1. ASSUME NEW r \in Reqs, call[r].pc \in Built PROVE <<r, 0>> \in held
      BY <1>1, <2>1
    <2>2. ASSUME NEW t \in held PROVE \E r \in Reqs : t = <<r, 0>> /\ call[r].pc \in Built
      <3>1. PICK r \in Reqs, k \in 0 .. 1 : t = <<r, k>>
        OBVIOUS
      <3>2. k = 0 /\ call[r].pc \in Built
        BY <1>1, <3>1
      <3> QED BY <3>1, <3>2
    <2> QED BY <2>1, <2>2
  <1> HIDE DEF held
  <1>3. CASE \A r \in Reqs : call[r].pc \notin Built
    <2>1. held = {}
      BY <1>2, <1>3
    <2> QED BY <1>3, <2>1 DEF held
  <1>4. ASSUME NEW r \in Reqs, call[r].pc \in Built
        PROVE  held = {<<r, 0>>}
    <2>1. \A q \in Reqs : call[q].pc \in Built => q = r
      BY <1>4, OnlyHolder DEF SyncInv, Active, Built
    <2> QED BY <1>2, <1>4, <2>1
  <1> QED BY <1>3, <1>4 DEF held

LEMMA UsedIsAccounted ==
  ASSUME SyncInv, UsedInv, ~cfg.async
  PROVE  DescriptorsAccounted
  <1> DEFINE held == {t \in Reqs \X (0 .. 1) : Holds(t[1], t[2])}
  <1>1. \/ held = {} /\ \A r \in Reqs : call[r].pc \notin Built
        \/ \E r \in Reqs : held = {<<r, 0>>} /\ call[r].pc \in Built
    BY HeldIs
  <1> HIDE DEF held
  <1>2. "reset" \notin cfg.faults => engine.desc_used = UsedBy(held)
    <2>1. CASE held = {} /\ \A r \in Reqs : call[r].pc \notin Built
      BY <2>1, UsedByNone DEF UsedInv
    <2>2. ASSUME NEW r \in Reqs, held = {<<r, 0>>}, call[r].pc \in Built
          PROVE  "reset" \notin cfg.faults => engine.desc_used = UsedBy(held)
      <3>1. Xfer(<<r, 0>>) = xfer[r][0] /\ xfer[r][0].num \in Int
        BY CallOf DEF Xfer
      <3>2. UsedBy({<<r, 0>>}) = xfer[r][0].num
        BY <3>1, UsedByOne
      <3> QED BY <2>2, <3>2 DEF UsedInv
    <2> QED BY <1>1, <2>1, <2>2
  <1>3. \A t, u \in held : t = u
    BY <1>1
  <1>4. /\ "reset" \notin cfg.faults =>
             engine.desc_used = MapThenSumSet(LAMBDA t : Xfer(t).num, held)
        /\ \A t, u \in held : t # u => SlotsOf(Xfer(t)) \cap SlotsOf(Xfer(u)) = {}
    BY <1>2, <1>3 DEF UsedBy
  <1> QED BY <1>4 DEF DescriptorsAccounted, held

-----------------------------------------------------------------------------
(***************************************************************************)
(* A transfer fails only for a reason                                      *)
(***************************************************************************)

\* Nothing is under way, on the card or between it and the service routine.
Still == /\ ~hw.stop /\ ~hw.err /\ hw.desc = Zeroed
         /\ ~work.pending /\ work.at = "idle" /\ irq.enabled

\* As long as no call is given up before the card has stopped, the service
\* routine runs only for a card that has stopped.
CalmInv ==
  cfg.faults \subseteq {"busy", "error"} =>
    /\ irq \in [enabled : BOOLEAN, handler : BOOLEAN]
    /\ irq.enabled <=> ~work.pending /\ work.at = "idle"
    /\ work.at = "count" => ~hw.stop /\ ~hw.err /\ ~work.pending
    /\ hw.stop \/ hw.err \/ ~irq.enabled =>
         /\ hw.desc = Zeroed
         /\ ~hw.busy \/ \A r \in Reqs : list = <<<<r, 0>>>> => hw.count = xfer[r][0].num
    /\ ~hw.old /\ (hw.desc # Zeroed => hw.run)
    /\ list = <<>> => Still
    /\ \A r \in Reqs : call[r].pc = "claim" /\ xfer[r][0].state = "SUBMITTED" =>
         Still /\ ~hw.busy

\* A calm setting has no resets, signals or stalls.
LEMMA CalmSetting ==
  ASSUME UsedInv, cfg.faults \subseteq {"busy", "error"}
  PROVE  /\ "reset" \notin cfg.faults /\ "signal" \notin cfg.faults
         /\ "stall" \notin cfg.faults
         /\ ~dev.offline /\ dev.pc = "up" /\ irq.handler /\ "REQUEST" \notin engine.shutdown
  BY DEF UsedInv

LEMMA CalmFrame ==
  ASSUME CalmInv, UNCHANGED <<cfg, list, work, hw, irq>>,
         \A r \in Reqs : list = <<<<r, 0>>>> => xfer'[r][0].num = xfer[r][0].num,
         \A r \in Reqs : call'[r].pc = "claim" /\ xfer'[r][0].state = "SUBMITTED" =>
                           call[r].pc = "claim" /\ xfer[r][0].state = "SUBMITTED"
  PROVE  CalmInv'
  <1> SUFFICES ASSUME cfg.faults \subseteq {"busy", "error"}
               PROVE  CalmInv'
    BY DEF CalmInv
  <1>1. \A r \in Reqs : list' = <<<<r, 0>>>> => xfer'[r][0].num = xfer[r][0].num
    OBVIOUS
  <1> QED BY <1>1 DEF CalmInv, Still

LEMMA CalmWake ==
  ASSUME SyncInv, DataInv, UsedInv, CalmInv, NEW r \in Reqs, Wake(r)
  PROVE  CalmInv'
  <1> SUFFICES ASSUME cfg.faults \subseteq {"busy", "error"} PROVE CalmInv'
    BY DEF CalmInv, Wake
  <1>1. /\ UNCHANGED <<cfg, xfer, list, work, hw, irq>>
        /\ call[r].pc = "wait"
        /\ call' = [call EXCEPT ![r].pc = "claim"]
        /\ xfer[r][0].state # "SUBMITTED" \/ "signal" \in cfg.faults \/ Quiet
    BY DEF Wake, ghostVars
  <1>2. \A q \in Reqs \ {r} : call'[q] = call[q]
    BY <1>1 DEF SyncInv, Shape
  <1>3. ASSUME xfer[r][0].state = "SUBMITTED" PROVE Still /\ ~hw.busy
    <2>1. Quiet
      BY <1>1, <1>3, CalmSetting
    <2>2. irq.enabled /\ irq.handler /\ ~hw.busy
      BY <2>1, CalmSetting DEF Quiet, CalmInv, LockFree
    <2>3. hw.desc = Zeroed
      BY <2>2 DEF DataInv, OnItsWay
    <2> QED BY <2>1, <2>2, <2>3 DEF Quiet, LockFree, Still
  <1> QED BY <1>1, <1>2, <1>3 DEF CalmInv, Still

LEMMA CalmTransferQueue ==
  ASSUME SyncInv, CalmInv, ~cfg.async, NEW r \in Reqs, TransferQueue(r)
  PROVE  CalmInv'
  <1>1. /\ UNCHANGED <<cfg, work, irq>> /\ call[r].pc = "queue" /\ call[r].k = 0
        /\ call' = [call EXCEPT ![r].pc = "wait", ![r].k = @]
        /\ xfer' = [xfer EXCEPT ![r][0].state = "SUBMITTED"]
        /\ list' = Append(list, <<r, 0>>)
    BY DEF TransferQueue, SyncInv, Exclusion
  <1>2. list = <<>> /\ ~engine.running
    BY <1>1, NobodyWaits DEF SyncInv, Active
  <1>3. list' = <<<<r, 0>>>> /\ \A q \in Reqs : list' = <<<<q, 0>>>> => q = r
    BY <1>1, <1>2
  <1>4. hw' = HwStarted(hw, Xfer(Head(list')).first)
    BY <1>1, <1>2 DEF TransferQueue, SyncInv, Exclusion
  <1>5. /\ hw'.stop = hw.stop /\ hw'.err = hw.err /\ hw'.desc = hw.desc
        /\ hw'.old = (hw.desc # Zeroed) /\ hw'.run
    <2> DEFINE f == Xfer(Head(list')).first
    <2>1. hw' = HwStarted(hw, f)
      BY <1>4
    <2> HIDE DEF f
    <2> QED BY <2>1 DEF SyncInv, Shape, HwStarted
  <1>6. \A q \in Reqs : call'[q].pc # "claim"
    <2>1. \A q \in Reqs \ {r} : call[q].pc \notin Active
      BY <1>1, OnlyHolder DEF SyncInv, Active
    <2>2. call'[r].pc = "wait" /\ \A q \in Reqs \ {r} : call'[q] = call[q]
      BY <1>1 DEF SyncInv, Shape
    <2> QED BY <2>1, <2>2 DEF Active
  <1>7. cfg.faults \subseteq {"busy", "error"} => Still
    BY <1>2 DEF CalmInv
  <1> QED BY <1>1, <1>3, <1>5, <1>6, <1>7 DEF CalmInv, Still

LEMMA CalmClaimAborted ==
  ASSUME SyncInv, CalmInv, NEW r \in Reqs, ClaimAborted(r)
  PROVE  CalmInv'
  <1>1. /\ UNCHANGED <<cfg, work, irq>>
        /\ call[r].pc = "claim" /\ xfer[r][0].state = "SUBMITTED"
        /\ hw' = HwStopped(hw)
        /\ call' = [call EXCEPT ![r].pc = "free", ![r].rv = ERESTARTSYS]
    BY DEF ClaimAborted
  <1>2. list' = <<>>
    BY AbortedList
  <1>3. /\ hw'.stop = hw.stop /\ hw'.err = hw.err /\ hw'.desc = hw.desc
        /\ hw'.old = hw.old /\ hw'.busy = hw.busy
    BY <1>1 DEF SyncInv, Shape, HwStopped
  <1>4. \A q \in Reqs : call'[q].pc # "claim"
    <2>1. \A q \in Reqs \ {r} : call[q].pc \notin Active
      BY <1>1, OnlyHolder DEF SyncInv, Active
    <2>2. call'[r].pc = "free" /\ \A q \in Reqs \ {r} : call'[q] = call[q]
      BY <1>1 DEF SyncInv, Shape
    <2> QED BY <2>1, <2>2 DEF Active
  <1>5. cfg.faults \subseteq {"busy", "error"} => Still
    BY <1>1 DEF CalmInv
  <1> QED BY <1>1, <1>2, <1>3, <1>4, <1>5 DEF CalmInv, Still

\* The other steps of a caller leave the card and the service routine alone.
LEMMA CalmCaller ==
  ASSUME SyncInv, DataInv, UsedInv, CalmInv, ~cfg.async, NEW r \in Reqs, Caller(r)
  PROVE  CalmInv'
  <1> USE DEF ghostVars
  <1>1. CASE Submit(r)
    <2>1. /\ UNCHANGED <<cfg, xfer, list, work, hw, irq>>
          /\ \/ call' = [call EXCEPT ![r].pc = "done", ![r].done = 0, ![r].ret = EBUSY]
             \/ call' = [call EXCEPT ![r].pc = "mutex"]
      BY <1>1 DEF Submit, Return
    <2>2. call'[r].pc \in {"done", "mutex"} /\ \A q \in Reqs \ {r} : call'[q] = call[q]
      BY <2>1 DEF SyncInv, Shape
    <2> QED BY <2>1, <2>2, CalmFrame
  <1>2. CASE LockDescs(r)
    <2>1. /\ UNCHANGED <<cfg, xfer, list, work, hw, irq>>
          /\ call' = [call EXCEPT ![r].pc = "init"]
      BY <1>2 DEF LockDescs
    <2>2. call'[r].pc = "init" /\ \A q \in Reqs \ {r} : call'[q] = call[q]
      BY <2>1 DEF SyncInv, Shape
    <2> QED BY <2>1, <2>2, CalmFrame
  <1>3. CASE TransferInit(r)
    <2> DEFINE n == Room(engine.desc_idx, Min2(Len(cfg.sdesc[r]) - call[r].idx, DescMax))
    <2>1. /\ UNCHANGED <<cfg, list, work, hw, irq>> /\ call[r].pc = "init" /\ call[r].k = 0
          /\ call' = [call EXCEPT ![r].pc = "check", ![r].idx = @ + n]
          /\ \E x : xfer' = [xfer EXCEPT ![r][call[r].k] = x]
      BY <1>3 DEF TransferInit, SyncInv, Exclusion
    <2> HIDE DEF n
    <2>2. call'[r].pc = "check" /\ \A q \in Reqs \ {r} : call'[q] = call[q] /\ xfer'[q] = xfer[q]
      BY <2>1 DEF SyncInv, Shape
    <2>3. list = <<>>
      BY <2>1, NobodyWaits DEF SyncInv, Active
    <2>4. \A q \in Reqs : list # <<<<q, 0>>>>
      BY <2>3
    <2> QED BY <2>1, <2>2, <2>4, CalmFrame
  <1>4. CASE CheckOnline(r) \/ RefuseTransfer(r)
    <2> DEFINE d == call[r].done
               v == IF d > 0 THEN d ELSE EBUSY
    <2>1. /\ UNCHANGED <<cfg, xfer, list, work, hw, irq>>
          /\ \/ call' = [call EXCEPT ![r].pc = "done", ![r].done = d, ![r].ret = v]
             \/ call' = [call EXCEPT ![r].pc = "queue"]
      BY <1>4 DEF CheckOnline, RefuseTransfer, Return
    <2> HIDE DEF d, v
    <2>2. call'[r].pc \in {"done", "queue"} /\ \A q \in Reqs \ {r} : call'[q] = call[q]
      BY <2>1 DEF SyncInv, Shape
    <2> QED BY <2>1, <2>2, CalmFrame
  <1>5. CASE TransferQueue(r)
    BY <1>5, CalmTransferQueue
  <1>6. CASE Wake(r)
    BY <1>6, CalmWake
  <1>7. CASE ClaimCompleted(r)
    <2> DEFINE d == DataOf(xfer[r][0], xfer[r][0].cmpl)
    <2>1. /\ UNCHANGED <<cfg, xfer, list, work, hw, irq>>
          /\ call' = [call EXCEPT ![r].pc = "free", ![r].rv = 0, ![r].done = @ + d]
      BY <1>7 DEF ClaimCompleted
    <2> HIDE DEF d
    <2>2. call'[r].pc = "free" /\ \A q \in Reqs \ {r} : call'[q] = call[q]
      BY <2>1 DEF SyncInv, Shape
    <2> QED BY <2>1, <2>2, CalmFrame
  <1>8. CASE ClaimFailed(r)
    <2>1. /\ UNCHANGED <<cfg, xfer, list, work, hw, irq>>
          /\ call' = [call EXCEPT ![r].pc = "free", ![r].rv = EIO]
      BY <1>8 DEF ClaimFailed
    <2>2. call'[r].pc = "free" /\ \A q \in Reqs \ {r} : call'[q] = call[q]
      BY <2>1 DEF SyncInv, Shape
    <2> QED BY <2>1, <2>2, CalmFrame
  <1>9. CASE ClaimAborted(r)
    BY <1>9, CalmClaimAborted
  <1>10. CASE Release(r)
    <2>1. /\ UNCHANGED <<cfg, xfer, list, work, hw, irq>>
          /\ \A q \in Reqs \ {r} : call'[q] = call[q]
          /\ call'[r].pc \in {"done", "init"}
      BY <1>10, ReleaseEffect
    <2> QED BY <2>1, CalmFrame
  <1> QED BY <1>1, <1>2, <1>3, <1>4, <1>5, <1>6, <1>7, <1>8, <1>9, <1>10 DEF Caller

LEMMA CalmInterrupt ==
  ASSUME SyncInv, CalmInv, Interrupt
  PROVE  CalmInv'
  <1> SUFFICES ASSUME cfg.faults \subseteq {"busy", "error"} PROVE CalmInv'
    BY DEF CalmInv, Interrupt
  <1>1. /\ UNCHANGED <<cfg, call, xfer, list, hw>>
        /\ irq.enabled /\ (hw.stop \/ hw.err)
        /\ irq' = [irq EXCEPT !.enabled = FALSE]
        /\ work' = [work EXCEPT !.pending = TRUE]
    BY DEF Interrupt
  <1>2. /\ ~irq'.enabled /\ irq' \in [enabled : BOOLEAN, handler : BOOLEAN]
        /\ work'.pending /\ work'.at = work.at
    BY <1>1 DEF CalmInv, SyncInv, TypeOK
  <1>3. ~Still /\ work.at = "idle"
    BY <1>1 DEF Still, CalmInv
  <1> QED BY <1>1, <1>2, <1>3 DEF CalmInv

LEMMA CalmServiceStopped ==
  ASSUME SyncInv, CalmInv, ServiceStopped
  PROVE  CalmInv'
  <1> SUFFICES ASSUME cfg.faults \subseteq {"busy", "error"} PROVE CalmInv'
    BY DEF CalmInv, ServiceStopped
  <1>1. /\ UNCHANGED <<cfg, call, xfer, list>>
        /\ work.pending /\ work.at = "idle"
        /\ work' = [work EXCEPT !.pending = FALSE]
        /\ hw' = [hw EXCEPT !.stop = FALSE, !.err = FALSE]
        /\ irq' = [irq EXCEPT !.enabled = TRUE]
    BY DEF ServiceStopped
  <1>2. /\ irq'.enabled /\ irq' \in [enabled : BOOLEAN, handler : BOOLEAN]
        /\ ~work'.pending /\ work'.at = "idle"
    BY <1>1 DEF CalmInv, SyncInv, TypeOK
  <1>3. /\ ~hw'.stop /\ ~hw'.err /\ hw'.desc = hw.desc /\ hw'.run = hw.run
        /\ hw'.old = hw.old
    BY <1>1 DEF SyncInv, Shape
  <1>4. ~Still
    BY <1>1 DEF Still
  <1> QED BY <1>1, <1>2, <1>3, <1>4 DEF CalmInv

LEMMA CalmServiceStatus ==
  ASSUME SyncInv, CalmInv, ServiceStatus
  PROVE  CalmInv'
  <1> SUFFICES ASSUME cfg.faults \subseteq {"busy", "error"} PROVE CalmInv'
    BY DEF CalmInv, ServiceStatus
  <1>1. /\ UNCHANGED <<cfg, call, xfer, list, irq>>
        /\ work.pending /\ work.at = "idle"
        /\ work' = [pending |-> FALSE, at |-> "count", err |-> hw.err]
        /\ hw' = [hw EXCEPT !.stop = FALSE, !.err = FALSE, !.run = @ /\ hw.busy]
    BY DEF ServiceStatus
  <1>2. /\ ~hw'.stop /\ ~hw'.err /\ hw'.desc = hw.desc /\ hw'.busy = hw.busy
        /\ hw'.old = hw.old /\ hw'.count = hw.count
    BY <1>1 DEF SyncInv, Shape
  <1>3. ~Still /\ ~irq.enabled /\ hw.desc = Zeroed
    BY <1>1 DEF Still, CalmInv
  <1> QED BY <1>1, <1>2, <1>3 DEF CalmInv

LEMMA CalmServiceNothing ==
  ASSUME SyncInv, CalmInv, ServiceNothing
  PROVE  CalmInv'
  <1> SUFFICES ASSUME cfg.faults \subseteq {"busy", "error"} PROVE CalmInv'
    BY DEF CalmInv, ServiceNothing
  <1>1. /\ UNCHANGED <<cfg, call, xfer, list, hw>>
        /\ work.at = "count"
        /\ work' = [work EXCEPT !.at = "idle"]
        /\ irq' = [irq EXCEPT !.enabled = TRUE]
    BY DEF ServiceNothing
  <1>2. /\ irq'.enabled /\ irq' \in [enabled : BOOLEAN, handler : BOOLEAN]
        /\ work'.pending = work.pending /\ work'.at = "idle"
    BY <1>1 DEF CalmInv, SyncInv, TypeOK
  <1>3. ~Still /\ ~hw.stop /\ ~hw.err /\ ~work.pending
    BY <1>1 DEF Still, CalmInv
  <1> QED BY <1>1, <1>2, <1>3 DEF CalmInv

LEMMA CalmServiceTransfers ==
  ASSUME SyncInv, DataInv, CalmInv, ~cfg.async, ServiceTransfers
  PROVE  CalmInv'
  <1> SUFFICES ASSUME cfg.faults \subseteq {"busy", "error"} PROVE CalmInv'
    BY ServiceTransfersEffect DEF CalmInv
  <1>1. /\ UNCHANGED cfg /\ \A r \in Reqs : call'[r] = call[r]
        /\ list' = <<>> /\ work.at = "count"
        /\ work' = [work EXCEPT !.at = "idle"]
        /\ irq' = [irq EXCEPT !.enabled = TRUE]
        /\ hw' = HwStopped(hw) \/ (hw' = hw /\ ~engine.running)
        /\ \A r \in Reqs :
              /\ list # <<<<r, 0>>>> => xfer'[r][0] = xfer[r][0]
              /\ list = <<<<r, 0>>>> => xfer'[r][0] = FinalState(xfer[r][0], hw.count)
    BY ServiceTransfersEffect
  <1>2. /\ irq'.enabled /\ irq' \in [enabled : BOOLEAN, handler : BOOLEAN]
        /\ work'.pending = work.pending /\ work'.at = "idle"
    BY <1>1 DEF CalmInv, SyncInv, TypeOK
  <1>3. ~hw.stop /\ ~hw.err /\ ~work.pending /\ ~irq.enabled /\ hw.desc = Zeroed /\ ~hw.old
    BY <1>1 DEF CalmInv
  <1>4. /\ hw'.stop = hw.stop /\ hw'.err = hw.err /\ hw'.desc = hw.desc
        /\ hw'.old = hw.old
    BY <1>1 DEF SyncInv, Shape, HwStopped
  <1>5. Still'
    BY <1>2, <1>3, <1>4 DEF Still
  <1>6. ASSUME NEW r \in Reqs, call'[r].pc = "claim" PROVE xfer'[r][0].state # "SUBMITTED"
    <2>1. call[r].pc = "claim"
      BY <1>1, <1>6
    <2>2. CASE list = <<<<r, 0>>>>
      BY <1>1, <2>2, FinalStateShape
    <2>3. CASE list # <<<<r, 0>>>>
      <3>1. xfer[r][0].state # "SUBMITTED"
        BY <2>1, <2>3 DEF DataInv, Accounts
      <3> QED BY <1>1, <2>3, <3>1
    <2> QED BY <2>2, <2>3
  <1> QED BY <1>1, <1>2, <1>3, <1>4, <1>5, <1>6 DEF CalmInv, Still

\* What the card is at when it is at something: the transfer of the list, and
\* neither a status nor the service routine waits to be dealt with.
LEMMA CalmRun ==
  ASSUME SyncInv, DataInv, CalmInv, cfg.faults \subseteq {"busy", "error"},
         hw.run, hw.busy, hw.desc # Zeroed \/ hw.next # Null
  PROVE  /\ ~hw.stop /\ ~hw.err /\ irq.enabled /\ ~hw.old
         /\ \E r \in Reqs : list = <<<<r, 0>>>>
         /\ \A r \in Reqs : ~(call[r].pc = "claim" /\ xfer[r][0].state = "SUBMITTED")
  <1>1. engine.running /\ list # <<>> /\ ~hw.old
    BY DEF DataInv, Exact, CalmInv, SyncInv, ListInv
  <1>2. PICK r \in Reqs : list = <<<<r, 0>>>>
    BY <1>1 DEF SyncInv, ListInv
  <1>3. ASSUME hw.stop \/ hw.err \/ ~irq.enabled PROVE FALSE
    <2>1. hw.desc = Zeroed /\ hw.next # Null /\ hw.count = xfer[r][0].num
      BY <1>2, <1>3 DEF CalmInv
    <2>2. hw.count + Fetched = hw.next - xfer[r][0].first
      BY <1>2, <2>1 DEF DataInv, Exact
    <2>3. hw.next \in SlotsOf(xfer[r][0])
      BY <1>2, <2>1 DEF SyncInv, RunInv
    <2>4. Fetched = 0
      BY <2>1 DEF Fetched
    <2>5. xfer[r][0].first \in Nat /\ xfer[r][0].num \in Nat
      BY CallOf
    <2> DEFINE f == xfer[r][0].first
               n == xfer[r][0].num
    <2>6. hw.next \in f .. f + n - 1 /\ n + 0 = hw.next - f /\ f \in Nat /\ n \in Nat
      BY <2>1, <2>2, <2>3, <2>4, <2>5 DEF SlotsOf
    <2> HIDE DEF f, n
    <2> QED BY <2>6
  <1> QED BY <1>1, <1>2, <1>3 DEF CalmInv, SyncInv, Shape

LEMMA CalmHwFetch ==
  ASSUME SyncInv, DataInv, CalmInv, HwFetch
  PROVE  CalmInv'
  <1> SUFFICES ASSUME cfg.faults \subseteq {"busy", "error"} PROVE CalmInv'
    BY DEF CalmInv, HwFetch
  <1>1. /\ UNCHANGED <<cfg, call, xfer, list, work, irq>>
        /\ hw.run /\ hw.busy /\ hw.desc = Zeroed /\ hw.next # Null
        /\ \/ hw' = [hw EXCEPT !.err = TRUE, !.busy = FALSE]
           \/ hw' = [hw EXCEPT !.desc = ring[hw.next], !.next = ring[hw.next].next]
    BY DEF HwFetch, hostVars
  <1>2. /\ ~hw.stop /\ ~hw.err /\ irq.enabled /\ ~hw.old
        /\ \E r \in Reqs : list = <<<<r, 0>>>>
        /\ \A r \in Reqs : ~(call[r].pc = "claim" /\ xfer[r][0].state = "SUBMITTED")
    BY <1>1, CalmRun
  <1>3. CASE hw' = [hw EXCEPT !.err = TRUE, !.busy = FALSE]
    <2>1. /\ hw'.stop = hw.stop /\ hw'.err /\ hw'.desc = Zeroed /\ ~hw'.busy
          /\ hw'.run = hw.run /\ hw'.old = hw.old
      BY <1>1, <1>3 DEF SyncInv, Shape
    <2> QED BY <1>1, <1>2, <2>1 DEF CalmInv
  <1>4. CASE hw' = [hw EXCEPT !.desc = ring[hw.next], !.next = ring[hw.next].next]
    <2>1. /\ hw'.stop = hw.stop /\ hw'.err = hw.err
          /\ hw'.run = hw.run /\ hw'.old = hw.old
      BY <1>4 DEF SyncInv, Shape
    <2> QED BY <1>1, <1>2, <2>1 DEF CalmInv
  <1> QED BY <1>1, <1>3, <1>4

\* The card stops on the last descriptor of the transfer, with all of them counted.
LEMMA LastIsLast ==
  ASSUME SyncInv, DataInv, HwMove, hw.run, ~hw.old, NEW r \in Reqs, list = <<<<r, 0>>>>
  PROVE  /\ hw'.count = hw.count + 1
         /\ hw.desc.last <=> hw.next = Null
         /\ hw.desc.last => hw.count + 1 = xfer[r][0].num
  <1>1. PICK q \in Reqs, len \in 1 .. desc_blen_max :
           /\ hw.busy /\ hw.desc # Zeroed
           /\ \/ hw.old \/ list = <<>>
              \/ /\ ~hw.old /\ list = <<<<q, 0>>>>
                 /\ Fetched = 1 /\ hw'.count = hw.count + 1
    BY MoveEffect
  <1>2. Fetched = 1 /\ hw'.count = hw.count + 1
    BY <1>1
  <1>3. /\ hw.count + 1 = IF hw.next = Null THEN xfer[r][0].num
                          ELSE hw.next - xfer[r][0].first
        /\ hw.desc.last = (hw.next = Null)
    BY <1>1, <1>2 DEF DataInv, Exact
  <1> QED BY <1>2, <1>3

LEMMA CalmHwMove ==
  ASSUME SyncInv, DataInv, CalmInv, HwMove
  PROVE  CalmInv'
  <1> SUFFICES ASSUME cfg.faults \subseteq {"busy", "error"} PROVE CalmInv'
    BY DEF CalmInv, HwMove
  <1> DEFINE stop  == hw.stop \/ (hw.desc.last /\ (hw.old => "stray" \in cfg.faults))
             busy  == hw.old \/ (IF hw.desc.last THEN "busy" \in cfg.faults ELSE hw.run)
             count == IF hw.old THEN hw.count ELSE (hw.count + 1) % CountMod
  <1>1. /\ UNCHANGED <<cfg, call, xfer, list, work, irq>>
        /\ hw.desc # Zeroed
        /\ hw' = [hw EXCEPT !.desc = Zeroed, !.old = FALSE, !.count = count,
                            !.stop = stop, !.busy = busy]
    BY DEF HwMove, hostVars
  <1>2. hw.run /\ hw.busy /\ ~hw.old
    BY <1>1 DEF CalmInv, DataInv, OnItsWay
  <1>3. /\ ~hw.stop /\ ~hw.err /\ irq.enabled
        /\ \E r \in Reqs : list = <<<<r, 0>>>>
        /\ \A r \in Reqs : ~(call[r].pc = "claim" /\ xfer[r][0].state = "SUBMITTED")
    BY <1>1, <1>2, CalmRun
  <1>4. /\ hw'.stop = stop /\ hw'.err = hw.err /\ hw'.desc = Zeroed /\ ~hw'.old
    <2> HIDE DEF stop, busy, count
    <2> QED BY <1>1 DEF SyncInv, Shape
  <1>5. stop => \A r \in Reqs : list = <<<<r, 0>>>> => hw'.count = xfer[r][0].num
    BY <1>2, <1>3, LastIsLast
  <1> HIDE DEF stop, busy, count
  <1>6. ~hw'.err /\ (hw'.stop => \A r \in Reqs : list = <<<<r, 0>>>> =>
                                                  hw'.count = xfer[r][0].num)
    BY <1>3, <1>4, <1>5
  <1>7. UNCHANGED <<cfg, call, xfer, list, work, irq>>
    BY <1>1
  <1> QED BY <1>3, <1>4, <1>6, <1>7 DEF CalmInv

LEMMA CalmHwError ==
  ASSUME SyncInv, DataInv, CalmInv, HwError
  PROVE  CalmInv'
  <1> SUFFICES ASSUME cfg.faults \subseteq {"busy", "error"} PROVE CalmInv'
    BY DEF CalmInv, HwError
  <1>1. /\ UNCHANGED <<cfg, call, xfer, list, work, irq>>
        /\ hw.desc # Zeroed
        /\ hw' = [hw EXCEPT !.err = TRUE, !.busy = FALSE, !.desc = Zeroed, !.old = FALSE]
    BY DEF HwError, hostVars
  <1>2. hw.run /\ hw.busy
    BY <1>1 DEF CalmInv, DataInv, OnItsWay
  <1>3. /\ ~hw.stop /\ ~hw.err /\ irq.enabled
        /\ \E r \in Reqs : list = <<<<r, 0>>>>
        /\ \A r \in Reqs : ~(call[r].pc = "claim" /\ xfer[r][0].state = "SUBMITTED")
    BY <1>1, <1>2, CalmRun
  <1>4. hw'.stop = hw.stop /\ hw'.err /\ hw'.desc = Zeroed /\ ~hw'.busy /\ ~hw'.old
    BY <1>1 DEF SyncInv, Shape
  <1> QED BY <1>1, <1>3, <1>4 DEF CalmInv

LEMMA CalmHwIdle ==
  ASSUME SyncInv, CalmInv, HwIdle
  PROVE  CalmInv'
  <1>1. /\ UNCHANGED <<cfg, call, xfer, list, work, irq>>
        /\ hw.desc = Zeroed
        /\ hw' = [hw EXCEPT !.busy = FALSE]
    BY DEF HwIdle, hostVars
  <1>2. /\ hw'.stop = hw.stop /\ hw'.err = hw.err /\ hw'.desc = hw.desc /\ ~hw'.busy
        /\ hw'.old = hw.old /\ hw'.run = hw.run
    BY <1>1 DEF SyncInv, Shape
  <1> QED BY <1>1, <1>2 DEF CalmInv, Still

LEMMA CalmStep ==
  ASSUME SyncInv, DataInv, UsedInv, CalmInv, ~cfg.async, [Next]_vars
  PROVE  CalmInv'
  <1>1. ASSUME NEW r \in Reqs, Caller(r) PROVE CalmInv'
    BY <1>1, CalmCaller
  <1>2. CASE Interrupt \/ Service
    BY <1>2, CalmInterrupt, CalmServiceStopped, CalmServiceStatus, CalmServiceNothing,
       CalmServiceTransfers DEF Service
  <1>3. CASE OfflineFlag \/ Recovery
    <2> SUFFICES ASSUME cfg.faults \subseteq {"busy", "error"} PROVE CalmInv'
      BY SettingStays DEF CalmInv
    <2> QED BY <1>3, CalmSetting DEF OfflineFlag, Recovery, OfflineStop, OfflineIrq,
               ResetCard, OnlineRegs, OnlineAccept, OnlineIrq, OnlineFlag
  <1>4. CASE CardStep \/ HwError
    BY <1>4, CalmHwFetch, CalmHwMove, CalmHwIdle, CalmHwError DEF CardStep
  <1>5. CASE UNCHANGED vars
    BY <1>5 DEF vars, hostVars, CalmInv, Still
  <1> QED BY <1>1, <1>2, <1>3, <1>4, <1>5 DEF Next

LEMMA CalmStart ==
  ASSUME Init
  PROVE  CalmInv
  BY DEF Init, Card, CalmInv, Still

\* Only the service routine makes a transfer FAILED.
LEMMA OnlyServiceFails ==
  ASSUME SyncInv, ~cfg.async, [Next]_vars, ~ServiceTransfers,
         NEW r \in Reqs, NEW k \in 0 .. 1, xfer'[r][k].state = "FAILED"
  PROVE  xfer[r][k].state = "FAILED"
  <1>1. ASSUME NEW q \in Reqs, Caller(q) PROVE xfer[r][k].state = "FAILED"
    <2>1. CASE TransferInit(q)
      <3>1. call[q].k = 0 /\ \E first, num, len, last :
              xfer' = [xfer EXCEPT ![q][call[q].k] =
                         [state |-> "NEW", first |-> first, num |-> num, cmpl |-> 0,
                          len |-> len, lastInReq |-> last]]
        BY <2>1 DEF TransferInit, SyncInv, Exclusion
      <3> QED BY <3>1, SMTT(30) DEF SyncInv, Shape
    <2>2. CASE TransferQueue(q)
      <3>1. call[q].k = 0 /\ xfer' = [xfer EXCEPT ![q][call[q].k].state = "SUBMITTED"]
        BY <2>2 DEF TransferQueue, SyncInv, Exclusion
      <3> QED BY <3>1 DEF SyncInv, Shape, NoXfer
    <2>3. CASE ClaimAborted(q)
      <3>1. xfer' = [xfer EXCEPT ![q][0].state = "ABORTED"]
        BY <2>3 DEF ClaimAborted
      <3> QED BY <3>1 DEF SyncInv, Shape, NoXfer
    <2>4. CASE \/ Submit(q) \/ LockDescs(q) \/ CheckOnline(q) \/ RefuseTransfer(q)
               \/ Wake(q) \/ ClaimCompleted(q) \/ ClaimFailed(q) \/ Release(q)
      <3>1. xfer' = xfer
        BY <2>4 DEF Submit, LockDescs, CheckOnline, RefuseTransfer, Wake, ClaimCompleted,
                    ClaimFailed, Release
      <3> QED BY <3>1
    <2> QED BY <1>1, <2>1, <2>2, <2>3, <2>4 DEF Caller
  <1>2. CASE \/ Interrupt \/ ServiceStopped \/ ServiceStatus \/ ServiceNothing
             \/ OfflineFlag \/ Recovery \/ CardStep \/ HwError \/ UNCHANGED vars
    <2>1. xfer' = xfer
      BY <1>2 DEF Interrupt, ServiceStopped, ServiceStatus, ServiceNothing, OfflineFlag,
                  Recovery, OfflineStop, OfflineIrq, ResetCard, OnlineRegs, OnlineAccept,
                  OnlineIrq, OnlineFlag, CardStep, HwFetch, HwMove, HwIdle, HwError,
                  vars, hostVars
    <2> QED BY <2>1, SMTT(30)
  <1> QED BY <1>1, <1>2 DEF Next, Service

LEMMA FailsForAReason ==
  ASSUME SyncInv, CalmInv, ~cfg.async, [Next]_vars, cfg.faults \subseteq {"busy", "error"},
         NEW r \in Reqs, NEW k \in 0 .. 1,
         xfer[r][k].state # "FAILED", xfer'[r][k].state = "FAILED"
  PROVE  work.err \/ ~hw.busy
  <1>1. ServiceTransfers
    BY OnlyServiceFails
  <1>2. /\ work.at = "count" /\ xfer'[r][1] = xfer[r][1]
        /\ list # <<<<r, 0>>>> => xfer'[r][0] = xfer[r][0]
        /\ list = <<<<r, 0>>>> => xfer'[r][0] = FinalState(xfer[r][0], hw.count)
    BY <1>1, ServiceTransfersEffect
  <1>3. k = 0 /\ list = <<<<r, 0>>>>
    <2>1. k = 0 \/ k = 1
      OBVIOUS
    <2> QED BY <1>2, <2>1
  <1>4. hw.count < xfer[r][0].num \/ work.err
    BY <1>2, <1>3, FinalStateShape
  <1>5. ~hw.busy \/ hw.count = xfer[r][0].num
    BY <1>2, <1>3 DEF CalmInv
  <1>6. xfer[r][0].num \in Nat
    BY CallOf
  <1> QED BY <1>4, <1>5, <1>6

-----------------------------------------------------------------------------
(***************************************************************************)
(* What nothing disturbs completes                                         *)
(***************************************************************************)

\* A call that is under way goes on, one that has returned has all of its data.
CompletesAll(r) ==
  /\ call[r].pc = "wait" => xfer[r][0].state \in {"SUBMITTED", "COMPLETED"}
  /\ call[r].pc = "claim" => xfer[r][0].state = "COMPLETED"
  /\ call[r].pc = "free" => call[r].rv = 0
  /\ call[r].pc = "done" => /\ Len(moved[r]) = Len(cfg.sdesc[r])
                            /\ call[r].ret = Data(r, Len(moved[r]))

\* The card works on the listed transfer or has come to its end.
WorksOn(r) ==
  /\ work.at = "idle" => engine.running
  /\ IF hw.stop \/ ~irq.enabled
       THEN hw.count = xfer[r][0].num
       ELSE hw.run /\ hw.busy /\ (hw.desc # Zeroed \/ hw.next # Null)

\* Undisturbed, the card reports no error, works on what is listed, and no call fails.
GoesOn ==
  cfg.faults \subseteq {"busy"} =>
    /\ ~hw.err /\ ~work.err
    /\ \A r \in Reqs : list = <<<<r, 0>>>> => WorksOn(r)
    /\ \A r \in Reqs : CompletesAll(r)

\* A step of one call that leaves the engine alone.
LEMMA GoesOnFrame ==
  ASSUME GoesOn, UNCHANGED <<cfg, engine, list, work, hw, irq, moved>>,
         NEW r \in Reqs, \A q \in Reqs \ {r} : call'[q] = call[q] /\ xfer'[q] = xfer[q],
         list = <<<<r, 0>>>> => xfer'[r][0].num = xfer[r][0].num,
         cfg.faults \subseteq {"busy"} => CompletesAll(r)'
  PROVE  GoesOn'
  <1> SUFFICES ASSUME cfg.faults \subseteq {"busy"} PROVE GoesOn'
    BY DEF GoesOn
  <1>1. ASSUME NEW q \in Reqs, list = <<<<q, 0>>>> PROVE WorksOn(q)'
    <2>1. WorksOn(q) /\ xfer'[q][0].num = xfer[q][0].num
      BY <1>1 DEF GoesOn
    <2> QED BY <2>1 DEF WorksOn
  <1>2. ASSUME NEW q \in Reqs PROVE CompletesAll(q)'
    <2>1. CASE q # r
      <3>1. CompletesAll(q) /\ call'[q] = call[q] /\ xfer'[q] = xfer[q]
        BY <2>1 DEF GoesOn
      <3> QED BY <3>1 DEF CompletesAll, Data
    <2> QED BY <2>1
  <1> QED BY <1>1, <1>2 DEF GoesOn

\* A step of the card or the service routine that moves nothing.
LEMMA GoesOnCard ==
  ASSUME GoesOn, UNCHANGED <<cfg, call, list, xfer, moved>>,
         cfg.faults \subseteq {"busy"} => ~hw'.err /\ ~work'.err,
         \A r \in Reqs : cfg.faults \subseteq {"busy"} /\ list = <<<<r, 0>>>> => WorksOn(r)'
  PROVE  GoesOn'
  <1> SUFFICES ASSUME cfg.faults \subseteq {"busy"} PROVE GoesOn'
    BY DEF GoesOn
  <1>1. ASSUME NEW q \in Reqs PROVE CompletesAll(q)'
    BY DEF GoesOn, CompletesAll, Data
  <1> QED BY <1>1 DEF GoesOn

LEMMA GoesOnRelease ==
  ASSUME SyncInv, DataInv, GoesOn, NEW r \in Reqs, Release(r)
  PROVE  GoesOn'
  <1> SUFFICES ASSUME cfg.faults \subseteq {"busy"} PROVE GoesOn'
    BY DEF GoesOn, Release
  <1>1. /\ UNCHANGED <<cfg, xfer, list, work, hw, irq, moved>>
        /\ call[r].pc = "free" /\ list = <<>>
        /\ \A q \in Reqs \ {r} : call'[q] = call[q]
        /\ \/ /\ call'[r].pc = "done" /\ (call[r].rv < 0 \/ xfer[r][0].lastInReq)
              /\ call'[r].ret = IF call[r].done > 0 THEN call[r].done ELSE call[r].rv
           \/ call'[r].pc = "init"
    BY ReleaseEffect
  <1>2. call[r].rv = 0
    BY <1>1 DEF GoesOn, CompletesAll
  <1>3. /\ xfer[r][0].lastInReq = (call[r].idx = Len(cfg.sdesc[r]))
        /\ Len(moved[r]) = call[r].idx /\ call[r].done = Data(r, call[r].idx)
        /\ Accounts(r) /\ call[r].idx >= 1
    <2>1. /\ xfer[r][0].lastInReq = (call[r].idx = Len(cfg.sdesc[r]))
          /\ Len(moved[r]) = call[r].idx /\ call[r].done = Data(r, call[r].idx)
          /\ Accounts(r)
      BY <1>1, <1>2 DEF DataInv, Accounts, Built
    <2>2. /\ xfer[r][0].num >= 1 /\ xfer[r][0].num <= call[r].idx
          /\ xfer[r][0].num \in Nat /\ call[r].idx \in Nat
      BY <1>1 DEF SyncInv, CallInv, Built
    <2> QED BY <2>1, <2>2
  <1>4. CompletesAll(r)'
    <2>1. CASE call'[r].pc = "done"
      <3>1. call'[r].ret = IF call[r].done > 0 THEN call[r].done ELSE call[r].rv
        BY <1>1, <2>1
      <3>2. call[r].idx = Len(cfg.sdesc[r])
        <4>1. call[r].rv < 0 \/ xfer[r][0].lastInReq
          BY <1>1, <2>1
        <4>2. ~(call[r].rv < 0)
          BY <1>2
        <4>3. xfer[r][0].lastInReq
          BY <4>1, <4>2
        <4> QED BY <1>3, <4>3
      <3>3. call[r].done > 0
        <4>1. call[r].idx \in 0 .. Len(moved[r]) /\ call[r].idx \in Nat
          <5>1. call[r].idx \in Nat
            BY CallOf
          <5>2. Len(moved[r]) = call[r].idx
            BY <1>3
          <5> QED BY <5>1, <5>2
        <4>2. Data(r, call[r].idx) \in Nat /\ Data(r, call[r].idx) >= call[r].idx
          BY <1>3, <4>1, DataGrows
        <4> QED BY <1>3, <4>1, <4>2
      <3>4. Len(moved[r]) = Len(cfg.sdesc[r]) /\ call'[r].ret = Data(r, Len(moved[r]))
        BY <1>3, <3>1, <3>2, <3>3
      <3>5. Data(r, Len(moved[r]))' = Data(r, Len(moved[r]))
        BY <1>1 DEF Data
      <3> QED BY <1>1, <2>1, <3>4, <3>5 DEF CompletesAll
    <2>2. CASE call'[r].pc = "init"
      BY <2>2 DEF CompletesAll
    <2> QED BY <1>1, <2>1, <2>2
  <1>5. ASSUME NEW q \in Reqs, q # r PROVE CompletesAll(q)'
    <2>1. CompletesAll(q) /\ call'[q] = call[q] /\ xfer' = xfer
      BY <1>1, <1>5 DEF GoesOn
    <2> QED BY <1>1, <2>1 DEF CompletesAll, Data
  <1> QED BY <1>1, <1>4, <1>5 DEF GoesOn

LEMMA GoesOnTransferQueue ==
  ASSUME SyncInv, CalmInv, GoesOn, ~cfg.async, NEW r \in Reqs, TransferQueue(r)
  PROVE  GoesOn'
  <1> SUFFICES ASSUME cfg.faults \subseteq {"busy"} PROVE GoesOn'
    BY DEF GoesOn, TransferQueue
  <1>1. /\ UNCHANGED <<cfg, work, irq, moved>> /\ call[r].pc = "queue" /\ call[r].k = 0
        /\ call' = [call EXCEPT ![r].pc = "wait", ![r].k = @]
        /\ xfer' = [xfer EXCEPT ![r][0].state = "SUBMITTED"]
        /\ list' = Append(list, <<r, 0>>)
    BY DEF TransferQueue, ghostVars, SyncInv, Exclusion
  <1>2. list = <<>> /\ ~engine.running
    BY <1>1, NobodyWaits DEF SyncInv, Active
  <1>3. list' = <<<<r, 0>>>> /\ \A q \in Reqs : list' = <<<<q, 0>>>> => q = r
    BY <1>1, <1>2
  <1>4. /\ hw' = HwStarted(hw, Xfer(Head(list')).first) /\ engine' = Started(engine)
    BY <1>1, <1>2 DEF TransferQueue, SyncInv, Exclusion
  <1>5. hw'.stop = hw.stop /\ hw'.err = hw.err /\ hw'.run /\ hw'.busy
        /\ hw'.next = Xfer(Head(list')).first
    <2> DEFINE f == Xfer(Head(list')).first
    <2>1. hw' = HwStarted(hw, f)
      BY <1>4
    <2> HIDE DEF f
    <2>2. /\ hw'.stop = hw.stop /\ hw'.err = hw.err /\ hw'.run /\ hw'.busy
          /\ hw'.next = f
      BY <2>1 DEF SyncInv, Shape, HwStarted
    <2> QED BY <2>2 DEF f
  <1>6. hw'.next # Null
    <2>1. Xfer(Head(list')).first = xfer[r][0].first
      BY <1>3 DEF Xfer
    <2>2. xfer[r][0].first \in Nat
      BY CallOf
    <2> QED BY <1>5, <2>1, <2>2 DEF Null
  <1>7. engine'.running
    BY <1>4 DEF SyncInv, Shape, Started
  <1>8. Still
    BY <1>2 DEF CalmInv
  <1>9. WorksOn(r)'
    BY <1>1, <1>5, <1>6, <1>7, <1>8 DEF WorksOn, Still
  <1>10. ASSUME NEW q \in Reqs PROVE CompletesAll(q)'
    <2>1. CASE q = r
      BY <1>1, <2>1 DEF SyncInv, Shape, NoXfer, CompletesAll
    <2>2. CASE q # r
      <3>1. CompletesAll(q) /\ call'[q] = call[q] /\ xfer'[q] = xfer[q]
        BY <1>1, <2>2 DEF GoesOn, SyncInv, Shape
      <3> QED BY <1>1, <3>1 DEF CompletesAll, Data
    <2> QED BY <2>1, <2>2
  <1> QED BY <1>1, <1>3, <1>5, <1>9, <1>10 DEF GoesOn

LEMMA GoesOnTransferInit ==
  ASSUME SyncInv, GoesOn, NEW r \in Reqs, TransferInit(r)
  PROVE  GoesOn'
  <1> DEFINE n == Room(engine.desc_idx, Min2(Len(cfg.sdesc[r]) - call[r].idx, DescMax))
  <1>1. /\ UNCHANGED <<cfg, list, work, hw, irq, moved>>
        /\ call[r].pc = "init" /\ call[r].k = 0
        /\ call' = [call EXCEPT ![r].pc = "check", ![r].idx = @ + n]
        /\ \E x : xfer' = [xfer EXCEPT ![r][call[r].k] = x]
    BY DEF TransferInit, ghostVars, SyncInv, Exclusion
  <1> HIDE DEF n
  <1>2. call'[r].pc = "check" /\ \A q \in Reqs \ {r} : call'[q] = call[q] /\ xfer'[q] = xfer[q]
    BY <1>1 DEF SyncInv, Shape
  <1>3. list = <<>>
    BY <1>1, NobodyWaits DEF SyncInv, Active
  <1>4. \A q \in Reqs : list # <<<<q, 0>>>>
    BY <1>3
  <1>5. ASSUME NEW q \in Reqs, cfg.faults \subseteq {"busy"} PROVE CompletesAll(q)'
    <2>1. CASE q = r
      <3>1. call'[q].pc = "check"
        BY <1>2, <2>1, Zenon
      <3> QED BY <3>1 DEF CompletesAll
    <2>2. CASE q # r
      <3>1. CompletesAll(q)
        BY <1>5, Zenon DEF GoesOn
      <3>2. /\ call'[q] = call[q] /\ xfer'[q] = xfer[q]
            /\ cfg' = cfg /\ moved' = moved
        BY <1>1, <1>2, <2>2
      <3> QED BY <3>1, <3>2, Zenon DEF CompletesAll, Data
    <2> QED BY <2>1, <2>2
  <1> QED BY <1>1, <1>4, <1>5 DEF GoesOn

\* The other steps of a caller; no call waits in vain, fails or is refused.
LEMMA GoesOnCaller ==
  ASSUME SyncInv, DataInv, UsedInv, CalmInv, GoesOn, ~cfg.async, NEW r \in Reqs, Caller(r)
  PROVE  GoesOn'
  <1> SUFFICES ASSUME cfg.faults \subseteq {"busy"} PROVE GoesOn'
    BY SettingStays DEF GoesOn, Next
  <1> USE DEF ghostVars
  <1>0. /\ "signal" \notin cfg.faults /\ "stall" \notin cfg.faults
        /\ ~dev.offline /\ irq.handler /\ "REQUEST" \notin engine.shutdown
        /\ cfg.faults \subseteq {"busy", "error"}
    BY CalmSetting
  <1>1. CASE Submit(r) \/ LockDescs(r)
    <2>1. /\ UNCHANGED <<cfg, engine, xfer, list, work, hw, irq, moved>>
          /\ \/ call' = [call EXCEPT ![r].pc = "mutex"]
             \/ call' = [call EXCEPT ![r].pc = "init"]
      BY <1>0, <1>1 DEF Submit, LockDescs
    <2>2. call'[r].pc \in {"mutex", "init"} /\ \A q \in Reqs \ {r} : call'[q] = call[q]
      BY <2>1 DEF SyncInv, Shape
    <2> QED BY <2>1, <2>2, GoesOnFrame DEF CompletesAll
  <1>2. CASE TransferInit(r)
    BY <1>2, GoesOnTransferInit
  <1>3. CASE CheckOnline(r)
    <2>1. /\ UNCHANGED <<cfg, engine, xfer, list, work, hw, irq, moved>>
          /\ call' = [call EXCEPT ![r].pc = "queue"]
      BY <1>0, <1>3 DEF CheckOnline
    <2>2. call'[r].pc = "queue" /\ \A q \in Reqs \ {r} : call'[q] = call[q]
      BY <2>1 DEF SyncInv, Shape
    <2> QED BY <2>1, <2>2, GoesOnFrame DEF CompletesAll
  <1>4. CASE RefuseTransfer(r)
    BY <1>0, <1>4 DEF RefuseTransfer
  <1>5. CASE TransferQueue(r)
    BY <1>5, GoesOnTransferQueue
  <1>6. CASE Wake(r)
    <2>1. /\ UNCHANGED <<cfg, engine, xfer, list, work, hw, irq, moved>>
          /\ call[r].pc = "wait" /\ call' = [call EXCEPT ![r].pc = "claim"]
          /\ xfer[r][0].state # "SUBMITTED" \/ Quiet
      BY <1>0, <1>6 DEF Wake
    <2>2. call'[r].pc = "claim" /\ \A q \in Reqs \ {r} : call'[q] = call[q]
      BY <2>1 DEF SyncInv, Shape
    <2>3. xfer[r][0].state \in {"SUBMITTED", "COMPLETED"}
      BY <2>1 DEF GoesOn, CompletesAll
    <2>4. xfer[r][0].state # "SUBMITTED"
      <3> SUFFICES ASSUME xfer[r][0].state = "SUBMITTED" PROVE FALSE
        OBVIOUS
      <3>1. list = <<<<r, 0>>>>
        BY <2>1 DEF DataInv, Accounts
      <3>2. /\ ~work.pending /\ work.at = "idle" /\ ~hw.busy
            /\ ~(irq.enabled /\ irq.handler /\ (hw.stop \/ hw.err))
        BY <1>0, <2>1 DEF Quiet, LockFree
      <3>3. irq.enabled /\ ~hw.stop
        BY <1>0, <3>2 DEF CalmInv
      <3> QED BY <3>1, <3>2, <3>3 DEF GoesOn, WorksOn
    <2> QED BY <2>1, <2>2, <2>3, <2>4, GoesOnFrame DEF CompletesAll
  <1>7. CASE ClaimCompleted(r)
    <2> DEFINE d == DataOf(xfer[r][0], xfer[r][0].cmpl)
    <2>1. /\ UNCHANGED <<cfg, engine, xfer, list, work, hw, irq, moved>>
          /\ call' = [call EXCEPT ![r].pc = "free", ![r].rv = 0, ![r].done = @ + d]
      BY <1>7 DEF ClaimCompleted
    <2> HIDE DEF d
    <2>2. /\ call'[r].pc = "free" /\ call'[r].rv = 0
          /\ \A q \in Reqs \ {r} : call'[q] = call[q]
      BY <2>1 DEF SyncInv, Shape
    <2> QED BY <2>1, <2>2, GoesOnFrame DEF CompletesAll
  <1>8. CASE ClaimFailed(r) \/ ClaimAborted(r)
    <2>1. call[r].pc = "claim" /\ xfer[r][0].state # "COMPLETED"
      BY <1>8 DEF ClaimFailed, ClaimAborted
    <2> QED BY <2>1 DEF GoesOn, CompletesAll
  <1>9. CASE Release(r)
    BY <1>9, GoesOnRelease
  <1> QED BY <1>1, <1>2, <1>3, <1>4, <1>5, <1>6, <1>7, <1>8, <1>9 DEF Caller

LEMMA GoesOnService ==
  ASSUME SyncInv, DataInv, CalmInv, GoesOn, ~cfg.async, Interrupt \/ Service
  PROVE  GoesOn'
  <1> SUFFICES ASSUME cfg.faults \subseteq {"busy"} PROVE GoesOn'
    BY SettingStays DEF GoesOn, Next
  <1> USE DEF ghostVars
  <1>0. cfg.faults \subseteq {"busy", "error"} /\ ~hw.err /\ ~work.err
    BY DEF GoesOn
  <1>1. CASE Interrupt
    <2>1. /\ UNCHANGED <<cfg, call, xfer, engine, list, hw, moved>>
          /\ irq.enabled /\ hw.stop
          /\ work' = [work EXCEPT !.pending = TRUE]
      BY <1>0, <1>1 DEF Interrupt
    <2>2. work'.err = work.err /\ work'.at = work.at
      BY <2>1 DEF SyncInv, TypeOK
    <2>3. ASSUME NEW r \in Reqs, list = <<<<r, 0>>>> PROVE WorksOn(r)'
      BY <2>1, <2>2, <2>3 DEF GoesOn, WorksOn
    <2> QED BY <1>0, <2>1, <2>2, <2>3, GoesOnCard
  <1>2. CASE ServiceStopped
    <2>1. work.pending /\ work.at = "idle" /\ ~engine.running
      BY <1>2 DEF ServiceStopped
    <2>2. list # <<>>
      BY <1>0, <2>1 DEF CalmInv, Still
    <2>3. PICK r \in Reqs : list = <<<<r, 0>>>>
      BY <2>2 DEF SyncInv, ListInv
    <2> QED BY <2>1, <2>3 DEF GoesOn, WorksOn
  <1>3. CASE ServiceStatus
    <2>1. /\ UNCHANGED <<cfg, call, xfer, list, irq, moved>>
          /\ work.pending
          /\ work' = [pending |-> FALSE, at |-> "count", err |-> hw.err]
          /\ hw' = [hw EXCEPT !.stop = FALSE, !.err = FALSE, !.run = @ /\ hw.busy]
      BY <1>3 DEF ServiceStatus
    <2>2. hw'.count = hw.count /\ ~hw'.err /\ ~work'.err /\ work'.at = "count"
      BY <1>0, <2>1 DEF SyncInv, Shape
    <2>3. ~irq.enabled
      BY <1>0, <2>1 DEF CalmInv
    <2>4. ASSUME NEW r \in Reqs, list = <<<<r, 0>>>> PROVE WorksOn(r)'
      BY <2>1, <2>2, <2>3, <2>4 DEF GoesOn, WorksOn
    <2> QED BY <2>1, <2>2, <2>4, GoesOnCard
  <1>4. CASE ServiceNothing
    <2>1. work.at = "count" /\ hw.count = 0 /\ ~irq.enabled
      BY <1>0, <1>4 DEF ServiceNothing, CalmInv
    <2>2. list # <<>>
      BY <1>0, <2>1 DEF CalmInv, Still
    <2>3. PICK r \in Reqs : list = <<<<r, 0>>>> /\ call[r].pc \in {"wait", "claim"}
      BY <2>2 DEF SyncInv, ListInv
    <2>4. xfer[r][0].num = 0
      BY <2>1, <2>3 DEF GoesOn, WorksOn
    <2> QED BY <2>3, <2>4 DEF SyncInv, CallInv, Built
  <1>5. CASE ServiceTransfers
    <2>1. /\ UNCHANGED <<cfg, moved>> /\ \A r \in Reqs : call'[r] = call[r]
          /\ list' = <<>> /\ work.at = "count"
          /\ work' = [work EXCEPT !.at = "idle"]
          /\ hw' = HwStopped(hw) \/ (hw' = hw /\ ~engine.running)
          /\ \A r \in Reqs :
               /\ list # <<<<r, 0>>>> => xfer'[r][0] = xfer[r][0]
               /\ list = <<<<r, 0>>>> => xfer'[r][0] = FinalState(xfer[r][0], hw.count)
      BY <1>5, ServiceTransfersEffect
    <2>2. ~hw'.err /\ ~work'.err
      BY <1>0, <2>1 DEF SyncInv, Shape, TypeOK, HwStopped
    <2>3. ASSUME NEW r \in Reqs, list = <<<<r, 0>>>> PROVE xfer'[r][0].state = "COMPLETED"
      <3>1. hw.count = xfer[r][0].num
        BY <1>0, <2>1, <2>3 DEF GoesOn, WorksOn, CalmInv
      <3>2. xfer[r][0].num \in Nat
        BY CallOf
      <3>3. ~(hw.count < xfer[r][0].num)
        BY <3>1, <3>2
      <3> QED BY <1>0, <2>1, <2>3, <3>3, FinalStateShape
    <2>4. ASSUME NEW r \in Reqs PROVE CompletesAll(r)'
      <3>1. CASE list = <<<<r, 0>>>>
        <4>1. call[r].pc \in {"wait", "claim"}
          BY <3>1 DEF SyncInv, ListInv
        <4> QED BY <2>1, <2>3, <3>1, <4>1 DEF CompletesAll
      <3>2. CASE list # <<<<r, 0>>>>
        <4>1. CompletesAll(r)
          BY DEF GoesOn
        <4> QED BY <2>1, <3>2, <4>1 DEF CompletesAll, Data
      <3> QED BY <3>1, <3>2
    <2>5. \A r \in Reqs : list' # <<<<r, 0>>>>
      BY <2>1
    <2> QED BY <2>1, <2>2, <2>4, <2>5 DEF GoesOn
  <1> QED BY <1>1, <1>2, <1>3, <1>4, <1>5 DEF Service

LEMMA GoesOnHwFetch ==
  ASSUME SyncInv, DataInv, CalmInv, GoesOn, HwFetch
  PROVE  GoesOn'
  <1> SUFFICES ASSUME cfg.faults \subseteq {"busy"} PROVE GoesOn'
    BY SettingStays DEF GoesOn, Next, CardStep
  <1>1. /\ UNCHANGED <<cfg, call, xfer, engine, list, work, irq, moved>>
        /\ hw.run /\ hw.busy /\ hw.desc = Zeroed /\ hw.next # Null
    BY DEF HwFetch, hostVars, ghostVars
  <1>2. hw' = [hw EXCEPT !.desc = ring[hw.next], !.next = ring[hw.next].next]
        /\ ring[hw.next] # Zeroed
    <2>1. PICK r \in Reqs :
            /\ list = <<<<r, 0>>>> /\ call[r].pc \in {"wait", "claim"}
            /\ xfer[r][0].state = "SUBMITTED" /\ ~hw.old /\ engine.running
            /\ hw.next = xfer[r][0].first + hw.count
            /\ hw.count + 1 \in 1 .. xfer[r][0].num
            /\ Len(moved[r]) = Before(r) + hw.count
            /\ ring[hw.next].req = r
      BY <1>1, Fetch
    <2>2. ring[hw.next] # Zeroed
      BY <2>1, ConfigsAssumption DEF Zeroed
    <2> QED BY <2>2 DEF HwFetch
  <1>3. /\ hw'.stop = hw.stop /\ hw'.err = hw.err /\ hw'.desc # Zeroed
        /\ hw'.run = hw.run /\ hw'.busy = hw.busy /\ hw'.count = hw.count
    BY <1>2 DEF SyncInv, Shape
  <1>4. ~hw'.err /\ ~work'.err
    BY <1>1, <1>3 DEF GoesOn
  <1>5. ASSUME NEW r \in Reqs, list = <<<<r, 0>>>> PROVE WorksOn(r)'
    BY <1>1, <1>3, <1>5 DEF GoesOn, WorksOn
  <1> QED BY <1>1, <1>4, <1>5, GoesOnCard

\* A piece of this run is of the listed transfer.
LEMMA MovesOnlyListed ==
  ASSUME SyncInv, DataInv, HwMove, ~hw.old, NEW r \in Reqs, list = <<<<r, 0>>>>,
         NEW q \in Reqs, q # r
  PROVE  moved'[q] = moved[q]
  <1>1. PICK p \in Reqs, len \in 1 .. desc_blen_max :
           /\ moved' = [moved EXCEPT ![p] = Append(@, len)]
           /\ \/ hw.old \/ list = <<>>
              \/ ~hw.old /\ list = <<<<p, 0>>>>
    BY MoveEffect
  <1>2. p = r
    BY <1>1
  <1> QED BY <1>1, <1>2 DEF SyncInv, Shape

LEMMA GoesOnHwMove ==
  ASSUME SyncInv, DataInv, CalmInv, GoesOn, HwMove
  PROVE  GoesOn'
  <1> SUFFICES ASSUME cfg.faults \subseteq {"busy"} PROVE GoesOn'
    BY SettingStays DEF GoesOn, Next, CardStep
  <1> DEFINE stop  == hw.stop \/ (hw.desc.last /\ (hw.old => "stray" \in cfg.faults))
             busy  == hw.old \/ (IF hw.desc.last THEN "busy" \in cfg.faults ELSE hw.run)
             count == IF hw.old THEN hw.count ELSE (hw.count + 1) % CountMod
  <1>1. /\ UNCHANGED <<cfg, call, xfer, engine, list, work, irq>>
        /\ hw.desc # Zeroed
        /\ hw' = [hw EXCEPT !.desc = Zeroed, !.old = FALSE, !.count = count,
                            !.stop = stop, !.busy = busy]
    BY DEF HwMove, hostVars
  <1>2. hw.run /\ hw.busy /\ ~hw.old /\ cfg.faults \subseteq {"busy", "error"}
    BY <1>1 DEF CalmInv, DataInv, OnItsWay
  <1>3. ~hw.stop /\ ~hw.err /\ irq.enabled /\ \E r \in Reqs : list = <<<<r, 0>>>>
    BY <1>1, <1>2, CalmRun
  <1>4. PICK r \in Reqs : list = <<<<r, 0>>>>
    BY <1>3
  <1>5. \A q \in Reqs : list = <<<<q, 0>>>> => q = r
    BY <1>4
  <1>6. call[r].pc \in {"wait", "claim"}
    BY <1>4 DEF SyncInv, ListInv
  <1>7. /\ hw'.stop = stop /\ hw'.err = hw.err /\ hw'.busy = busy /\ hw'.run = hw.run
        /\ hw'.next = hw.next
    <2> HIDE DEF stop, busy, count
    <2> QED BY <1>1 DEF SyncInv, Shape
  <1>8. /\ hw.desc.last <=> hw.next = Null
        /\ hw.desc.last => hw'.count = xfer[r][0].num
    BY <1>2, <1>4, LastIsLast
  <1>9. (stop <=> hw.desc.last) /\ (~hw.desc.last => busy)
    BY <1>2, <1>3
  <1> HIDE DEF stop, busy, count
  <1>10. WorksOn(r)'
    <2>1. work.at = "idle" => engine.running
      BY <1>2, <1>4 DEF GoesOn, WorksOn
    <2>2. CASE hw.desc.last
      <3>1. hw'.stop /\ hw'.count = xfer[r][0].num
        BY <1>7, <1>8, <1>9, <2>2
      <3> QED BY <1>1, <2>1, <3>1 DEF WorksOn
    <2>3. CASE ~hw.desc.last
      <3>1. ~hw'.stop /\ hw'.run /\ hw'.busy /\ hw'.next # Null
        BY <1>2, <1>7, <1>8, <1>9, <2>3
      <3> QED BY <1>1, <1>3, <2>1, <3>1 DEF WorksOn
    <2> QED BY <2>2, <2>3
  <1>11. ASSUME NEW q \in Reqs PROVE CompletesAll(q)'
    <2>1. CompletesAll(q) /\ UNCHANGED <<cfg, call, xfer>>
      BY <1>1 DEF GoesOn
    <2>2. call[q].pc = "done" => moved'[q] = moved[q]
      <3>1. call[r].pc # "done"
        BY <1>6
      <3> QED BY <1>2, <1>4, <1>5, <3>1, MovesOnlyListed
    <2> QED BY <2>1, <2>2 DEF CompletesAll, Data
  <1>12. ~hw'.err /\ ~work'.err
    BY <1>1, <1>3, <1>7 DEF GoesOn
  <1>13. \A q \in Reqs : list' = <<<<q, 0>>>> => WorksOn(q)'
    BY <1>1, <1>5, <1>10
  <1> QED BY <1>11, <1>12, <1>13 DEF GoesOn

LEMMA GoesOnHwIdle ==
  ASSUME SyncInv, GoesOn, HwIdle
  PROVE  GoesOn'
  <1>1. /\ UNCHANGED <<cfg, call, xfer, engine, list, work, irq, moved>>
        /\ hw.busy /\ hw.desc = Zeroed /\ (~hw.run \/ hw.next = Null)
        /\ hw' = [hw EXCEPT !.busy = FALSE]
    BY DEF HwIdle, hostVars, ghostVars
  <1>2. /\ hw'.stop = hw.stop /\ hw'.err = hw.err /\ hw'.count = hw.count
    BY <1>1 DEF SyncInv, Shape
  <1>3. ASSUME cfg.faults \subseteq {"busy"} PROVE ~hw'.err /\ ~work'.err
    BY <1>1, <1>2, <1>3 DEF GoesOn
  <1>4. ASSUME NEW r \in Reqs, cfg.faults \subseteq {"busy"}, list = <<<<r, 0>>>>
        PROVE  WorksOn(r)'
    <2>1. hw.stop \/ ~irq.enabled
      BY <1>1, <1>4 DEF GoesOn, WorksOn
    <2>2. WorksOn(r)
      BY <1>4 DEF GoesOn
    <2> QED BY <1>1, <1>2, <2>1, <2>2 DEF WorksOn
  <1> QED BY <1>1, <1>3, <1>4, GoesOnCard

LEMMA GoesOnStep ==
  ASSUME SyncInv, DataInv, UsedInv, CalmInv, GoesOn, ~cfg.async, [Next]_vars
  PROVE  GoesOn'
  <1>1. ASSUME NEW r \in Reqs, Caller(r) PROVE GoesOn'
    BY <1>1, GoesOnCaller
  <1>2. CASE Interrupt \/ Service
    BY <1>2, GoesOnService
  <1>3. CASE OfflineFlag \/ Recovery \/ HwError
    <2> SUFFICES ASSUME cfg.faults \subseteq {"busy"} PROVE GoesOn'
      BY SettingStays DEF GoesOn
    <2>1. cfg.faults \subseteq {"busy", "error"} /\ "error" \notin cfg.faults
      OBVIOUS
    <2> QED BY <1>3, <2>1, CalmSetting DEF OfflineFlag, Recovery, OfflineStop, OfflineIrq,
               ResetCard, OnlineRegs, OnlineAccept, OnlineIrq, OnlineFlag, HwError
  <1>4. CASE CardStep
    BY <1>4, GoesOnHwFetch, GoesOnHwMove, GoesOnHwIdle DEF CardStep
  <1>5. CASE UNCHANGED vars
    BY <1>5 DEF vars, hostVars, ghostVars, GoesOn, WorksOn, CompletesAll, Data
  <1> QED BY <1>1, <1>2, <1>3, <1>4, <1>5 DEF Next

LEMMA GoesOnStart ==
  ASSUME Init
  PROVE  GoesOn
  <1>1. /\ ~hw.err /\ ~work.err /\ list = <<>>
        /\ \A r \in Reqs : call[r].pc = "idle"
    BY DEF Init, Card
  <1>2. \A r \in Reqs : list # <<<<r, 0>>>>
    BY <1>1
  <1> QED BY <1>1, <1>2 DEF GoesOn, CompletesAll

-----------------------------------------------------------------------------
(***************************************************************************)
(* The theorems                                                            *)
(***************************************************************************)

\* What is used, why a transfer fails and what goes on, on top of CallsInv.
SteadyInv == CallsInv /\ (~cfg.async => UsedInv /\ CalmInv /\ GoesOn)

\* A synchronous engine's descriptors are accounted for, its service routine runs
\* only for a card that has stopped as long as no call is given up, and what
\* nothing disturbs goes on (engine_service, transfer_queue, xdma_xfer_submit).
THEOREM SynchronousSteady == Spec => []SteadyInv
  <1>1. Init => SteadyInv
    BY Start, DataStart, UsedStart, CalmStart, GoesOnStart DEF SteadyInv, CallsInv, IInv
  <1>2. SteadyInv /\ [Next]_vars => SteadyInv'
    <2> SUFFICES ASSUME SteadyInv, [Next]_vars PROVE SteadyInv'
      OBVIOUS
    <2>1. IInv' /\ cfg' = cfg
      BY Inductive, SettingStays DEF SteadyInv, CallsInv
    <2>2. ASSUME ~cfg.async PROVE DataInv' /\ UsedInv' /\ CalmInv' /\ GoesOn'
      <3>1. SyncInv /\ DataInv /\ UsedInv /\ CalmInv /\ GoesOn
        BY <2>2 DEF SteadyInv, CallsInv, IInv
      <3> QED BY <2>2, <3>1, DataStep, UsedStep, CalmStep, GoesOnStep
    <2> QED BY <2>1, <2>2 DEF SteadyInv, CallsInv
  <1> QED BY <1>1, <1>2, PTL DEF Spec

\* Without a reset, desc_used is what the calls hold, and no two transfers of a
\* synchronous engine hold the same slot (transfer_init, xdma_xfer_submit).
THEOREM SynchronousDescriptorsAccounted == Spec => [](~cfg.async => DescriptorsAccounted)
  <1>1. SteadyInv => (~cfg.async => DescriptorsAccounted)
    BY UsedIsAccounted DEF SteadyInv, CallsInv, IInv
  <1> QED BY <1>1, SynchronousSteady, PTL

\* A synchronous call that nothing disturbs, though BUSY may fall late, returns
\* with all of its data (engine_service, engine_service_resume).
THEOREM SynchronousUndisturbed == Spec => [](~cfg.async => UndisturbedCallsComplete)
  <1>1. ASSUME SteadyInv, ~cfg.async PROVE UndisturbedCallsComplete
    <2> SUFFICES ASSUME NEW r \in Reqs, call[r].pc = "done", cfg.faults \subseteq {"busy"}
                 PROVE  /\ Len(moved[r]) = Len(cfg.sdesc[r])
                        /\ call[r].ret = MapThenSumSet(LAMBDA i : moved[r][i], 1 .. Len(moved[r]))
      BY DEF UndisturbedCallsComplete
    <2>1. Len(moved[r]) = Len(cfg.sdesc[r]) /\ call[r].ret = Data(r, Len(moved[r]))
      BY <1>1 DEF SteadyInv, GoesOn, CompletesAll
    <2> QED BY <2>1 DEF Data, SumOver
  <1>2. SteadyInv => (~cfg.async => UndisturbedCallsComplete)
    BY <1>1
  <1> QED BY <1>2, SynchronousSteady, PTL

\* As long as no synchronous call is given up, a transfer fails only because the
\* card reports an error or has stopped on it (engine_service_final_transfer).
THEOREM SynchronousFailureIsReal == Spec /\ Synchronous => FailureIsReal
  <1> DEFINE Real == cfg.faults \subseteq {"busy", "error"} =>
                       \A r \in Reqs, k \in 0 .. 1 :
                         xfer[r][k].state # "FAILED" /\ xfer'[r][k].state = "FAILED"
                           => work.err \/ ~hw.busy
  <1>1. SteadyInv /\ Synchronous /\ [Next]_vars => [Real]_vars
    BY FailsForAReason DEF SteadyInv, CallsInv, IInv, Synchronous
  <1>2. Synchronous /\ [Next]_vars => Synchronous'
    BY SettingStays DEF Synchronous
  <1>3. FailureIsReal <=> [][Real]_vars
    BY DEF FailureIsReal
  <1> HIDE DEF Real
  <1> QED BY <1>1, <1>2, <1>3, SynchronousSteady, PTL DEF Spec
=============================================================================
