-------------------------- MODULE ConnectionProofs --------------------------
(***************************************************************************)
(* Proofs about Connection, for every set of blocks and of workers and     *)
(* every number of connections, and about PingClock, for every set of      *)
(* clients and every range of the counter that is long beside the lateness *)
(* of scans.  PingClock comes first.                                       *)
(***************************************************************************)
EXTENDS Connection, PingClock, TLAPS

\* What the wrapping subtraction yields for a time at most one wrap ago.
LEMMA Wraps ==
    ASSUME NEW x \in Int, NEW n \in Nat, n > 0
    PROVE  /\ 0 <= x /\ x < n => x % n = x
           /\ -n <= x /\ x < 0 => x % n = x + n
<1>1. (x % n) \in 0 .. n - 1
  OBVIOUS
<1>2. x = n * (x \div n) + (x % n)
  OBVIOUS
<1>3. (x \div n) \in Int
  OBVIOUS
<1>4. ASSUME 0 <= x, x < n PROVE x \div n = 0
  BY <1>4, <1>1, <1>2, <1>3, SMTT(30)
<1>5. ASSUME -n <= x, x < 0 PROVE x \div n = -1
  BY <1>5, <1>1, <1>2, <1>3, SMTT(30)
<1> QED
  BY <1>1, <1>2, <1>3, <1>4, <1>5

-----------------------------------------------------------------------------
(* Type correctness.                                                       *)

LEMMA ClockTypeStep == ASSUME ClockTypeOK, [ClockNext]_clockVars PROVE ClockTypeOK'
<1> USE PingClockAssumption DEF ClockTypeOK, ScanPeriod, SilenceLimit, PingLimit
<1>1. ASSUME NEW c \in Conns, AcceptClient(c) PROVE ClockTypeOK'
  BY <1>1 DEF AcceptClient
<1>2. ASSUME NEW c \in Conns, Receive(c) PROVE ClockTypeOK'
  BY <1>2 DEF Receive
<1>3. ASSUME NEW c \in Conns, Close(c) PROVE ClockTypeOK'
  BY <1>3 DEF Close
<1>4. CASE Tick
  <2>1. (tick + 1) % TickRange \in 0 .. TickRange - 1
    OBVIOUS
  <2> QED
    BY <1>4, <2>1 DEF Tick
<1>5. CASE Scan
  BY <1>5 DEF Scan, PingtimeAfter
<1>6. CASE UNCHANGED clockVars
  BY <1>6 DEF clockVars
<1> QED
  BY <1>1, <1>2, <1>3, <1>4, <1>5, <1>6 DEF ClockNext

LEMMA ClockTypeInit == ASSUME ClockInit PROVE ClockTypeOK
  BY PingClockAssumption DEF ClockInit, ClockTypeOK, ScanPeriod

\* Every reachable state is well typed.
THEOREM ClockTypeCorrect == ClockSpec => []ClockTypeOK
  BY ClockTypeInit, ClockTypeStep, PTL DEF ClockSpec

-----------------------------------------------------------------------------
(* What the code's numbers say of real time.                               *)

\* The time t, at most one wrap ago, was `age` ticks ago.
Ago(t, age) == tick = t + age \/ tick = t + age - TickRange

\* A client that is not pinged: it was heard of shortly before the last scan or
\* after it; or it is new; or its PING fell on the tick 0; or it is new, and
\* the last scan was so soon after a wrap that lastResp = 0 seemed recent.
NotPinged(c) ==
    /\ sincePing[c] = 0
    /\ \/ Ago(lastResp[c], silence[c]) /\ silence[c] <= sinceScan + 2
       \/ lastResp[c] = 0 /\ silence[c] <= sinceScan
       \/ /\ Ago(lastResp[c], silence[c]) /\ silence[c] >= SilenceLimit
          /\ tick = sinceScan /\ silence[c] <= 2 + WaitFor(1) + sinceScan
       \/ /\ lastResp[c] = 0
          /\ tick \in sinceScan .. sinceScan + 2 /\ silence[c] <= WaitFor(1) + sinceScan

Pinged(c) ==
    /\ Ago(pingtime[c], sincePing[c])
    /\ sincePing[c] <= sinceScan + 3
    /\ silence[c] <= WaitFor(SilenceLimit) + WaitFor(1) + sincePing[c]

ClockInv(c) == IF pingtime[c] = 0 THEN NotPinged(c) ELSE Pinged(c)

\* The code's difference of two readings is the real time between them.
LEMMA ElapsedIs ==
    ASSUME ClockTypeOK, NEW t \in 0 .. TickRange - 1, NEW age \in Nat, age < TickRange, Ago(t, age)
    PROVE  Elapsed(t) = age
<1>1. tick - t \in Int /\ TickRange \in Nat /\ TickRange > 0
  BY PingClockAssumption DEF ClockTypeOK
<1> QED
  BY <1>1, Wraps DEF Elapsed, Ago, ClockTypeOK

\* The time of a counter that was reset is the counter.
LEMMA ElapsedZero == ASSUME ClockTypeOK PROVE Elapsed(0) = tick
  BY ElapsedIs, PingClockAssumption DEF ClockTypeOK, Ago

LEMMA NowIs == ASSUME ClockTypeOK PROVE Elapsed(tick) = 0
  BY ElapsedIs, PingClockAssumption DEF ClockTypeOK, Ago

\* A second passes for c.
LEMMA TickOne ==
    ASSUME ClockTypeOK, Tick, NEW c \in open, ClockInv(c)
    PROVE  ClockInv(c)'
<1> USE PingClockAssumption DEF ClockTypeOK, ScanPeriod, SilenceLimit, PingLimit, WaitFor
<1>0. c \in Conns /\ c \in open'
  BY DEF Tick
<1>1. tick' = IF tick = TickRange - 1 THEN 0 ELSE tick + 1
  <2>1. tick + 1 \in Int /\ TickRange > 0
    OBVIOUS
  <2>2. TickRange % TickRange = 0
    BY <2>1
  <2> QED
    BY <2>1, <2>2, Wraps DEF Tick
<1>2. silence'[c] = silence[c] + 1 /\ sinceScan' = sinceScan + 1 /\ sinceScan < ScanPeriod + Slack
  BY <1>0 DEF Tick
<1>3. UNCHANGED <<pingtime, lastResp>>
  BY DEF Tick
<1>4. CASE pingtime[c] = 0
  <2>1. sincePing[c] = 0 /\ sincePing'[c] = 0
    BY <1>0, <1>4 DEF Tick, ClockInv, NotPinged
  <2>2. lastResp[c] \in 0 .. TickRange - 1 /\ silence[c] \in Nat /\ sinceScan \in Nat
    BY <1>0
  <2> QED
    BY <1>1, <1>2, <1>3, <1>4, <2>1, <2>2 DEF ClockInv, NotPinged, Ago
<1>5. CASE pingtime[c] # 0
  <2>1. sincePing'[c] = sincePing[c] + 1
    BY <1>0, <1>5 DEF Tick
  <2>2. /\ pingtime[c] \in 0 .. TickRange - 1 /\ silence[c] \in Nat /\ sinceScan \in Nat
        /\ sincePing[c] \in Nat
    BY <1>0
  <2> QED
    BY <1>1, <1>2, <1>3, <1>5, <2>1, <2>2 DEF ClockInv, Pinged, Ago
<1> QED
  BY <1>4, <1>5

\* A scan that leaves c open.
LEMMA ScanOne ==
    ASSUME ClockTypeOK, Scan, NEW c \in open, c \in open', ClockInv(c)
    PROVE  ClockInv(c)'
<1> USE PingClockAssumption DEF ClockTypeOK, ScanPeriod, SilenceLimit, PingLimit, WaitFor
<1>0. /\ c \in Conns /\ sinceScan >= ScanPeriod /\ sinceScan' = 0 /\ UNCHANGED <<tick, lastResp>>
      /\ pingtime'[c] = PingtimeAfter(c) /\ silence'[c] = silence[c]
      /\ sincePing'[c] = sincePing[c] /\ ~Expires(c)
  BY DEF Scan
<1>1. /\ lastResp[c] \in 0 .. TickRange - 1 /\ pingtime[c] \in 0 .. TickRange - 1
      /\ silence[c] \in Nat /\ sincePing[c] \in Nat /\ sinceScan \in 0 .. ScanPeriod + Slack
      /\ tick \in 0 .. TickRange - 1
  BY <1>0
<1>2. CASE pingtime[c] = 0
  <2>1. sincePing[c] = 0
    BY <1>2 DEF ClockInv, NotPinged
  <2>2. silence[c] < TickRange /\ silence[c] <= WaitFor(SilenceLimit) + WaitFor(1)
    BY <1>1, <1>2 DEF ClockInv, NotPinged
  <2>3. Ago(lastResp[c], silence[c]) => Elapsed(lastResp[c]) = silence[c]
    BY <1>1, <2>2, ElapsedIs
  <2>4. Elapsed(0) = tick
    BY ElapsedZero
  <2>5. CASE Elapsed(lastResp[c]) >= SilenceLimit
    <3>1. pingtime'[c] = tick
      BY <1>0, <1>2, <2>5 DEF PingtimeAfter, Pings
    <3>2. CASE tick = 0
      BY <1>0, <1>1, <1>2, <2>1, <2>3, <2>4, <2>5, <3>1, <3>2 DEF ClockInv, NotPinged, Ago
    <3>3. CASE tick # 0
      BY <1>0, <1>1, <2>1, <2>2, <3>1, <3>3 DEF ClockInv, Pinged, Ago
    <3> QED
      BY <3>2, <3>3
  <2>6. CASE ~(Elapsed(lastResp[c]) >= SilenceLimit)
    <3>1. pingtime'[c] = 0
      BY <1>0, <1>2, <2>6 DEF PingtimeAfter, Pings
    <3> QED
      BY <1>0, <1>1, <1>2, <2>1, <2>3, <2>4, <2>6, <3>1 DEF ClockInv, NotPinged, Ago
  <2> QED
    BY <2>5, <2>6
<1>3. CASE pingtime[c] # 0
  <2>1. pingtime'[c] = pingtime[c] /\ PingtimeAfter(c) = pingtime[c]
    BY <1>0, <1>3 DEF PingtimeAfter, Pings
  <2>2. Elapsed(pingtime[c]) = sincePing[c]
    BY <1>1, <1>3, ElapsedIs DEF ClockInv, Pinged
  <2>3. sincePing[c] <= 3
    BY <1>0, <1>1, <1>3, <2>1, <2>2 DEF Expires
  <2> QED
    BY <1>0, <1>1, <1>3, <2>1, <2>3 DEF ClockInv, Pinged, Ago
<1> QED
  BY <1>2, <1>3

AllClocks == \A c \in open : ClockInv(c)

LEMMA ClockStep == ASSUME ClockTypeOK, AllClocks, [ClockNext]_clockVars PROVE AllClocks'
<1> SUFFICES ASSUME NEW d \in open' PROVE ClockInv(d)'
  BY DEF AllClocks
<1> USE PingClockAssumption DEF ClockTypeOK
<1>1. ASSUME NEW c \in Conns, AcceptClient(c) PROVE ClockInv(d)'
  <2>1. CASE d = c
    BY <1>1, <2>1 DEF AcceptClient, ClockInv, NotPinged
  <2>2. CASE d # c
    BY <1>1, <2>2 DEF AcceptClient, AllClocks, ClockInv, NotPinged, Pinged, Ago
  <2> QED
    BY <2>1, <2>2
<1>2. ASSUME NEW c \in Conns, Receive(c) PROVE ClockInv(d)'
  <2>1. CASE d = c
    BY <1>2, <2>1 DEF Receive, AllClocks, ClockInv, NotPinged, Pinged, Ago,
      WaitFor, SilenceLimit, ScanPeriod
  <2>2. CASE d # c
    BY <1>2, <2>2 DEF Receive, AllClocks, ClockInv, NotPinged, Pinged, Ago
  <2> QED
    BY <2>1, <2>2
<1>3. ASSUME NEW c \in Conns, Close(c) PROVE ClockInv(d)'
  BY <1>3 DEF Close, AllClocks, ClockInv, NotPinged, Pinged, Ago
<1>4. CASE Tick
  BY <1>4, TickOne DEF Tick, AllClocks
<1>5. CASE Scan
  <2>1. d \in open
    BY <1>5 DEF Scan
  <2> QED
    BY <1>5, <2>1, ScanOne DEF AllClocks
<1>6. CASE UNCHANGED clockVars
  BY <1>6 DEF clockVars, AllClocks, ClockInv, NotPinged, Pinged, Ago
<1> QED
  BY <1>1, <1>2, <1>3, <1>4, <1>5, <1>6 DEF ClockNext

THEOREM Clocks == ClockSpec => [](ClockTypeOK /\ AllClocks)
<1>1. ASSUME ClockInit PROVE ClockTypeOK /\ AllClocks
  BY <1>1, ClockTypeInit DEF ClockInit, AllClocks
<1>2. ASSUME ClockTypeOK /\ AllClocks, [ClockNext]_clockVars PROVE (ClockTypeOK /\ AllClocks)'
  BY <1>2, ClockTypeStep, ClockStep
<1> QED
  BY <1>1, <1>2, PTL DEF ClockSpec

-----------------------------------------------------------------------------
(* The properties.                                                         *)

\* Nobody stays connected longer than the two waits, and one scan more, without
\* the server having processed something from it.
THEOREM SilentGoneHolds == ClockSpec => []SilentGone
<1>1. ASSUME ClockTypeOK, AllClocks PROVE SilentGone
  BY <1>1, PingClockAssumption
  DEF ClockTypeOK, SilentGone, AllClocks, ClockInv, NotPinged, Pinged, WaitFor, SilenceLimit,
      PingLimit, ScanPeriod
<1> QED
  BY <1>1, Clocks, PTL

\* A client that was pinged is closed by the first scan past 4 s.
THEOREM PingDoomsHolds == ClockSpec => []PingDooms
<1>1. ASSUME ClockTypeOK, AllClocks PROVE PingDooms
  BY <1>1, PingClockAssumption
  DEF ClockTypeOK, PingDooms, AllClocks, ClockInv, NotPinged, Pinged, WaitFor, PingLimit, ScanPeriod
<1> QED
  BY <1>1, Clocks, PTL

\* The ping thread closes nobody within 4 s of the PING.
THEOREM GracePeriodHolds == ClockSpec => GracePeriod
<1>1. ASSUME ClockTypeOK, AllClocks, [ClockNext]_clockVars,
             NEW c \in Conns, Scan, c \in open \ open'
      PROVE  sincePing[c] >= PingLimit
  <2>1. Expires(c) /\ c \in open
    BY <1>1 DEF Scan
  <2>2. ~Pings(c)
    BY <1>1, <2>1, NowIs DEF Expires, PingtimeAfter, PingLimit
  <2>3. pingtime[c] # 0 /\ Elapsed(pingtime[c]) >= PingLimit
    BY <2>1, <2>2 DEF Expires, PingtimeAfter
  <2>4. Elapsed(pingtime[c]) = sincePing[c]
    <3>1. /\ pingtime[c] \in 0 .. TickRange - 1 /\ sincePing[c] \in Nat
          /\ sinceScan \in 0 .. ScanPeriod + Slack
      BY <1>1 DEF ClockTypeOK
    <3> QED
      BY <1>1, <2>1, <2>3, <3>1, ElapsedIs, PingClockAssumption
      DEF AllClocks, ClockInv, Pinged, ScanPeriod
  <2> QED
    BY <2>3, <2>4
<1>2. ASSUME ClockTypeOK, AllClocks, [ClockNext]_clockVars
      PROVE  \A c \in Conns : Scan /\ c \in open \ open' => sincePing[c] >= PingLimit
  BY <1>1, <1>2
<1> QED
  BY <1>2, Clocks, PTL DEF ClockSpec, GracePeriod

-----------------------------------------------------------------------------
(* Connection.                                                             *)

USE ConnectionAssumption
    DEF heapVars, fieldVars, listVars, accVars, workVars, pingVars, ghostVars

-----------------------------------------------------------------------------
(* Every state of the specification is well typed.                         *)

\* No step leaves the types: one step of the proof per action.
LEMMA TypeStep == TypeOK /\ [Next]_vars => TypeOK'
<1> SUFFICES ASSUME TypeOK, [Next]_vars PROVE TypeOK'
  OBVIOUS
<1>1. ASSUME AcceptStep PROVE TypeOK'
  <2>1. ASSUME NEW b \in Blocks, Accept(b) PROVE TypeOK'
    BY <2>1 DEF Accept, Unreferenced, TypeOK, WorkerStates, Holding
  <2>2. ASSUME CountConnection PROVE TypeOK'
    BY <2>2 DEF CountConnection, TypeOK, WorkerStates, Holding
  <2>3. ASSUME FirstRecv PROVE TypeOK'
    BY <2>3 DEF FirstRecv, PostRecv, TypeOK, WorkerStates, Holding
  <2> QED
    BY <1>1, <2>1, <2>2, <2>3 DEF AcceptStep
<1>2. ASSUME NetworkStep PROVE TypeOK'
  <2>1. ASSUME NEW b \in Blocks, Arrive(b) PROVE TypeOK'
    BY <2>1 DEF Arrive, TypeOK, WorkerStates, Holding
  <2>2. ASSUME NEW b \in Blocks, PeerClose(b) PROVE TypeOK'
    BY <2>2 DEF PeerClose, TypeOK, WorkerStates, Holding
  <2>3. ASSUME NEW b \in Blocks, Eof(b) PROVE TypeOK'
    BY <2>3 DEF Eof, TypeOK, WorkerStates, Holding
  <2> QED
    BY <1>2, <2>1, <2>2, <2>3 DEF NetworkStep
<1>3. ASSUME NEW w \in Workers, WorkerStep(w) PROVE TypeOK'
  <2>1. ASSUME NEW b \in Blocks, DequeueData(w, b) PROVE TypeOK'
    BY <2>1 DEF DequeueData, Take, Read, TypeOK, WorkerStates, Holding
  <2>2. ASSUME NEW b \in Blocks, DequeueFail(w, b) PROVE TypeOK'
    BY <2>2 DEF DequeueFail, Take, Read, TypeOK, WorkerStates, Holding
  <2>3. ASSUME NEW b \in Blocks, DequeueDrop(w, b) PROVE TypeOK'
    BY <2>3 DEF DequeueDrop, Read, TypeOK, WorkerStates, Holding
  <2>4. ASSUME ShortRead(w) PROVE TypeOK'
    BY <2>4 DEF ShortRead, Leave, PostRecv, TypeOK, WorkerStates, Holding
  <2>5. ASSUME NextField(w) PROVE TypeOK'
    BY <2>5 DEF NextField, Goto, PostRecv, TypeOK, WorkerStates, Holding
  <2>6. ASSUME ProcessPacket(w) PROVE TypeOK'
    BY <2>6 DEF ProcessPacket, Goto, TypeOK, WorkerStates, Holding
  <2>7. ASSUME NextPacket(w) PROVE TypeOK'
    BY <2>7 DEF NextPacket, Goto, PostRecv, TypeOK, WorkerStates, Holding
  <2>8. ASSUME Tail(w) PROVE TypeOK'
    <3>1. foreign' \in [Blocks -> BOOLEAN]
      BY <2>8, Zenon DEF Tail, TypeOK
    <3>2. QED
      BY <2>8, <3>1 DEF Tail, Goto, Leave, TypeOK, WorkerStates, Holding
  <2>9. ASSUME Disconnect(w) PROVE TypeOK'
    BY <2>9 DEF Disconnect, Goto, TypeOK, WorkerStates, Holding
  <2>10. ASSUME Unlink(w) PROVE TypeOK'
    BY <2>10 DEF Unlink, Goto, DeleteConn, TypeOK, WorkerStates, Holding
  <2>11. ASSUME Release(w) PROVE TypeOK'
    BY <2>11 DEF Release, Leave, CloseSocket, FreeBlock, TypeOK, WorkerStates, Holding
  <2> QED
    BY <1>3, <2>1, <2>2, <2>3, <2>4, <2>5, <2>6, <2>7, <2>8, <2>9, <2>10, <2>11 DEF
       WorkerStep, DequeueStep
<1>4. ASSUME PingStep PROVE TypeOK'
  <2>1. ASSUME PingWake PROVE TypeOK'
    BY <2>1 DEF PingWake, TypeOK, WorkerStates, Holding
  <2>2. ASSUME NEW b \in Blocks, PingNext(b) PROVE TypeOK'
    BY <2>2 DEF PingNext, TypeOK, WorkerStates, Holding
  <2>3. ASSUME PingEnd PROVE TypeOK'
    BY <2>3 DEF PingEnd, TypeOK, WorkerStates, Holding
  <2>4. ASSUME PingDangling PROVE TypeOK'
    BY <2>4 DEF PingDangling, PingOn, Dangling, TypeOK, WorkerStates, Holding
  <2>5. ASSUME PingSend PROVE TypeOK'
    BY <2>5 DEF PingSend, Unpinged, PingOn, Dangling, TypeOK, WorkerStates, Holding
  <2>6. ASSUME PingSkip PROVE TypeOK'
    BY <2>6 DEF PingSkip, Unpinged, PingOn, Dangling, TypeOK, WorkerStates, Holding
  <2>7. ASSUME PingTimeout PROVE TypeOK'
    BY <2>7 DEF PingTimeout, Unpinged, Dangling, TypeOK, WorkerStates, Holding
  <2>8. ASSUME PingClose PROVE TypeOK'
    BY <2>8 DEF PingClose, CloseSocket, TypeOK, WorkerStates, Holding
  <2>9. ASSUME PingFree PROVE TypeOK'
    BY <2>9 DEF PingFree, FreeBlock, TypeOK, WorkerStates, Holding
  <2>10. ASSUME PingUnlink PROVE TypeOK'
    BY <2>10 DEF PingUnlink, PingOn, DeleteConn, TypeOK, WorkerStates, Holding
  <2> QED
    BY <1>4, <2>1, <2>2, <2>3, <2>4, <2>5, <2>6, <2>7, <2>8, <2>9, <2>10 DEF PingStep
<1>5. CASE UNCHANGED vars
  BY <1>5 DEF vars, TypeOK, WorkerStates, Holding
<1>6. QED
  BY <1>1, <1>2, <1>3, <1>4, <1>5 DEF Next

LEMMA InitTyped == Init => TypeOK
<1> SUFFICES ASSUME Init PROVE TypeOK
  OBVIOUS
<1>1. foreign \in [Blocks -> BOOLEAN] /\ heard \in [Blocks -> BOOLEAN] /\ corrupt \in BOOLEAN
  BY Zenon DEF Init
<1>2. \A w \in Workers : (at[w] = NoBlock) <=> (pc[w] = "get")
  BY Zenon DEF Init
<1>3. QED
  BY <1>1, <1>2 DEF Init, TypeOK, WorkerStates, Holding

\* Type correctness of every reachable state.
THEOREM TypeCorrect == Spec => []TypeOK
  BY InitTyped, TypeStep, PTL DEF Spec

-----------------------------------------------------------------------------
(* A block's receive operation is in one place.                            *)

\* What holds of one block, whatever happens to the others: its receive is in
\* one place, and while anything refers to it it is allocated.  The ping
\* thread's teardown is told apart because it holds no receive operation.
BlockInv(b) ==
    /\ Clean(b) =>
          /\ Queued(b) <= 1
          /\ HeldByAcceptor(b) => Queued(b) = 0
          /\ \A w \in Workers : HeldByWorker(w, b) =>
                /\ Queued(b) = 0 /\ ~HeldByAcceptor(b)
                /\ \A v \in Workers : HeldByWorker(v, b) => v = w
    /\ Clean(b) /\ ~Unreferenced(b) => mem[b] = "live"
    /\ ReapedByPing(b) => ~Clean(b)

LEMMA BlockStep ==
    ASSUME TypeOK, [Next]_vars, NEW c \in Blocks, BlockInv(c)
    PROVE  BlockInv(c)'
<1>1. ASSUME AcceptStep PROVE BlockInv(c)'
  <2>1. ASSUME NEW b \in Blocks, Accept(b) PROVE BlockInv(c)'
    BY <2>1 DEF Accept, TypeOK, WorkerStates, BlockInv, Unreferenced, Queued, HeldByWorker,
       HeldByAcceptor, ReapedByPing, Clean, Holding
  <2>2. ASSUME CountConnection PROVE BlockInv(c)'
    BY <2>2 DEF CountConnection, TypeOK, WorkerStates, BlockInv, Unreferenced, Queued,
       HeldByWorker, HeldByAcceptor, ReapedByPing, Clean, Holding
  <2>3. ASSUME FirstRecv PROVE BlockInv(c)'
    BY <2>3 DEF FirstRecv, PostRecv, TypeOK, WorkerStates, BlockInv, Unreferenced, Queued,
       HeldByWorker, HeldByAcceptor, ReapedByPing, Clean, Holding
  <2> QED
    BY <1>1, <2>1, <2>2, <2>3 DEF AcceptStep
<1>2. ASSUME NetworkStep PROVE BlockInv(c)'
  <2>1. ASSUME NEW b \in Blocks, Arrive(b) PROVE BlockInv(c)'
    BY <2>1 DEF Arrive, TypeOK, WorkerStates, BlockInv, Unreferenced, Queued, HeldByWorker,
       HeldByAcceptor, ReapedByPing, Clean, Holding
  <2>2. ASSUME NEW b \in Blocks, PeerClose(b) PROVE BlockInv(c)'
    BY <2>2 DEF PeerClose, TypeOK, WorkerStates, BlockInv, Unreferenced, Queued,
       HeldByWorker, HeldByAcceptor, ReapedByPing, Clean, Holding
  <2>3. ASSUME NEW b \in Blocks, Eof(b) PROVE BlockInv(c)'
    BY <2>3 DEF Eof, TypeOK, WorkerStates, BlockInv, Unreferenced, Queued, HeldByWorker,
       HeldByAcceptor, ReapedByPing, Clean, Holding
  <2> QED
    BY <1>2, <2>1, <2>2, <2>3 DEF NetworkStep
<1>3. ASSUME NEW w \in Workers, WorkerStep(w) PROVE BlockInv(c)'
  <2>1. ASSUME NEW b \in Blocks, DequeueData(w, b) PROVE BlockInv(c)'
    <3>1. CASE c = b
      <4>1. Clean(c) =>
              /\ dataQ[c] = 1 /\ pend[c] = 0 /\ failQ[c] = 0 /\ mem[c] = "live"
              /\ ~HeldByAcceptor(c) /\ \A v \in Workers : ~HeldByWorker(v, c)
        <5>1. failQ[c] \in Nat /\ pend[c] \in Nat /\ dataQ[c] \in Nat /\ dataQ[c] > 0
          BY <2>1, <3>1 DEF DequeueData, TypeOK
        <5> QED
          BY <5>1 DEF BlockInv, Unreferenced, Queued
      <4>2. Clean(c) => Queued(c)' = 0
        BY <2>1, <3>1, <4>1 DEF DequeueData, TypeOK, Queued
      <4>3. \A v \in Workers : HeldByWorker(v, c)' => v = w \/ HeldByWorker(v, c)
        BY <2>1, <3>1 DEF DequeueData, Take, TypeOK, HeldByWorker
      <4> QED
        BY <2>1, <4>1, <4>2, <4>3
        DEF DequeueData, BlockInv, HeldByAcceptor, ReapedByPing, Clean
    <3>2. CASE c # b
      <4>1. Queued(c)' = Queued(c)
        BY <2>1, <3>2 DEF DequeueData, TypeOK, Queued
      <4>2. \A v \in Workers : HeldByWorker(v, c)' => HeldByWorker(v, c)
        BY <2>1, <3>2 DEF DequeueData, Take, TypeOK, HeldByWorker
      <4>3. \A v \in Workers : HeldByWorker(v, c) => HeldByWorker(v, c)'
        BY <2>1, <3>2 DEF DequeueData, Take, TypeOK, HeldByWorker, Holding
      <4> QED
        BY <2>1, <4>1, <4>2, <4>3
        DEF DequeueData, BlockInv, Unreferenced, HeldByAcceptor, ReapedByPing, Clean
    <3> QED
      BY <3>1, <3>2
  <2>2. ASSUME NEW b \in Blocks, DequeueFail(w, b) PROVE BlockInv(c)'
    <3>1. CASE c = b
      <4>1. Clean(c) =>
              /\ failQ[c] = 1 /\ pend[c] = 0 /\ dataQ[c] = 0 /\ mem[c] = "live"
              /\ ~HeldByAcceptor(c) /\ \A v \in Workers : ~HeldByWorker(v, c)
        <5>1. failQ[c] \in Nat /\ pend[c] \in Nat /\ dataQ[c] \in Nat /\ failQ[c] > 0
          BY <2>2, <3>1 DEF DequeueFail, TypeOK
        <5> QED
          BY <5>1 DEF BlockInv, Unreferenced, Queued
      <4>2. Clean(c) => Queued(c)' = 0
        BY <2>2, <3>1, <4>1 DEF DequeueFail, TypeOK, Queued
      <4>3. \A v \in Workers : HeldByWorker(v, c)' => v = w \/ HeldByWorker(v, c)
        BY <2>2, <3>1 DEF DequeueFail, Take, TypeOK, HeldByWorker
      <4> QED
        BY <2>2, <4>1, <4>2, <4>3
        DEF DequeueFail, BlockInv, HeldByAcceptor, ReapedByPing, Clean
    <3>2. CASE c # b
      <4>1. Queued(c)' = Queued(c)
        BY <2>2, <3>2 DEF DequeueFail, TypeOK, Queued
      <4>2. \A v \in Workers : HeldByWorker(v, c)' => HeldByWorker(v, c)
        BY <2>2, <3>2 DEF DequeueFail, Take, TypeOK, HeldByWorker
      <4>3. \A v \in Workers : HeldByWorker(v, c) => HeldByWorker(v, c)'
        BY <2>2, <3>2 DEF DequeueFail, Take, TypeOK, HeldByWorker, Holding
      <4> QED
        BY <2>2, <4>1, <4>2, <4>3
        DEF DequeueFail, BlockInv, Unreferenced, HeldByAcceptor, ReapedByPing, Clean
    <3> QED
      BY <3>1, <3>2
  <2>3. ASSUME NEW b \in Blocks, DequeueDrop(w, b) PROVE BlockInv(c)'
    BY <2>3 DEF DequeueDrop, Read, TypeOK, WorkerStates, BlockInv, Unreferenced, Queued,
       HeldByWorker, HeldByAcceptor, ReapedByPing, Clean, Holding
  <2>4. ASSUME ShortRead(w) PROVE BlockInv(c)'
    BY <2>4 DEF ShortRead, Leave, PostRecv, TypeOK, WorkerStates, BlockInv, Unreferenced,
       Queued, HeldByWorker, HeldByAcceptor, ReapedByPing, Clean, Holding
  <2>5. ASSUME NextField(w) PROVE BlockInv(c)'
    BY <2>5 DEF NextField, Goto, PostRecv, TypeOK, WorkerStates, BlockInv, Unreferenced,
       Queued, HeldByWorker, HeldByAcceptor, ReapedByPing, Clean, Holding
  <2>6. ASSUME ProcessPacket(w) PROVE BlockInv(c)'
    BY <2>6 DEF ProcessPacket, Goto, TypeOK, WorkerStates, BlockInv, Unreferenced, Queued,
       HeldByWorker, HeldByAcceptor, ReapedByPing, Clean, Holding
  <2>7. ASSUME NextPacket(w) PROVE BlockInv(c)'
    BY <2>7 DEF NextPacket, Goto, PostRecv, TypeOK, WorkerStates, BlockInv, Unreferenced,
       Queued, HeldByWorker, HeldByAcceptor, ReapedByPing, Clean, Holding
  <2>8. ASSUME Tail(w) PROVE BlockInv(c)'
    <3>1. at[w] \in Blocks /\ ~HeldByWorker(w, c)
      BY <2>8 DEF Tail, TypeOK, HeldByWorker, Holding
    <3>2. CASE Leave(w) /\ UNCHANGED foreign
      BY <2>8, <3>1, <3>2 DEF Tail, Goto, Leave, TypeOK, WorkerStates, BlockInv,
         Unreferenced, Queued, HeldByWorker, HeldByAcceptor, ReapedByPing, Clean, Holding
    <3>3. CASE Goto(w, "close") /\ foreign' = [foreign EXCEPT ![at[w]] = TRUE]
      <4>1. CASE at[w] = c
        <5>1. ~Clean(c)'
          BY <3>3, <4>1, Zenon DEF TypeOK, Clean
        <5>2. ReapedByPing(c)' <=> ReapedByPing(c)
          BY <2>8 DEF Tail, ReapedByPing
        <5> QED
          BY <5>1, <5>2 DEF BlockInv
      <4>2. CASE at[w] # c
        <5>1. Clean(c)' <=> Clean(c)
          BY <3>1, <3>3, <4>2, Zenon DEF TypeOK, Clean
        <5>2. pc' = [pc EXCEPT ![w] = "close"] /\ UNCHANGED at
          BY <3>3 DEF Goto
        <5> QED
          BY <2>8, <4>2, <5>1, <5>2 DEF Tail, TypeOK, WorkerStates, BlockInv, Unreferenced,
             Queued, HeldByWorker, HeldByAcceptor, ReapedByPing, Holding
      <4> QED
        BY <4>1, <4>2
    <3> QED
      BY <2>8, <3>2, <3>3 DEF Tail
  <2>9. ASSUME Disconnect(w) PROVE BlockInv(c)'
    BY <2>9 DEF Disconnect, Goto, TypeOK, WorkerStates, BlockInv, Unreferenced, Queued,
       HeldByWorker, HeldByAcceptor, ReapedByPing, Clean, Holding
  <2>10. ASSUME Unlink(w) PROVE BlockInv(c)'
    BY <2>10 DEF Unlink, Goto, DeleteConn, TypeOK, WorkerStates, BlockInv, Unreferenced,
       Queued, HeldByWorker, HeldByAcceptor, ReapedByPing, Clean, Holding
  <2>11. ASSUME Release(w) PROVE BlockInv(c)'
    BY <2>11 DEF Release, Leave, CloseSocket, FreeBlock, TypeOK, WorkerStates, BlockInv,
       Unreferenced, Queued, HeldByWorker, HeldByAcceptor, ReapedByPing, Clean, Holding
  <2> QED
    BY <1>3, <2>1, <2>2, <2>3, <2>4, <2>5, <2>6, <2>7, <2>8, <2>9, <2>10, <2>11 DEF
       WorkerStep, DequeueStep
<1>4. ASSUME PingStep PROVE BlockInv(c)'
  <2>1. ASSUME PingWake PROVE BlockInv(c)'
    BY <2>1 DEF PingWake, TypeOK, WorkerStates, BlockInv, Unreferenced, Queued,
       HeldByWorker, HeldByAcceptor, ReapedByPing, Clean, Holding
  <2>2. ASSUME NEW b \in Blocks, PingNext(b) PROVE BlockInv(c)'
    BY <2>2 DEF PingNext, TypeOK, WorkerStates, BlockInv, Unreferenced, Queued,
       HeldByWorker, HeldByAcceptor, ReapedByPing, Clean, Holding
  <2>3. ASSUME PingEnd PROVE BlockInv(c)'
    BY <2>3 DEF PingEnd, TypeOK, WorkerStates, BlockInv, Unreferenced, Queued, HeldByWorker,
       HeldByAcceptor, ReapedByPing, Clean, Holding
  <2>4. ASSUME PingDangling PROVE BlockInv(c)'
    BY <2>4 DEF PingDangling, PingOn, Dangling, TypeOK, WorkerStates, BlockInv,
       Unreferenced, Queued, HeldByWorker, HeldByAcceptor, ReapedByPing, Clean, Holding
  <2>5. ASSUME PingSend PROVE BlockInv(c)'
    BY <2>5 DEF PingSend, Unpinged, PingOn, Dangling, TypeOK, WorkerStates, BlockInv, Unreferenced,
       Queued, HeldByWorker, HeldByAcceptor, ReapedByPing, Clean, Holding
  <2>6. ASSUME PingSkip PROVE BlockInv(c)'
    BY <2>6 DEF PingSkip, Unpinged, PingOn, Dangling, TypeOK, WorkerStates, BlockInv, Unreferenced,
       Queued, HeldByWorker, HeldByAcceptor, ReapedByPing, Clean, Holding
  <2>7. ASSUME PingTimeout PROVE BlockInv(c)'
    BY <2>7 DEF PingTimeout, Unpinged, Dangling, TypeOK, WorkerStates, BlockInv, Unreferenced, Queued,
       HeldByWorker, HeldByAcceptor, ReapedByPing, Clean, Holding
  <2>8. ASSUME PingClose PROVE BlockInv(c)'
    BY <2>8 DEF PingClose, CloseSocket, TypeOK, WorkerStates, BlockInv, Unreferenced,
       Queued, HeldByWorker, HeldByAcceptor, ReapedByPing, Clean, Holding
  <2>9. ASSUME PingFree PROVE BlockInv(c)'
    BY <2>9 DEF PingFree, FreeBlock, TypeOK, WorkerStates, BlockInv, Unreferenced, Queued,
       HeldByWorker, HeldByAcceptor, ReapedByPing, Clean, Holding
  <2>10. ASSUME PingUnlink PROVE BlockInv(c)'
    BY <2>10 DEF PingUnlink, PingOn, DeleteConn, TypeOK, WorkerStates, BlockInv,
       Unreferenced, Queued, HeldByWorker, HeldByAcceptor, ReapedByPing, Clean, Holding
  <2> QED
    BY <1>4, <2>1, <2>2, <2>3, <2>4, <2>5, <2>6, <2>7, <2>8, <2>9, <2>10 DEF PingStep
<1>5. CASE UNCHANGED vars
  BY <1>5 DEF vars, TypeOK, WorkerStates, BlockInv, Unreferenced, Queued, HeldByWorker,
     HeldByAcceptor, ReapedByPing, Clean, Holding
<1>6. QED
  BY <1>1, <1>2, <1>3, <1>4, <1>5 DEF Next

\* The inductive invariant: every block's.
IInv == TypeOK /\ \A b \in Blocks : BlockInv(b)

LEMMA Inductive == Spec => []IInv
<1>1. Init => IInv
  <2> SUFFICES ASSUME Init PROVE \A b \in Blocks : BlockInv(b)
    BY InitTyped DEF IInv
  <2> TAKE b \in Blocks
  <2>1. Queued(b) = 0
    BY DEF Init, Queued
  <2>2. ~HeldByAcceptor(b) /\ ~ReapedByPing(b) /\ \A w \in Workers : ~HeldByWorker(w, b)
    BY DEF Init, HeldByAcceptor, ReapedByPing, HeldByWorker, Holding
  <2> QED
    BY <2>1, <2>2 DEF BlockInv, Unreferenced
<1>2. IInv /\ [Next]_vars => IInv'
  BY TypeStep, BlockStep DEF IInv
<1>3. QED
  BY <1>1, <1>2, PTL DEF Spec

\* A connection's receive operation is never in two places: two workers never
\* serve one connection at the same time.
THEOREM OneReceiveHolds == Spec => []OneReceive
<1>1. IInv => OneReceive
  BY DEF IInv, BlockInv, OneReceive
<1>2. QED
  BY <1>1, Inductive, PTL

\* No worker, completion packet or accept loop refers to a freed block that
\* only the holders of its receive operation have freed.
THEOREM NoUseAfterFreeHolds == Spec => []NoUseAfterFree
<1>1. IInv => NoUseAfterFree
  BY DEF IInv, BlockInv, NoUseAfterFree
<1>2. QED
  BY <1>1, Inductive, PTL

-----------------------------------------------------------------------------
(* A connection that has lost its receive never gets another.              *)

LEMMA StalledStep ==
    ASSUME TypeOK, [Next]_vars, NEW c \in Blocks, Stalled(c)
    PROVE  Stalled(c)' \/ ReapedByPing(c)'
<1>1. ASSUME AcceptStep PROVE Stalled(c)' \/ ReapedByPing(c)'
  <2>1. ASSUME NEW b \in Blocks, Accept(b) PROVE Stalled(c)' \/ ReapedByPing(c)'
    BY <2>1 DEF Accept, TypeOK, WorkerStates, Stalled, Unreferenced, Queued, HeldByWorker,
       HeldByAcceptor, ReapedByPing, Clean, Holding
  <2>2. ASSUME CountConnection PROVE Stalled(c)' \/ ReapedByPing(c)'
    BY <2>2 DEF CountConnection, TypeOK, WorkerStates, Stalled, Unreferenced, Queued,
       HeldByWorker, HeldByAcceptor, ReapedByPing, Clean, Holding
  <2>3. ASSUME FirstRecv PROVE Stalled(c)' \/ ReapedByPing(c)'
    BY <2>3 DEF FirstRecv, PostRecv, TypeOK, WorkerStates, Stalled, Unreferenced, Queued,
       HeldByWorker, HeldByAcceptor, ReapedByPing, Clean, Holding
  <2> QED
    BY <1>1, <2>1, <2>2, <2>3 DEF AcceptStep
<1>2. ASSUME NetworkStep PROVE Stalled(c)' \/ ReapedByPing(c)'
  <2>1. ASSUME NEW b \in Blocks, Arrive(b) PROVE Stalled(c)' \/ ReapedByPing(c)'
    BY <2>1 DEF Arrive, TypeOK, WorkerStates, Stalled, Unreferenced, Queued, HeldByWorker,
       HeldByAcceptor, ReapedByPing, Clean, Holding
  <2>2. ASSUME NEW b \in Blocks, PeerClose(b) PROVE Stalled(c)' \/ ReapedByPing(c)'
    BY <2>2 DEF PeerClose, TypeOK, WorkerStates, Stalled, Unreferenced, Queued,
       HeldByWorker, HeldByAcceptor, ReapedByPing, Clean, Holding
  <2>3. ASSUME NEW b \in Blocks, Eof(b) PROVE Stalled(c)' \/ ReapedByPing(c)'
    BY <2>3 DEF Eof, TypeOK, WorkerStates, Stalled, Unreferenced, Queued, HeldByWorker,
       HeldByAcceptor, ReapedByPing, Clean, Holding
  <2> QED
    BY <1>2, <2>1, <2>2, <2>3 DEF NetworkStep
<1>3. ASSUME NEW w \in Workers, WorkerStep(w) PROVE Stalled(c)' \/ ReapedByPing(c)'
  <2>1. ASSUME NEW b \in Blocks, DequeueData(w, b) PROVE Stalled(c)' \/ ReapedByPing(c)'
    BY <2>1 DEF DequeueData, Take, Read, TypeOK, WorkerStates, Stalled, Unreferenced,
       Queued, HeldByWorker, HeldByAcceptor, ReapedByPing, Clean, Holding
  <2>2. ASSUME NEW b \in Blocks, DequeueFail(w, b) PROVE Stalled(c)' \/ ReapedByPing(c)'
    <3>1. b # c /\ at[w] = NoBlock
      BY <2>2 DEF DequeueFail, TypeOK, Stalled, Unreferenced, Queued
    <3>2. at' = [at EXCEPT ![w] = b] /\ failQ'[c] = failQ[c]
      BY <2>2, <3>1 DEF DequeueFail, Take, TypeOK
    <3>3. \A v \in Workers : ~HeldByWorker(v, c)'
      BY <2>2, <3>1, <3>2 DEF DequeueFail, Take, TypeOK, WorkerStates, Stalled, Unreferenced,
         HeldByWorker, Holding
    <3> QED
      BY <2>2, <3>2, <3>3 DEF DequeueFail, Stalled, Unreferenced, Queued, HeldByAcceptor,
         ReapedByPing, Clean
  <2>3. ASSUME NEW b \in Blocks, DequeueDrop(w, b) PROVE Stalled(c)' \/ ReapedByPing(c)'
    BY <2>3 DEF DequeueDrop, Read, TypeOK, WorkerStates, Stalled, Unreferenced, Queued,
       HeldByWorker, HeldByAcceptor, ReapedByPing, Clean, Holding
  <2>4. ASSUME ShortRead(w) PROVE Stalled(c)' \/ ReapedByPing(c)'
    BY <2>4 DEF ShortRead, Leave, PostRecv, TypeOK, WorkerStates, Stalled, Unreferenced,
       Queued, HeldByWorker, HeldByAcceptor, ReapedByPing, Clean, Holding
  <2>5. ASSUME NextField(w) PROVE Stalled(c)' \/ ReapedByPing(c)'
    BY <2>5 DEF NextField, Goto, PostRecv, TypeOK, WorkerStates, Stalled, Unreferenced,
       Queued, HeldByWorker, HeldByAcceptor, ReapedByPing, Clean, Holding
  <2>6. ASSUME ProcessPacket(w) PROVE Stalled(c)' \/ ReapedByPing(c)'
    BY <2>6 DEF ProcessPacket, Goto, TypeOK, WorkerStates, Stalled, Unreferenced, Queued,
       HeldByWorker, HeldByAcceptor, ReapedByPing, Clean, Holding
  <2>7. ASSUME NextPacket(w) PROVE Stalled(c)' \/ ReapedByPing(c)'
    BY <2>7 DEF NextPacket, Goto, PostRecv, TypeOK, WorkerStates, Stalled, Unreferenced,
       Queued, HeldByWorker, HeldByAcceptor, ReapedByPing, Clean, Holding
  <2>8. ASSUME Tail(w) PROVE Stalled(c)' \/ ReapedByPing(c)'
    <3>1. pc' = [pc EXCEPT ![w] = "get"] \/ pc' = [pc EXCEPT ![w] = "close"]
      BY <2>8 DEF Tail, Goto, Leave
    <3>2. mem[c] = "live" /\ at[w] \in Blocks /\ pc[w] = "tail"
      BY <2>8 DEF Tail, TypeOK, Stalled
    <3>3. Clean(c)'
      BY <2>8, <3>2, Zenon DEF Tail, TypeOK, Stalled, Clean
    <3>4. \A v \in Workers : ~HeldByWorker(v, c)'
      BY <2>8, <3>2 DEF Tail, Goto, Leave, TypeOK, Stalled, Unreferenced, HeldByWorker,
         Holding
    <3> QED
      BY <2>8, <3>3, <3>4 DEF Tail, Stalled, Unreferenced, Queued, HeldByAcceptor,
         ReapedByPing
  <2>9. ASSUME Disconnect(w) PROVE Stalled(c)' \/ ReapedByPing(c)'
    BY <2>9 DEF Disconnect, Goto, TypeOK, WorkerStates, Stalled, Unreferenced, Queued,
       HeldByWorker, HeldByAcceptor, ReapedByPing, Clean, Holding
  <2>10. ASSUME Unlink(w) PROVE Stalled(c)' \/ ReapedByPing(c)'
    BY <2>10 DEF Unlink, Goto, DeleteConn, TypeOK, WorkerStates, Stalled, Unreferenced,
       Queued, HeldByWorker, HeldByAcceptor, ReapedByPing, Clean, Holding
  <2>11. ASSUME Release(w) PROVE Stalled(c)' \/ ReapedByPing(c)'
    BY <2>11 DEF Release, Leave, CloseSocket, FreeBlock, TypeOK, WorkerStates, Stalled,
       Unreferenced, Queued, HeldByWorker, HeldByAcceptor, ReapedByPing, Clean, Holding
  <2> QED
    BY <1>3, <2>1, <2>2, <2>3, <2>4, <2>5, <2>6, <2>7, <2>8, <2>9, <2>10, <2>11 DEF
       WorkerStep, DequeueStep
<1>4. ASSUME PingStep PROVE Stalled(c)' \/ ReapedByPing(c)'
  <2>1. ASSUME PingWake PROVE Stalled(c)' \/ ReapedByPing(c)'
    BY <2>1 DEF PingWake, TypeOK, WorkerStates, Stalled, Unreferenced, Queued, HeldByWorker,
       HeldByAcceptor, ReapedByPing, Clean, Holding
  <2>2. ASSUME NEW b \in Blocks, PingNext(b) PROVE Stalled(c)' \/ ReapedByPing(c)'
    BY <2>2 DEF PingNext, TypeOK, WorkerStates, Stalled, Unreferenced, Queued, HeldByWorker,
       HeldByAcceptor, ReapedByPing, Clean, Holding
  <2>3. ASSUME PingEnd PROVE Stalled(c)' \/ ReapedByPing(c)'
    BY <2>3 DEF PingEnd, TypeOK, WorkerStates, Stalled, Unreferenced, Queued, HeldByWorker,
       HeldByAcceptor, ReapedByPing, Clean, Holding
  <2>4. ASSUME PingDangling PROVE Stalled(c)' \/ ReapedByPing(c)'
    BY <2>4 DEF PingDangling, PingOn, Dangling, TypeOK, WorkerStates, Stalled, Unreferenced,
       Queued, HeldByWorker, HeldByAcceptor, ReapedByPing, Clean, Holding
  <2>5. ASSUME PingSend PROVE Stalled(c)' \/ ReapedByPing(c)'
    BY <2>5 DEF PingSend, Unpinged, PingOn, Dangling, TypeOK, WorkerStates, Stalled, Unreferenced,
       Queued, HeldByWorker, HeldByAcceptor, ReapedByPing, Clean, Holding
  <2>6. ASSUME PingSkip PROVE Stalled(c)' \/ ReapedByPing(c)'
    BY <2>6 DEF PingSkip, Unpinged, PingOn, Dangling, TypeOK, WorkerStates, Stalled, Unreferenced,
       Queued, HeldByWorker, HeldByAcceptor, ReapedByPing, Clean, Holding
  <2>7. ASSUME PingTimeout PROVE Stalled(c)' \/ ReapedByPing(c)'
    BY <2>7 DEF PingTimeout, Unpinged, Dangling, TypeOK, WorkerStates, Stalled, Unreferenced, Queued,
       HeldByWorker, HeldByAcceptor, ReapedByPing, Clean, Holding
  <2>8. ASSUME PingClose PROVE Stalled(c)' \/ ReapedByPing(c)'
    BY <2>8 DEF PingClose, CloseSocket, TypeOK, WorkerStates, Stalled, Unreferenced, Queued,
       HeldByWorker, HeldByAcceptor, ReapedByPing, Clean, Holding
  <2>9. ASSUME PingFree PROVE Stalled(c)' \/ ReapedByPing(c)'
    BY <2>9 DEF PingFree, FreeBlock, TypeOK, WorkerStates, Stalled, Unreferenced, Queued,
       HeldByWorker, HeldByAcceptor, ReapedByPing, Clean, Holding
  <2>10. ASSUME PingUnlink PROVE Stalled(c)' \/ ReapedByPing(c)'
    BY <2>10 DEF PingUnlink, PingOn, DeleteConn, TypeOK, WorkerStates, Stalled,
       Unreferenced, Queued, HeldByWorker, HeldByAcceptor, ReapedByPing, Clean, Holding
  <2> QED
    BY <1>4, <2>1, <2>2, <2>3, <2>4, <2>5, <2>6, <2>7, <2>8, <2>9, <2>10 DEF PingStep
<1>5. CASE UNCHANGED vars
  BY <1>5 DEF vars, TypeOK, WorkerStates, Stalled, Unreferenced, Queued, HeldByWorker,
     HeldByAcceptor, ReapedByPing, Clean, Holding
<1>6. QED
  BY <1>1, <1>2, <1>3, <1>4, <1>5 DEF Next

\* Nothing revives a connection whose completion packet was dropped: no thread
\* posts a receive for it before the ping thread tears it down.
THEOREM StalledForGoodHolds == Spec => StalledForGood
<1>1. TypeOK /\ [Next]_vars =>
        [\A b \in Blocks : Stalled(b) => Stalled(b)' \/ ReapedByPing(b)']_vars
  BY StalledStep
<1>2. QED
  BY <1>1, TypeCorrect, PTL DEF Spec, StalledForGood

=============================================================================
