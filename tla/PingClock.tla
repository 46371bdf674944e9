------------------------------ MODULE PingClock ------------------------------
(***************************************************************************)
(* When the ping thread pings a silent connection and when it closes it:   *)
(* the arithmetic of PingThread on GetTickCount, which counts milliseconds *)
(* in 32 bits and comes back to 0 every 49.7 days.                         *)
(*                                                                         *)
(* A tick stands for one second and the counter wraps at TickRange.  A     *)
(* scan takes no time; the wait between two scans is the code's 3 s plus   *)
(* up to Slack ticks.  The counters `silence` and `sincePing` are the real *)
(* time, which the code does not have: the properties compare what the     *)
(* code decides from its wrapping counter with them.                       *)
(***************************************************************************)
EXTENDS Integers

CONSTANTS
    Conns,      \* the clients
    TickRange,  \* the counter wraps here (2^32 ms in the code)
    Slack       \* BOUND: how late a scan may start

ASSUME PingClockAssumption ==
    /\ Slack \in Nat
    /\ TickRange \in Nat /\ TickRange > 14 + 3 * Slack  \* a scan is late by less than days

ScanPeriod == 3     \* WaitForSingleObject(hSleepEvent, 3000)
SilenceLimit == 3   \* GetTickCount() - lastResp >= 3000
PingLimit == 4      \* GetTickCount() - pingtime >= 4000

VARIABLES
    tick,       \* GetTickCount()
    sinceScan,  \* time since the last scan
    open,       \* the connections in the list `conn`
    lastResp,   \* PER_HANDLE_DATA.lastResp
    pingtime,   \* PER_HANDLE_DATA.pingtime; 0 means "not pinged"
    silence,    \* real time since the server processed something from c, or since the accept
    sincePing   \* real time since a PING set pingtime

clockVars == <<tick, sinceScan, open, lastResp, pingtime, silence, sincePing>>

ClockTypeOK ==
    /\ tick \in 0 .. TickRange - 1
    /\ sinceScan \in 0 .. ScanPeriod + Slack
    /\ open \in SUBSET Conns
    /\ lastResp \in [Conns -> 0 .. TickRange - 1]
    /\ pingtime \in [Conns -> 0 .. TickRange - 1]
    /\ silence \in [Conns -> Nat]
    /\ sincePing \in [Conns -> Nat]

ClockInit ==
    /\ tick \in 0 .. TickRange - 1
    /\ sinceScan = 0
    /\ open = {}
    /\ lastResp = [c \in Conns |-> 0]
    /\ pingtime = [c \in Conns |-> 0]
    /\ silence = [c \in Conns |-> 0]
    /\ sincePing = [c \in Conns |-> 0]

-----------------------------------------------------------------------------
\* VARIANT of Elapsed: signed arithmetic on a counter that wraps.
SignedElapsed(since) == tick - since

\* GetTickCount() - since, in unsigned arithmetic.
Elapsed(since) == (tick - since) % TickRange

\* RunServer accepts c: pingtime = 0 and lastResp = 0, whatever the time is.
AcceptClient(c) ==
    /\ c \notin open
    /\ open' = open \cup {c}
    /\ lastResp' = [lastResp EXCEPT ![c] = 0]
    /\ pingtime' = [pingtime EXCEPT ![c] = 0]
    /\ silence' = [silence EXCEPT ![c] = 0]
    /\ sincePing' = [sincePing EXCEPT ![c] = 0]
    /\ UNCHANGED <<tick, sinceScan>>

\* VARIANT of Receive: the answer to a PING clears pingtime.
ReceiveResetsPing(c) ==
    /\ c \in open
    /\ lastResp' = [lastResp EXCEPT ![c] = tick]
    /\ pingtime' = [pingtime EXCEPT ![c] = 0]
    /\ silence' = [silence EXCEPT ![c] = 0]
    /\ UNCHANGED <<tick, sinceScan, open, sincePing>>

\* A worker processes bytes of c, an answer to the PING included: lastResp is
\* set, pingtime is not reset.
Receive(c) ==
    /\ c \in open
    /\ lastResp' = [lastResp EXCEPT ![c] = tick]
    /\ silence' = [silence EXCEPT ![c] = 0]
    /\ UNCHANGED <<tick, sinceScan, open, pingtime, sincePing>>

\* A worker tears c down, its client being gone.
Close(c) ==
    /\ c \in open
    /\ open' = open \ {c}
    /\ silence' = [silence EXCEPT ![c] = 0]
    /\ sincePing' = [sincePing EXCEPT ![c] = 0]
    /\ UNCHANGED <<tick, sinceScan, lastResp, pingtime>>

\* A second passes.
Tick ==
    /\ sinceScan < ScanPeriod + Slack
    /\ tick' = (tick + 1) % TickRange
    /\ sinceScan' = sinceScan + 1
    /\ silence' = [c \in Conns |-> IF c \in open THEN silence[c] + 1 ELSE 0]
    /\ sincePing' = [c \in Conns |->
                        IF c \in open /\ (pingtime[c] # 0 \/ sincePing[c] > 0)
                        THEN sincePing[c] + 1 ELSE 0]
    /\ UNCHANGED <<open, lastResp, pingtime>>

\* The first `if` of the loop: a PING is sent, and pingtime set to the tick.
Pings(c) == pingtime[c] = 0 /\ Elapsed(lastResp[c]) >= SilenceLimit

PingtimeAfter(c) == IF Pings(c) THEN tick ELSE pingtime[c]

\* VARIANT of Expires: the silence is measured, not the time since the PING.
SilenceExpires(c) == PingtimeAfter(c) # 0 /\ Elapsed(lastResp[c]) >= PingLimit

\* The second `if`: the connection is closed.
Expires(c) == PingtimeAfter(c) # 0 /\ Elapsed(PingtimeAfter(c)) >= PingLimit

\* The loop over the list, once every 3 s.
Scan ==
    /\ sinceScan >= ScanPeriod
    /\ sinceScan' = 0
    /\ pingtime' = [c \in Conns |-> IF c \in open THEN PingtimeAfter(c) ELSE pingtime[c]]
    /\ open' = {c \in open : ~Expires(c)}
    /\ silence' = [c \in Conns |-> IF c \in open' THEN silence[c] ELSE 0]
    /\ sincePing' = [c \in Conns |-> IF c \in open' THEN sincePing[c] ELSE 0]
    /\ UNCHANGED <<tick, lastResp>>

ClockNext == (\E c \in Conns : AcceptClient(c) \/ Receive(c) \/ Close(c)) \/ Tick \/ Scan

ClockSpec == ClockInit /\ [][ClockNext]_clockVars

-----------------------------------------------------------------------------
(* Properties.                                                             *)

\* The longest wait, at the scans' pace, from the moment a test on the clock
\* could first hold to the scan that finds it does.
WaitFor(limit) == (limit - 1) + (ScanPeriod + Slack)

\* The ping thread keeps its promise to get rid of dead clients: nobody stays
\* connected longer than this without the server having processed something
\* from it.  The last scan period is for a PING sent at the tick 0, which
\* leaves pingtime at "not pinged" and has to be sent again.
SilentGone ==
    \A c \in open :
        silence[c] <= WaitFor(SilenceLimit) + WaitFor(PingLimit) + (ScanPeriod + Slack)

\* A PING condemns: once pingtime is set, the connection is closed at
\* the first scan past 4 s, whatever it answers, since nothing resets pingtime.
PingDooms == \A c \in open : sincePing[c] <= WaitFor(PingLimit)

\* No connection is closed by the ping thread before its client has had 4 s
\* to answer, across a wrap of the counter too.
GracePeriod ==
    [][\A c \in Conns : Scan /\ c \in open \ open' => sincePing[c] >= PingLimit]_clockVars

=============================================================================
