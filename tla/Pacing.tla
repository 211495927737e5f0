------------------------------- MODULE Pacing -------------------------------
(***************************************************************************)
(* Outbound pacing: a Pacer spaces the calls that several processes make   *)
(* to an institution, by one Redis script over all the buckets of a call.  *)
(* A bucket holds the time of its last grant; the rate is read anew before *)
(* every evaluation, may be raised, lowered or set to zero (paused) at any *)
(* moment, and is already old when the script runs.  The script's clock is *)
(* the Redis node's: a failover may move it backwards.  What is spaced is  *)
(* the grants: the call leaves when its goroutine next runs, which may be  *)
(* any time after its grant, and beside the next call.                     *)
(*                                                                         *)
(* Rates are modelled by their emission intervals in ticks, 0 for paused.  *)
(* That the Redis clock never jumps forward is an assumption: no state the *)
(* script keeps could tell a jump from the passing of time.                *)
(***************************************************************************)
EXTENDS Integers

CONSTANTS
    Senders,
    Wants,      \* caller -> the buckets one of its calls is charged to
    Intervals,  \* bucket -> the intervals its provider may answer (0 = paused)
    TTL,        \* stateTTLMillis: no interval is longer
    Tolerance,  \* clockToleranceMicros
    MaxStep,    \* how far back a failover may set the clock
    MaxPacingTime, MaxChanges, MaxFaults

Buckets == DOMAIN Intervals
NoStamp == -(TTL + 1)     \* an absent or expired key, below any time there is

ASSUME PacingAssumption ==
    /\ TTL \in Nat /\ Tolerance \in Nat /\ MaxStep \in Nat /\ MaxFaults \in Nat
    /\ MaxFaults * MaxStep + Tolerance <= TTL     \* failovers set the clock back by less than a key lives
    /\ (\A b \in Buckets : Intervals[b] \subseteq 0 .. TTL) /\ \A c \in Senders : Wants[c] \subseteq Buckets

VARIABLES
    time, behind,   \* real time, and how far the Redis clock is behind it
    mark, markEnds, \* the clock's high-water mark and when the key expires
    granted,        \* bucket -> time of the last grant
    rate,           \* bucket -> what its provider answers now
    spc, intervals,  \* caller -> idle | read | asleep | granted, and the rates it has read
    changes, faults,
    permitAt,       \* history: bucket -> when its last permit was issued
    tooSoon,        \* history: a permit was issued before its interval was over
    overlong        \* history: a caller was told to wait longer than it may

pacingVars == <<time, behind, mark, markEnds, granted, rate, spc, intervals,
                changes, faults, permitAt, tooSoon, overlong>>

PacingInit ==
    /\ time = 0 /\ behind = 0
    /\ mark = NoStamp /\ markEnds = NoStamp
    /\ granted = [b \in Buckets |-> NoStamp]
    /\ rate \in {r \in [Buckets -> UNION {Intervals[b] : b \in Buckets}] :
                   \A b \in Buckets : r[b] \in Intervals[b]}
    /\ spc = [c \in Senders |-> "idle"]
    /\ intervals = [c \in Senders |-> [b \in Buckets |-> 0]]
    /\ changes = 0 /\ faults = 0
    /\ permitAt = [b \in Buckets |-> NoStamp]
    /\ tooSoon = FALSE /\ overlong = FALSE

now == time - behind

(* The environment: time, which expires keys, a failover, a provider's new *)
(* answer.  Every key lives for the same flat time after it was written.   *)
PacingTick ==
    /\ time < MaxPacingTime /\ time' = time + 1
    /\ LET gone(end) == end <= now + 1
       IN  /\ granted' = [b \in Buckets |-> IF gone(granted[b] + TTL) THEN NoStamp ELSE granted[b]]
           /\ mark' = IF gone(markEnds) THEN NoStamp ELSE mark
           /\ markEnds' = IF gone(markEnds) THEN NoStamp ELSE markEnds
    /\ UNCHANGED <<behind, rate, spc, intervals, changes, faults, permitAt, tooSoon, overlong>>

Failover ==
    /\ faults < MaxFaults /\ faults' = faults + 1
    /\ \E k \in 1 .. MaxStep : behind' = behind + k
    /\ UNCHANGED <<time, mark, markEnds, granted, rate, spc, intervals, changes,
                   permitAt, tooSoon, overlong>>

RateChanges(b) ==
    /\ changes < MaxChanges /\ changes' = changes + 1
    /\ \E r \in Intervals[b] \ {rate[b]} : rate' = [rate EXCEPT ![b] = r]
    /\ UNCHANGED <<time, behind, mark, markEnds, granted, spc, intervals, faults,
                   permitAt, tooSoon, overlong>>

-----------------------------------------------------------------------------
(* The buckets of a call: at least one, none twice.                        *)
keysFor(c) == Wants[c]

(* Acquire reads every rate (intervalsFor); a paused bucket sends it to    *)
(* sleep for the poll interval without asking Redis.                       *)
intervalsFor(c) ==
    /\ spc[c] = "idle"
    /\ IF \E b \in keysFor(c) : rate[b] = 0
         THEN spc' = [spc EXCEPT ![c] = "asleep"] /\ UNCHANGED intervals
         ELSE /\ spc' = [spc EXCEPT ![c] = "read"]
              /\ intervals' = [intervals EXCEPT ![c] = rate]
    /\ UNCHANGED <<time, behind, mark, markEnds, granted, rate, changes, faults,
                   permitAt, tooSoon, overlong>>

(* sleep ends: the rates are read again.                                   *)
wakes(c) ==
    /\ spc[c] = "asleep" /\ spc' = [spc EXCEPT ![c] = "idle"]
    /\ UNCHANGED <<time, behind, mark, markEnds, granted, rate, intervals, changes,
                   faults, permitAt, tooSoon, overlong>>

(* The caller gives up: its context ended, its rate provider failed or     *)
(* answered out of range, or the connection could not be had.              *)
refuse(c) ==
    /\ spc[c] \in {"read", "asleep"} /\ spc' = [spc EXCEPT ![c] = "idle"]
    /\ intervals' = [intervals EXCEPT ![c] = [b \in Buckets |-> 0]]
    /\ UNCHANGED <<time, behind, mark, markEnds, granted, rate, changes, faults,
                   permitAt, tooSoon, overlong>>

backwards == mark # NoStamp /\ now < mark - Tolerance

earliest(c, b) == IF granted[b] = NoStamp THEN now ELSE granted[b] + intervals[c][b]

(* allow_at, the latest of them, is not now; and it is too far away.       *)
mustWait(c) == \E b \in keysFor(c) : earliest(c, b) > now
tooFar(c) == \E b \in keysFor(c) : \A d \in keysFor(c) : earliest(c, b) - now > intervals[c][d] + Tolerance

(* What the script writes when its clock is sound: the mark always, the    *)
(* buckets all or none.                                                    *)
writesMark ==
    /\ mark' = IF mark > now THEN mark ELSE now
    /\ markEnds' = now + TTL
charges(c) == granted' = [b \in Buckets |-> IF b \in keysFor(c) THEN now ELSE granted[b]]

(* evaluate, refused for its clock: nothing is written.                    *)
evaluateBackwards(c) ==
    /\ spc[c] = "read" /\ backwards
    /\ spc' = [spc EXCEPT ![c] = "idle"]
    /\ intervals' = [intervals EXCEPT ![c] = [b \in Buckets |-> 0]]
    /\ UNCHANGED <<time, behind, mark, markEnds, granted, rate, changes, faults,
                   permitAt, tooSoon, overlong>>

(* evaluate, told to wait: Acquire sleeps for that long, at most a poll    *)
(* interval.                                                               *)
evaluateWait(c) ==
    /\ spc[c] = "read" /\ ~backwards /\ mustWait(c)
    /\ writesMark /\ spc' = [spc EXCEPT ![c] = "asleep"]
    /\ overlong' = (overlong \/ tooFar(c))
    /\ intervals' = [intervals EXCEPT ![c] = [b \in Buckets |-> 0]]
    /\ UNCHANGED <<time, behind, granted, rate, changes, faults, permitAt, tooSoon>>

(* A permit is issued, by the interval the caller read.                    *)
issues(c) ==
    /\ tooSoon' = (tooSoon \/ \E b \in keysFor(c) :
                     permitAt[b] # NoStamp /\ time < permitAt[b] + intervals[c][b])
    /\ permitAt' = [b \in Buckets |-> IF b \in keysFor(c) THEN time ELSE permitAt[b]]

forgets(c) == intervals' = [intervals EXCEPT ![c] = [b \in Buckets |-> 0]]

(* evaluate, granted.  The reply may be lost or unreadable: the permit is  *)
(* spent and the call refused, or the client sends the script again.       *)
evaluateGranted(c) ==
    /\ spc[c] = "read" /\ ~backwards /\ ~mustWait(c)
    /\ writesMark /\ charges(c) /\ issues(c)
    /\ \/ spc' = [spc EXCEPT ![c] = "granted"] /\ forgets(c) /\ UNCHANGED faults
       \/ /\ faults < MaxFaults /\ faults' = faults + 1
          /\ \/ spc' = [spc EXCEPT ![c] = "idle"] /\ forgets(c)
             \/ UNCHANGED <<spc, intervals>>
    /\ UNCHANGED <<time, behind, rate, changes, overlong>>

(* Acquire returned nil, some time ago: RoundTrip makes the call.          *)
RoundTrip(c) ==
    /\ spc[c] = "granted" /\ spc' = [spc EXCEPT ![c] = "idle"]
    /\ UNCHANGED <<time, behind, mark, markEnds, granted, rate, intervals, changes, faults,
                   permitAt, tooSoon, overlong>>

PacingNext ==
    \/ PacingTick \/ Failover
    \/ \E b \in Buckets : RateChanges(b)
    \/ \E c \in Senders :
         \/ intervalsFor(c) \/ wakes(c) \/ refuse(c)
         \/ evaluateBackwards(c) \/ evaluateWait(c) \/ evaluateGranted(c) \/ RoundTrip(c)

PacingSpec == PacingInit /\ [][PacingNext]_pacingVars

-----------------------------------------------------------------------------
(* Two permits on one bucket are never closer than the interval the second *)
(* was judged by, however the rate moved in between, whichever replies     *)
(* were lost or asked for again and wherever a failover left the clock; so *)
(* no call leaves within its interval of the permit before its own.  And   *)
(* the wait a caller is sent to sleep for is never longer than an interval *)
(* plus the tolerance: a clock that fell back further is an error, not a   *)
(* long sleep.                                                             *)
PermitsAreSpaced == ~tooSoon /\ ~overlong
=============================================================================
