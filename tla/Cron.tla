-------------------------------- MODULE Cron --------------------------------
(***************************************************************************)
(* The cron schedules of commons/cron: Parse turns the five fields of an   *)
(* expression into sets of admitted values, and Next looks for the first   *)
(* minute after a given one that they admit.  It does not test every       *)
(* minute: a month, a day or an hour that is not admitted is left in one   *)
(* jump to its end, and a jump that is too long passes over a due minute   *)
(* that no caller will ever hear of.                                       *)
(*                                                                         *)
(* The text of a field is a set of parts (a comma separates them), a part  *)
(* being "*", lo-hi or a value, each with or without a step.  Go's calendar*)
(* is external: a minute is a number, and the lengths of hour, day, week   *)
(* and month are constants, so that a cycle of years with a leap day fits  *)
(* in an instance.                                                         *)
(***************************************************************************)
EXTENDS Integers, Sequences, FiniteSets

CONSTANTS Expressions,      \* expressions that are parsed
          Starts,           \* the minutes Next is called with
          MinutesPerHour, HoursPerDay, DaysPerWeek,
          MonthStarts,      \* the first day of every month of one cycle of years, and of the next
          MonthsPerYear, MaxDayOfMonth,
          MaxIterations     \* 1461*24*60 in the code: the minutes of a cycle

Cycle == Len(MonthStarts) - 1
CycleDays == MonthStarts[Cycle + 1]

(* Months follow each other without a gap; none is longer than its field   *)
(* allows.  A field is made of stars, values and ranges.                   *)
ASSUME CronAssumption ==
    /\ {MinutesPerHour, HoursPerDay, DaysPerWeek, MonthsPerYear, MaxDayOfMonth, CycleDays, Cycle} \subseteq Nat \ {0}
    /\ MonthStarts \in Seq(Nat) /\ MaxIterations \in Nat /\ Starts \subseteq Nat
    /\ \A m, n \in 1 .. Cycle + 1 : m < n => MonthStarts[m] < MonthStarts[n]
    /\ \A d \in 0 .. CycleDays - 1 : \E m \in 1 .. Cycle : MonthStarts[m] <= d /\ d < MonthStarts[m + 1]
    /\ \A m \in 1 .. Cycle : MonthStarts[m + 1] - MonthStarts[m] <= MaxDayOfMonth
    /\ \A e \in Expressions : \A f \in {e.minute, e.hour, e.dom, e.month, e.dow} :
         f \subseteq [kind : {"star", "value", "range"}, lo : Nat, hi : Nat, stepped : BOOLEAN, step : Nat]

VARIABLES expr, from,       \* the arguments
          sched,            \* the parsed schedule
          cand,             \* the candidate minute
          iterations,
          outcome

cronVars == <<expr, from, sched, cand, iterations, outcome>>

-----------------------------------------------------------------------------
(* The calendar: package time, external.                                   *)

minutesPerDay == MinutesPerHour * HoursPerDay

dayNumber(t) == t \div minutesPerDay
dayOfCycle(t) == dayNumber(t) % CycleDays
monthOfCycle(t) == CHOOSE m \in 1 .. Cycle : MonthStarts[m] <= dayOfCycle(t) /\ dayOfCycle(t) < MonthStarts[m + 1]
Month(t) == ((monthOfCycle(t) - 1) % MonthsPerYear) + 1
Day(t) == dayOfCycle(t) - MonthStarts[monthOfCycle(t)] + 1
Weekday(t) == dayNumber(t) % DaysPerWeek
Hour(t) == (t \div MinutesPerHour) % HoursPerDay
Minute(t) == t % MinutesPerHour

-----------------------------------------------------------------------------
(* Parsing.                                                                *)

\* A step must be a positive number.
parseStep(p) == p.step > 0

\* A range lies within the field and does not run backwards.
parseRange(p, lo, hi) == ~(p.lo < lo \/ p.hi > hi \/ p.lo > p.hi)

steps(a, b, s) == {v \in a..b : (v - a) % s = 0}

\* One part of a field.  A value with a step runs on to the end of the field.
parsePart(p, lo, hi) ==
    LET first == IF p.kind = "star" THEN lo ELSE p.lo
        last == CASE p.kind = "star" -> hi
                  [] p.kind = "range" -> p.hi
                  [] OTHER -> IF p.stepped THEN hi ELSE p.lo
        ok == /\ p.stepped => parseStep(p)
              /\ p.kind = "range" => parseRange(p, lo, hi)
              /\ p.kind = "value" => p.lo \in lo..hi
    IN  [ok |-> ok,
         vals |-> IF ok THEN steps(first, last, IF p.stepped THEN p.step ELSE 1) ELSE {}]

\* deduplicate sorts and drops repetitions: the values are a set.
deduplicate(sets) == UNION sets

\* A field is its parts; one bad part fails it.
parseField(f, lo, hi) ==
    LET parsed == {parsePart(p, lo, hi) : p \in f} IN
    [ok |-> \A r \in parsed : r.ok, vals |-> deduplicate({r.vals : r \in parsed})]

\* Only the bare star leaves a field unrestricted.
isWildcard(f) == \E p \in f : f = {p} /\ p.kind = "star" /\ ~p.stepped

\* The day after the last of the week is its first.
normalizeDOW(vals) == {v % DaysPerWeek : v \in vals}

Parse ==
    LET minutes == parseField(expr.minute, 0, MinutesPerHour - 1)
        hours == parseField(expr.hour, 0, HoursPerDay - 1)
        doms == parseField(expr.dom, 1, MaxDayOfMonth)
        months == parseField(expr.month, 1, MonthsPerYear)
        dows == parseField(expr.dow, 0, DaysPerWeek)
    IN  /\ outcome = "parsing"
        /\ IF \A r \in {minutes, hours, doms, months, dows} : r.ok
           THEN /\ sched' = [minutes |-> minutes.vals, hours |-> hours.vals,
                             doms |-> doms.vals, months |-> months.vals,
                             dows |-> normalizeDOW(dows.vals),
                             domIsWild |-> isWildcard(expr.dom),
                             dowIsWild |-> isWildcard(expr.dow)]
                /\ outcome' = "searching"
                /\ cand' = from + 1
           ELSE outcome' = "invalid" /\ UNCHANGED <<sched, cand>>
        /\ UNCHANGED <<expr, from, iterations>>

-----------------------------------------------------------------------------
(* Searching.                                                              *)

\* With both day fields restricted either of them is enough.
matchDay(t) ==
    LET domMatch == Day(t) \in sched.doms
        dowMatch == Weekday(t) \in sched.dows
    IN  IF sched.domIsWild \/ sched.dowIsWild
          THEN (sched.domIsWild \/ domMatch) /\ (sched.dowIsWild \/ dowMatch)
          ELSE domMatch \/ dowMatch

startOfNextMonth(t) ==
    (dayNumber(t) - dayOfCycle(t) + MonthStarts[monthOfCycle(t) + 1]) * minutesPerDay
startOfNextDay(t) == (dayNumber(t) + 1) * minutesPerDay

(* Mutant: the hour is advanced and its minute kept.                       *)
sameMinuteNextHour(t) == t + MinutesPerHour

startOfNextHour(t) == (t \div MinutesPerHour + 1) * MinutesPerHour

advance(to) ==
    /\ iterations < MaxIterations
    /\ cand' = to
    /\ iterations' = iterations + 1
    /\ UNCHANGED <<expr, from, sched, outcome>>

monthMatches(t) == Month(t) \in sched.months
hourMatches(t) == Hour(t) \in sched.hours
minuteMatches(t) == Minute(t) \in sched.minutes

skipMonth ==
    /\ outcome = "searching"
    /\ ~monthMatches(cand)
    /\ advance(startOfNextMonth(cand))

skipDay ==
    /\ outcome = "searching"
    /\ monthMatches(cand)
    /\ ~matchDay(cand)
    /\ advance(startOfNextDay(cand))

skipHour ==
    /\ outcome = "searching"
    /\ monthMatches(cand) /\ matchDay(cand)
    /\ ~hourMatches(cand)
    /\ advance(startOfNextHour(cand))

skipMinute ==
    /\ outcome = "searching"
    /\ monthMatches(cand) /\ matchDay(cand) /\ hourMatches(cand)
    /\ ~minuteMatches(cand)
    /\ advance(cand + 1)

found ==
    /\ outcome = "searching"
    /\ iterations < MaxIterations
    /\ monthMatches(cand) /\ matchDay(cand) /\ hourMatches(cand) /\ minuteMatches(cand)
    /\ outcome' = "found"
    /\ UNCHANGED <<expr, from, sched, cand, iterations>>

exhausted ==
    /\ outcome = "searching"
    /\ iterations = MaxIterations
    /\ outcome' = "nomatch"
    /\ UNCHANGED <<expr, from, sched, cand, iterations>>

-----------------------------------------------------------------------------
noSchedule == [minutes |-> {}, hours |-> {}, doms |-> {}, months |-> {}, dows |-> {},
               domIsWild |-> FALSE, dowIsWild |-> FALSE]

CronInit ==
    /\ expr \in Expressions
    /\ from \in Starts
    /\ sched = noSchedule
    /\ cand = 0
    /\ iterations = 0
    /\ outcome = "parsing"

CronNext ==
    Parse \/ skipMonth \/ skipDay \/ skipHour \/ skipMinute \/ found \/ exhausted

CronSpec == CronInit /\ [][CronNext]_cronVars

-----------------------------------------------------------------------------
(* The reference: what the expression says of a minute, read off its text. *)

says(f, v) == \E p \in f :
    \/ p.kind = "star" /\ (p.stepped => v % p.step = 0)
    \/ p.kind = "range" /\ v \in p.lo..p.hi /\ (p.stepped => (v - p.lo) % p.step = 0)
    \/ p.kind = "value" /\ v = p.lo
    \/ p.kind = "value" /\ p.stepped /\ v > p.lo /\ (v - p.lo) % p.step = 0

\* A star of days and months counts from 1.
saysFromOne(f, v) == \E p \in f :
    IF p.kind = "star" THEN p.stepped => (v - 1) % p.step = 0 ELSE says({p}, v)

saysDay(t) ==
    LET dom == saysFromOne(expr.dom, Day(t))
        dow == says(expr.dow, Weekday(t))
                  \/ (Weekday(t) = 0 /\ says(expr.dow, DaysPerWeek))
        domFree == isWildcard(expr.dom)
        dowFree == isWildcard(expr.dow)
    IN  (domFree /\ dowFree) \/ (~domFree /\ dom) \/ (~dowFree /\ dow)

Due(t) == /\ says(expr.minute, Minute(t))
          /\ says(expr.hour, Hour(t))
          /\ saysFromOne(expr.month, Month(t))
          /\ saysDay(t)

(* Next (cron.go) returns the first due minute after the one it is given:  *)
(* the jumps over a month, a day and an hour never pass over a due minute, *)
(* the minute returned is one the expression admits, and ErrNoMatch means  *)
(* that nothing was due for as many minutes as the loop has iterations.    *)
NextIsTheFirstDue ==
    /\ outcome \in {"searching", "found"} =>
          cand > from /\ \A t \in from + 1..cand - 1 : ~Due(t)
    /\ outcome = "found" => Due(cand)
    /\ outcome = "nomatch" => \A t \in from + 1..from + MaxIterations : ~Due(t)
=============================================================================
