---------------------------- MODULE RateLimiter ----------------------------
(***************************************************************************)
(* The rate limiter (rate_limiter.c): rate_limiter_should_run() is polled  *)
(* and says whether a period 1/rate has passed since it last said so.  The *)
(* timestamps wrap; the rate is a parameter that can be set at any time.   *)
(* Seconds are whole ticks here, where the code divides in float.          *)
(***************************************************************************)
EXTENDS Integers

CONSTANTS TicksPerSecond,
          Wrap,       \* timestamps are 0..Wrap - 1 (2^32)
          Rates,      \* the values the parameter can get, in Hz
          Infinity,   \* INFINITY, which is one of them or not
          Gap,        \* the caller polls at least once in so many ticks
          Horizon     \* bound: up to where since counts

ASSUME RateAssumption ==
  /\ TicksPerSecond \in Nat \ {0} /\ Wrap \in Nat \ {0} /\ Gap \in Nat \ {0}
  /\ Rates \subseteq Int \cup {Infinity} /\ Infinity \notin Int
  /\ Horizon \in Nat /\ Horizon >= Wrap

VARIABLES
  rate,         \* the parameter
  last_update,
  timestamp,    \* what timestamp_get() returns
  since,        \* ticks since the last run, or since 0 when there was none
  unpolled      \* ticks since the last poll

limiterVars == <<rate, last_update, timestamp, since, unpolled>>

\* timestamp_duration_s(), in ticks: right up to one wrap.
Duration(a, b) == IF b >= a THEN b - a ELSE b - a + Wrap

\* duration >= 1.0f/rate in float: 1/0 is infinite, 1/INFINITY is 0.
Due(duration) ==
  \/ rate = Infinity
  \/ /\ rate # Infinity /\ rate # 0
     /\ rate < 0 \/ duration * rate >= TicksPerSecond

ShouldRun == Due(Duration(last_update, timestamp))

\* Mutant of Run: last_update is forgotten.
RunForgotten == /\ ShouldRun
                /\ since' = 0 /\ unpolled' = 0
                /\ UNCHANGED <<rate, timestamp, last_update>>

\* rate_limiter_should_run() returns true.
Run == /\ ShouldRun
       /\ last_update' = timestamp
       /\ since' = 0 /\ unpolled' = 0
       /\ UNCHANGED <<rate, timestamp>>

\* Mutant of Skip: every poll counts as an update.
SkipUpdates == /\ ~ShouldRun
               /\ last_update' = timestamp
               /\ unpolled' = 0
               /\ UNCHANGED <<rate, timestamp, since>>

\* It returns false.
Skip == /\ ~ShouldRun
        /\ unpolled' = 0
        /\ UNCHANGED <<rate, last_update, timestamp, since>>

SetRate == /\ rate' \in Rates
           /\ UNCHANGED <<last_update, timestamp, since, unpolled>>

Tick == /\ unpolled < Gap
        /\ timestamp' = IF timestamp + 1 = Wrap THEN 0 ELSE timestamp + 1
        /\ since' = IF since < Horizon THEN since + 1 ELSE since
        /\ unpolled' = unpolled + 1
        /\ UNCHANGED <<rate, last_update>>

\* rate_limiter_init()
LimiterInit == /\ rate = 0 /\ last_update = 0
               /\ timestamp \in 0..(Wrap - 1)
               /\ since = timestamp /\ unpolled = 0

LimiterNext == Run \/ Skip \/ SetRate \/ Tick

LimiterSpec == LimiterInit /\ [][LimiterNext]_limiterVars

\* Time passes, and the caller polls.
LimiterFairSpec == LimiterSpec /\ WF_limiterVars(Tick) /\ WF_limiterVars(Run \/ Skip)

(***************************************************************************)
(* Properties.                                                             *)
(***************************************************************************)
\* The types of the variables of the limiter.
LimiterTypeOK == /\ rate \in Rates \cup {0}
                 /\ {last_update, timestamp} \subseteq 0..(Wrap - 1)
                 /\ since \in 0..Horizon /\ unpolled \in 0..Gap

\* Runs are a period apart in real time, although the timestamps wrap, and
\* whatever the rate was in between.
RunsAreSpaced ==
  [][Run /\ rate # Infinity /\ rate > 0 => since * rate >= TicksPerSecond]_limiterVars

\* A poll a period after the last run runs, unless the timestamps have wrapped
\* past it.
DuePollRuns ==
  [][Skip /\ rate # Infinity /\ rate > 0 /\ since < Wrap
       => since * rate < TicksPerSecond]_limiterVars

\* A caller that polls often enough for the period is let run again and again,
\* wherever the timestamps wrap.
PolledOften == {r \in Rates \ {Infinity} : r > 0 /\ TicksPerSecond + Gap * r < Wrap * r}

RunsAgain == \A r \in PolledOften : <>[](rate = r) => []<>(since = 0)

\* rate_limiter.h:16 "An update rate of zero or a negative value disables the
\* update."
DisabledNeverRuns == [][Run => rate = Infinity \/ rate > 0]_limiterVars
=============================================================================
