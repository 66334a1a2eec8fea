------------------------- MODULE LinkAndRateProofs -------------------------
(***************************************************************************)
(* Proofs about two small modules that share no variable: DatagramLink,    *)
(* for frames, queues and numbers of requests and datagrams of any size,   *)
(* and RateLimiter, for any tick, wrap of the timestamps and rates.        *)
(***************************************************************************)
EXTENDS DatagramLink, RateLimiter, TLAPS

(***************************************************************************)
(* The link.  LockInv is the mutual exclusion of the senders, with         *)
(* the hand-over of the mutex; StartInv that the priorities keep stream    *)
(* from sending before the handler has run; TailInv what the wire ends     *)
(* with, which makes the next write continue it.                           *)
(***************************************************************************)
Sends(t) == at[t] \in {"write", "full"}

LockInv == /\ \A t \in Threads : Sends(t) <=> send_lock = t
           /\ \A t \in Threads : at[t] = "queued" => send_lock # "free"
           /\ \A t \in Threads : ~Sends(t) => done[t] = 0

StartInv == /\ ~out_stream <=> at["handler"] = "start"
            /\ at["handler"] = "start" => at["stream"] = "idle"
            /\ at["stream"] # "start"

Complete == wire = <<>> \/ wire[Len(wire)].part = Writes

TailInv == /\ (\A t \in Threads : done[t] = 0) => Complete
           /\ \A t \in Threads : done[t] > 0 =>
                /\ wire # <<>>
                /\ wire[Len(wire)] = [from |-> t, frame |-> frame[t], part |-> done[t]]

IInv == TypeOK /\ LockInv /\ StartInv /\ TailInv /\ FramesAreWhole

LEMMA InitInvariant == Init => IInv
<1> SUFFICES ASSUME Init PROVE IInv
  OBVIOUS
<1>1. ThreadsType
  BY DEF Init, ThreadsType, Threads
<1>5. QueueType
  <2>1. <<>> \in Seq(Nat)
    OBVIOUS
  <2> QED
    BY <2>1 DEF Init, QueueType
<1>2. FramesType
  BY LinkAssumption DEF Init, FramesType
<1>3. LockInv /\ StartInv
  BY DEF Init, LockInv, StartInv, Sends, Threads
<1>4. TailInv /\ FramesAreWhole
  BY DEF Init, TailInv, FramesAreWhole, Complete
<1> QED
  BY <1>1, <1>2, <1>3, <1>4, <1>5 DEF IInv, TypeOK

LEMMA AppendFacts ==
  ASSUME NEW S, NEW s \in Seq(S), NEW e \in S
  PROVE  /\ Append(s, e) \in Seq(S) /\ Append(s, e) # <<>>
         /\ Len(s) \in Nat /\ DOMAIN s = 1..Len(s) /\ (s = <<>> <=> Len(s) = 0)
         /\ Len(Append(s, e)) = Len(s) + 1 /\ DOMAIN Append(s, e) = 1..(Len(s) + 1)
         /\ Append(s, e)[Len(s) + 1] = e
         /\ \A n \in 1..Len(s) : Append(s, e)[n] = s[n]
OBVIOUS

LEMMA ThreadsTypes == ThreadsType /\ [Next]_vars => ThreadsType'
<1> SUFFICES ASSUME ThreadsType, [Next]_vars PROVE ThreadsType'
  OBVIOUS
<1> USE DEF ThreadsType, sendVars, rcvVars, peerVars, Goto, Threads
<1>1. ASSUME NEW t \in Threads, Lock(t) PROVE ThreadsType'
  BY <1>1 DEF Lock
<1>2. ASSUME NEW t \in Threads, Write(t) PROVE ThreadsType'
  BY <1>2 DEF Write
<1>3. ASSUME NEW t \in Threads, Unlock(t) PROVE ThreadsType'
  BY <1>3 DEF Unlock, After
<1>4. ASSUME NEW t \in Threads, Drain(t) PROVE ThreadsType'
  BY <1>4 DEF Drain
<1>5. CASE Start
  BY <1>5 DEF Start
<1>6. CASE Collect
  BY <1>6 DEF Collect
<1>7. CASE Telemetry
  BY <1>7 DEF Telemetry
<1>8. CASE Arrive \/ UNCHANGED vars
  BY <1>8 DEF Arrive, vars
<1> QED
  BY <1>1, <1>2, <1>3, <1>4, <1>5, <1>6, <1>7, <1>8
  DEF Next, ThreadStep, HandlerStep, StreamStep

LEMMA FramesTypes == FramesType /\ [Next]_vars => FramesType'
<1> SUFFICES ASSUME FramesType, [Next]_vars PROVE FramesType'
  OBVIOUS
<1> USE DEF FramesType, sendVars, rcvVars, peerVars
<1>1. ASSUME NEW t \in Threads, Lock(t) PROVE FramesType'
  BY <1>1 DEF Lock
<1>2. ASSUME NEW t \in Threads, Write(t) PROVE FramesType'
  <2>1. done[t] + 1 \in 1..Writes /\ frame[t] \in Nat
    BY <1>2, LinkAssumption DEF Write
  <2>2. [from |-> t, frame |-> frame[t], part |-> done[t] + 1]
           \in [from : Threads, frame : Nat, part : 1..Writes]
    BY <2>1
  <2>3. done' \in [Threads -> 0..Writes]
    <3>1. done' = [done EXCEPT ![t] = done[t] + 1] /\ done[t] + 1 \in 0..Writes
      BY <1>2, <2>1 DEF Write
    <3> QED
      BY <3>1
  <2> DEFINE P == [from : Threads, frame : Nat, part : 1..Writes]
             p == [from |-> t, frame |-> frame[t], part |-> done[t] + 1]
  <2>4. UNCHANGED frame /\ (wire' = wire \/ wire' = Append(wire, p))
    BY <1>2 DEF Write
  <2>5. p \in P /\ wire \in Seq(P)
    BY <2>2
  <2> HIDE DEF p, P
  <2>6. Append(wire, p) \in Seq(P)
    BY ONLY <2>5, AppendFacts
  <2>7. wire' \in Seq(P)
    BY ONLY <2>4, <2>5, <2>6
  <2> QED
    BY <2>3, <2>4, <2>7 DEF P
<1>3. ASSUME NEW t \in Threads, Unlock(t) PROVE FramesType'
  BY <1>3, LinkAssumption DEF Unlock
<1>4. ASSUME NEW t \in Threads, Drain(t) PROVE FramesType'
  BY <1>4 DEF Drain
<1>5. CASE Start \/ Arrive \/ UNCHANGED vars
  BY <1>5 DEF Start, Arrive, vars
<1>6. CASE Collect
  BY <1>6 DEF Collect, Requests
<1>7. CASE Telemetry
  BY <1>7 DEF Telemetry, Threads
<1> QED
  BY <1>1, <1>2, <1>3, <1>4, <1>5, <1>6, <1>7
  DEF Next, ThreadStep, HandlerStep, StreamStep

LEMMA QueueTypes == QueueType /\ [Next]_vars => QueueType'
<1> SUFFICES ASSUME QueueType, [Next]_vars PROVE QueueType'
  OBVIOUS
<1> USE DEF QueueType, sendVars, rcvVars, peerVars
<1>1. CASE Collect
  <2>1. Head(inq) \in Nat /\ Tail(inq) \in Seq(Nat) /\ <<>> \in Seq(Nat)
    BY <1>1 DEF Collect
  <2>2. Append(rcv, Head(inq)) \in Seq(Nat)
    BY <2>1
  <2>3. rcv' \in {Append(rcv, Head(inq)), <<>>} /\ inq' = Tail(inq) /\ UNCHANGED <<peer, lost>>
    BY <1>1 DEF Collect
  <2> QED
    BY <2>1, <2>2, <2>3
<1>2. CASE Arrive
  <2>1. peer + 1 \in Nat
    OBVIOUS
  <2>2. Append(inq, peer + 1) \in Seq(Nat) /\ lost \cup {peer + 1} \subseteq Nat
    BY <2>1
  <2>3. peer' = peer + 1 /\ inq' \in {inq, Append(inq, peer + 1)}
        /\ lost' \in {lost, lost \cup {peer + 1}} /\ UNCHANGED rcv
    BY <1>2 DEF Arrive
  <2> QED
    BY <2>1, <2>2, <2>3
<1>3. CASE UNCHANGED <<peerVars, rcvVars>>
  BY <1>3
<1> QED
  BY <1>1, <1>2, <1>3
  DEF Next, ThreadStep, HandlerStep, StreamStep, Lock, Write, Unlock, Drain, Start, Telemetry, vars

(***************************************************************************)
(* The mutex and the start.                                                *)
(***************************************************************************)
LEMMA LockKept == TypeOK /\ LockInv /\ [Next]_vars => LockInv'
<1> SUFFICES ASSUME TypeOK, LockInv, [Next]_vars PROVE LockInv'
  OBVIOUS
<1> USE DEF LockInv, Sends, Goto, Threads
<1>0. /\ at \in [Threads -> {"start", "idle", "receive", "lock", "queued", "write", "full", "log"}]
      /\ done \in [Threads -> 0..Writes] /\ send_lock \in Threads \cup {"free"}
  BY DEF TypeOK, ThreadsType, FramesType
<1>1. ASSUME NEW t \in Threads, Lock(t) PROVE LockInv'
  BY <1>0, <1>1 DEF Lock
<1>2. ASSUME NEW t \in Threads, Write(t) PROVE LockInv'
  BY <1>0, <1>2 DEF Write
<1>3. ASSUME NEW t \in Threads, Unlock(t) PROVE LockInv'
  BY <1>0, <1>3 DEF Unlock, After
<1>4. ASSUME NEW t \in Threads, Drain(t) PROVE LockInv'
  BY <1>0, <1>4 DEF Drain, sendVars
<1>5. CASE Start
  BY <1>0, <1>5 DEF Start, sendVars
<1>6. CASE Collect
  BY <1>0, <1>6 DEF Collect
<1>7. CASE Telemetry
  BY <1>0, <1>7 DEF Telemetry
<1>8. CASE UNCHANGED <<at, sendVars>>
  BY <1>8 DEF sendVars
<1> QED
  BY <1>1, <1>2, <1>3, <1>4, <1>5, <1>6, <1>7, <1>8
  DEF Next, ThreadStep, HandlerStep, StreamStep, Arrive, vars

LEMMA StartKept == TypeOK /\ LockInv /\ StartInv /\ [Next]_vars => StartInv'
<1> SUFFICES ASSUME TypeOK, LockInv, StartInv, [Next]_vars PROVE StartInv'
  OBVIOUS
<1> USE DEF StartInv, Goto, Threads
<1>0. at \in [Threads -> {"start", "idle", "receive", "lock", "queued", "write", "full", "log"}]
  BY DEF TypeOK, ThreadsType
<1>1. ASSUME NEW t \in Threads, Lock(t) PROVE StartInv'
  BY <1>0, <1>1 DEF Lock
<1>2. ASSUME NEW t \in Threads, Write(t) PROVE StartInv'
  BY <1>0, <1>2 DEF Write
<1>3. ASSUME NEW t \in Threads, Unlock(t) PROVE StartInv'
  BY <1>0, <1>3 DEF Unlock, After, LockInv, Sends
<1>4. ASSUME NEW t \in Threads, Drain(t) PROVE StartInv'
  BY <1>0, <1>4 DEF Drain
<1>5. CASE Start
  BY <1>0, <1>5 DEF Start
<1>6. CASE Collect
  BY <1>0, <1>6 DEF Collect
<1>7. CASE StreamStep
  <2>1. Waits("handler")
    BY <1>7 DEF StreamStep, Before
  <2>2. at["handler"] # "start"
    BY <2>1 DEF Waits
  <2> QED
    BY <1>0, <1>7, <2>2 DEF StreamStep, Telemetry
<1>8. CASE UNCHANGED <<at, out_stream>>
  BY <1>8
<1> QED
  BY <1>1, <1>2, <1>3, <1>4, <1>5, <1>6, <1>7, <1>8
  DEF Next, ThreadStep, HandlerStep, Arrive, vars

(***************************************************************************)
(* The wire.                                                               *)
(***************************************************************************)

\* Only the owner of the mutex has writes of its frame done.
LEMMA OnlyOwner ==
  ASSUME TypeOK, LockInv, NEW t \in Threads, Sends(t)
  PROVE  \A u \in Threads : u # t => done[u] = 0
BY DEF LockInv

LEMMA WriteWire ==
  ASSUME IInv, NEW t \in Threads, Write(t)
  PROVE  TailInv' /\ FramesAreWhole'
<1> DEFINE p == [from |-> t, frame |-> frame[t], part |-> done[t] + 1]
<1>0. done \in [Threads -> 0..Writes] /\ Sends(t) /\ frame[t] \in Nat
      /\ done[t] + 1 \in 1..Writes
  BY LinkAssumption DEF IInv, TypeOK, FramesType, Write, Sends
<1>1. out_stream
  BY DEF IInv, StartInv, Write, Threads
<1>2. wire' = Append(wire, p) /\ UNCHANGED frame
  BY <1>1 DEF Write
<1>3. /\ done'[t] = done[t] + 1
      /\ \A u \in Threads : u # t => done'[u] = 0
  BY <1>0, OnlyOwner DEF IInv, Write
<1>4. /\ Len(wire) \in Nat /\ DOMAIN wire = 1..Len(wire) /\ (wire = <<>> <=> Len(wire) = 0)
      /\ wire' # <<>> /\ Len(wire') = Len(wire) + 1 /\ DOMAIN wire' = 1..(Len(wire) + 1)
      /\ wire'[Len(wire) + 1] = p
      /\ \A n \in 1..Len(wire) : wire'[n] = wire[n]
  <2> DEFINE P == [from : Threads, frame : Nat, part : 1..Writes]
  <2>1. p \in P /\ wire \in Seq(P)
    BY <1>0 DEF IInv, TypeOK, FramesType
  <2> HIDE DEF p, P
  <2> QED
    BY <1>2, <2>1, AppendFacts
<1>5. TailInv'
  <2>1. done'[t] # 0 /\ wire'[Len(wire')] = [from |-> t, frame |-> frame'[t], part |-> done'[t]]
    BY <1>0, <1>2, <1>3, <1>4
  <2> QED
    BY <1>3, <1>4, <2>1 DEF TailInv
<1>6. FramesAreWhole'
  <2> SUFFICES ASSUME NEW n \in DOMAIN wire'
               PROVE  IF wire'[n].part = 1
                        THEN n = 1 \/ wire'[n - 1].part = Writes
                        ELSE n > 1 /\ wire'[n - 1] = [wire'[n] EXCEPT !.part = @ - 1]
    BY DEF FramesAreWhole
  <2>1. CASE n \in DOMAIN wire
    <3>1. wire'[n] = wire[n] /\ (n > 1 => wire'[n - 1] = wire[n - 1]) /\ n \in Nat /\ n >= 1
      BY <1>4, <2>1
    <3> QED
      BY <2>1, <3>1 DEF FramesAreWhole, IInv
  <2>2. CASE n = Len(wire) + 1
    <3>1. wire'[n] = p
      BY <1>4, <2>2
    <3>2. n > 1 => wire'[n - 1] = wire[Len(wire)]
      BY <1>4, <2>2
    <3>3. n = 1 <=> wire = <<>>
      BY <1>4, <2>2
    <3>4. CASE done[t] = 0
      <4>1. p.part = 1
        BY <3>4
      <4>2. Complete
        BY <1>0, <3>4, OnlyOwner DEF IInv, TailInv
      <4>3. n = 1 \/ wire'[n - 1].part = Writes
        BY <1>0, <3>2, <3>3, <4>2, <2>2 DEF Complete
      <4> QED
        BY <3>1, <4>1, <4>3
    <3>5. CASE done[t] > 0
      <4>1. wire # <<>> /\ wire[Len(wire)] = [from |-> t, frame |-> frame[t], part |-> done[t]]
        BY <3>5 DEF IInv, TailInv
      <4>2. p.part # 1 /\ [p EXCEPT !.part = @ - 1]
                            = [from |-> t, frame |-> frame[t], part |-> done[t]]
        BY <1>0, <3>5
      <4>3. n > 1
        BY <1>0, <3>3, <4>1, <2>2
      <4> QED
        BY <3>1, <3>2, <4>1, <4>2, <4>3
    <3> QED
      BY <1>0, <3>4, <3>5
  <2> QED
    BY <1>4, <2>1, <2>2
<1> QED
  BY <1>5, <1>6

LEMMA UnlockWire ==
  ASSUME IInv, NEW t \in Threads, Unlock(t)
  PROVE  TailInv' /\ FramesAreWhole'
<1>0. done \in [Threads -> 0..Writes] /\ Sends(t) /\ done[t] = Writes /\ Writes > 0
  BY LinkAssumption DEF IInv, TypeOK, FramesType, Unlock, Sends
<1>1. \A u \in Threads : done'[u] = 0
  BY <1>0, OnlyOwner DEF IInv, Unlock
<1>2. wire # <<>> /\ wire[Len(wire)] = [from |-> t, frame |-> frame[t], part |-> Writes]
  BY <1>0 DEF IInv, TailInv
<1>3. wire[Len(wire)].part = Writes /\ UNCHANGED wire
  BY <1>2 DEF Unlock
<1> QED
  <2>1. TailInv'
    BY <1>1, <1>3 DEF TailInv, Complete
  <2>2. FramesAreWhole'
    BY <1>3 DEF IInv, FramesAreWhole
  <2> QED
    BY <2>1, <2>2

\* The number of a frame changes only when none of it has been written.
LEMMA FrameWire ==
  ASSUME IInv, NEW t \in Threads, done[t] = 0, NEW k \in Nat,
         frame' = [frame EXCEPT ![t] = k], UNCHANGED <<done, wire>>
  PROVE  TailInv' /\ FramesAreWhole'
<1>1. frame \in [Threads -> Nat]
  BY DEF IInv, TypeOK, FramesType
<1>2. \A u \in Threads : done[u] > 0 => frame'[u] = frame[u]
  BY <1>1
<1> QED
  BY <1>2 DEF IInv, TailInv, Complete, FramesAreWhole

LEMMA NextInvariant == IInv /\ [Next]_vars => IInv'
<1> SUFFICES ASSUME IInv, [Next]_vars PROVE IInv'
  OBVIOUS
<1>1. TypeOK' /\ LockInv' /\ StartInv'
  BY ThreadsTypes, FramesTypes, QueueTypes, LockKept, StartKept DEF IInv, TypeOK
<1>2. UNCHANGED <<frame, done, wire>> => TailInv' /\ FramesAreWhole'
  BY DEF IInv, TailInv, Complete, FramesAreWhole
<1>3. ASSUME NEW t \in Threads, ThreadStep(t) PROVE TailInv' /\ FramesAreWhole'
  BY <1>2, <1>3, WriteWire, UnlockWire DEF ThreadStep, Lock
<1>4. ASSUME Collect PROVE TailInv' /\ FramesAreWhole'
  <2>1. done["handler"] = 0
    BY <1>4 DEF IInv, LockInv, Collect, Threads, Sends
  <2>2. UNCHANGED <<done, wire>>
        /\ (UNCHANGED frame \/ \E r \in Requests : frame' = [frame EXCEPT !["handler"] = r])
    BY <1>4 DEF Collect
  <2> QED
    BY <1>2, <2>1, <2>2, FrameWire DEF Requests, Threads
<1>5. ASSUME Telemetry PROVE TailInv' /\ FramesAreWhole'
  <2>1. done["stream"] = 0 /\ frame["stream"] + 1 \in Nat
    BY <1>5 DEF IInv, LockInv, Telemetry, Threads, Sends, TypeOK, FramesType
  <2>2. UNCHANGED <<done, wire>> /\ frame' = [frame EXCEPT !["stream"] = frame["stream"] + 1]
    BY <1>5 DEF Telemetry
  <2> QED
    BY <2>1, <2>2, FrameWire DEF Threads
<1>6. ASSUME UNCHANGED sendVars PROVE TailInv' /\ FramesAreWhole'
  BY <1>2, <1>6 DEF sendVars
<1>7. TailInv' /\ FramesAreWhole'
  BY <1>3, <1>4, <1>5, <1>6
  DEF Next, HandlerStep, StreamStep, Drain, Start, Arrive, vars
<1> QED
  BY <1>1, <1>7 DEF IInv

(***************************************************************************)
(* The theorems about the link.                                            *)
(***************************************************************************)
THEOREM Invariance == Spec => []IInv
BY InitInvariant, NextInvariant, PTL DEF Spec

\* The variables of the link keep their types.
THEOREM TypeCorrect == Spec => []TypeOK
BY Invariance, PTL DEF IInv

\* Frames of the two threads never mix on the wire, however they are preempted
\* and block.
THEOREM FramesCorrect == Spec => []FramesAreWhole
BY Invariance, PTL DEF IInv

\* Every write of a frame reaches the port: none comes before out_stream is set.
THEOREM DroppedCorrect == Spec => []NothingIsDropped
<1>1. IInv => NothingIsDropped
  BY DEF IInv, TailInv, NothingIsDropped
<1> QED
  BY <1>1, Invariance, PTL

(***************************************************************************)
(* The limiter.  What it takes for the time since its last run is never    *)
(* more than that time.                                                    *)
(***************************************************************************)
Elapsed == Duration(last_update, timestamp)

\* What the limiter takes for the time since the last run is not more than that
\* time, and is that time until the timestamps have wrapped past the run.
ElapsedIsReal == /\ Elapsed \in 0..(Wrap - 1)
                 /\ since >= Elapsed
                 /\ since < Wrap => since = Elapsed

LimiterInv == LimiterTypeOK /\ ElapsedIsReal

LEMMA LimiterInitInvariant == LimiterInit => LimiterInv
BY RateAssumption DEF LimiterInit, LimiterInv, LimiterTypeOK, ElapsedIsReal, Elapsed, Duration

LEMMA RunTypes ==
  ASSUME LimiterInv, Run PROVE LimiterInv'
<1>1. LimiterTypeOK'
  BY RateAssumption DEF Run, LimiterInv, LimiterTypeOK
<1>2. Elapsed' = 0 /\ since' = 0
  BY DEF Run, LimiterInv, LimiterTypeOK, Elapsed, Duration
<1> QED
  BY <1>1, <1>2, RateAssumption DEF LimiterInv, ElapsedIsReal

LEMMA TickTypes ==
  ASSUME LimiterInv, Tick PROVE LimiterInv'
<1> USE RateAssumption DEF LimiterInv, LimiterTypeOK
<1>1. /\ timestamp' \in 0..(Wrap - 1)
      /\ since' \in 0..Horizon /\ unpolled' \in 0..Gap
      /\ UNCHANGED <<rate, last_update>>
  BY DEF Tick
<1>2. LimiterTypeOK'
  BY <1>1
<1>3. ElapsedIsReal'
  BY <1>1 DEF Tick, ElapsedIsReal, Elapsed, Duration
<1> QED
  BY <1>2, <1>3

LEMMA LimiterNextInvariant == LimiterInv /\ [LimiterNext]_limiterVars => LimiterInv'
<1> SUFFICES ASSUME LimiterInv, [LimiterNext]_limiterVars PROVE LimiterInv'
  OBVIOUS
<1>1. CASE Run
  BY <1>1, RunTypes
<1>2. CASE Skip
  BY <1>2, RateAssumption DEF Skip, LimiterInv, LimiterTypeOK, ElapsedIsReal, Elapsed, Duration
<1>3. CASE SetRate
  BY <1>3 DEF SetRate, LimiterInv, LimiterTypeOK, ElapsedIsReal, Elapsed, Duration
<1>4. CASE Tick
  BY <1>4, TickTypes
<1>5. CASE UNCHANGED limiterVars
  BY <1>5 DEF limiterVars, LimiterInv, LimiterTypeOK, ElapsedIsReal, Elapsed, Duration
<1> QED
  BY <1>1, <1>2, <1>3, <1>4, <1>5 DEF LimiterNext

THEOREM LimiterInvariance == LimiterSpec => []LimiterInv
BY LimiterInitInvariant, LimiterNextInvariant, PTL DEF LimiterSpec

\* The variables of the limiter keep their types.
THEOREM LimiterTypeCorrect == LimiterSpec => []LimiterTypeOK
BY LimiterInvariance, PTL DEF LimiterInv

LEMMA TimesAreMonotonic ==
  ASSUME NEW a \in Nat, NEW b \in Nat, NEW r \in Int, r > 0, a >= b
  PROVE  a * r >= b * r
OBVIOUS

\* No two runs are closer in real time than the period of the rate, over any
\* number of wraps of the timestamps.
THEOREM SpacedCorrect == LimiterSpec => RunsAreSpaced
<1>1. LimiterInv /\ [LimiterNext]_limiterVars
        => [Run /\ rate # Infinity /\ rate > 0 => since * rate >= TicksPerSecond]_limiterVars
  <2> SUFFICES ASSUME LimiterInv, Run, rate # Infinity, rate > 0
               PROVE  since * rate >= TicksPerSecond
    OBVIOUS
  <2>1. rate \in Int /\ since \in Nat /\ Elapsed \in Nat /\ since >= Elapsed
    BY RateAssumption DEF LimiterInv, LimiterTypeOK, ElapsedIsReal
  <2>2. Elapsed * rate >= TicksPerSecond
    BY <2>1 DEF Run, ShouldRun, Due, Elapsed
  <2>3. since * rate >= Elapsed * rate
    BY <2>1, TimesAreMonotonic
  <2> DEFINE s == since * rate
             e == Elapsed * rate
  <2>4. s \in Int /\ e \in Int /\ TicksPerSecond \in Int
    BY <2>1, RateAssumption
  <2> HIDE DEF s, e
  <2>5. e >= TicksPerSecond /\ s >= e => s >= TicksPerSecond
    BY <2>4
  <2> QED
    BY <2>2, <2>3, <2>5 DEF s, e
<1> QED
  BY <1>1, LimiterInvariance, PTL DEF LimiterSpec, RunsAreSpaced

\* A poll that comes a period after the last run, and before the timestamps
\* have wrapped past it, runs.
THEOREM DueCorrect == LimiterSpec => DuePollRuns
<1>1. LimiterInv /\ [LimiterNext]_limiterVars
        => [Skip /\ rate # Infinity /\ rate > 0 /\ since < Wrap
              => since * rate < TicksPerSecond]_limiterVars
  <2> SUFFICES ASSUME LimiterInv, Skip, rate # Infinity, rate > 0, since < Wrap
               PROVE  since * rate < TicksPerSecond
    OBVIOUS
  <2>1. rate \in Int /\ since \in Nat /\ since = Elapsed
    BY RateAssumption DEF LimiterInv, LimiterTypeOK, ElapsedIsReal
  <2>2. ~(Elapsed * rate >= TicksPerSecond)
    BY <2>1 DEF Skip, ShouldRun, Due, Elapsed
  <2>3. since * rate \in Int
    BY <2>1
  <2> QED
    BY <2>1, <2>2, <2>3, RateAssumption
<1> QED
  BY <1>1, LimiterInvariance, PTL DEF LimiterSpec, DuePollRuns
=============================================================================
