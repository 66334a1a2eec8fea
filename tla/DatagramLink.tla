---------------------------- MODULE DatagramLink ----------------------------
(***************************************************************************)
(* The datagram link (datagram_message_comm.c): the handler thread         *)
(* receives requests byte by byte and answers them, the stream thread      *)
(* sends telemetry, both through datagram_message_send() on one serial     *)
(* port.  Framing and CRC are of the serial-datagram library, the queues   *)
(* of the serial driver: a frame is a number of writes, each of which may  *)
(* block in the middle, and bytes that find the input queue full are lost. *)
(***************************************************************************)
EXTENDS Naturals, Sequences

CONSTANTS Writes,        \* write callbacks per frame sent
          Bytes,         \* bytes per request, the last is the END
          InQueue,       \* capacity of the input queue
          MaxRequests,   \* bound: requests the peer sends
          MaxTelemetry   \* bound: datagrams of stream

ASSUME LinkAssumption == /\ Writes \in Nat \ {0} /\ Bytes \in Nat \ {0}
                         /\ InQueue \in Nat \ {0}
                         /\ MaxRequests \in Nat /\ MaxTelemetry \in Nat

Threads == {"handler", "stream"}

VARIABLES
  out_stream,  \* is set
  send_lock,   \* its owner, or "free"
  at,          \* where each thread is
  frame,       \* the number of the frame it sends: request, or datagram
  done,        \* the writes of it that are done
  wire,        \* the writes that reached the port, [from, frame, part]
  peer,        \* bytes the peer has sent
  lost,        \* those that found the input queue full
  inq,         \* the input queue: numbers of bytes
  rcv          \* the bytes of the frame being received

sendVars == <<send_lock, frame, done, wire>>
rcvVars  == <<inq, rcv>>
peerVars == <<peer, lost>>
vars == <<out_stream, sendVars, at, peerVars, rcvVars>>

(***************************************************************************)
(* Scheduling: stream runs when the handler waits.  A thread in "queued"   *)
(* waits for the mutex, in "full" in a write for the output queue, in      *)
(* "log" for the port of the log.                                          *)
(***************************************************************************)
\* Mutant of Before: the priorities are exchanged.
BeforeExchanged == [t \in Threads |-> IF t = "handler" THEN {"stream"} ELSE {}]

\* The threads of higher priority.
Before == [t \in Threads |-> IF t = "handler" THEN {} ELSE {"handler"}]

Waits(t) == \/ at[t] \in {"queued", "full", "log"}
            \/ t = "handler" /\ at[t] = "receive" /\ inq = <<>>
            \/ t = "stream" /\ at[t] = "idle"

CanRun(t) == ~Waits(t) /\ \A u \in Before[t] : Waits(u)

Goto(t, l) == at' = [at EXCEPT ![t] = l]

(***************************************************************************)
(* datagram_message_send()                                                 *)
(***************************************************************************)
\* Mutant of Lock: chMtxLock() is missing.
LockMissing(t) ==
  /\ at[t] = "lock"
  /\ Goto(t, "write")
  /\ UNCHANGED <<out_stream, sendVars, peerVars, rcvVars>>

\* chMtxLock()
Lock(t) ==
  /\ at[t] = "lock"
  /\ IF send_lock = "free" THEN send_lock' = t /\ Goto(t, "write")
                           ELSE Goto(t, "queued") /\ UNCHANGED send_lock
  /\ UNCHANGED <<out_stream, frame, done, wire, peerVars, rcvVars>>

\* _serial_datagram_write_cb(): without a stream the data is dropped.
Write(t) ==
  /\ at[t] = "write" /\ done[t] < Writes
  /\ done' = [done EXCEPT ![t] = @ + 1]
  /\ wire' = IF out_stream
               THEN Append(wire, [from |-> t, frame |-> frame[t], part |-> done[t] + 1])
               ELSE wire
  /\ Goto(t, "write") \/ (out_stream /\ Goto(t, "full"))
  /\ UNCHANGED <<out_stream, send_lock, frame, peerVars, rcvVars>>

After == [t \in Threads |-> IF t = "handler" THEN "receive" ELSE "idle"]

\* Mutant of Unlock: it is missing.
UnlockMissing(t) ==
  /\ at[t] = "write" /\ done[t] = Writes
  /\ done' = [done EXCEPT ![t] = 0]
  /\ Goto(t, After[t])
  /\ UNCHANGED <<out_stream, send_lock, frame, wire, peerVars, rcvVars>>

\* chMtxUnlock() hands the mutex to the other thread when that is queued.
Unlock(t) ==
  /\ at[t] = "write" /\ done[t] = Writes
  /\ done' = [done EXCEPT ![t] = 0]
  /\ LET u == CHOOSE u \in Threads : u # t IN
     IF at[u] = "queued"
       THEN send_lock' = u /\ at' = [at EXCEPT ![t] = After[t], ![u] = "write"]
       ELSE send_lock' = "free" /\ Goto(t, After[t])
  /\ UNCHANGED <<out_stream, frame, wire, peerVars, rcvVars>>

\* The port has sent what was in the way.
Drain(t) ==
  /\ at[t] \in {"full", "log"}
  /\ Goto(t, IF at[t] = "full" THEN "write" ELSE "receive")
  /\ UNCHANGED <<out_stream, sendVars, peerVars, rcvVars>>

(***************************************************************************)
(* Thread datagram-message-handler.                                        *)
(***************************************************************************)
Start ==
  /\ at["handler"] = "start"
  /\ out_stream' = TRUE
  /\ Goto("handler", "receive")
  /\ UNCHANGED <<sendVars, peerVars, rcvVars>>

Requests == 1..MaxRequests
IsEnd(b) == b % Bytes = 0
Whole(r) == [i \in 1..Bytes |-> (r - 1) * Bytes + i]

\* serial_datagram_receive() of a byte: a frame that ends with all its bytes is
\* dispatched, here to a service that answers; another fails the CRC and is
\* logged.
Collect ==
  /\ at["handler"] = "receive" /\ inq # <<>>
  /\ inq' = Tail(inq)
  /\ LET got == Append(rcv, Head(inq)) IN
     \/ /\ ~IsEnd(Head(inq))
        /\ rcv' = got
        /\ UNCHANGED <<at, frame>>
     \/ \E r \in Requests :
        /\ IsEnd(Head(inq)) /\ got = Whole(r)
        /\ rcv' = <<>>
        /\ frame' = [frame EXCEPT !["handler"] = r]
        /\ Goto("handler", "lock")
     \/ /\ IsEnd(Head(inq)) /\ \A r \in Requests : got # Whole(r)
        /\ rcv' = <<>>
        /\ Goto("handler", "log")
        /\ UNCHANGED frame
  /\ UNCHANGED <<out_stream, send_lock, done, wire, peerVars>>

(***************************************************************************)
(* Thread stream, the peer and the receive interrupt.                      *)
(***************************************************************************)
Telemetry ==
  /\ at["stream"] = "idle" /\ frame["stream"] < MaxTelemetry
  /\ frame' = [frame EXCEPT !["stream"] = @ + 1]
  /\ Goto("stream", "lock")
  /\ UNCHANGED <<out_stream, send_lock, done, wire, peerVars, rcvVars>>

Arrive ==
  /\ peer < MaxRequests * Bytes
  /\ peer' = peer + 1
  /\ IF Len(inq) < InQueue
       THEN inq' = Append(inq, peer + 1) /\ UNCHANGED lost
       ELSE lost' = lost \cup {peer + 1} /\ UNCHANGED inq
  /\ UNCHANGED <<out_stream, sendVars, at, rcv>>

(***************************************************************************)
(* The specification.                                                      *)
(***************************************************************************)
Init ==
  /\ out_stream = FALSE /\ send_lock = "free"
  /\ at = [t \in Threads |-> IF t = "handler" THEN "start" ELSE "idle"]
  /\ frame = [t \in Threads |-> 0] /\ done = [t \in Threads |-> 0]
  /\ wire = <<>> /\ peer = 0 /\ lost = {} /\ inq = <<>> /\ rcv = <<>>

ThreadStep(t) == CanRun(t) /\ (Lock(t) \/ Write(t) \/ Unlock(t))

HandlerStep == CanRun("handler") /\ (Start \/ Collect)

\* A sensor event wakes stream, which runs when the handler waits.
StreamStep == (\A u \in Before["stream"] : Waits(u)) /\ Telemetry

Next == \/ \E t \in Threads : ThreadStep(t) \/ Drain(t)
        \/ HandlerStep \/ StreamStep \/ Arrive

Spec == Init /\ [][Next]_vars

\* The ports drain and the core runs the threads; the peer need not send.
FairSpec == /\ Spec
            /\ \A t \in Threads : WF_vars(ThreadStep(t)) /\ WF_vars(Drain(t))
            /\ WF_vars(HandlerStep)

(***************************************************************************)
(* Properties.                                                             *)
(***************************************************************************)
\* The types of the variables of the link.
ThreadsType ==
  /\ out_stream \in BOOLEAN /\ send_lock \in Threads \cup {"free"}
  /\ at \in [Threads -> {"start", "idle", "receive", "lock", "queued", "write", "full", "log"}]

FramesType ==
  /\ frame \in [Threads -> Nat] /\ done \in [Threads -> 0..Writes]
  /\ wire \in Seq([from : Threads, frame : Nat, part : 1..Writes])

QueueType ==
  peer \in Nat /\ lost \subseteq Nat /\ inq \in Seq(Nat) /\ rcv \in Seq(Nat)

TypeOK == ThreadsType /\ FramesType /\ QueueType

\* The frames of the two threads do not mix on the wire, although each can be
\* preempted and can block in the middle of one: every write continues the
\* frame of the write before it, until that frame is complete.
FramesAreWhole ==
  \A n \in DOMAIN wire :
    IF wire[n].part = 1
      THEN n = 1 \/ wire[n - 1].part = Writes
      ELSE n > 1 /\ wire[n - 1] = [wire[n] EXCEPT !.part = @ - 1]

\* Nothing is sent before the handler has set out_stream: no datagram is
\* dropped, which stream would not notice.
NothingIsDropped ==
  \A t \in Threads : at[t] \in {"write", "full"} /\ done[t] > 0 =>
    /\ wire # <<>>
    /\ wire[Len(wire)] = [from |-> t, frame |-> frame[t], part |-> done[t]]

\* A lost byte costs the request it was of, and the next one when it was the
\* END; a request that is received whole behind an END is answered, whatever
\* was lost before.
Answered(r) == \E n \in DOMAIN wire :
                 wire[n] = [from |-> "handler", frame |-> r, part |-> Writes]

Received(r) == /\ peer >= r * Bytes
               /\ lost \cap ((r - 1) * Bytes)..(r * Bytes) = {}

WholeIsAnswered == \A r \in 1..MaxRequests : Received(r) ~> Answered(r)
=============================================================================
