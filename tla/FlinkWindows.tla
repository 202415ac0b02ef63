------------------------------ MODULE FlinkWindows ------------------------------
(***************************************************************************)
(* DataStreamJob: a source whose events get bounded-out-of-order           *)
(* watermarks, tumbling windows of event time behind a channel, and a side *)
(* output for late events.                                                 *)
(*                                                                         *)
(* The source and the watermark generator run in one task, the window      *)
(* operator in another; PARALLELISM is 1, so one first-in-first-out channel*)
(* carries events and watermarks.  A window is open while events wait in   *)
(* it; the watermark closes it, and allowedLateness is 0.  A tick of time  *)
(* is Flink's millisecond.                                                 *)
(***************************************************************************)
EXTENDS Integers, Sequences

CONSTANTS
    Size,       \* WINDOW_SIZE
    Bound,      \* MAX_OUT_OF_ORDERNESS
    Times,      \* event times
    Capacity,   \* events and watermarks the channel holds
    MaxEvents   \* bound: events of the source

ASSUME WindowsAssumption ==
    /\ Size \in Nat \ {0} /\ Bound \in Nat /\ Times \subseteq Nat
    /\ Capacity \in Nat \ {0} /\ MaxEvents \in Nat

VARIABLES
    stream,            \* the times of the events the source emitted, in order
    maxTimestamp,      \* of the watermark generator, -1 before the first event
    sent,              \* the last watermark sent
    channel,           \* what the window operator has not taken yet
    currentWatermark,  \* of the window operator
    pending,           \* the events in open windows
    printed,           \* the results, in the order they are printed
    late               \* the events in the side output

vars == <<stream, maxTimestamp, sent, channel, currentWatermark, pending, printed, late>>

Abstract == INSTANCE EventWindows
WindowStart(t) == t - (t % Size)
LastTick(n) == WindowStart(stream[n]) + Size - 1   \* window.maxTimestamp()

(* An event, or a watermark (event 0). *)
Item == [event : Nat, watermark : Int]

(* Mutant: the watermark of a source whose events come in order. *)
WatermarkInOrder(timestamp) == timestamp - 1

(* BoundedOutOfOrdernessWatermarks. *)
Watermark(timestamp) == timestamp - Bound - 1

Init ==
    /\ stream = <<>> /\ maxTimestamp = -1
    /\ sent = Watermark(-1) /\ currentWatermark = Watermark(-1)
    /\ channel = <<>>
    /\ pending = {} /\ printed = <<>> /\ late = {}

--------------------------------------------------------------------------------
(* The task of the source. *)

(* Mutant: one item too many. *)
HasRoomForOneMore == Len(channel) <= Capacity

HasRoom == Len(channel) < Capacity

(* TestSource emits an event of any time. *)
Emit(t) ==
    /\ HasRoom /\ Len(stream) < MaxEvents
    /\ stream' = Append(stream, t)
    /\ maxTimestamp' = IF t > maxTimestamp THEN t ELSE maxTimestamp
    /\ channel' = Append(channel, [event |-> Len(stream) + 1, watermark |-> 0])
    /\ UNCHANGED <<sent, currentWatermark, pending, printed, late>>

(* Every 200 ms, if it is higher than the last one. *)
PeriodicEmit ==
    /\ HasRoom /\ Watermark(maxTimestamp) > sent
    /\ sent' = Watermark(maxTimestamp)
    /\ channel' = Append(channel, [event |-> 0, watermark |-> sent'])
    /\ UNCHANGED <<stream, maxTimestamp, currentWatermark, pending, printed, late>>

--------------------------------------------------------------------------------
(* The task of the windows: it takes the next item when all timers that are *)
(* due have fired.                                                          *)

(* Mutant: the timer of the last tick waits for the next one. *)
DueOneTickLater(n) == n \in pending /\ LastTick(n) < currentWatermark

Due(n) == n \in pending /\ LastTick(n) <= currentWatermark

Takes ==
    /\ channel # <<>> /\ \A n \in pending : ~Due(n)
    /\ channel' = Tail(channel)
    /\ UNCHANGED <<stream, maxTimestamp, sent, printed>>

(* Mutant: an event behind the watermark is late although its window is open. *)
LateByTime(n) == stream[n] <= currentWatermark

IsLate(n) == LastTick(n) <= currentWatermark

ProcessElement ==
    LET n == Head(channel).event IN
    /\ Takes /\ n # 0
    /\ IF IsLate(n)
         THEN late' = late \cup {n} /\ UNCHANGED pending
         ELSE pending' = pending \cup {n} /\ UNCHANGED late
    /\ UNCHANGED currentWatermark

ProcessWatermark ==
    /\ Takes /\ Head(channel).event = 0
    /\ currentWatermark' = Head(channel).watermark
    /\ UNCHANGED <<pending, late>>

(* The first timer that is due: the window of n is printed and cleared. *)
Fire(n) ==
    LET elements == {m \in pending : WindowStart(stream[m]) = WindowStart(stream[n])} IN
    /\ Due(n) /\ \A m \in pending : Due(m) => LastTick(n) <= LastTick(m)
    /\ printed' = Append(printed, [window |-> WindowStart(stream[n]), events |-> elements])
    /\ pending' = pending \ elements
    /\ UNCHANGED <<stream, maxTimestamp, sent, channel, currentWatermark, late>>

Operator == ProcessElement \/ ProcessWatermark \/ \E n \in pending : Fire(n)

Next == (\E t \in Times : Emit(t)) \/ PeriodicEmit \/ Operator

(* The generator is called periodically, the operator works its channel off; *)
(* nobody has to emit.                                                       *)
Spec == Init /\ [][Next]_vars /\ WF_vars(PeriodicEmit) /\ WF_vars(Operator)

--------------------------------------------------------------------------------
TypeOK ==
    /\ stream \in Seq(Times) /\ Len(stream) <= MaxEvents
    /\ maxTimestamp \in Int /\ sent \in Int /\ currentWatermark \in Int
    /\ channel \in Seq(Item) /\ Len(channel) <= Capacity
    /\ \A i \in DOMAIN channel : channel[i].event <= Len(stream)
    /\ pending \subseteq DOMAIN stream /\ late \subseteq DOMAIN stream
    /\ printed \in Seq([window : Int, events : SUBSET DOMAIN stream])

(* An event that is behind the ones before it by no more than Bound is never *)
(* late, and no window is printed without it, wherever it and the watermarks *)
(* are at that moment: in the source, in the channel, in the operator.       *)
OnTimeIsCounted ==
    \A n \in DOMAIN stream : Abstract!OnTime(n) =>
        /\ n \notin late
        /\ \A i \in DOMAIN printed :
             printed[i].window = WindowStart(stream[n]) => n \in printed[i].events

(* The job keeps the promises of EventWindows: a window is printed once, in  *)
(* order of time, without events of others, and only after its end is past   *)
(* by the bound; an event is in one result or in the side output, not both.  *)
WindowSpec == Abstract!Spec

(* An event whose window is past by the bound is printed or put out as late, *)
(* even if no event ever comes again: none is dropped and no window stays    *)
(* open for want of a watermark.                                             *)
WindowsClose ==
    \A n \in 1 .. MaxEvents :
        n \in DOMAIN stream /\ Abstract!Passed(WindowStart(stream[n]))
            ~> n \in late \/ Abstract!Counted(n)
================================================================================
