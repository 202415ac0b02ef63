------------------------------ MODULE EventWindows ------------------------------
(***************************************************************************)
(* What windows of event time promise whoever reads their results, however *)
(* the events are out of order: a window is printed at most once, windows  *)
(* in the order of time, an event in its own window and in no other place  *)
(* but one; an event that was late by no more than Bound is always in the  *)
(* result of its window, and nothing is put out as late, and no window     *)
(* closed, before an event was seen that is Bound or more past its end.    *)
(***************************************************************************)
EXTENDS Integers, Sequences

CONSTANTS
    Size,   \* length of a window
    Bound,  \* how far an event may be behind those before it
    Times   \* event times

VARIABLES
    stream,   \* the times of the events, in the order they came
    printed,  \* the results: windows and their events
    late      \* events put out as late

(* Events are numbered as they come; a window is named by its start. *)
WindowStart(t) == t - (t % Size)
EventsOf(s) == {n \in DOMAIN stream : WindowStart(stream[n]) = s}
OnTime(n) == \A m \in 1 .. n - 1 : stream[m] <= stream[n] + Bound
Passed(s) == \E m \in DOMAIN stream : stream[m] >= s + Size + Bound
Counted(n) == \E i \in DOMAIN printed : n \in printed[i].events

Init == stream = <<>> /\ printed = <<>> /\ late = {}

Come(t) ==
    /\ stream' = Append(stream, t)
    /\ UNCHANGED <<printed, late>>

Close(s) ==
    /\ Passed(s)
    /\ \A i \in DOMAIN printed : printed[i].window < s
    /\ EventsOf(s) \cap late = {}
    /\ \E events \in (SUBSET EventsOf(s)) \ {{}} :
        /\ \A n \in EventsOf(s) : OnTime(n) => n \in events
        /\ printed' = Append(printed, [window |-> s, events |-> events])
    /\ UNCHANGED <<stream, late>>

PutAside(n) ==
    /\ ~OnTime(n) /\ ~Counted(n) /\ n \notin late
    /\ Passed(WindowStart(stream[n]))
    /\ late' = late \cup {n}
    /\ UNCHANGED <<stream, printed>>

Next ==
    \/ \E t \in Times : Come(t)
    \/ \E t \in Times : Close(WindowStart(t))
    \/ \E n \in DOMAIN stream : PutAside(n)

Spec == Init /\ [][Next]_<<stream, printed, late>>
================================================================================
