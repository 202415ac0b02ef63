--------------------------- MODULE FlinkWindowsProofs ---------------------------
(***************************************************************************)
(* FlinkWindows keeps the promises of EventWindows, for every size, bound  *)
(* and order of events.                                                    *)
(***************************************************************************)
EXTENDS FlinkWindows, TLAPS

OnTime(n) == Abstract!OnTime(n)
Counted(n) == Abstract!Counted(n)
Start(n) == WindowStart(stream[n])
IsEvent(i) == channel[i].event # 0

(* maxTimestamp is the highest time so far. *)
MaxOK ==
    /\ \A n \in DOMAIN stream : stream[n] <= maxTimestamp
    /\ maxTimestamp = -1 \/ \E m \in DOMAIN stream : stream[m] = maxTimestamp

(* Watermarks rise along the channel and stay Bound behind. *)
WatermarksOK ==
    /\ sent <= Watermark(maxTimestamp) /\ currentWatermark <= sent
    /\ \A i \in DOMAIN channel : ~IsEvent(i) =>
        /\ currentWatermark <= channel[i].watermark /\ channel[i].watermark <= sent
        /\ \A j \in DOMAIN channel : i < j /\ ~IsEvent(j) =>
             channel[i].watermark <= channel[j].watermark

(* An event on time is ahead of every watermark before it. *)
AheadOK ==
    \A j \in DOMAIN channel : IsEvent(j) /\ OnTime(channel[j].event) =>
        /\ currentWatermark < stream[channel[j].event]
        /\ \A i \in DOMAIN channel : i < j /\ ~IsEvent(i) =>
             channel[i].watermark < stream[channel[j].event]

(* An event in the channel is nowhere else, and every event is somewhere. *)
PlacesOK ==
    /\ \A i \in DOMAIN channel : IsEvent(i) =>
        /\ channel[i].event \notin pending \cup late /\ ~Counted(channel[i].event)
        /\ \A j \in DOMAIN channel : i # j => channel[i].event # channel[j].event
    /\ \A n \in DOMAIN stream :
        \/ n \in pending \/ n \in late \/ Counted(n)
        \/ \E i \in DOMAIN channel : channel[i].event = n

(* What is printed or late is behind the watermark. *)
ClosedOK ==
    /\ \A i \in DOMAIN printed :
        /\ printed[i].window + Size - 1 <= currentWatermark
        /\ \A n \in printed[i].events : Start(n) = printed[i].window
    /\ \A n \in late : LastTick(n) <= currentWatermark

(* No window is open that was printed before or has late events. *)
OpenOK ==
    \A n \in pending :
        /\ \A i \in DOMAIN printed : printed[i].window < Start(n)
        /\ \A m \in late : Start(m) # Start(n)

IInv ==
    /\ TypeOK /\ MaxOK /\ WatermarksOK /\ AheadOK /\ PlacesOK
    /\ ClosedOK /\ OpenOK /\ OnTimeIsCounted

--------------------------------------------------------------------------------
(* Helpers: sequences, windows, and what a high watermark says of the stream. *)

LEMMA AppendFacts ==
    ASSUME NEW T, NEW s \in Seq(T), NEW e \in T
    PROVE  /\ Append(s, e) \in Seq(T) /\ Len(Append(s, e)) = Len(s) + 1
           /\ DOMAIN Append(s, e) = 1 .. Len(s) + 1 /\ DOMAIN s = 1 .. Len(s)
           /\ \A i \in 1 .. Len(s) : Append(s, e)[i] = s[i]
           /\ Append(s, e)[Len(s) + 1] = e
OBVIOUS

LEMMA TailFacts ==
    ASSUME NEW T, NEW s \in Seq(T), s # <<>>
    PROVE  /\ Tail(s) \in Seq(T) /\ Len(s) \in Nat \ {0} /\ Len(Tail(s)) = Len(s) - 1
           /\ DOMAIN Tail(s) = 1 .. Len(s) - 1 /\ DOMAIN s = 1 .. Len(s)
           /\ \A i \in 1 .. Len(s) - 1 : Tail(s)[i] = s[i + 1]
           /\ Head(s) = s[1]
OBVIOUS

LEMMA Elements ==
    ASSUME NEW T, NEW s \in Seq(T), NEW i \in DOMAIN s
    PROVE  s[i] \in T /\ i \in 1 .. Len(s) /\ Len(s) \in Nat
OBVIOUS

Result(numbers) == [window : Int, events : SUBSET numbers]

LEMMA Wider ==
    ASSUME NEW A, NEW B, A \subseteq B, NEW s \in Seq(Result(A))
    PROVE  s \in Seq(Result(B))
<1>1. Result(A) \subseteq Result(B)
  BY DEF Result
<1> HIDE DEF Result
<1>2. \A i \in 1 .. Len(s) : s[i] \in Result(B)
  BY <1>1, Elements
<1> QED BY <1>2

LEMMA Windows ==
    ASSUME NEW t \in Nat
    PROVE  WindowStart(t) \in Int /\ WindowStart(t) <= t /\ t < WindowStart(t) + Size
BY WindowsAssumption DEF WindowStart

LEMMA Streams ==
    ASSUME TypeOK, NEW n \in DOMAIN stream
    PROVE  /\ stream[n] \in Times /\ stream[n] \in Nat
           /\ Start(n) \in Int /\ Start(n) <= stream[n] /\ stream[n] < Start(n) + Size
           /\ LastTick(n) = Start(n) + Size - 1 /\ LastTick(n) \in Int
           /\ stream[n] <= LastTick(n)
<1>1. stream \in Seq(Times) /\ Times \subseteq Nat
  BY WindowsAssumption DEF TypeOK
<1>2. stream[n] \in Times /\ stream[n] \in Nat
  BY <1>1, Elements
<1> QED BY <1>2, Windows, WindowsAssumption DEF Start, LastTick

LEMMA Items ==
    ASSUME TypeOK, NEW i \in DOMAIN channel
    PROVE  /\ channel[i].event \in Nat /\ channel[i].watermark \in Int
           /\ channel[i].event <= Len(stream)
           /\ IsEvent(i) => channel[i].event \in DOMAIN stream
<1>1. channel \in Seq(Item)
  BY DEF TypeOK
<1>2. channel[i] \in Item
  BY <1>1, Elements
<1>3. channel[i].event \in Nat /\ channel[i].watermark \in Int
  BY <1>2 DEF Item
<1>4. channel[i].event <= Len(stream)
  BY DEF TypeOK
<1>5. DOMAIN stream = 1 .. Len(stream)
  BY DEF TypeOK
<1> QED BY <1>3, <1>4, <1>5 DEF IsEvent

LEMMA Results ==
    ASSUME TypeOK, NEW i \in DOMAIN printed
    PROVE  printed[i].window \in Int /\ printed[i].events \subseteq DOMAIN stream
<1>1. printed[i] \in Result(DOMAIN stream)
  BY Elements DEF TypeOK, Result
<1> QED BY <1>1 DEF Result

(* The window of an event is past when the watermark reaches its last tick. *)
LEMMA WatermarkMeansPassed ==
    ASSUME IInv, NEW n \in DOMAIN stream, LastTick(n) <= currentWatermark
    PROVE  Abstract!Passed(Start(n))
<1>1. maxTimestamp >= Start(n) + Size + Bound
  <2>1. maxTimestamp \in Int /\ sent \in Int /\ currentWatermark \in Int
    BY DEF IInv, TypeOK
  <2>2. Start(n) \in Int /\ LastTick(n) = Start(n) + Size - 1
    BY Streams DEF IInv
  <2>3. currentWatermark <= sent /\ sent <= maxTimestamp - Bound - 1
    BY DEF IInv, WatermarksOK, Watermark
  <2> QED BY <2>1, <2>2, <2>3, WindowsAssumption
<1>2. maxTimestamp # -1
  BY <1>1, Streams, WindowsAssumption DEF IInv
<1>3. PICK m \in DOMAIN stream : stream[m] = maxTimestamp
  BY <1>2 DEF IInv, MaxOK
<1> QED BY <1>1, <1>3 DEF Abstract!Passed

--------------------------------------------------------------------------------
(* Each step keeps IInv and is a step of EventWindows, or none. *)

Kept == IInv' /\ [Abstract!Next]_<<stream, printed, late>>

LEMMA InitKeeps == Init => IInv /\ Abstract!Init
<1> SUFFICES ASSUME Init PROVE IInv /\ Abstract!Init
  OBVIOUS
<1>1. TypeOK
  BY WindowsAssumption DEF Init, TypeOK, Watermark
<1> QED BY <1>1, WindowsAssumption
  DEF Init, IInv, MaxOK, WatermarksOK, AheadOK, PlacesOK, ClosedOK, OpenOK,
      OnTimeIsCounted, Watermark, Abstract!Init

LEMMA EmitKeeps ==
    ASSUME IInv, NEW t \in Times, Emit(t)
    PROVE  Kept
<1>0. PICK new \in Nat, end \in Nat : new = Len(stream) + 1 /\ end = Len(channel) + 1
  <2>1. Len(stream) \in Nat /\ Len(channel) \in Nat
    BY DEF IInv, TypeOK
  <2> QED BY <2>1
<1>1. TypeOK /\ stream \in Seq(Times) /\ channel \in Seq(Item) /\ t \in Nat
      /\ Times \subseteq Nat
  BY WindowsAssumption DEF IInv, TypeOK
<1> DEFINE item == [event |-> new, watermark |-> 0]
<1>2. item \in Item /\ new \in Nat \ {0} /\ end \in Nat \ {0}
  BY <1>0, <1>1 DEF Item
<1>3. /\ stream' \in Seq(Times) /\ Len(stream') = new
      /\ DOMAIN stream' = 1 .. new /\ DOMAIN stream = 1 .. new - 1
      /\ \A n \in 1 .. new - 1 : stream'[n] = stream[n]
      /\ stream'[new] = t
  BY <1>0, <1>1, AppendFacts DEF Emit
<1>4. /\ channel' \in Seq(Item) /\ Len(channel') = end
      /\ DOMAIN channel' = 1 .. end /\ DOMAIN channel = 1 .. end - 1
      /\ \A i \in 1 .. end - 1 : channel'[i] = channel[i]
      /\ channel'[end] = item
  BY <1>0, <1>1, <1>2, AppendFacts DEF Emit
<1>5. UNCHANGED <<sent, currentWatermark, pending, printed, late>>
      /\ maxTimestamp' = (IF t > maxTimestamp THEN t ELSE maxTimestamp)
  BY DEF Emit
<1>6. TypeOK'
  <2>1. maxTimestamp' \in Int /\ Len(stream') <= MaxEvents /\ Len(channel') <= Capacity
    BY <1>0, <1>1, <1>3, <1>4, <1>5, WindowsAssumption DEF Emit, HasRoom, TypeOK
  <2>2. \A i \in DOMAIN channel' : channel'[i].event <= Len(stream')
    <3> SUFFICES ASSUME NEW i \in DOMAIN channel' PROVE channel'[i].event <= Len(stream')
      OBVIOUS
    <3>1. CASE i \in DOMAIN channel
      <4>1. channel'[i] = channel[i] /\ channel[i] \in Item /\ channel[i].event <= Len(stream)
        BY <1>1, <1>4, <3>1, Elements DEF TypeOK
      <4> QED BY <4>1, <1>0, <1>1, <1>3 DEF Item
    <3>2. CASE i = end
      BY <3>2, <1>1, <1>2, <1>3, <1>4
    <3> QED BY <3>1, <3>2, <1>1, <1>4
  <2>3. pending' \subseteq DOMAIN stream' /\ late' \subseteq DOMAIN stream'
    BY <1>1, <1>3, <1>5 DEF TypeOK
  <2>4. printed' \in Seq([window : Int, events : SUBSET DOMAIN stream'])
    <3>1. DOMAIN stream \subseteq DOMAIN stream'
      BY <1>1, <1>3
    <3> QED BY <1>1, <1>5, <3>1, Wider DEF TypeOK, Result
  <2> QED BY <1>1, <1>3, <1>4, <1>5, <2>1, <2>2, <2>3, <2>4 DEF TypeOK
<1>7. \A n \in DOMAIN stream :
        /\ n \in 1 .. new - 1 /\ stream'[n] = stream[n] /\ Start(n)' = Start(n)
        /\ LastTick(n)' = LastTick(n) /\ OnTime(n)' = OnTime(n)
  BY <1>1, <1>3 DEF Start, LastTick, OnTime, Abstract!OnTime
<1>8. \A i \in DOMAIN channel : channel'[i] = channel[i] /\ IsEvent(i)' = IsEvent(i)
  BY <1>4 DEF IsEvent
<1>9. channel'[end].event = new /\ new # 0
  BY <1>2, <1>4 DEF IsEvent
<1>10. \A i \in DOMAIN channel : IsEvent(i) =>
         channel[i].event \in DOMAIN stream /\ channel[i].event # new
  BY <1>1, <1>2, <1>3, Items
<1>11. \A i \in DOMAIN printed : printed[i].window \in Int /\ printed[i].events \subseteq DOMAIN stream
  BY <1>1, Results
<1>12. \A n : Counted(n)' = Counted(n)
  BY <1>5 DEF Counted, Abstract!Counted
<1> HIDE DEF item
<1>13. maxTimestamp \in Int /\ sent \in Int /\ currentWatermark \in Int
  BY <1>1 DEF TypeOK
<1>14. \A n \in DOMAIN stream : stream[n] \in Nat
  BY <1>1, Streams
<1>15. MaxOK'
  <2>1. \A n \in DOMAIN stream' : stream'[n] <= maxTimestamp'
    BY <1>1, <1>2, <1>3, <1>5, <1>13, <1>14 DEF IInv, MaxOK
  <2>2. CASE t > maxTimestamp
    BY <2>1, <2>2, <1>2, <1>3, <1>5 DEF MaxOK
  <2>3. CASE ~(t > maxTimestamp)
    BY <2>1, <2>3, <1>2, <1>3, <1>5, <1>7 DEF IInv, MaxOK
  <2> QED BY <2>2, <2>3
<1>16. WatermarksOK'
  <2>1. sent' <= Watermark(maxTimestamp')
    BY <1>1, <1>5, <1>13, WindowsAssumption DEF IInv, WatermarksOK, Watermark
  <2>2. \A i \in DOMAIN channel' : ~IsEvent(i)' =>
          i \in DOMAIN channel /\ ~IsEvent(i) /\ channel'[i] = channel[i]
    BY <1>2, <1>4, <1>8, <1>9 DEF IsEvent
  <2> QED BY <2>1, <2>2, <1>5 DEF IInv, WatermarksOK
(* An event that is on time is less than Bound behind the highest one. *)
<1>17. OnTime(new)' => maxTimestamp - Bound - 1 < t
  <2> SUFFICES ASSUME OnTime(new)' PROVE maxTimestamp - Bound - 1 < t
    OBVIOUS
  <2>1. CASE maxTimestamp = -1
    BY <2>1, <1>1, WindowsAssumption
  <2>2. CASE \E m \in DOMAIN stream : stream[m] = maxTimestamp
    <3>1. PICK m \in DOMAIN stream : stream[m] = maxTimestamp
      BY <2>2
    <3>2. stream'[m] <= stream'[new] + Bound
      BY <1>2, <1>3, <1>7 DEF OnTime, Abstract!OnTime
    <3> QED BY <3>1, <3>2, <1>1, <1>3, <1>7, <1>13, WindowsAssumption
  <2> QED BY <2>1, <2>2 DEF IInv, MaxOK
<1>18. AheadOK'
  <2> SUFFICES ASSUME NEW j \in DOMAIN channel', IsEvent(j)', OnTime(channel[j].event)'
               PROVE  /\ currentWatermark' < stream'[channel'[j].event]
                      /\ \A i \in DOMAIN channel' : i < j /\ ~IsEvent(i)' =>
                           channel'[i].watermark < stream'[channel'[j].event]
    BY DEF AheadOK
  <2>1. CASE j \in DOMAIN channel
    <3>1. IsEvent(j) /\ OnTime(channel[j].event)
      BY <2>1, <1>7, <1>8, <1>10
    <3>2. \A i \in DOMAIN channel' : i < j => i \in DOMAIN channel
      BY <2>1, <1>1, <1>4
    <3> QED BY <2>1, <3>1, <3>2, <1>5, <1>7, <1>8, <1>10 DEF IInv, AheadOK
  <2>2. CASE j = end
    <3>1. stream'[channel'[j].event] = t /\ maxTimestamp - Bound - 1 < t
      BY <2>2, <1>3, <1>9, <1>17
    <3>2. \A i \in DOMAIN channel' : i < j => i \in DOMAIN channel
      BY <2>2, <1>1, <1>4
    <3>3. \A i \in DOMAIN channel : ~IsEvent(i) =>
            channel[i].watermark \in Int /\ channel[i].watermark <= sent
      BY <1>1, Items DEF IInv, WatermarksOK
    <3> QED BY <3>1, <3>2, <3>3, <1>1, <1>5, <1>8, <1>13, WindowsAssumption
            DEF IInv, WatermarksOK, Watermark
  <2> QED BY <2>1, <2>2, <1>1, <1>4
<1>19. PlacesOK'
  <2>1. \A i \in DOMAIN channel' : IsEvent(i)' =>
          /\ channel'[i].event \notin pending' \cup late' /\ ~Counted(channel[i].event)'
          /\ \A j \in DOMAIN channel' : i # j => channel'[i].event # channel'[j].event
    <3>1. new \notin pending \cup late /\ ~Counted(new)
      BY <1>1, <1>2, <1>3, <1>11 DEF TypeOK, Counted, Abstract!Counted
    <3>2. \A i \in DOMAIN channel : channel[i].event # new
      BY <1>2, <1>10 DEF IsEvent
    <3>3. \A i \in DOMAIN channel' : i \in DOMAIN channel \/ i = end
      BY <1>2, <1>4
    <3> SUFFICES ASSUME NEW i \in DOMAIN channel', IsEvent(i)'
                 PROVE  /\ channel'[i].event \notin pending \cup late
                        /\ ~Counted(channel'[i].event)
                        /\ \A j \in DOMAIN channel' :
                             i # j => channel'[i].event # channel'[j].event
      BY <1>5, <1>12 DEF Counted, Abstract!Counted
    <3>4. CASE i \in DOMAIN channel
      BY <3>2, <3>3, <3>4, <1>8, <1>9 DEF IInv, PlacesOK
    <3>5. CASE i = end
      BY <3>1, <3>2, <3>3, <3>5, <1>8, <1>9
    <3> QED BY <3>3, <3>4, <3>5
  <2>2. \A n \in DOMAIN stream' : \/ n \in pending' \/ n \in late' \/ Counted(n)'
          \/ \E i \in DOMAIN channel' : channel'[i].event = n
    <3> SUFFICES ASSUME NEW n \in DOMAIN stream',
                        n \notin pending, n \notin late, ~Counted(n)
                 PROVE  \E i \in DOMAIN channel' : channel'[i].event = n
      BY <1>5, <1>12
    <3>1. CASE n = new
      BY <3>1, <1>2, <1>4, <1>9
    <3>2. CASE n \in DOMAIN stream
      <4>1. PICK i \in DOMAIN channel : channel[i].event = n
        BY <3>2 DEF IInv, PlacesOK
      <4> QED BY <4>1, <1>2, <1>4, <1>8
    <3> QED BY <3>1, <3>2, <1>1, <1>2, <1>3
  <2> QED BY <2>1, <2>2 DEF PlacesOK
<1>20. ClosedOK'
  BY <1>1, <1>5, <1>7, <1>11 DEF IInv, ClosedOK, TypeOK
<1>21. OpenOK'
  BY <1>1, <1>5, <1>7 DEF IInv, OpenOK, TypeOK
<1>22. OnTimeIsCounted'
  <2> SUFFICES ASSUME NEW n \in DOMAIN stream', OnTime(n)'
               PROVE  /\ n \notin late'
                      /\ \A i \in DOMAIN printed' :
                           printed'[i].window = Start(n)' => n \in printed'[i].events
    BY DEF OnTimeIsCounted, OnTime, Start
  <2>1. CASE n \in DOMAIN stream
    BY <2>1, <1>5, <1>7 DEF IInv, OnTimeIsCounted, OnTime, Start
  <2>2. CASE n = new
    <3>1. n \notin late
      BY <2>2, <1>1, <1>2, <1>3 DEF TypeOK
    <3>2. ASSUME NEW i \in DOMAIN printed, printed[i].window = WindowStart(t)
          PROVE  FALSE
      <4>1. WindowStart(t) + Size - 1 <= currentWatermark
        BY <3>2 DEF IInv, ClosedOK
      <4>2. currentWatermark <= maxTimestamp - Bound - 1
        BY <1>13, WindowsAssumption DEF IInv, WatermarksOK, Watermark
      <4>3. maxTimestamp - Bound - 1 < t
        BY <2>2, <1>17
      <4> QED BY <4>1, <4>2, <4>3, <1>1, <1>13, Windows, WindowsAssumption
    <3>3. Start(n)' = WindowStart(t)
      BY <2>2, <1>3 DEF Start
    <3> QED BY <3>1, <3>2, <3>3, <1>5
  <2> QED BY <2>1, <2>2, <1>2, <1>3
<1>23. Abstract!Come(t)
  BY DEF Emit, Abstract!Come
<1> QED BY <1>6, <1>15, <1>16, <1>18, <1>19, <1>20, <1>21, <1>22, <1>23
        DEF Kept, IInv, Abstract!Next

LEMMA PeriodicEmitKeeps ==
    ASSUME IInv, PeriodicEmit
    PROVE  Kept
<1>1. TypeOK /\ channel \in Seq(Item) /\ sent' \in Int /\ maxTimestamp \in Int
      /\ sent \in Int /\ currentWatermark \in Int
  BY WindowsAssumption DEF IInv, TypeOK, PeriodicEmit, Watermark
<1>2. PICK end \in Nat \ {0} : end = Len(channel) + 1
  <2>1. Len(channel) \in Nat
    BY <1>1
  <2> QED BY <2>1
<1> DEFINE item == [event |-> 0, watermark |-> sent']
<1>3. item \in Item
  BY <1>1 DEF Item
<1>4. /\ channel' \in Seq(Item) /\ Len(channel') = end
      /\ DOMAIN channel' = 1 .. end /\ DOMAIN channel = 1 .. end - 1
      /\ \A i \in 1 .. end - 1 : channel'[i] = channel[i]
      /\ channel'[end] = item
  BY <1>1, <1>2, <1>3, AppendFacts DEF PeriodicEmit
<1>5. UNCHANGED <<stream, maxTimestamp, currentWatermark, pending, printed, late>>
      /\ sent' = Watermark(maxTimestamp) /\ sent' > sent
  BY DEF PeriodicEmit
<1>6. \A i \in DOMAIN channel' :
        \/ i \in DOMAIN channel /\ channel'[i] = channel[i] /\ IsEvent(i)' = IsEvent(i)
        \/ i = end /\ ~IsEvent(i)' /\ channel'[i].event = 0 /\ channel'[i].watermark = sent'
  BY <1>2, <1>4 DEF IsEvent
<1>7. \A i \in DOMAIN channel : i \in DOMAIN channel' /\ channel'[i] = channel[i] /\ i < end
  BY <1>2, <1>4
<1> HIDE DEF item
<1>8. TypeOK'
  <2>1. Len(channel') <= Capacity
    BY <1>1, <1>2, <1>4, WindowsAssumption DEF PeriodicEmit, HasRoom
  <2>2. \A i \in DOMAIN channel' : channel'[i].event <= Len(stream)
    <3>1. Len(stream) \in Nat
      BY <1>1 DEF TypeOK
    <3> QED BY <1>1, <1>6, <3>1 DEF TypeOK
  <2> QED BY <1>1, <1>4, <1>5, <2>1, <2>2 DEF TypeOK
<1>9. MaxOK'
  BY <1>5 DEF IInv, MaxOK
<1>10. WatermarksOK'
  <2>1. \A i \in DOMAIN channel : channel[i].watermark \in Int
    BY <1>1, Items
  <2>2. sent' <= Watermark(maxTimestamp') /\ currentWatermark' <= sent'
    BY <1>1, <1>5 DEF IInv, WatermarksOK
  <2> QED BY <2>1, <2>2, <1>1, <1>2, <1>5, <1>6, <1>7 DEF IInv, WatermarksOK
<1>11. AheadOK'
  <2> SUFFICES ASSUME NEW j \in DOMAIN channel', IsEvent(j)', OnTime(channel[j].event)'
               PROVE  /\ currentWatermark' < stream'[channel'[j].event]
                      /\ \A i \in DOMAIN channel' : i < j /\ ~IsEvent(i)' =>
                           channel'[i].watermark < stream'[channel'[j].event]
    BY DEF AheadOK
  <2>1. j \in DOMAIN channel /\ IsEvent(j) /\ channel'[j] = channel[j]
    BY <1>6
  <2>2. OnTime(channel[j].event)
    BY <2>1, <1>5 DEF OnTime, Abstract!OnTime
  <2>3. \A i \in DOMAIN channel' : i < j => i \in DOMAIN channel
    BY <2>1, <1>2, <1>4
  <2> QED BY <2>1, <2>2, <2>3, <1>5, <1>6, <1>7 DEF IInv, AheadOK
<1>12. PlacesOK'
  <2>1. \A n : Counted(n)' = Counted(n)
    BY <1>5 DEF Counted, Abstract!Counted
  <2>2. \A n \in DOMAIN stream' : \/ n \in pending' \/ n \in late' \/ Counted(n)'
          \/ \E i \in DOMAIN channel' : channel'[i].event = n
    BY <2>1, <1>5, <1>7 DEF IInv, PlacesOK
  <2> SUFFICES ASSUME NEW i \in DOMAIN channel', IsEvent(i)'
               PROVE  /\ channel'[i].event \notin pending \cup late
                      /\ ~Counted(channel'[i].event)
                      /\ \A j \in DOMAIN channel' :
                           i # j => channel'[i].event # channel'[j].event
    BY <2>2, <1>5 DEF PlacesOK, Counted, Abstract!Counted
  <2>3. i \in DOMAIN channel /\ IsEvent(i) /\ channel'[i] = channel[i]
    BY <1>6
  <2>4. channel[i].event # 0
    BY <2>3 DEF IsEvent
  <2> QED BY <2>3, <2>4, <1>6 DEF IInv, PlacesOK
<1>13. ClosedOK'
  BY <1>5 DEF IInv, ClosedOK, Start, LastTick
<1>14. OpenOK'
  BY <1>5 DEF IInv, OpenOK, Start
<1>15. OnTimeIsCounted'
  BY <1>5 DEF IInv, OnTimeIsCounted, Abstract!OnTime
<1> QED BY <1>5, <1>8, <1>9, <1>10, <1>11, <1>12, <1>13, <1>14, <1>15 DEF Kept, IInv

(* The operator takes the first item: the others move up by one. *)
LEMMA Taken ==
    ASSUME IInv, Takes
    PROVE  /\ channel' \in Seq(Item) /\ Len(channel') <= Capacity
           /\ \A i \in DOMAIN channel' :
                i \in Nat /\ i + 1 \in DOMAIN channel /\ channel'[i] = channel[i + 1]
           /\ 1 \in DOMAIN channel /\ Head(channel) = channel[1]
           /\ \A i \in DOMAIN channel : i = 1 \/ (i \in Int /\ i > 1 /\ i - 1 \in DOMAIN channel')
           /\ UNCHANGED <<stream, maxTimestamp, sent, printed>>
<1>1. channel \in Seq(Item) /\ channel # <<>> /\ channel' = Tail(channel)
      /\ Len(channel) <= Capacity
  BY DEF IInv, TypeOK, Takes
<1>2. channel' \in Seq(Item) /\ Len(channel) \in Nat \ {0} /\ Len(channel') = Len(channel) - 1
      /\ DOMAIN channel' = 1 .. Len(channel) - 1 /\ DOMAIN channel = 1 .. Len(channel)
      /\ \A i \in 1 .. Len(channel) - 1 : channel'[i] = channel[i + 1]
      /\ Head(channel) = channel[1]
  BY <1>1, TailFacts
<1>3. Len(channel') <= Capacity
  BY <1>1, <1>2, WindowsAssumption
<1> QED BY <1>2, <1>3 DEF Takes

LEMMA ProcessWatermarkKeeps ==
    ASSUME IInv, ProcessWatermark
    PROVE  Kept
<1>1. TypeOK /\ Takes
  BY DEF IInv, ProcessWatermark
<1>2. /\ ~IsEvent(1) /\ currentWatermark' = channel[1].watermark
      /\ UNCHANGED <<stream, maxTimestamp, sent, printed, pending, late>>
  BY Taken DEF ProcessWatermark, IsEvent, Takes
<1>3. \A i \in DOMAIN channel' : channel'[i] = channel[i + 1] /\ IsEvent(i)' = IsEvent(i + 1)
                                 /\ i + 1 \in DOMAIN channel /\ 1 < i + 1
  <2>1. \A i \in DOMAIN channel' : i \in Nat \ {0}
    BY <1>1, Taken
  <2> QED BY <1>1, <2>1, Taken DEF IsEvent
<1>4. /\ channel[1].watermark \in Int /\ currentWatermark \in Int /\ 1 \in DOMAIN channel
      /\ currentWatermark <= channel[1].watermark
  BY <1>1, <1>2, Taken, Items DEF IInv, WatermarksOK, TypeOK
<1>5. TypeOK'
  <2>1. \A i \in DOMAIN channel' : channel'[i].event <= Len(stream)
    BY <1>1, <1>3, Items
  <2> QED BY <1>1, <1>2, <1>4, <2>1, Taken DEF TypeOK
<1>6. MaxOK'
  BY <1>2 DEF IInv, MaxOK
<1>7. WatermarksOK'
  <2>1. currentWatermark' <= sent'
    BY <1>2, <1>4 DEF IInv, WatermarksOK
  <2>2. \A i, j \in DOMAIN channel' : i < j => i + 1 < j + 1
    BY <1>1, Taken
  <2>3. \A i \in DOMAIN channel : ~IsEvent(i) /\ 1 < i =>
          channel[1].watermark <= channel[i].watermark
    BY <1>2, <1>4 DEF IInv, WatermarksOK
  <2> QED BY <2>1, <2>2, <2>3, <1>2, <1>3 DEF IInv, WatermarksOK
<1>8. AheadOK'
  <2> SUFFICES ASSUME NEW j \in DOMAIN channel', IsEvent(j)', OnTime(channel[j].event)'
               PROVE  /\ currentWatermark' < stream'[channel'[j].event]
                      /\ \A i \in DOMAIN channel' : i < j /\ ~IsEvent(i)' =>
                           channel'[i].watermark < stream'[channel'[j].event]
    BY DEF AheadOK
  <2>1. IsEvent(j + 1) /\ j + 1 \in DOMAIN channel /\ 1 < j + 1 /\ channel'[j] = channel[j + 1]
    BY <1>3
  <2>2. OnTime(channel[j + 1].event)
    BY <2>1, <1>2 DEF OnTime, Abstract!OnTime
  <2>3. \A i \in DOMAIN channel' : i < j => i + 1 < j + 1
    BY <1>1, Taken
  <2> QED BY <2>1, <2>2, <2>3, <1>2, <1>3, <1>4 DEF IInv, AheadOK
<1>9. PlacesOK'
  <2>1. \A i, j \in DOMAIN channel' : i # j => i + 1 # j + 1
    BY <1>1, Taken
  <2> SUFFICES ASSUME TRUE
               PROVE  /\ \A i \in DOMAIN channel' : IsEvent(i)' =>
                           /\ channel'[i].event \notin pending \cup late
                           /\ ~Counted(channel'[i].event)
                           /\ \A j \in DOMAIN channel' :
                                i # j => channel'[i].event # channel'[j].event
                      /\ \A n \in DOMAIN stream :
                           \/ n \in pending \/ n \in late \/ Counted(n)
                           \/ \E i \in DOMAIN channel' : channel'[i].event = n
    BY <1>2 DEF PlacesOK, Counted, Abstract!Counted
  <2>2. \A n \in DOMAIN stream : n # 0
    BY <1>1 DEF TypeOK
  <2>3. \A i \in DOMAIN channel : i = 1 \/ (i \in Int /\ i - 1 \in DOMAIN channel' /\ (i - 1) + 1 = i)
    BY <1>1, Taken
  <2>4. \A n \in DOMAIN stream : (\E i \in DOMAIN channel : channel[i].event = n)
          => \E i \in DOMAIN channel' : channel'[i].event = n
    BY <2>2, <2>3, <1>2, <1>3 DEF IsEvent
  <2> QED BY <2>1, <2>4, <1>3 DEF IInv, PlacesOK
<1>10. ClosedOK'
  <2>1. \A i \in DOMAIN printed : printed[i].window + Size - 1 <= currentWatermark'
    BY <1>1, <1>2, <1>4, Results, WindowsAssumption DEF IInv, ClosedOK
  <2>2. \A n \in late : LastTick(n) <= currentWatermark'
    <3>1. \A n \in late : LastTick(n) \in Int /\ LastTick(n) <= currentWatermark
      BY <1>1, Streams DEF IInv, ClosedOK, TypeOK
    <3> QED BY <3>1, <1>2, <1>4
  <2> QED BY <2>1, <2>2, <1>2 DEF IInv, ClosedOK, Start, LastTick
<1>11. OpenOK'
  BY <1>2 DEF IInv, OpenOK, Start
<1>12. OnTimeIsCounted'
  BY <1>2 DEF IInv, OnTimeIsCounted, Abstract!OnTime
<1> QED BY <1>2, <1>5, <1>6, <1>7, <1>8, <1>9, <1>10, <1>11, <1>12 DEF Kept, IInv

LEMMA ProcessElementKeeps ==
    ASSUME IInv, ProcessElement
    PROVE  Kept
<1>1. TypeOK /\ Takes
  BY DEF IInv, ProcessElement
<1>2. PICK n : n = channel[1].event /\ n = Head(channel).event
  BY <1>1, Taken
<1>3. /\ 1 \in DOMAIN channel /\ IsEvent(1) /\ n \in DOMAIN stream
      /\ UNCHANGED <<stream, maxTimestamp, sent, printed, currentWatermark>>
      /\ \/ IsLate(n) /\ late' = late \cup {n} /\ pending' = pending
         \/ ~IsLate(n) /\ pending' = pending \cup {n} /\ late' = late
  <2>1. 1 \in DOMAIN channel /\ IsEvent(1)
    BY <1>1, <1>2, Taken DEF ProcessElement, IsEvent
  <2> QED BY <2>1, <1>1, <1>2, Items DEF ProcessElement, Takes
<1>4. n \notin pending \cup late /\ ~Counted(n)
  BY <1>2, <1>3 DEF IInv, PlacesOK
<1>5. \A i \in DOMAIN channel' : channel'[i] = channel[i + 1] /\ IsEvent(i)' = IsEvent(i + 1)
                                 /\ i + 1 \in DOMAIN channel /\ i + 1 # 1
  <2>1. \A i \in DOMAIN channel' : i \in Nat \ {0}
    BY <1>1, Taken
  <2> QED BY <1>1, <2>1, Taken DEF IsEvent
<1>6. TypeOK'
  <2>1. \A i \in DOMAIN channel' : channel'[i].event <= Len(stream)
    BY <1>1, <1>5, Items
  <2> QED BY <1>1, <1>3, <2>1, Taken DEF TypeOK
<1>7. MaxOK'
  BY <1>3 DEF IInv, MaxOK
<1>8. \A i, j \in DOMAIN channel' : (i < j => i + 1 < j + 1) /\ (i # j => i + 1 # j + 1)
  BY <1>1, Taken
<1>9. WatermarksOK'
  BY <1>3, <1>5, <1>8 DEF IInv, WatermarksOK
<1>10. AheadOK'
  <2> SUFFICES ASSUME NEW j \in DOMAIN channel', IsEvent(j)', OnTime(channel[j].event)'
               PROVE  /\ currentWatermark' < stream'[channel'[j].event]
                      /\ \A i \in DOMAIN channel' : i < j /\ ~IsEvent(i)' =>
                           channel'[i].watermark < stream'[channel'[j].event]
    BY DEF AheadOK
  <2>1. IsEvent(j + 1) /\ j + 1 \in DOMAIN channel /\ channel'[j] = channel[j + 1]
    BY <1>5
  <2>2. OnTime(channel[j + 1].event)
    BY <2>1, <1>3 DEF OnTime, Abstract!OnTime
  <2> QED BY <2>1, <2>2, <1>3, <1>5, <1>8 DEF IInv, AheadOK
<1>11. PlacesOK'
  <2> SUFFICES ASSUME TRUE
               PROVE  /\ \A i \in DOMAIN channel' : IsEvent(i)' =>
                           /\ channel'[i].event \notin pending' \cup late'
                           /\ ~Counted(channel'[i].event)
                           /\ \A j \in DOMAIN channel' :
                                i # j => channel'[i].event # channel'[j].event
                      /\ \A m \in DOMAIN stream :
                           \/ m \in pending' \/ m \in late' \/ Counted(m)
                           \/ \E i \in DOMAIN channel' : channel'[i].event = m
    BY <1>3 DEF PlacesOK, Counted, Abstract!Counted
  <2>1. \A i \in DOMAIN channel' : IsEvent(i)' => channel'[i].event # n
    BY <1>2, <1>3, <1>5 DEF IInv, PlacesOK
  <2>2. \A i \in DOMAIN channel : i = 1 \/ (i - 1 \in DOMAIN channel' /\ (i - 1) + 1 = i)
    BY <1>1, Taken
  <2>3. \A m \in DOMAIN stream : (\E i \in DOMAIN channel : channel[i].event = m)
          => m = n \/ \E i \in DOMAIN channel' : channel'[i].event = m
    BY <2>2, <1>2, <1>5
  <2>4. \A m : m \in pending' \cup late' <=> m = n \/ m \in pending \cup late
    BY <1>3
  <2>5. \A m \in DOMAIN stream :
          m \in pending \cup late \/ Counted(m) \/ \E i \in DOMAIN channel : channel[i].event = m
    BY DEF IInv, PlacesOK
  <2>6. \A i \in DOMAIN channel' : IsEvent(i)' =>
          /\ channel'[i].event \notin pending \cup late /\ ~Counted(channel'[i].event)
          /\ \A j \in DOMAIN channel' : i # j => channel'[i].event # channel'[j].event
    BY <1>5, <1>8 DEF IInv, PlacesOK
  <2> QED BY <2>1, <2>3, <2>4, <2>5, <2>6
<1>12. ClosedOK'
  BY <1>3 DEF IInv, ClosedOK, Start, LastTick, IsLate
<1>13. OpenOK'
  <2>1. CASE IsLate(n)
    <3>1. \A m \in pending : ~(LastTick(m) <= currentWatermark)
      BY <1>1 DEF Takes, Due
    <3>2. \A m \in pending : Start(m) # Start(n)
      BY <2>1, <3>1, <1>1, <1>3, Streams DEF TypeOK, IsLate
    <3> QED BY <2>1, <3>2, <1>3 DEF IInv, OpenOK, Start
  <2>2. CASE ~IsLate(n)
    <3>1. Start(n) \in Int /\ LastTick(n) = Start(n) + Size - 1 /\ currentWatermark < LastTick(n)
      BY <2>2, <1>1, <1>3, Streams DEF IsLate, TypeOK
    <3>2. \A i \in DOMAIN printed : printed[i].window < Start(n)
      BY <3>1, <1>1, Results, WindowsAssumption DEF IInv, ClosedOK, TypeOK
    <3>3. \A m \in late : LastTick(m) = Start(m) + Size - 1 /\ LastTick(m) <= currentWatermark
      BY <1>1, Streams DEF IInv, ClosedOK, TypeOK
    <3>4. \A m \in late : Start(m) # Start(n)
      BY <2>2, <3>1, <3>3 DEF IsLate
    <3> QED BY <2>2, <3>2, <3>4, <1>3 DEF IInv, OpenOK, Start
  <2> QED BY <2>1, <2>2
<1>14. IsLate(n) => ~OnTime(n)
  <2>1. OnTime(n) => currentWatermark < stream[n]
    BY <1>2, <1>3 DEF IInv, AheadOK
  <2> QED BY <2>1, <1>1, <1>3, Streams DEF IsLate, TypeOK
<1>15. OnTimeIsCounted'
  BY <1>3, <1>14 DEF IInv, OnTimeIsCounted, OnTime, Abstract!OnTime
<1>16. IsLate(n) => Abstract!PutAside(n)
  BY <1>3, <1>4, <1>14, WatermarkMeansPassed
     DEF IsLate, Abstract!PutAside, OnTime, Counted, Start, WindowStart, Abstract!WindowStart
<1> QED BY <1>3, <1>6, <1>7, <1>9, <1>10, <1>11, <1>12, <1>13, <1>15, <1>16
        DEF Kept, IInv, Abstract!Next

LEMMA FireKeeps ==
    ASSUME IInv, NEW n \in pending, Fire(n)
    PROVE  Kept
<1> DEFINE elements == {m \in pending : WindowStart(stream[m]) = WindowStart(stream[n])}
           result == [window |-> WindowStart(stream[n]), events |-> elements]
<1>1. TypeOK /\ n \in DOMAIN stream /\ printed \in Seq(Result(DOMAIN stream))
      /\ pending \subseteq DOMAIN stream /\ late \subseteq DOMAIN stream
  BY DEF IInv, TypeOK, Result
<1>2. UNCHANGED <<stream, maxTimestamp, sent, channel, currentWatermark, late>>
      /\ pending' = pending \ elements /\ printed' = Append(printed, result)
  BY DEF Fire
<1>3. \A m \in elements : m \in pending /\ m \in DOMAIN stream /\ Start(m) = Start(n)
  BY <1>1 DEF Start
<1>4. \A m \in pending : Start(m) = Start(n) => m \in elements
  BY DEF Start
<1>5. n \in elements /\ elements \subseteq DOMAIN stream
  BY <1>1
<1>6. result \in Result(DOMAIN stream) /\ result.window = Start(n) /\ result.events = elements
  BY <1>1, <1>5, Streams DEF Result, Start
<1> HIDE DEF elements, result
<1>7. PICK end \in Nat \ {0} : end = Len(printed) + 1
  <2>1. Len(printed) \in Nat
    BY <1>1
  <2> QED BY <2>1
<1>8. /\ printed' \in Seq(Result(DOMAIN stream))
      /\ DOMAIN printed' = 1 .. end /\ DOMAIN printed = 1 .. end - 1
      /\ \A i \in DOMAIN printed : i \in DOMAIN printed' /\ printed'[i] = printed[i]
      /\ printed'[end] = result /\ end \in DOMAIN printed'
      /\ \A i \in DOMAIN printed' : i \in DOMAIN printed \/ i = end
  BY <1>1, <1>2, <1>6, <1>7, AppendFacts
<1>9. TypeOK'
  BY <1>1, <1>2, <1>8 DEF TypeOK, Result
<1>10. MaxOK' /\ WatermarksOK'
  BY <1>2 DEF IInv, MaxOK, WatermarksOK, IsEvent
<1>11. AheadOK'
  BY <1>2 DEF IInv, AheadOK, IsEvent, OnTime, Abstract!OnTime
<1>12. \A m : Counted(m)' <=> Counted(m) \/ m \in elements
  BY <1>6, <1>8 DEF Counted, Abstract!Counted
<1>13. PlacesOK'
  <2> SUFFICES ASSUME TRUE
               PROVE  /\ \A i \in DOMAIN channel : IsEvent(i) =>
                           /\ channel[i].event \notin pending' \cup late
                           /\ ~Counted(channel[i].event)'
                           /\ \A j \in DOMAIN channel :
                                i # j => channel[i].event # channel[j].event
                      /\ \A m \in DOMAIN stream :
                           \/ m \in pending' \/ m \in late \/ Counted(m)'
                           \/ \E i \in DOMAIN channel : channel[i].event = m
    BY <1>2 DEF PlacesOK, IsEvent, Counted, Abstract!Counted
  <2>1. \A i \in DOMAIN channel : IsEvent(i) =>
          /\ channel[i].event \notin pending \cup late /\ ~Counted(channel[i].event)
          /\ \A j \in DOMAIN channel : i # j => channel[i].event # channel[j].event
    BY DEF IInv, PlacesOK
  <2>2. \A i \in DOMAIN channel : IsEvent(i) => ~Counted(channel[i].event)'
    <3> SUFFICES ASSUME NEW i \in DOMAIN channel, IsEvent(i) PROVE ~Counted(channel[i].event)'
      OBVIOUS
    <3>1. PICK e : e = channel[i].event
      OBVIOUS
    <3>2. ~Counted(e)'
      BY <3>1, <2>1, <1>3, <1>12
    <3> QED BY <3>1, <3>2, <1>2 DEF Counted, Abstract!Counted
  <2>3. \A m \in DOMAIN stream :
          \/ m \in pending \/ m \in late \/ Counted(m)
          \/ \E i \in DOMAIN channel : channel[i].event = m
    BY DEF IInv, PlacesOK
  <2> QED BY <2>1, <2>2, <2>3, <1>2, <1>12
<1>14. LastTick(n) <= currentWatermark /\ LastTick(n) = Start(n) + Size - 1
  BY <1>1, Streams DEF Fire, Due
<1>15. ClosedOK'
  <2>1. \A i \in DOMAIN printed' :
          /\ printed'[i].window + Size - 1 <= currentWatermark
          /\ \A m \in printed'[i].events : Start(m) = printed'[i].window
    BY <1>3, <1>6, <1>8, <1>14 DEF IInv, ClosedOK
  <2> QED BY <2>1, <1>2 DEF IInv, ClosedOK, Start, LastTick
(* No open window is due before that of n. *)
<1>16. \A m \in pending' : Start(n) < Start(m)
  <2> SUFFICES ASSUME NEW m \in pending' PROVE Start(n) < Start(m)
    OBVIOUS
  <2>1. m \in pending /\ Start(m) # Start(n)
    BY <1>2, <1>4
  <2>2. Start(m) \in Int /\ Start(n) \in Int /\ LastTick(m) = Start(m) + Size - 1
    BY <2>1, <1>1, Streams
  <2>3. LastTick(n) <= LastTick(m)
    BY <2>1, <2>2, <1>1, <1>14, WindowsAssumption DEF Fire, Due, TypeOK
  <2> QED BY <2>1, <2>2, <2>3, <1>14, WindowsAssumption
<1>17. OpenOK'
  <2>1. \A m \in pending' : \A i \in DOMAIN printed' : printed'[i].window < Start(m)
    BY <1>2, <1>6, <1>8, <1>16 DEF IInv, OpenOK
  <2> QED BY <2>1, <1>2 DEF IInv, OpenOK, Start
(* The window was not printed before, so its events on time are still open or *)
(* in the channel; but those in the channel are ahead of the watermark.       *)
<1>18. \A m \in DOMAIN stream : OnTime(m) /\ Start(m) = Start(n) => m \in elements
  <2> SUFFICES ASSUME NEW m \in DOMAIN stream, OnTime(m), Start(m) = Start(n)
               PROVE  m \in pending
    BY <1>4
  <2>1. m \notin late
    BY DEF IInv, OnTimeIsCounted, OnTime
  <2>2. ~Counted(m)
    <3> SUFFICES ASSUME NEW i \in DOMAIN printed, m \in printed[i].events PROVE FALSE
      BY DEF Counted, Abstract!Counted
    <3>1. printed[i].window = Start(n) /\ printed[i].window < Start(n)
      BY DEF IInv, ClosedOK, OpenOK
    <3> QED BY <3>1, <1>1, Streams
  <2>3. ASSUME NEW j \in DOMAIN channel, channel[j].event = m PROVE FALSE
    <3>1. IsEvent(j)
      BY <2>3, <1>1 DEF IsEvent, TypeOK
    <3>2. currentWatermark < stream[m]
      BY <2>3, <3>1 DEF IInv, AheadOK
    <3> QED BY <3>2, <1>1, <1>14, Streams DEF TypeOK
  <2> QED BY <2>1, <2>2, <2>3 DEF IInv, PlacesOK
<1>19. OnTimeIsCounted'
  <2>1. \A m \in DOMAIN stream : OnTime(m) =>
          /\ m \notin late
          /\ \A i \in DOMAIN printed' :
               printed'[i].window = Start(m) => m \in printed'[i].events
    BY <1>6, <1>8, <1>18 DEF IInv, OnTimeIsCounted, OnTime, Start
  <2> QED BY <2>1, <1>2 DEF OnTimeIsCounted, OnTime, Abstract!OnTime, Start
<1>20. Abstract!Close(WindowStart(stream[n]))
  <2> DEFINE s == WindowStart(stream[n])
  <2>1. s = Start(n) /\ \A m : Abstract!WindowStart(stream[m]) = Start(m)
    BY DEF Start, WindowStart, Abstract!WindowStart
  <2>2. Abstract!Passed(s)
    BY <1>1, <1>14, <2>1, WatermarkMeansPassed
  <2>3. \A i \in DOMAIN printed : printed[i].window < s
    BY <2>1 DEF IInv, OpenOK
  <2>4. \A m : m \in Abstract!EventsOf(s) <=> m \in DOMAIN stream /\ Start(m) = Start(n)
    BY <2>1 DEF Abstract!EventsOf
  <2>5. Abstract!EventsOf(s) \cap late = {}
    BY <2>4 DEF IInv, OpenOK
  <2>6. elements \in (SUBSET Abstract!EventsOf(s)) \ {{}}
    BY <2>4, <1>3, <1>5
  <2>7. \A m \in Abstract!EventsOf(s) : Abstract!OnTime(m) => m \in elements
    BY <2>4, <1>18 DEF OnTime
  <2>8. printed' = Append(printed, [window |-> s, events |-> elements])
    BY <1>2 DEF result
  <2> HIDE DEF s
  <2>9. Abstract!Close(s)
    BY <2>2, <2>3, <2>5, <2>6, <2>7, <2>8, <1>2 DEF Abstract!Close
  <2> QED BY <2>9 DEF s
<1>21. Abstract!Next
  BY <1>1, <1>20, Streams DEF Abstract!Next, WindowStart, Abstract!WindowStart
<1> QED BY <1>9, <1>10, <1>11, <1>13, <1>15, <1>17, <1>19, <1>21 DEF Kept, IInv

LEMMA StutterKeeps == IInv /\ UNCHANGED vars => Kept
BY DEF vars, Kept, IInv, TypeOK, MaxOK, WatermarksOK, AheadOK, PlacesOK, ClosedOK, OpenOK,
       OnTimeIsCounted, IsEvent, OnTime, Counted, Start, LastTick, Abstract!OnTime,
       Abstract!Counted

LEMMA StepsKeep == IInv /\ [Next]_vars => Kept
BY EmitKeeps, PeriodicEmitKeeps, ProcessElementKeeps, ProcessWatermarkKeeps, FireKeeps,
   StutterKeeps DEF Next, Operator

--------------------------------------------------------------------------------
(* Every reachable state is well-typed: the channel never holds more than it *)
(* may, and the result, the side output and the open windows hold only       *)
(* events that came.                                                         *)
THEOREM TypeCorrect == Spec => []TypeOK
<1>1. IInv => TypeOK
  BY DEF IInv
<1>2. Kept => IInv'
  BY DEF Kept
<1> QED BY <1>1, <1>2, InitKeeps, StepsKeep, PTL DEF Spec

(* An event behind those before it by no more than the bound is never late   *)
(* and never missing from the result of its window, whatever the size, the   *)
(* bound, the times and the delays between the two tasks.                    *)
THEOREM OnTimeEventsCount == Spec => []OnTimeIsCounted
<1>1. IInv => OnTimeIsCounted
  BY DEF IInv
<1>2. Kept => IInv'
  BY DEF Kept
<1> QED BY <1>1, <1>2, InitKeeps, StepsKeep, PTL DEF Spec

(* The job implements EventWindows: one result per window, in order, and no  *)
(* event in two places.                                                      *)
THEOREM Implements == Spec => WindowSpec
<1>1. Kept => IInv' /\ [Abstract!Next]_<<stream, printed, late>>
  BY DEF Kept
<1> QED BY <1>1, InitKeeps, StepsKeep, PTL DEF Spec, WindowSpec, Abstract!Spec

--------------------------------------------------------------------------------
(* The last watermark is in the operator or on its way to it.                *)
LastOK ==
    \/ currentWatermark = sent
    \/ \E i \in DOMAIN channel : ~IsEvent(i) /\ channel[i].watermark = sent

LEMMA AppendsKeepLast ==
    ASSUME IInv, LastOK, (\E t \in Times : Emit(t)) \/ PeriodicEmit
    PROVE  LastOK'
<1>1. channel \in Seq(Item)
  BY DEF IInv, TypeOK
<1>2. CASE \E t \in Times : Emit(t)
  <2>1. PICK item \in Item : channel' = Append(channel, item) /\ UNCHANGED <<sent, currentWatermark>>
    <3>1. Len(stream) + 1 \in Nat /\ 0 \in Int
      BY DEF IInv, TypeOK
    <3> QED BY <1>2, <3>1 DEF Emit, Item
  <2>2. \A i \in DOMAIN channel : i \in DOMAIN channel' /\ channel'[i] = channel[i]
    BY <1>1, <2>1, AppendFacts
  <2> QED BY <2>1, <2>2 DEF LastOK, IsEvent
<1>3. CASE PeriodicEmit
  <2> DEFINE item == [event |-> 0, watermark |-> sent']
  <2>1. channel' = Append(channel, item) /\ item \in Item
    <3>1. sent' \in Int
      BY <1>3, WindowsAssumption DEF PeriodicEmit, Watermark, IInv, TypeOK
    <3> QED BY <1>3, <3>1 DEF PeriodicEmit, Item
  <2>2. item.event = 0 /\ item.watermark = sent'
    OBVIOUS
  <2> HIDE DEF item
  <2>3. Len(channel) + 1 \in DOMAIN channel' /\ channel'[Len(channel) + 1] = item
    BY <1>1, <2>1, AppendFacts
  <2> QED BY <2>2, <2>3 DEF LastOK, IsEvent
<1> QED BY <1>2, <1>3

LEMMA TakesKeepLast ==
    ASSUME IInv, LastOK, ProcessElement \/ ProcessWatermark
    PROVE  LastOK'
<1>1. Takes
  BY DEF ProcessElement, ProcessWatermark
<1>2. /\ 1 \in DOMAIN channel /\ Head(channel) = channel[1] /\ sent' = sent
      /\ \A i \in DOMAIN channel : i = 1
           \/ (i - 1 \in DOMAIN channel' /\ channel'[i - 1] = channel[i])
  <2>1. \A i \in DOMAIN channel :
          i = 1 \/ (i \in Int /\ i - 1 \in DOMAIN channel' /\ (i - 1) + 1 = i)
    BY <1>1, Taken
  <2> QED BY <1>1, <2>1, Taken
<1>3. CASE ProcessElement
  <2>1. IsEvent(1) /\ currentWatermark' = currentWatermark
    BY <1>2, <1>3 DEF ProcessElement, IsEvent
  <2> QED BY <1>2, <2>1 DEF LastOK, IsEvent
<1>4. CASE ProcessWatermark
  <2>1. ~IsEvent(1) /\ currentWatermark' = channel[1].watermark
    BY <1>2, <1>4 DEF ProcessWatermark, IsEvent
  <2>2. CASE currentWatermark = sent
    <3>1. channel[1].watermark \in Int /\ sent \in Int
      BY <1>2, Items DEF IInv, TypeOK
    <3>2. currentWatermark <= channel[1].watermark /\ channel[1].watermark <= sent
      BY <1>2, <2>1 DEF IInv, WatermarksOK
    <3> QED BY <1>2, <2>1, <2>2, <3>1, <3>2 DEF LastOK
  <2>3. CASE currentWatermark # sent
    <3>1. PICK i \in DOMAIN channel : ~IsEvent(i) /\ channel[i].watermark = sent
      BY <2>3 DEF LastOK
    <3> QED BY <1>2, <2>1, <3>1 DEF LastOK, IsEvent
  <2> QED BY <2>2, <2>3
<1> QED BY <1>3, <1>4

LEMMA LastKeeps == IInv /\ LastOK /\ [Next]_vars => LastOK'
<1>1. UNCHANGED <<sent, channel, currentWatermark>> /\ LastOK => LastOK'
  BY DEF LastOK, IsEvent
<1> QED BY <1>1, AppendsKeepLast, TakesKeepLast DEF Next, Operator, Fire, vars

(* Nothing is left for the generator and the operator to do. *)
Drained ==
    /\ channel = <<>> /\ \A n \in pending : ~Due(n)
    /\ Watermark(maxTimestamp) <= sent

(* The part of WindowsClose that no fairness is needed for: when the job     *)
(* comes to rest, with or without an end of its source, every event whose    *)
(* window is past by the bound is in a result or in the side output; no      *)
(* window waits for a watermark that is not sent any more.                   *)
THEOREM NoWindowIsForgotten ==
    Spec => [](Drained => \A n \in DOMAIN stream :
                 Abstract!Passed(WindowStart(stream[n])) => n \in late \/ Abstract!Counted(n))
<1>1. ASSUME IInv, LastOK, Drained, NEW n \in DOMAIN stream,
             Abstract!Passed(WindowStart(stream[n])), n \notin late
      PROVE  Abstract!Counted(n)
  <2>1. channel = <<>> /\ currentWatermark = sent
    BY <1>1 DEF Drained, LastOK
  <2>2. PICK m \in DOMAIN stream : stream[m] >= WindowStart(stream[n]) + Size + Bound
    BY <1>1 DEF Abstract!Passed
  <2>3. /\ stream[m] \in Int /\ WindowStart(stream[n]) \in Int /\ maxTimestamp \in Int
        /\ stream[m] <= maxTimestamp /\ currentWatermark \in Int
    BY <1>1, <2>2, Streams DEF IInv, MaxOK, TypeOK, Start
  <2>4. LastTick(n) <= currentWatermark
    BY <1>1, <2>1, <2>2, <2>3, WindowsAssumption DEF Drained, Watermark, LastTick
  <2>5. n \notin pending
    BY <1>1, <2>4 DEF Drained, Due
  <2> QED BY <1>1, <2>1, <2>5 DEF IInv, PlacesOK, Counted
<1>2. IInv /\ LastOK
        => (Drained => \A n \in DOMAIN stream :
              Abstract!Passed(WindowStart(stream[n])) => n \in late \/ Abstract!Counted(n))
  BY <1>1
<1>3. Kept => IInv'
  BY DEF Kept
<1>4. Init => LastOK
  BY DEF Init, LastOK
<1> QED BY <1>2, <1>3, <1>4, InitKeeps, StepsKeep, LastKeeps, PTL DEF Spec
================================================================================
