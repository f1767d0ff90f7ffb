--------------------------- MODULE ExecRelayProofs ---------------------------
(***************************************************************************)
(* Proofs about streamed execs, for every cap, chunk size and output: the  *)
(* controller's half (ExecStream) first, then the way to the caller.       *)
(***************************************************************************)
EXTENDS ExecRelay, TLAPS

EventTypes == Streams \cup {"truncated", "exit", "error"}
Events == [type : EventTypes, from : Nat, to : Nat, code : Codes \cup {"none"},
           intact : BOOLEAN]

\* The events of a stream have got to p.
Reached(s, p) == p \in SentTo(s)

\* The cap has been reached.
Capped == MaxOutputBytes > 0 /\ totalRead >= MaxOutputBytes

\* A drain is to send the truncated event.
Pending(s) == drain[s].pc \in {"send", "mark"} /\ drain[s].mark

\* What a stream has sent or is about to send.
Due(s) == SentTo(s) \cup (IF drain[s].pc = "send" THEN {drain[s].to} ELSE {})

\* Everything is typed.
Typed ==
    /\ proc \in {"none", "running"} \cup Codes
    /\ written \in [Streams -> Nat]
    /\ waited \in BOOLEAN
    /\ drain \in [Streams -> [pc : {"read", "send", "mark", "done"}, read : Nat,
                              from : Nat, to : Nat, mark : BOOLEAN]]
    /\ totalRead \in Nat
    /\ truncated \in BOOLEAN
    /\ open \in BOOLEAN
    /\ events \in Seq(Events)

\* The drains and what has been sent.
Order ==
    \A s \in Streams :
        /\ drain[s].read <= written[s]
        /\ drain[s].pc = "send" =>
              /\ Reached(s, drain[s].from) /\ drain[s].to <= drain[s].read
              /\ drain[s].to = drain[s].read \/ Capped
        /\ drain[s].pc # "send" => Reached(s, drain[s].read) \/ Capped

\* The count under totalMu covers what is sent, and stays below the cap.
Count ==
    /\ MaxOutputBytes > 0 => totalRead <= MaxOutputBytes
    /\ \A a \in Due("stdout"), b \in Due("stderr") : a + b <= totalRead

\* The truncated event is pending once, or sent once.
Mark ==
    /\ Capped => truncated
    /\ truncated => Of("truncated") # {} \/ \E s \in Streams : Pending(s)
    /\ Of("truncated") # {} => truncated /\ \A s \in Streams : ~Pending(s)
    /\ \A s, t \in Streams : Pending(s) /\ Pending(t) => s = t
    /\ \A s \in Streams : Pending(s) => truncated
    /\ \A i, j \in Of("truncated") : i = j

\* A drain that is to send the truncated event has been told to.
Marked == \A s \in Streams : drain[s].pc = "mark" => drain[s].mark

\* Where the handler is.
Stage ==
    /\ waited => proc \in Codes
    /\ proc = "none" => \A s \in Streams : drain[s].pc = "read" /\ drain[s].read = 0
    /\ ~open => \/ proc = "none"
                \/ waited /\ \A s \in Streams : drain[s].pc = "done"

\* How the events end.
Ending ==
    /\ open => Last = {}
    /\ \A i \in Last : i = Len(events)
    /\ ~open => Len(events) \in Last
    /\ \A i \in Of("exit") : \E c \in Codes :
          events[i] = Event("exit", c) /\ (c = "zero" => proc = "zero")

StreamInv == Typed /\ InOrder /\ Order /\ Count /\ Mark /\ Marked /\ Stage /\ Ending

-----------------------------------------------------------------------------
\* What appending an event e to the answer does.
LEMMA AppendEvent ==
    ASSUME Typed, NEW e \in Events, events' = Append(events, e)
    PROVE  /\ events' \in Seq(Events)
           /\ Len(events') = Len(events) + 1
           /\ DOMAIN events = 1..Len(events) /\ DOMAIN events' = 1..(Len(events) + 1)
           /\ events'[Len(events) + 1] = e
           /\ \A i \in 1..Len(events) : events'[i] = events[i]
           /\ Len(events) \in Nat
BY DEF Typed

\* The events made by the drains and the handler are events.
LEMMA EventsTyped ==
    /\ \A s \in Streams : \A a, b \in Nat : DataEvent(s, a, b) \in Events
    /\ \A t \in EventTypes \ Streams : \A c \in Codes \cup {"none"} : Event(t, c) \in Events
<1>1. ASSUME NEW s \in Streams, NEW a \in Nat, NEW b \in Nat
      PROVE  DataEvent(s, a, b) \in Events
  <2>1. (a % CharLen = 0 /\ b % CharLen = 0) \in BOOLEAN
    OBVIOUS
  <2> QED BY <2>1, Zenon DEF DataEvent, Events, EventTypes
<1>2. ASSUME NEW t \in EventTypes \ Streams, NEW c \in Codes \cup {"none"}
      PROVE  Event(t, c) \in Events
  BY DEF Event, Events, EventTypes
<1> QED BY <1>1, <1>2

LEMMA AppendSets ==
    ASSUME Typed, NEW e \in Events, events' = Append(events, e)
    PROVE  /\ \A t \in EventTypes :
                Of(t)' = Of(t) \cup (IF e.type = t THEN {Len(events) + 1} ELSE {})
           /\ \A s \in Streams :
                SentTo(s)' = SentTo(s) \cup (IF e.type = s THEN {e.to} ELSE {})
           /\ Last' = Last \cup (IF e.type \in {"exit", "error"}
                                 THEN {Len(events) + 1} ELSE {})
<1>1. ASSUME NEW t \in EventTypes
      PROVE  Of(t)' = Of(t) \cup (IF e.type = t THEN {Len(events) + 1} ELSE {})
  BY AppendEvent DEF Of
<1>2. ASSUME NEW s \in Streams
      PROVE  SentTo(s)' = SentTo(s) \cup (IF e.type = s THEN {e.to} ELSE {})
  <2>1. s \in EventTypes
    BY DEF EventTypes
  <2>2. Of(s)' = Of(s) \cup (IF e.type = s THEN {Len(events) + 1} ELSE {})
    BY <1>1, <2>1
  <2>3. \A i \in Of(s) : events'[i] = events[i]
    BY AppendEvent DEF Of
  <2>4. \A i \in Of(s) : events[i].to = events'[i].to
    BY <2>3
  <2>5. SentTo(s)' = {0} \cup {events'[i].to : i \in Of(s)'}
    BY DEF SentTo
  <2>6. {events'[i].to : i \in Of(s)} = {events[i].to : i \in Of(s)}
    BY <2>4
  <2>7. CASE e.type = s
    <3>1. events'[Len(events) + 1].to = e.to
      BY AppendEvent
    <3>2. Of(s)' = Of(s) \cup {Len(events) + 1}
      BY <2>2, <2>7
    <3>3. {events'[i].to : i \in Of(s)'} = {events'[i].to : i \in Of(s)} \cup {e.to}
      BY <3>1, <3>2
    <3> QED BY <2>5, <2>6, <2>7, <3>3 DEF SentTo
  <2>8. CASE e.type # s
    <3>1. Of(s)' = Of(s)
      BY <2>2, <2>8
    <3> QED BY <2>5, <2>6, <2>8, <3>1 DEF SentTo
  <2> QED BY <2>7, <2>8
<1>3. Last' = Last \cup (IF e.type \in {"exit", "error"} THEN {Len(events) + 1} ELSE {})
  BY AppendEvent DEF Last
<1> QED BY <1>1, <1>2, <1>3

\* An event that carries no output leaves the streams alone.
LEMMA AppendOther ==
    ASSUME Typed, NEW e \in Events, events' = Append(events, e), e.type \notin Streams
    PROVE  /\ \A s \in Streams : Of(s)' = Of(s) /\ SentTo(s)' = SentTo(s)
           /\ \A t \in {"truncated", "exit"} : t # e.type => Of(t)' = Of(t)
           /\ \A i \in 1..Len(events) : events'[i] = events[i]
<1>1. ASSUME NEW s \in Streams PROVE Of(s)' = Of(s) /\ SentTo(s)' = SentTo(s)
  <2>1. s \in EventTypes /\ e.type # s
    BY DEF EventTypes
  <2>2. Of(s)' = Of(s) \cup (IF e.type = s THEN {Len(events) + 1} ELSE {})
    BY <2>1, AppendSets
  <2>3. SentTo(s)' = SentTo(s) \cup (IF e.type = s THEN {e.to} ELSE {})
    BY AppendSets
  <2> QED BY <2>1, <2>2, <2>3
<1>2. ASSUME NEW t \in {"truncated", "exit"}, t # e.type PROVE Of(t)' = Of(t)
  <2>1. t \in EventTypes
    BY DEF EventTypes
  <2>2. Of(t)' = Of(t) \cup (IF e.type = t THEN {Len(events) + 1} ELSE {})
    BY <2>1, AppendSets
  <2> QED BY <1>2, <2>2
<1> QED BY <1>1, <1>2, AppendEvent

\* The sets of positions are made of positions.
LEMMA Positions ==
    ASSUME Typed
    PROVE  /\ \A t \in EventTypes : Of(t) \subseteq 1..Len(events)
           /\ Last \subseteq 1..Len(events)
           /\ \A s \in Streams : SentTo(s) \subseteq Nat /\ 0 \in SentTo(s)
           /\ Len(events) \in Nat
<1>1. Len(events) \in Nat /\ DOMAIN events = 1..Len(events)
  BY DEF Typed
<1>2. \A i \in DOMAIN events : events[i] \in Events
  BY DEF Typed
<1>3. ASSUME NEW s \in Streams
      PROVE  SentTo(s) \subseteq Nat /\ 0 \in SentTo(s)
  BY <1>2 DEF SentTo, Of, Events
<1> QED BY <1>1, <1>3 DEF Of, Last

-----------------------------------------------------------------------------
\* The answer is left alone by a step that does not touch events.
LEMMA SameEvents ==
    ASSUME UNCHANGED events
    PROVE  /\ \A t : Of(t)' = Of(t)
           /\ \A s : SentTo(s)' = SentTo(s)
           /\ Last' = Last
BY DEF Of, SentTo, Last

\* A drain's read under totalMu: what it grants.
LEMMA Grant ==
    ASSUME Typed, Order, Count, NEW s \in Streams, NEW n \in Nat \ {0}
    PROVE  /\ Accepted(n) \in 0..n
           /\ Accepted(n) > 0 => ~Capped
           /\ Accepted(n) < n => MaxOutputBytes > 0 /\ totalRead + Accepted(n) >= MaxOutputBytes
           /\ MaxOutputBytes > 0 => totalRead + Accepted(n) <= MaxOutputBytes
BY SizesAssumption DEF Accepted, Room, Smaller, Typed, Count, Capped

\* Steps that leave the drains and the answer alone: the command runs, and
\* Wait returns.
LEMMA QuietStep ==
    ASSUME StreamInv, UNCHANGED <<drain, totalRead, truncated, events, open>>,
           Typed', Stage',
           \A s \in Streams : written[s] <= written'[s],
           proc \in Codes => proc' = proc
    PROVE  StreamInv'
<1> USE SameEvents DEF StreamInv
<1>1. InOrder'
  <2> SUFFICES ASSUME NEW s \in Streams, NEW i \in Of(s)
               PROVE  events[i].to <= written'[s]
    BY DEF InOrder
  <2>1. events[i].to <= written[s] /\ written[s] <= written'[s]
    BY DEF InOrder
  <2>2. events[i] \in Events
    BY DEF Typed, Of
  <2>3. events[i].to \in Nat
    BY <2>2 DEF Events
  <2>4. written[s] \in Nat /\ written'[s] \in Nat
    BY DEF Typed
  <2> QED BY <2>1, <2>3, <2>4
<1>2. Order'
  <2>1. \A s \in Streams : drain[s].read \in Nat /\ written[s] \in Nat /\ written'[s] \in Nat
    BY DEF Typed
  <2> QED BY <2>1 DEF Order, Reached, Capped
<1>3. Count'
  BY DEF Count, Due
<1>4. Mark' /\ Marked'
  BY DEF Mark, Marked, Pending, Capped
<1>5. Ending'
  BY DEF Ending, Typed
<1> QED BY <1>1, <1>2, <1>3, <1>4, <1>5

LEMMA StartStep == ASSUME StreamInv, Start PROVE StreamInv'
<1>1. CASE proc' = "running" /\ UNCHANGED <<events, open>>
  <2>1. Typed' /\ Stage'
    BY <1>1 DEF Start, StreamInv, Typed, Stage, Codes
  <2>2. \A s \in Streams : written[s] <= written'[s]
    BY DEF Start, StreamInv, Typed
  <2> QED BY <1>1, <2>1, <2>2, QuietStep DEF Start, Codes
<1>2. CASE events' = Append(events, Event("error", "none")) /\ open' = FALSE /\ UNCHANGED proc
  <2> DEFINE e == Event("error", "none")
  <2>0. e \in Events /\ e.type = "error" /\ events' = Append(events, e)
    BY <1>2, EventsTyped DEF Event, EventTypes, Streams, Codes
  <2> HIDE DEF e
  <2>1. Typed'
    BY <1>2, <2>0, AppendEvent DEF Start, StreamInv, Typed
  <2>2. /\ \A s \in Streams : Of(s)' = Of(s) /\ SentTo(s)' = SentTo(s)
        /\ Of("truncated")' = Of("truncated") /\ Of("exit")' = Of("exit")
        /\ Last' = Last \cup {Len(events) + 1}
    BY <2>0, AppendSets, AppendOther DEF StreamInv, Streams
  <2>3. \A i \in 1..Len(events) : events'[i] = events[i]
    BY <2>0, AppendEvent DEF StreamInv
  <2>4. InOrder'
    BY <2>2, <2>3, Positions DEF Start, StreamInv, InOrder, EventTypes
  <2>5. Order' /\ Count'
    BY <2>2 DEF Start, StreamInv, Order, Count, Due, Reached, Capped, Streams
  <2>6. Mark' /\ Marked'
    BY <2>2 DEF Start, StreamInv, Mark, Marked, Pending, Capped
  <2>7. Stage'
    BY <1>2 DEF Start, StreamInv, Stage
  <2>8. Ending'
    <3>1. Last' = {Len(events)'}
      BY <2>2, <2>0, AppendEvent DEF Start, StreamInv, Ending
    <3>2. \A i \in Of("exit") : i \in 1..Len(events)
      BY Positions DEF StreamInv, EventTypes
    <3> QED BY <1>2, <2>2, <2>3, <3>1, <3>2 DEF StreamInv, Ending
  <2> QED BY <2>1, <2>4, <2>5, <2>6, <2>7, <2>8 DEF StreamInv
<1> QED BY <1>1, <1>2 DEF Start

LEMMA CommandStep ==
    ASSUME StreamInv,
           (\E s \in Streams : Write(s)) \/ (\E code \in Codes : Exit(code)) \/ Wait
    PROVE  StreamInv'
<1>1. CASE \E s \in Streams : Write(s)
  <2> PICK s \in Streams : Write(s)
    BY <1>1
  <2>1. Typed' /\ \A t \in Streams : written[t] <= written'[t]
    BY DEF Write, StreamInv, Typed
  <2>2. Stage'
    BY DEF Write, StreamInv, Stage
  <2> QED BY <2>1, <2>2, QuietStep DEF Write
<1>2. CASE \E code \in Codes : Exit(code)
  <2> PICK code \in Codes : Exit(code)
    BY <1>2
  <2>1. Typed' /\ Stage' /\ proc \notin Codes
    BY DEF Exit, StreamInv, Typed, Stage, Codes
  <2>2. \A s \in Streams : written[s] <= written'[s]
    BY DEF Exit, StreamInv, Typed
  <2> QED BY <2>1, <2>2, QuietStep DEF Exit
<1>3. CASE Wait
  <2>1. Typed' /\ Stage'
    BY <1>3 DEF Wait, Exited, StreamInv, Typed, Stage
  <2>2. \A s \in Streams : written[s] <= written'[s]
    BY <1>3 DEF Wait, StreamInv, Typed
  <2> QED BY <1>3, <2>1, <2>2, QuietStep DEF Wait
<1> QED BY <1>1, <1>2, <1>3

\* A drain that reads n bytes and is granted ok of them.
LEMMA ReadStep ==
    ASSUME StreamInv, NEW s \in Streams, NEW n \in 1..ChunkSize, Read(s, n)
    PROVE  StreamInv'
<1> DEFINE ok == Accepted(n)
           d == drain[s]
           mark == AtCap(ok)
<1>1. /\ Typed /\ InOrder /\ Order /\ Count /\ Mark /\ Stage /\ Ending
      /\ d.pc = "read" /\ proc # "none" /\ ~waited
      /\ n <= written[s] - d.read
      /\ UNCHANGED <<proc, written, waited, events, open>>
  <2>1. n \in 1..Smaller(ChunkSize, written[s] - d.read)
    BY DEF Read
  <2>2. written[s] - d.read \in Int /\ ChunkSize \in Int
    BY SizesAssumption DEF StreamInv, Typed
  <2>3. n <= written[s] - d.read
    BY <2>1, <2>2 DEF Smaller
  <2> QED BY <2>3 DEF Read, StreamInv
<1>2. /\ totalRead' = totalRead + ok
      /\ truncated' = (truncated \/ mark)
      /\ drain' = [drain EXCEPT ![s] =
                      [pc |-> IF ok > 0 THEN "send" ELSE "read", read |-> d.read + n,
                       from |-> d.read, to |-> d.read + ok, mark |-> mark]]
  BY DEF Read, Take, Taken
<1>3. n \in Nat \ {0} /\ ChunkSize \in Nat
  BY SizesAssumption
<1>4. /\ ok \in 0..n
      /\ ok > 0 => ~Capped
      /\ ok < n => MaxOutputBytes > 0 /\ totalRead + ok >= MaxOutputBytes
      /\ MaxOutputBytes > 0 => totalRead + ok <= MaxOutputBytes
  BY <1>1, <1>3, Grant
<1>5. mark \in BOOLEAN /\ (mark => ok > 0)
  BY DEF AtCap
<1>6. mark <=> MaxOutputBytes > 0 /\ ok > 0 /\ totalRead + ok >= MaxOutputBytes /\ ~truncated
  BY DEF AtCap
<1> HIDE DEF ok, mark
<1>7. d.read \in Nat /\ written[s] \in Nat /\ totalRead \in Nat /\ ok \in Nat /\ MaxOutputBytes \in Nat
  BY <1>1, <1>4, SizesAssumption DEF Typed
<1>8. /\ drain'[s].pc = (IF ok > 0 THEN "send" ELSE "read") /\ drain'[s].read = d.read + n
      /\ drain'[s].from = d.read /\ drain'[s].to = d.read + ok /\ drain'[s].mark = mark
      /\ \A t \in Streams \ {s} : drain'[t] = drain[t]
  BY <1>1, <1>2 DEF Typed
<1>9. Typed'
  BY <1>1, <1>2, <1>3, <1>5, <1>7 DEF Typed
<1>10. InOrder'
  BY <1>1, SameEvents DEF InOrder
<1>11. Capped => Capped'
  BY <1>2, <1>7 DEF Capped
<1>12. \A t \in Streams : SentTo(t)' = SentTo(t)
  BY <1>1, SameEvents
<1>13. Order'
  <2> SUFFICES ASSUME NEW t \in Streams
               PROVE  /\ drain'[t].read <= written'[t]
                      /\ drain'[t].pc = "send" =>
                            /\ drain'[t].from \in SentTo(t) /\ drain'[t].to <= drain'[t].read
                            /\ drain'[t].to = drain'[t].read \/ Capped'
                      /\ drain'[t].pc # "send" => drain'[t].read \in SentTo(t) \/ Capped'
    BY <1>12 DEF Order, Reached
  <2>1. CASE t # s
    BY <2>1, <1>1, <1>8, <1>11 DEF Order, Reached
  <2>2. CASE t = s
    <3>1. d.read \in SentTo(s) \/ Capped
      BY <1>1 DEF Order, Reached
    <3>2. ok < n => Capped'
      BY <1>2, <1>4 DEF Capped
    <3>3. d.read + n <= written[s]
      BY <1>1, <1>3, <1>7
    <3>4. d.read + ok <= d.read + n /\ (ok = n \/ ok < n)
      BY <1>3, <1>4, <1>7
    <3> QED BY <2>2, <3>1, <3>2, <3>3, <3>4, <1>1, <1>4, <1>8, <1>3, <1>7
  <2> QED BY <2>1, <2>2
<1>14. Count'
  <2>1. MaxOutputBytes > 0 => totalRead' <= MaxOutputBytes
    BY <1>2, <1>4
  <2>2. \A t \in Streams : Due(t) \subseteq Nat /\ SentTo(t) \subseteq Due(t)
    BY <1>1, Positions DEF Due, Typed
  <2>3. \A t \in Streams \ {s} : Due(t)' = Due(t)
    BY <1>8, <1>12 DEF Due
  <2>4. Due(s)' = Due(s) \cup (IF ok > 0 THEN {d.read + ok} ELSE {})
    BY <1>1, <1>8, <1>12 DEF Due
  <2>5. ok > 0 => d.read \in Due(s)
    BY <1>1, <1>4, <2>2 DEF Order, Reached
  <2>6. ASSUME NEW a \in Due("stdout")', NEW b \in Due("stderr")'
        PROVE  a + b <= totalRead'
    <3>1. \A x \in Due("stdout"), y \in Due("stderr") : x + y <= totalRead
      BY <1>1 DEF Count
    <3>2. CASE s = "stdout"
      <4>1. b \in Due("stderr") /\ b \in Nat
        BY <3>2, <2>2, <2>3 DEF Streams
      <4>2. a \in Due("stdout") \/ (ok > 0 /\ a = d.read + ok)
        BY <3>2, <2>4
      <4>3. CASE a \in Due("stdout")
        <5>1. a + b <= totalRead /\ a \in Nat
          BY <4>1, <4>3, <3>1, <2>2 DEF Streams
        <5> QED BY <5>1, <4>1, <1>2, <1>7
      <4>4. CASE ok > 0 /\ a = d.read + ok
        <5>1. d.read + b <= totalRead
          BY <3>1, <3>2, <4>1, <4>4, <2>5
        <5> QED BY <5>1, <4>1, <4>4, <1>2, <1>7
      <4> QED BY <4>2, <4>3, <4>4
    <3>3. CASE s = "stderr"
      <4>1. a \in Due("stdout") /\ a \in Nat
        BY <3>3, <2>2, <2>3 DEF Streams
      <4>2. b \in Due("stderr") \/ (ok > 0 /\ b = d.read + ok)
        BY <3>3, <2>4
      <4>3. CASE b \in Due("stderr")
        <5>1. a + b <= totalRead /\ b \in Nat
          BY <4>1, <4>3, <3>1, <2>2 DEF Streams
        <5> QED BY <5>1, <4>1, <1>2, <1>7
      <4>4. CASE ok > 0 /\ b = d.read + ok
        <5>1. a + d.read <= totalRead
          BY <3>1, <3>3, <4>1, <4>4, <2>5
        <5> QED BY <5>1, <4>1, <4>4, <1>2, <1>7
      <4> QED BY <4>2, <4>3, <4>4
    <3> QED BY <3>2, <3>3 DEF Streams
  <2> QED BY <2>1, <2>6 DEF Count
<1>15. Mark'
  <2>1. Of("truncated")' = Of("truncated")
    BY <1>1, SameEvents
  <2>2. \A t \in Streams \ {s} : Pending(t)' = Pending(t)
    BY <1>8 DEF Pending
  <2>3. ~Pending(s) /\ (Pending(s)' <=> mark)
    BY <1>1, <1>5, <1>8 DEF Pending
  <2>4. Capped' => truncated'
    <3>1. Capped' => Capped \/ (MaxOutputBytes > 0 /\ ok > 0 /\ totalRead + ok >= MaxOutputBytes)
      BY <1>2, <1>7 DEF Capped
    <3> QED BY <3>1, <1>1, <1>2, <1>6 DEF Mark
  <2>5. mark => ~truncated
    BY <1>6
  <2> QED BY <2>1, <2>2, <2>3, <2>4, <2>5, <1>1, <1>2 DEF Mark
<1>16. Stage'
  BY <1>1, <1>8 DEF Stage, Typed
<1>17. Ending'
  BY <1>1, SameEvents DEF Ending
<1>18. Marked'
  BY <1>8 DEF StreamInv, Marked
<1> QED BY <1>9, <1>10, <1>13, <1>14, <1>15, <1>16, <1>17, <1>18 DEF StreamInv

\* A drain that meets the end of its pipe.
LEMMA EOFStep == ASSUME StreamInv, NEW s \in Streams, EOF(s) PROVE StreamInv'
<1>1. /\ drain'[s].pc = "done" /\ drain'[s].read = drain[s].read
      /\ \A t \in Streams \ {s} : drain'[t] = drain[t]
      /\ drain[s].pc = "read" /\ proc # "none"
  <2>1. proc # "none"
    BY DEF EOF, Exited, Codes, StreamInv, Stage
  <2> QED BY <2>1 DEF EOF, StreamInv, Typed
<1>2. UNCHANGED <<proc, written, waited, totalRead, truncated, events, open>>
  BY DEF EOF
<1>3. Typed'
  BY DEF EOF, StreamInv, Typed
<1>4. InOrder' /\ Ending'
  BY <1>2, SameEvents DEF StreamInv, InOrder, Ending
<1>5. Order'
  BY <1>1, <1>2, SameEvents DEF StreamInv, Order, Reached, Capped
<1>6. \A t \in Streams : Due(t)' = Due(t) /\ Pending(t)' = Pending(t)
  BY <1>1, <1>2, SameEvents DEF Due, Pending
<1>7. Count'
  BY <1>2, <1>6 DEF StreamInv, Count, Streams
<1>8. Mark'
  BY <1>2, <1>6, SameEvents DEF StreamInv, Mark, Capped
<1>9. Stage' /\ Marked'
  BY <1>1, <1>2 DEF StreamInv, Stage, Marked
<1> QED BY <1>3, <1>4, <1>5, <1>7, <1>8, <1>9 DEF StreamInv

\* A drain that sends its data.
LEMMA SendStep == ASSUME StreamInv, NEW s \in Streams, Send(s) PROVE StreamInv'
<1> DEFINE d == drain[s]
           e == DataEvent(s, d.from, d.to)
<1>1. d \in [pc : {"read", "send", "mark", "done"}, read : Nat,
              from : Nat, to : Nat, mark : BOOLEAN]
  BY DEF StreamInv, Typed
<1>2. /\ e \in Events /\ e.type = s /\ e.from = d.from /\ e.to = d.to
      /\ events' = Append(events, e)
  <2>1. e \in Events
    BY <1>1, EventsTyped
  <2> QED BY <2>1 DEF DataEvent, Send
<1> HIDE DEF e
<1>3. /\ drain'[s].pc = (IF d.mark THEN "mark" ELSE "read")
      /\ drain'[s].read = d.read /\ drain'[s].mark = d.mark
      /\ \A t \in Streams \ {s} : drain'[t] = drain[t]
      /\ d.pc = "send" /\ proc # "none" /\ open
  BY DEF Send, StreamInv, Typed, Stage
<1>4. UNCHANGED <<proc, written, waited, totalRead, truncated, open>>
  BY DEF Send
<1>5. Typed'
  <2>1. drain' \in [Streams -> [pc : {"read", "send", "mark", "done"}, read : Nat,
                                from : Nat, to : Nat, mark : BOOLEAN]]
    BY DEF Send, StreamInv, Typed
  <2> QED BY <2>1, <1>2, <1>4, AppendEvent DEF StreamInv, Typed
<1>6. /\ Of(s)' = Of(s) \cup {Len(events) + 1}
      /\ SentTo(s)' = SentTo(s) \cup {d.to}
      /\ Last' = Last
      /\ Of("truncated")' = Of("truncated") /\ Of("exit")' = Of("exit")
      /\ \A t \in Streams \ {s} : Of(t)' = Of(t) /\ SentTo(t)' = SentTo(t)
  <2>1. \A t \in EventTypes :
           Of(t)' = Of(t) \cup (IF e.type = t THEN {Len(events) + 1} ELSE {})
    BY <1>2, AppendSets DEF StreamInv
  <2>2. \A t \in Streams : SentTo(t)' = SentTo(t) \cup (IF e.type = t THEN {e.to} ELSE {})
    BY <1>2, AppendSets DEF StreamInv
  <2>3. Last' = Last \cup (IF e.type \in {"exit", "error"} THEN {Len(events) + 1} ELSE {})
    BY <1>2, AppendSets DEF StreamInv
  <2>4. e.type # "exit" /\ e.type # "error" /\ e.type # "truncated"
    BY <1>2 DEF Streams
  <2>5. /\ Of("truncated")' = Of("truncated") \cup
               (IF e.type = "truncated" THEN {Len(events) + 1} ELSE {})
        /\ Of("exit")' = Of("exit") \cup (IF e.type = "exit" THEN {Len(events) + 1} ELSE {})
        /\ Of(s)' = Of(s) \cup (IF e.type = s THEN {Len(events) + 1} ELSE {})
    BY <2>1 DEF EventTypes
  <2>6. ASSUME NEW t \in Streams \ {s}
        PROVE  Of(t)' = Of(t) /\ SentTo(t)' = SentTo(t)
    <3>1. /\ Of(t)' = Of(t) \cup (IF e.type = t THEN {Len(events) + 1} ELSE {})
          /\ SentTo(t)' = SentTo(t) \cup (IF e.type = t THEN {e.to} ELSE {})
      BY <2>1, <2>2 DEF EventTypes
    <3> QED BY <3>1, <1>2
  <2> QED BY <1>2, <2>2, <2>3, <2>4, <2>5, <2>6
<1>7. /\ \A i \in 1..Len(events) : events'[i] = events[i]
      /\ events'[Len(events) + 1] = e /\ Len(events) \in Nat
      /\ Len(events') = Len(events) + 1
  BY <1>2, AppendEvent DEF StreamInv
<1>8. \A t \in EventTypes : Of(t) \subseteq 1..Len(events)
  BY Positions DEF StreamInv
<1>9. d.from \in SentTo(s) /\ d.to <= d.read /\ d.read <= written[s]
  BY <1>3 DEF StreamInv, Order, Reached
<1>10. InOrder'
  <2> SUFFICES ASSUME NEW t \in Streams, NEW i \in Of(t)'
               PROVE  /\ events'[i].to <= written[t]
                      /\ events'[i].from = 0
                           \/ \E j \in Of(t)' : j < i /\ events'[j].to = events'[i].from
    BY <1>4 DEF InOrder
  <2>1. CASE i \in Of(t)
    <3>1. i \in 1..Len(events) /\ \A j \in Of(t) : j \in 1..Len(events)
      BY <1>8, <2>1 DEF EventTypes
    <3>2. Of(t) \subseteq Of(t)'
      BY <1>6
    <3>3. /\ events[i].to <= written[t]
          /\ events[i].from = 0 \/ \E j \in Of(t) : j < i /\ events[j].to = events[i].from
      BY <2>1 DEF StreamInv, InOrder
    <3> QED BY <1>7, <3>1, <3>2, <3>3
  <2>2. CASE t = s /\ i = Len(events) + 1
    <3>1. events'[i].to = d.to /\ events'[i].from = d.from
      BY <1>2, <1>7, <2>2
    <3>2. d.to <= written[s]
      BY <1>1, <1>9 DEF StreamInv, Typed
    <3>3. d.from = 0 \/ \E j \in Of(s) : events[j].to = d.from
      BY <1>9 DEF SentTo
    <3>4. ASSUME NEW j \in Of(s), events[j].to = d.from
          PROVE  j \in Of(s)' /\ j < i /\ events'[j].to = d.from
      <4>1. j \in 1..Len(events)
        BY <1>8 DEF EventTypes
      <4> QED BY <4>1, <3>4, <1>6, <1>7, <2>2
    <3> QED BY <2>2, <3>1, <3>2, <3>3, <3>4
  <2> QED BY <1>6, <2>1, <2>2
<1>11. Order'
  <2> SUFFICES ASSUME NEW t \in Streams
               PROVE  /\ drain'[t].read <= written[t]
                      /\ drain'[t].pc = "send" =>
                            /\ drain'[t].from \in SentTo(t)' /\ drain'[t].to <= drain'[t].read
                            /\ drain'[t].to = drain'[t].read \/ Capped
                      /\ drain'[t].pc # "send" => drain'[t].read \in SentTo(t)' \/ Capped
    BY <1>4 DEF Order, Reached, Capped
  <2>1. CASE t # s
    BY <2>1, <1>3, <1>6 DEF StreamInv, Order, Reached
  <2>2. CASE t = s
    <3>1. d.to = d.read \/ Capped
      BY <1>3 DEF StreamInv, Order
    <3> QED BY <2>2, <3>1, <1>3, <1>6, <1>9
  <2> QED BY <2>1, <2>2
<1>12. \A t \in Streams : Due(t)' = Due(t)
  <2>1. Due(s)' = Due(s)
    BY <1>3, <1>6 DEF Due
  <2>2. \A t \in Streams \ {s} : Due(t)' = Due(t)
    BY <1>3, <1>6 DEF Due
  <2> QED BY <2>1, <2>2
<1>13. Count'
  BY <1>4, <1>12 DEF StreamInv, Count, Streams
<1>14. \A t \in Streams : Pending(t)' = Pending(t)
  BY <1>1, <1>3 DEF Pending
<1>15. Mark'
  BY <1>4, <1>6, <1>14 DEF StreamInv, Mark, Capped
<1>16. Stage'
  BY <1>3, <1>4 DEF StreamInv, Stage
<1>17. Ending'
  <2>1. \A i \in Of("exit") : events'[i] = events[i]
    BY <1>7, <1>8 DEF EventTypes
  <2> QED BY <2>1, <1>3, <1>4, <1>6 DEF StreamInv, Ending
<1>18. Marked'
  BY <1>1, <1>3 DEF StreamInv, Marked
<1> QED BY <1>5, <1>10, <1>11, <1>13, <1>15, <1>16, <1>17, <1>18 DEF StreamInv

\* A drain that sends the truncated event.
LEMMA SendTruncatedStep ==
    ASSUME StreamInv, NEW s \in Streams, SendTruncated(s)
    PROVE  StreamInv'
<1> DEFINE e == Event("truncated", "none")
<1>1. e \in Events /\ e.type = "truncated" /\ events' = Append(events, e)
  BY EventsTyped DEF Event, EventTypes, Streams, Codes, SendTruncated
<1> HIDE DEF e
<1>2. /\ drain'[s].pc = "read" /\ drain'[s].read = drain[s].read /\ ~drain'[s].mark
      /\ \A t \in Streams \ {s} : drain'[t] = drain[t]
      /\ drain[s].pc = "mark" /\ proc # "none" /\ open
  BY DEF SendTruncated, StreamInv, Typed, Stage
<1>3. UNCHANGED <<proc, written, waited, totalRead, truncated, open>>
  BY DEF SendTruncated
<1>4. Typed'
  <2>1. drain' \in [Streams -> [pc : {"read", "send", "mark", "done"}, read : Nat,
                                from : Nat, to : Nat, mark : BOOLEAN]]
    BY DEF SendTruncated, StreamInv, Typed
  <2> QED BY <2>1, <1>1, <1>3, AppendEvent DEF StreamInv, Typed
<1>5. /\ \A t \in Streams : Of(t)' = Of(t) /\ SentTo(t)' = SentTo(t)
      /\ Of("exit")' = Of("exit") /\ Last' = Last
      /\ Of("truncated")' = Of("truncated") \cup {Len(events) + 1}
      /\ \A i \in 1..Len(events) : events'[i] = events[i]
  <2>1. e.type \notin Streams
    BY <1>1 DEF Streams
  <2>2. Last' = Last \cup (IF e.type \in {"exit", "error"} THEN {Len(events) + 1} ELSE {})
    BY <1>1, AppendSets DEF StreamInv
  <2>3. Of("truncated")' = Of("truncated") \cup
           (IF e.type = "truncated" THEN {Len(events) + 1} ELSE {})
    BY <1>1, AppendSets DEF StreamInv, EventTypes
  <2>4. Of("exit")' = Of("exit")
    BY <1>1, <2>1, AppendOther DEF StreamInv
  <2>5. \A t \in Streams : Of(t)' = Of(t) /\ SentTo(t)' = SentTo(t)
    BY <1>1, <2>1, AppendOther DEF StreamInv
  <2>6. \A i \in 1..Len(events) : events'[i] = events[i]
    BY <1>1, AppendEvent DEF StreamInv
  <2> QED BY <1>1, <2>2, <2>3, <2>4, <2>5, <2>6
<1>6. \A t \in EventTypes : Of(t) \subseteq 1..Len(events)
  BY Positions DEF StreamInv
<1>7. InOrder'
  BY <1>3, <1>5, <1>6 DEF StreamInv, InOrder, EventTypes
<1>8. Order'
  BY <1>2, <1>3, <1>5 DEF StreamInv, Order, Reached, Capped
<1>9. \A t \in Streams : Due(t)' = Due(t)
  BY <1>2, <1>5 DEF Due
<1>10. Count'
  BY <1>3, <1>9 DEF StreamInv, Count, Streams
<1>11. Mark'
  <2>1. Pending(s)
    <3>1. drain[s].mark
      BY <1>2 DEF StreamInv, Marked
    <3> QED BY <1>2, <3>1 DEF Pending
  <2>2. truncated /\ Of("truncated") = {}
    BY <2>1 DEF StreamInv, Mark
  <2>3. ~Pending(s)' /\ \A t \in Streams \ {s} : Pending(t)' = Pending(t) /\ ~Pending(t)
    BY <1>2, <2>1 DEF StreamInv, Mark, Pending
  <2> QED BY <2>2, <2>3, <1>3, <1>5 DEF Mark
<1>12. Stage'
  BY <1>2, <1>3 DEF StreamInv, Stage
<1>13. Ending'
  <2>1. \A i \in Of("exit") : events'[i] = events[i]
    BY <1>5, <1>6 DEF EventTypes
  <2> QED BY <2>1, <1>2, <1>3, <1>5 DEF StreamInv, Ending
<1>14. Marked'
  BY <1>2 DEF StreamInv, Marked
<1> QED BY <1>4, <1>7, <1>8, <1>10, <1>11, <1>12, <1>13, <1>14 DEF StreamInv

\* The handler's last event.
LEMMA FinishStep == ASSUME StreamInv, Finish PROVE StreamInv'
<1> PICK e \in LastEvents : events' = Append(events, e)
  BY DEF Finish
<1>1. /\ UNCHANGED <<proc, written, waited, drain, totalRead, truncated>>
      /\ waited /\ open /\ open' = FALSE /\ proc \in Codes
      /\ \A s \in Streams : drain[s].pc = "done"
  BY DEF Finish, StreamInv, Stage
<1>2. /\ e \in Events /\ e.type \in {"exit", "error"}
      /\ e.type = "exit" => \E c \in Codes :
                              e = Event("exit", c) /\ (c = "zero" => proc = "zero")
  <2>1. e = Event("exit", proc) \/ e = Event("exit", "nonzero") \/ e = Event("error", "none")
    BY DEF LastEvents
  <2>2. e \in Events
    BY <2>1, <1>1, EventsTyped DEF EventTypes, Streams, Codes
  <2> QED BY <2>1, <2>2, <1>1 DEF Event, Codes
<1>3. Typed'
  BY <1>1, <1>2, AppendEvent DEF StreamInv, Typed
<1>4. /\ \A t \in Streams : Of(t)' = Of(t) /\ SentTo(t)' = SentTo(t)
      /\ Of("truncated")' = Of("truncated") /\ Last' = Last \cup {Len(events) + 1}
      /\ Of("exit")' = Of("exit") \cup (IF e.type = "exit" THEN {Len(events) + 1} ELSE {})
      /\ \A i \in 1..Len(events) : events'[i] = events[i]
      /\ events'[Len(events) + 1] = e /\ Len(events') = Len(events) + 1
  <2>1. e.type \notin Streams /\ e.type # "truncated"
    BY <1>2 DEF Streams
  <2>2. Last' = Last \cup (IF e.type \in {"exit", "error"} THEN {Len(events) + 1} ELSE {})
    BY <1>2, AppendSets DEF StreamInv
  <2>3. Of("exit")' = Of("exit") \cup (IF e.type = "exit" THEN {Len(events) + 1} ELSE {})
    BY <1>2, AppendSets DEF StreamInv, EventTypes
  <2>4. Of("truncated")' = Of("truncated")
    BY <1>2, <2>1, AppendOther DEF StreamInv
  <2>5. \A t \in Streams : Of(t)' = Of(t) /\ SentTo(t)' = SentTo(t)
    BY <1>2, <2>1, AppendOther DEF StreamInv
  <2>6. /\ \A i \in 1..Len(events) : events'[i] = events[i]
        /\ events'[Len(events) + 1] = e /\ Len(events') = Len(events) + 1
    BY <1>2, AppendEvent DEF StreamInv
  <2> QED BY <1>2, <2>2, <2>3, <2>4, <2>5, <2>6
<1>5. \A t \in EventTypes : Of(t) \subseteq 1..Len(events)
  BY Positions DEF StreamInv
<1>6. InOrder'
  BY <1>1, <1>4, <1>5 DEF StreamInv, InOrder, EventTypes
<1>7. Order' /\ Count'
  BY <1>1, <1>4 DEF StreamInv, Order, Count, Due, Reached, Capped, Streams
<1>8. Mark' /\ Marked'
  BY <1>1, <1>4 DEF StreamInv, Mark, Marked, Pending, Capped
<1>9. Stage'
  BY <1>1 DEF StreamInv, Stage
<1>10. Ending'
  <2>1. Last' = {Len(events)'}
    BY <1>1, <1>4 DEF StreamInv, Ending
  <2>2. ASSUME NEW i \in Of("exit")'
        PROVE  \E c \in Codes : events'[i] = Event("exit", c) /\ (c = "zero" => proc = "zero")
    <3>1. CASE i \in Of("exit")
      <4>1. i \in 1..Len(events)
        BY <3>1, <1>5 DEF EventTypes
      <4> QED BY <3>1, <4>1, <1>4 DEF StreamInv, Ending
    <3>2. CASE e.type = "exit" /\ i = Len(events) + 1
      BY <3>2, <1>2, <1>4
    <3> QED BY <3>1, <3>2, <1>4
  <2> QED BY <2>1, <2>2, <1>1 DEF Ending
<1> QED BY <1>3, <1>6, <1>7, <1>8, <1>9, <1>10 DEF StreamInv

-----------------------------------------------------------------------------
\* The initial state satisfies the invariant.
LEMMA StreamInit == Init => StreamInv
<1> SUFFICES ASSUME Init PROVE StreamInv
  OBVIOUS
<1> USE DEF Init
<1>1. Typed
  <2>1. events \in Seq(Events)
    OBVIOUS
  <2>2. drain \in [Streams -> [pc : {"read", "send", "mark", "done"}, read : Nat,
                               from : Nat, to : Nat, mark : BOOLEAN]]
    OBVIOUS
  <2> QED BY <2>1, <2>2 DEF Typed
<1>2. \A t : Of(t) = {} /\ Last = {} /\ SentTo(t) = {0}
  BY DEF Of, Last, SentTo
<1>3. InOrder /\ Ending
  BY <1>2 DEF InOrder, Ending
<1>4. Order
  BY <1>2 DEF Order, Reached
<1>5. Due("stdout") = {0} /\ Due("stderr") = {0}
  BY <1>2 DEF Due, Streams
<1>6. Count
  BY <1>5, SizesAssumption DEF Count
<1>7. Mark /\ Marked
  BY <1>2, SizesAssumption DEF Mark, Marked, Pending, Capped
<1>8. Stage
  BY DEF Stage
<1> QED BY <1>1, <1>3, <1>4, <1>6, <1>7, <1>8 DEF StreamInv

\* Every step of the controller preserves it.
LEMMA StreamStep == ASSUME StreamInv, [Next]_vars PROVE StreamInv'
<1>1. CASE UNCHANGED vars
  <2>1. UNCHANGED <<proc, written, waited, drain, totalRead, truncated, events, open>>
    BY <1>1 DEF vars
  <2>2. Typed' /\ Stage' /\ \A s \in Streams : written[s] <= written'[s]
    BY <2>1 DEF StreamInv, Typed, Stage
  <2> QED BY <2>1, <2>2, QuietStep
<1>2. CASE Start
  BY <1>2, StartStep
<1>3. CASE (\E s \in Streams : Write(s)) \/ (\E code \in Codes : Exit(code)) \/ Wait
  BY <1>3, CommandStep
<1>4. CASE Finish
  BY <1>4, FinishStep
<1>5. ASSUME NEW s \in Streams, Step(s) PROVE StreamInv'
  <2>1. ASSUME NEW n \in 1..ChunkSize, Read(s, n) PROVE StreamInv'
    BY <2>1, ReadStep
  <2> QED BY <1>5, <2>1, EOFStep, SendStep, SendTruncatedStep DEF Step
<1> QED BY <1>1, <1>2, <1>3, <1>4, <1>5 DEF Next

\* The inductive invariant of the controller's half.
THEOREM StreamInvariant == Spec => []StreamInv
<1>1. Init => StreamInv
  BY StreamInit
<1>2. StreamInv /\ [Next]_vars => StreamInv'
  BY StreamStep
<1> QED BY <1>1, <1>2, PTL DEF Spec

\* What the invariant says of the answer.
LEMMA StreamFacts ==
    StreamInv => InOrder /\ CapKept /\ EndsOnce /\ TruncationAnnounced
<1> SUFFICES ASSUME StreamInv PROVE InOrder /\ CapKept /\ EndsOnce /\ TruncationAnnounced
  OBVIOUS
<1> USE DEF StreamInv
<1>1. CapKept
  <2> SUFFICES ASSUME MaxOutputBytes > 0, NEW a \in SentTo("stdout"), NEW b \in SentTo("stderr")
               PROVE  a + b <= MaxOutputBytes
    BY DEF CapKept
  <2>1. a \in Due("stdout") /\ b \in Due("stderr")
    BY DEF Due
  <2>2. a + b <= totalRead /\ totalRead <= MaxOutputBytes
    BY <2>1 DEF Count
  <2>3. a \in Nat /\ b \in Nat /\ totalRead \in Nat /\ MaxOutputBytes \in Nat
    BY Positions, SizesAssumption DEF Typed, Streams
  <2> QED BY <2>2, <2>3
<1>2. EndsOnce
  BY DEF Ending, EndsOnce
<1>3. TruncationAnnounced
  <2>1. \A i, j \in Of("truncated") : i = j
    BY DEF Mark
  <2>2. ASSUME ~open, NEW s \in Streams, drain[s].read \notin SentTo(s)
        PROVE  Of("truncated") # {}
    <3>1. CASE proc = "none"
      <4>1. drain[s].read = 0
        BY <3>1 DEF Stage
      <4> QED BY <2>2, <4>1 DEF SentTo
    <3>2. CASE \A t \in Streams : drain[t].pc = "done"
      <4>1. Capped
        BY <2>2, <3>2 DEF Order, Reached
      <4> QED BY <3>2, <4>1 DEF Mark, Pending
    <3> QED BY <2>2, <3>1, <3>2 DEF Stage
  <2> QED BY <2>1, <2>2 DEF TruncationAnnounced
<1> QED BY <1>1, <1>2, <1>3

-----------------------------------------------------------------------------
\* Every step of the whole is a step of the controller or none of its own.
LEMMA RelayStep == ASSUME [RelayNext]_allVars PROVE [Next]_vars
<1>1. CASE UNCHANGED allVars
  BY <1>1 DEF allVars
<1>2. CASE RelayNext
  BY <1>2
  DEF RelayNext, CallerStalls, CallerLeaves, Handle, Shutdown, Stop, BodyEnds, Deadline, Cut, Dial, Scan, ScanEnd
<1> QED BY <1>1, <1>2

\* So what holds of ExecStream holds of the whole.
LEMMA RelayImplementsStream == RelaySpec => Spec
<1>1. RelayInit => Init
  BY DEF RelayInit
<1>2. [RelayNext]_allVars => [Next]_vars
  BY RelayStep
<1> QED BY <1>1, <1>2, PTL DEF RelaySpec, Spec

\* The caller is sent every stream in order and without gaps ...
THEOREM StreamsInOrder == RelaySpec => []InOrder
<1>1. StreamInv => InOrder
  BY StreamFacts
<1> QED BY <1>1, StreamInvariant, RelayImplementsStream, PTL

\* ... both streams together within the cap, although two drains count ...
THEOREM StreamCapKept == RelaySpec => []CapKept
<1>1. StreamInv => CapKept
  BY StreamFacts
<1> QED BY <1>1, StreamInvariant, RelayImplementsStream, PTL

\* ... one last event, with nothing after it ...
THEOREM StreamEndsOnce == RelaySpec => []EndsOnce
<1>1. StreamInv => EndsOnce
  BY StreamFacts
<1> QED BY <1>1, StreamInvariant, RelayImplementsStream, PTL

\* ... and output dropped because of the cap is announced once.
THEOREM StreamTruncationAnnounced == RelaySpec => []TruncationAnnounced
<1>1. StreamInv => TruncationAnnounced
  BY StreamFacts
<1> QED BY <1>1, StreamInvariant, RelayImplementsStream, PTL

-----------------------------------------------------------------------------
\* The client: what it has read, and what it concludes.
Reader ==
    /\ scanned \in Nat /\ scanned <= Len(events)
    /\ \A i \in Of("exit") : i <= scanned => events[i] = Event("exit", result)
    /\ call = "read" \/ answer.type = "exit" => \A i \in Of("error") : i > scanned
    /\ call = "dial" => scanned = 0 /\ link = "none"
    /\ link = "ended" => ~open /\ scanned = Len(events)
    /\ answer.type = "exit" => link = "ended" /\ call = "done" /\ answer = ExitAnswer(result)

RelayInv == StreamInv /\ Reader

\* The handler only appends to the answer, and not after its end.
LEMMA OnlyAppends ==
    ASSUME StreamInv, Next
    PROVE  /\ events' = events \/ (open /\ \E e \in Events : events' = Append(events, e))
           /\ ~open => ~open'
<1>1. CASE Start
  BY <1>1, EventsTyped DEF Start, EventTypes, Streams, Codes
<1>2. CASE (\E s \in Streams : Write(s)) \/ (\E code \in Codes : Exit(code)) \/ Wait
  BY <1>2 DEF Write, Exit, Wait
<1>3. CASE Finish
  <2> PICK e \in LastEvents : events' = Append(events, e)
    BY <1>3 DEF Finish
  <2>1. e = Event("exit", proc) \/ e = Event("exit", "nonzero") \/ e = Event("error", "none")
    BY DEF LastEvents
  <2>2. e \in Events
    BY <2>1, <1>3, EventsTyped DEF EventTypes, Streams, Codes, Finish, StreamInv, Stage
  <2> QED BY <2>2, <1>3 DEF Finish
<1>4. ASSUME NEW s \in Streams, Step(s)
      PROVE  /\ events' = events \/ (open /\ \E e \in Events : events' = Append(events, e))
             /\ ~open => ~open'
  <2>1. ASSUME NEW n \in 1..ChunkSize, Read(s, n) PROVE UNCHANGED <<events, open>>
    BY <2>1 DEF Read
  <2>2. CASE EOF(s)
    BY <2>2 DEF EOF
  <2>3. CASE Send(s)
    <3>1. drain[s].from \in Nat /\ drain[s].to \in Nat /\ open
      BY <2>3 DEF Send, StreamInv, Typed, Stage
    <3>2. DataEvent(s, drain[s].from, drain[s].to) \in Events
      BY <3>1, EventsTyped
    <3> QED BY <2>3, <3>1, <3>2 DEF Send
  <2>4. CASE SendTruncated(s)
    <3>1. open
      BY <2>4 DEF SendTruncated, StreamInv, Typed, Stage
    <3>2. Event("truncated", "none") \in Events
      BY EventsTyped DEF EventTypes, Streams
    <3> QED BY <2>4, <3>1, <3>2 DEF SendTruncated
  <2> QED BY <1>4, <2>1, <2>2, <2>3, <2>4 DEF Step
<1> QED BY <1>1, <1>2, <1>3, <1>4 DEF Next

\* Every step preserves the client's part of the invariant.
LEMMA ReaderStep == ASSUME RelayInv, [RelayNext]_allVars PROVE Reader'
<1>0. StreamInv /\ Reader /\ Typed /\ Len(events) \in Nat
  BY Positions DEF RelayInv, StreamInv
<1>1. CASE CallerStalls \/ CallerLeaves \/ Shutdown \/ Stop \/ Deadline
             \/ \E to \in {"silent", "broken"} : Cut(to)
  <2>1. /\ UNCHANGED <<vars, call, scanned, result, answer>>
        /\ link' = link \/ (link \in {"up", "silent"} /\ link' \in {"silent", "broken"})
    BY <1>1 DEF CallerStalls, CallerLeaves, Shutdown, Stop, Deadline, Cut
  <2> QED BY <1>0, <2>1, SameEvents DEF Reader, vars
<1>2. CASE UNCHANGED allVars
  BY <1>0, <1>2, SameEvents DEF Reader, allVars, vars, relayVars
<1>3. CASE Handle
  <2>1. UNCHANGED <<call, link, scanned, result, answer>> /\ Next
    BY <1>3 DEF Handle, relayVars
  <2>2. CASE events' = events
    BY <1>0, <2>1, <2>2, OnlyAppends, SameEvents DEF Reader
  <2>3. CASE open /\ \E e \in Events : events' = Append(events, e)
    <3> PICK e \in Events : events' = Append(events, e)
      BY <2>3
    <3>1. /\ Len(events') = Len(events) + 1
          /\ \A i \in 1..Len(events) : events'[i] = events[i]
      BY <1>0, AppendEvent
    <3>2. /\ Of("exit")' = Of("exit") \cup (IF e.type = "exit" THEN {Len(events) + 1} ELSE {})
          /\ Of("error")' = Of("error") \cup (IF e.type = "error" THEN {Len(events) + 1} ELSE {})
      BY <1>0, AppendSets DEF EventTypes
    <3>3. Of("exit") \subseteq 1..Len(events) /\ Of("error") \subseteq 1..Len(events)
      BY <1>0, Positions DEF EventTypes
    <3>4. link # "ended" /\ answer.type # "exit" /\ scanned < Len(events) + 1
      BY <1>0, <2>3 DEF Reader
    <3>5. \A i \in Of("exit")' : i <= scanned => events'[i] = Event("exit", result)
      <4> SUFFICES ASSUME NEW i \in Of("exit")', i <= scanned
                   PROVE  i \in Of("exit") /\ events'[i] = events[i]
        BY <1>0 DEF Reader
      <4>1. i # Len(events) + 1
        BY <1>0, <3>4 DEF Reader
      <4> QED BY <4>1, <3>1, <3>2, <3>3
    <3>6. call = "read" => \A i \in Of("error")' : i > scanned
      <4> SUFFICES ASSUME call = "read", NEW i \in Of("error")'
                   PROVE  i > scanned
        OBVIOUS
      <4>1. CASE i \in Of("error")
        BY <1>0, <4>1 DEF Reader
      <4>2. CASE i = Len(events) + 1
        BY <1>0, <3>4, <4>2 DEF Reader
      <4> QED BY <3>2, <4>1, <4>2
    <3>7. scanned \in Nat /\ scanned <= Len(events')
      BY <1>0, <3>1, <3>4 DEF Reader
    <3>8. call = "dial" => scanned = 0 /\ link = "none"
      BY <1>0 DEF Reader
    <3> QED BY <2>1, <3>4, <3>5, <3>6, <3>7, <3>8 DEF Reader
  <2> QED BY <2>1, <2>2, <2>3, OnlyAppends, <1>0
<1>4. CASE BodyEnds
  BY <1>0, <1>4, SameEvents DEF BodyEnds, Reader, vars
<1>5. CASE Dial
  <2>1. \A i \in Of("error") : i > 0
    BY <1>0, Positions DEF EventTypes
  <2> QED BY <1>0, <1>5, <2>1, SameEvents DEF Dial, Return, ErrorAnswer, Reader, vars
<1>6. CASE Scan
  <2> DEFINE e == events[scanned + 1]
  <2>1. /\ call = "read" /\ link = "up" /\ scanned < Len(events)
        /\ scanned' = scanned + 1
        /\ result' = (IF e.type = "exit" THEN e.code ELSE result)
        /\ IF e.type = "error" THEN call' = "done" /\ answer' = ErrorAnswer
           ELSE UNCHANGED <<call, answer>>
        /\ UNCHANGED <<events, open, link>>
    BY <1>6 DEF Scan, Reading, Return, vars
  <2>2. scanned + 1 \in DOMAIN events /\ scanned + 1 <= Len(events) /\ scanned + 1 \in Nat
    BY <1>0, <2>1 DEF Reader, Typed
  <2>3. answer.type # "exit" /\ answer'.type # "exit"
    BY <1>0, <2>1 DEF Reader, ErrorAnswer
  <2>4. ASSUME NEW i \in Of("exit"), i <= scanned + 1
        PROVE  events[i] = Event("exit", result')
    <3>1. i \in Last /\ i = Len(events)
      BY <1>0 DEF Of, Last, StreamInv, Ending
    <3>2. i = scanned + 1
      BY <2>2, <2>4, <3>1
    <3>3. e.type = "exit" /\ \E c \in Codes : e = Event("exit", c)
      BY <1>0, <3>2 DEF Of, StreamInv, Ending
    <3> QED BY <2>1, <3>2, <3>3 DEF Event
  <2>5. ASSUME call' = "read", NEW i \in Of("error")
        PROVE  i > scanned + 1
    <3>1. e.type # "error" /\ i > scanned /\ i \in Nat
      BY <1>0, <2>1, <2>5, Positions DEF Reader, EventTypes
    <3>2. i # scanned + 1
      BY <3>1 DEF Of
    <3> QED BY <1>0, <3>1, <3>2 DEF Reader
  <2>6. call' # "dial"
    BY <2>1
  <2> QED BY <2>1, <2>2, <2>3, <2>4, <2>5, <2>6, SameEvents DEF Reader
<1>7. CASE ScanEnd
  BY <1>0, <1>7, SameEvents DEF ScanEnd, Return, ErrorAnswer, ExitAnswer, Reader, vars
<1> QED BY <1>1, <1>2, <1>3, <1>4, <1>5, <1>6, <1>7 DEF RelayNext

\* RelayInv is an invariant of the whole way from the command to the caller.
THEOREM RelayInvariant == RelaySpec => []RelayInv
<1>1. RelayInit => RelayInv
  <2> SUFFICES ASSUME RelayInit PROVE RelayInv
    OBVIOUS
  <2>1. StreamInv
    BY StreamInit DEF RelayInit
  <2>2. \A t : Of(t) = {}
    BY DEF RelayInit, Init, Of
  <2> QED BY <2>1, <2>2 DEF RelayInv, Reader, RelayInit, Init, NoAnswer
<1>2. RelayInv /\ [RelayNext]_allVars => RelayInv'
  <2> SUFFICES ASSUME RelayInv, [RelayNext]_allVars PROVE RelayInv'
    OBVIOUS
  <2>1. [Next]_vars
    BY RelayStep
  <2>2. StreamInv'
    BY <2>1, StreamStep DEF RelayInv
  <2> QED BY <2>2, ReaderStep DEF RelayInv
<1> QED BY <1>1, <1>2, PTL DEF RelaySpec

\* What it says: an exit code the caller is told is the controller's, with all the
\* output before it, and 0 means that the command exited with 0 - whatever broke
\* on the way.
THEOREM ExitCodeIsGenuine == RelaySpec => []ExitIsGenuine
<1>3. RelayInv => ExitIsGenuine
  <2> SUFFICES ASSUME RelayInv, answer.type = "exit"
               PROVE  /\ scanned = Len(events) /\ ~open
                      /\ Last # {} /\ events[scanned] = Event("exit", answer.code)
                      /\ answer.code = "zero" => proc = "zero"
    BY DEF ExitIsGenuine
  <2>1. scanned = Len(events) /\ ~open /\ answer.code = result
    BY DEF RelayInv, Reader, ExitAnswer
  <2>2. scanned \in Last
    BY <2>1 DEF RelayInv, StreamInv, Ending
  <2>3. scanned \notin Of("error")
    BY <2>1, Positions DEF RelayInv, Reader, StreamInv
  <2>4. scanned \in Of("exit")
    BY <2>2, <2>3 DEF Last, Of
  <2>5. events[scanned] = Event("exit", result)
    BY <2>4, Positions, <2>1 DEF RelayInv, Reader, StreamInv
  <2>6. \E c \in Codes : events[scanned] = Event("exit", c) /\ (c = "zero" => proc = "zero")
    BY <2>4 DEF RelayInv, StreamInv, Ending
  <2> QED BY <2>1, <2>2, <2>5, <2>6 DEF Event
<1> QED BY <1>3, RelayInvariant, PTL

-----------------------------------------------------------------------------
\* How many steps an exec has left.

\* The command writes no more than it has, and the controller and the caller are
\* each in one of three states.
Limited ==
    /\ \A s \in Streams : written[s] <= MaxWrite
    /\ ctrl \in {"serving", "draining", "stopped"}
    /\ caller \in {"reads", "stalls", "gone"}

LEMMA LimitedStep == ASSUME Typed, Limited, [RelayNext]_allVars PROVE Limited'
<1>1. CASE UNCHANGED <<written, ctrl, caller>>
  BY <1>1 DEF Limited
<1>2. ASSUME NEW s \in Streams, Write(s), UNCHANGED <<ctrl, caller>> PROVE Limited'
  BY <1>2, SizesAssumption DEF Limited, Write, Typed
<1>3. CASE Next /\ UNCHANGED <<ctrl, caller>>
  BY <1>1, <1>2, <1>3 DEF Next, Start, Wait, Finish, Exit, Step, Read, EOF, Send, SendTruncated
<1>4. CASE /\ UNCHANGED written /\ ctrl' \in {"serving", "draining", "stopped"}
           /\ UNCHANGED caller \/ caller' \in {"stalls", "gone"}
  BY <1>4 DEF Limited
<1>6. CASE CallerStalls \/ CallerLeaves
  BY <1>4, <1>6 DEF CallerStalls, CallerLeaves, vars, Limited
<1>5. CASE UNCHANGED allVars
  BY <1>1, <1>5 DEF allVars, vars, relayVars
<1> QED BY <1>1, <1>3, <1>4, <1>5, <1>6
        DEF RelayNext, Handle, Shutdown, Stop, BodyEnds, Deadline, Cut, Dial, Scan, ScanEnd,
            relayVars, vars

THEOREM LimitedInvariant == RelaySpec => [](RelayInv /\ Limited)
<1>1. RelayInit => Limited
  BY SizesAssumption DEF RelayInit, Init, Limited
<1>2. RelayInv /\ Limited /\ [RelayNext]_allVars => Limited'
  BY LimitedStep DEF RelayInv, StreamInv
<1> QED BY <1>1, <1>2, RelayInvariant, PTL DEF RelaySpec

LEMMA LeftTyped ==
    ASSUME RelayInv
    PROVE  /\ Len(events) \in Nat /\ scanned \in Nat
           /\ \A s \in Streams : DrainLeft(s) \in Int
           /\ ProcLeft \in 0..5 /\ CallLeft \in 0..9
<1>1. Len(events) \in Nat /\ scanned \in Nat
  BY Positions DEF RelayInv, StreamInv, Reader
<1>2. ASSUME NEW s \in Streams PROVE DrainLeft(s) \in Int
  <2>1. PcLeft(drain[s]) \in Int
    BY DEF PcLeft
  <2>2. drain[s].read \in Int /\ written[s] \in Int
    BY DEF RelayInv, StreamInv, Typed
  <2> QED BY <2>1, <2>2, SizesAssumption DEF DrainLeft
<1>3. ProcLeft \in 0..5
  BY DEF ProcLeft
<1>4. CallLeft \in 0..9
  BY DEF CallLeft
<1> QED BY <1>1, <1>2, <1>3, <1>4

LEMMA LeftTypedNext ==
    ASSUME Typed'
    PROVE  /\ Len(events)' \in Nat
           /\ \A s \in Streams : DrainLeft(s)' \in Int
           /\ ProcLeft' \in 0..5
<1>1. Len(events)' \in Nat
  BY DEF Typed
<1>2. ASSUME NEW s \in Streams PROVE DrainLeft(s)' \in Int
  <2>1. PcLeft(drain[s])' \in Int
    BY DEF PcLeft
  <2>2. drain'[s].read \in Int /\ written'[s] \in Int
    BY DEF Typed
  <2> QED BY <2>1, <2>2, SizesAssumption DEF DrainLeft
<1>3. ProcLeft' \in 0..5
  BY DEF ProcLeft
<1> QED BY <1>1, <1>2, <1>3

\* A byte that is read pays for the events it leads to.
LEMMA ReadPays ==
    ASSUME NEW m \in Nat, NEW r \in Nat, NEW w \in Nat, NEW n \in Nat \ {0}, NEW p \in 0..5
    PROVE  /\ 5 * (m - (r + n)) + (m - w) + p < 5 * (m - r) + (m - w) + 1
           /\ 5 * (m - (r + n)) + (m - w) + p \in Int /\ 5 * (m - r) + (m - w) + 1 \in Int
OBVIOUS

\* A step of a drain or a write of the command: what it adds to the answer, it has
\* less to do.
LEMMA DrainCounts ==
    ASSUME Typed, Len(events) \in Nat, NEW s \in Streams, Write(s) \/ Step(s)
    PROVE  /\ DrainLeft(s)' + Len(events)' < DrainLeft(s) + Len(events)
           /\ \A t \in Streams \ {s} : DrainLeft(t)' = DrainLeft(t)
           /\ UNCHANGED <<proc, waited, open>>
<1>0. /\ drain[s].read \in Nat /\ written[s] \in Nat /\ MaxWrite \in Nat
      /\ drain \in [Streams -> [pc : {"read", "send", "mark", "done"}, read : Nat,
                                from : Nat, to : Nat, mark : BOOLEAN]]
      /\ written \in [Streams -> Nat]
  BY SizesAssumption DEF Typed
<1>1. ASSUME NEW t \in Streams \ {s}, drain'[t] = drain[t], written'[t] = written[t]
      PROVE  DrainLeft(t)' = DrainLeft(t)
  BY <1>1 DEF DrainLeft, PcLeft
<1>2. \A d : PcLeft(d) \in Int
  BY DEF PcLeft
<1>3. CASE Write(s)
  <2>1. /\ UNCHANGED <<drain, events, proc, waited, open>> /\ written'[s] = written[s] + 1
        /\ \A t \in Streams \ {s} : written'[t] = written[t]
    BY <1>0, <1>3 DEF Write
  <2>2. PcLeft(drain[s])' = PcLeft(drain[s])
    BY <2>1 DEF PcLeft
  <2>3. DrainLeft(s)' < DrainLeft(s)
    BY <1>0, <1>2, <2>1, <2>2 DEF DrainLeft
  <2> QED BY <1>1, <2>1, <2>3, <1>0, <1>2 DEF DrainLeft
<1>4. ASSUME NEW n \in 1..ChunkSize, Read(s, n)
      PROVE  /\ DrainLeft(s)' + Len(events)' < DrainLeft(s) + Len(events)
             /\ \A t \in Streams \ {s} : DrainLeft(t)' = DrainLeft(t)
             /\ UNCHANGED <<proc, waited, open>>
  <2>1. /\ UNCHANGED <<written, events, proc, waited, open>>
        /\ drain[s].pc = "read" /\ n \in Nat /\ n >= 1
        /\ drain'[s].read = drain[s].read + n /\ drain'[s].pc \in {"send", "read"}
        /\ \A t \in Streams \ {s} : drain'[t] = drain[t]
    BY <1>0, <1>4, SizesAssumption DEF Read, Take, Taken
  <2>2. PcLeft(drain[s]) = 1 /\ PcLeft(drain[s])' \in 0..5
    BY <2>1 DEF PcLeft
  <2>3. /\ DrainLeft(s) = 5 * (MaxWrite - drain[s].read) + (MaxWrite - written[s]) + 1
        /\ DrainLeft(s)' = 5 * (MaxWrite - (drain[s].read + n)) + (MaxWrite - written[s])
                             + PcLeft(drain[s])'
    BY <2>1, <2>2 DEF DrainLeft
  <2>4. DrainLeft(s)' < DrainLeft(s) /\ DrainLeft(s) \in Int /\ DrainLeft(s)' \in Int
    <3>1. n \in Nat \ {0}
      BY <2>1
    <3>2. ASSUME NEW p \in 0..5
          PROVE  /\ 5 * (MaxWrite - (drain[s].read + n)) + (MaxWrite - written[s]) + p
                      < 5 * (MaxWrite - drain[s].read) + (MaxWrite - written[s]) + 1
                 /\ 5 * (MaxWrite - (drain[s].read + n)) + (MaxWrite - written[s]) + p \in Int
                 /\ 5 * (MaxWrite - drain[s].read) + (MaxWrite - written[s]) + 1 \in Int
      BY <1>0, <3>1, ReadPays, Zenon
    <3> QED BY <2>2, <2>3, <3>2, Zenon
  <2> QED BY <1>1, <2>1, <2>4
<1>5. CASE EOF(s)
  <2>1. /\ UNCHANGED <<written, events, proc, waited, open>>
        /\ drain[s].pc = "read" /\ drain'[s].read = drain[s].read /\ drain'[s].pc = "done"
        /\ \A t \in Streams \ {s} : drain'[t] = drain[t]
    BY <1>0, <1>5 DEF EOF
  <2>2. PcLeft(drain[s]) = 1 /\ PcLeft(drain[s])' = 0
    BY <2>1 DEF PcLeft
  <2>3. DrainLeft(s)' < DrainLeft(s)
    BY <1>0, <1>2, <2>1, <2>2 DEF DrainLeft
  <2> QED BY <1>1, <2>1, <2>3, <1>0, <1>2 DEF DrainLeft
<1>6. CASE Send(s) \/ SendTruncated(s)
  <2>1. /\ UNCHANGED <<written, proc, waited, open>> /\ drain'[s].read = drain[s].read
        /\ \A t \in Streams \ {s} : drain'[t] = drain[t]
    BY <1>0, <1>6 DEF Send, SendTruncated
  <2>2. PcLeft(drain[s])' = PcLeft(drain[s]) - 2
    <3>1. CASE Send(s)
      <4>1. drain[s].pc = "send" /\ drain'[s].pc = IF drain[s].mark THEN "mark" ELSE "read"
        BY <1>0, <3>1 DEF Send
      <4> QED BY <4>1 DEF PcLeft
    <3>2. CASE SendTruncated(s)
      <4>1. drain[s].pc = "mark" /\ drain'[s].pc = "read"
        BY <1>0, <3>2 DEF SendTruncated
      <4> QED BY <4>1 DEF PcLeft
    <3> QED BY <1>6, <3>1, <3>2
  <2>3. Len(events)' = Len(events) + 1
    BY <1>6 DEF Send, SendTruncated, Typed
  <2>4. DrainLeft(s) \in Int /\ DrainLeft(s)' = DrainLeft(s) - 2
    BY <1>0, <1>2, <2>1, <2>2 DEF DrainLeft
  <2>5. DrainLeft(s)' + Len(events)' < DrainLeft(s) + Len(events)
    BY <2>3, <2>4
  <2> QED BY <1>1, <2>1, <2>5
<1> QED BY <1>3, <1>4, <1>5, <1>6 DEF Step

\* A step of the controller's handler.
LEMMA HandlerCounts ==
    ASSUME RelayInv, Next
    PROVE  DrainLeft("stdout")' + DrainLeft("stderr")' + ProcLeft' + Len(events)'
             < DrainLeft("stdout") + DrainLeft("stderr") + ProcLeft + Len(events)
<1>0. /\ Typed /\ Len(events) \in Nat /\ DrainLeft("stdout") \in Int /\ DrainLeft("stderr") \in Int
      /\ ProcLeft \in 0..5 /\ Stage
  BY LeftTyped DEF RelayInv, StreamInv, Streams
<1>1. ASSUME UNCHANGED <<written, drain>>, ProcLeft' \in Int, Len(events)' \in Int,
             ProcLeft' + Len(events)' < ProcLeft + Len(events)
      PROVE  DrainLeft("stdout")' + DrainLeft("stderr")' + ProcLeft' + Len(events)'
               < DrainLeft("stdout") + DrainLeft("stderr") + ProcLeft + Len(events)
  <2>1. DrainLeft("stdout")' = DrainLeft("stdout") /\ DrainLeft("stderr")' = DrainLeft("stderr")
    BY <1>1 DEF DrainLeft, PcLeft
  <2> QED BY <1>0, <1>1, <2>1
<1>2. ProcLeft' \in Int
  BY DEF ProcLeft
<1>3. ASSUME NEW e, events' = Append(events, e) PROVE Len(events)' = Len(events) + 1
  BY <1>0, <1>3 DEF Typed
<1>4. CASE Start
  <2>1. UNCHANGED <<written, drain, waited>> /\ proc = "none" /\ open
    BY <1>4 DEF Start
  <2>2. CASE proc' = "running" /\ UNCHANGED <<events, open>>
    <3>1. ProcLeft' = ProcLeft - 1
      BY <2>1, <2>2 DEF ProcLeft
    <3> QED BY <1>0, <1>1, <1>2, <2>1, <2>2, <3>1
  <2>3. CASE events' = Append(events, Event("error", "none")) /\ ~open' /\ UNCHANGED proc
    <3>1. ProcLeft' = ProcLeft - 2
      BY <2>1, <2>3 DEF ProcLeft
    <3>2. Len(events)' = Len(events) + 1
      BY <1>3, <2>3
    <3> QED BY <1>0, <1>1, <1>2, <2>1, <3>1, <3>2
  <2> QED BY <1>4, <2>2, <2>3 DEF Start
<1>5. CASE Wait \/ \E code \in Codes : Exit(code)
  <2>1. UNCHANGED <<written, drain, events, open>>
    BY <1>5 DEF Wait, Exit
  <2>2. ProcLeft' = ProcLeft - 1
    BY <1>5 DEF Wait, Exit, Exited, Codes, ProcLeft
  <2> QED BY <1>0, <1>1, <1>2, <2>1, <2>2
<1>6. CASE Finish
  <2>1. UNCHANGED <<written, drain, proc, waited>> /\ open /\ ~open'
    BY <1>6 DEF Finish
  <2>2. ProcLeft' = ProcLeft - 2
    BY <2>1 DEF ProcLeft
  <2>3. Len(events)' = Len(events) + 1
    BY <1>3, <1>6 DEF Finish
  <2> QED BY <1>0, <1>1, <1>2, <2>1, <2>2, <2>3
<1>7. ASSUME NEW s \in Streams, Write(s) \/ Step(s)
      PROVE  DrainLeft("stdout")' + DrainLeft("stderr")' + ProcLeft' + Len(events)'
               < DrainLeft("stdout") + DrainLeft("stderr") + ProcLeft + Len(events)
  <2>1. /\ DrainLeft(s)' + Len(events)' < DrainLeft(s) + Len(events)
        /\ \A t \in Streams \ {s} : DrainLeft(t)' = DrainLeft(t)
        /\ UNCHANGED <<proc, waited, open>>
    BY <1>0, <1>7, DrainCounts
  <2>2. ProcLeft' = ProcLeft
    BY <2>1 DEF ProcLeft
  <2>3. Len(events)' \in Int /\ DrainLeft("stdout")' \in Int /\ DrainLeft("stderr")' \in Int
    <3>1. Typed'
      BY StreamStep DEF RelayInv, StreamInv
    <3> QED BY <3>1, LeftTypedNext DEF Streams
  <2>4. CASE s = "stdout"
    <3>1. DrainLeft("stderr")' = DrainLeft("stderr")
      BY <2>1, <2>4 DEF Streams
    <3> QED BY <1>0, <2>1, <2>2, <2>3, <2>4, <3>1
  <2>5. CASE s = "stderr"
    <3>1. DrainLeft("stdout")' = DrainLeft("stdout")
      BY <2>1, <2>5 DEF Streams
    <3> QED BY <1>0, <2>1, <2>2, <2>3, <2>5, <3>1
  <2> QED BY <2>4, <2>5 DEF Streams
<1> QED BY <1>4, <1>5, <1>6, <1>7 DEF Next

\* A step of the caller, the controller's process, the connection or the client.
LEMMA CallCounts ==
    ASSUME RelayInv, Limited,
           CallerStalls \/ CallerLeaves \/ Shutdown \/ Stop \/ BodyEnds \/ Deadline
             \/ (\E to \in {"silent", "broken"} : Cut(to)) \/ Dial \/ ScanEnd
    PROVE  CallLeft' < CallLeft /\ UNCHANGED <<vars, scanned>>
<1>1. UNCHANGED <<vars, scanned>>
  BY DEF CallerStalls, CallerLeaves, Shutdown, Stop, BodyEnds, Deadline, Cut, Dial, ScanEnd
<1>2. CASE Shutdown \/ Stop
  BY <1>2 DEF Shutdown, Stop, CallLeft, Limited
<1>3. CASE BodyEnds \/ Deadline \/ (\E to \in {"silent", "broken"} : Cut(to))
  BY <1>3 DEF BodyEnds, Deadline, Cut, CallLeft
<1>4. CASE Dial
  <2>1. link = "none"
    BY <1>4 DEF Dial, RelayInv, Reader
  <2> QED BY <1>4, <2>1 DEF Dial, Return, CallLeft
<1>5. CASE ScanEnd
  BY <1>5 DEF ScanEnd, Return, CallLeft
<1>6. CASE CallerStalls \/ CallerLeaves
  BY <1>6 DEF CallerStalls, CallerLeaves, CallLeft, Limited
<1> QED BY <1>1, <1>2, <1>3, <1>4, <1>5, <1>6

\* Every step of a streamed exec, whichever part of it moves and whatever fails,
\* leaves fewer steps to take: no drain, no retry and no reading loop can go
\* round for ever.
THEOREM ExecRunsOut == RelaySpec => StepsRunOut
<1> DEFINE Fewer == StepsLeft' < StepsLeft
<1>1. ASSUME RelayInv, Limited, RelayNext PROVE Fewer
  <2> DEFINE D == DrainLeft("stdout") + DrainLeft("stderr") + ProcLeft
  <2>0. /\ D \in Int /\ CallLeft \in Int /\ Len(events) \in Int /\ scanned \in Int
        /\ StepsLeft = D + CallLeft + (Len(events) - scanned)
        /\ StepsLeft' = D' + CallLeft' + (Len(events)' - scanned')
    BY <1>1, LeftTyped DEF Streams, StepsLeft
  <2>1. CASE Handle
    <3>1. D' + Len(events)' < D + Len(events)
      BY <1>1, <2>1, HandlerCounts DEF Handle
    <3>2. CallLeft' = CallLeft /\ scanned' = scanned
      BY <2>1 DEF Handle, relayVars, CallLeft
    <3>3. D' \in Int /\ Len(events)' \in Int
      <4>1. Typed'
        BY <1>1, <2>1, StreamStep DEF Handle, RelayInv, StreamInv
      <4> QED BY <4>1, LeftTypedNext DEF Streams
    <3> HIDE DEF D
    <3> QED BY <2>0, <3>1, <3>2, <3>3
  <2>2. CASE Scan
    <3>1. UNCHANGED vars /\ scanned' = scanned + 1 /\ CallLeft' <= CallLeft /\ CallLeft' \in Int
      BY <2>2 DEF Scan, Reading, Return, CallLeft
    <3>2. D' = D
      BY <3>1 DEF vars, DrainLeft, PcLeft, ProcLeft
    <3> HIDE DEF D
    <3> QED BY <2>0, <3>1, <3>2 DEF vars
  <2>3. CASE CallerStalls \/ CallerLeaves \/ Shutdown \/ Stop \/ BodyEnds \/ Deadline
               \/ (\E to \in {"silent", "broken"} : Cut(to)) \/ Dial \/ ScanEnd
    <3>1. CallLeft' < CallLeft /\ UNCHANGED <<vars, scanned>>
      BY <1>1, <2>3, CallCounts
    <3>2. D' = D /\ CallLeft' \in Int
      BY <3>1 DEF vars, DrainLeft, PcLeft, ProcLeft, CallLeft
    <3> HIDE DEF D
    <3> QED BY <2>0, <3>1, <3>2 DEF vars
  <2> QED BY <1>1, <2>1, <2>2, <2>3 DEF RelayNext
<1>2. RelayInv /\ Limited /\ [RelayNext]_allVars => [Fewer]_allVars
  BY <1>1
<1>3. RelaySpec => [][Fewer]_allVars
  BY <1>2, LimitedInvariant, PTL DEF RelaySpec
<1> QED BY <1>3 DEF StepsRunOut

\* The count is a natural number, so an exec takes at most as many steps as it
\* starts with: six for each byte its command may write, and sixteen.
THEOREM StepsAreCounted ==
    RelaySpec => StepsLeft = 12 * MaxWrite + 16 /\ [](StepsLeft \in Nat)
<1>1. ASSUME RelayInv, Limited PROVE StepsLeft \in Nat
  <2>1. ASSUME NEW s \in Streams PROVE DrainLeft(s) \in Nat
    <3>1. PcLeft(drain[s]) \in Nat
      BY DEF PcLeft
    <3>2. /\ drain[s].read \in Nat /\ written[s] \in Nat
          /\ drain[s].read <= written[s] /\ written[s] <= MaxWrite
      BY <1>1 DEF RelayInv, StreamInv, Typed, Order, Limited
    <3>3. MaxWrite - drain[s].read \in Nat /\ MaxWrite - written[s] \in Nat
      BY <3>2, SizesAssumption
    <3> QED BY <3>1, <3>3 DEF DrainLeft
  <2>2. Len(events) - scanned \in Nat
    BY <1>1, LeftTyped DEF RelayInv, Reader
  <2>3. ProcLeft \in Nat /\ CallLeft \in Nat
    BY <1>1, LeftTyped
  <2> QED BY <2>1, <2>2, <2>3 DEF StepsLeft, Streams
<1>2. RelayInv /\ Limited => StepsLeft \in Nat
  BY <1>1
<1>3. ASSUME RelayInit PROVE StepsLeft = 12 * MaxWrite + 16
  <2>1. ASSUME NEW s \in Streams PROVE DrainLeft(s) = 6 * MaxWrite + 1
    <3>0. drain[s].read = 0 /\ written[s] = 0 /\ drain[s].pc = "read"
      BY <1>3 DEF RelayInit, Init
    <3>1. drain[s].read = 0 /\ written[s] = 0 /\ PcLeft(drain[s]) = 1
      BY <3>0 DEF PcLeft
    <3> QED BY <3>1, SizesAssumption DEF DrainLeft
  <2>2. ProcLeft = 5 /\ CallLeft = 9 /\ Len(events) = 0 /\ scanned = 0
    BY <1>3 DEF RelayInit, Init, ProcLeft, CallLeft
  <2> QED BY <2>1, <2>2, SizesAssumption DEF StepsLeft, Streams
<1>4. RelayInit => StepsLeft = 12 * MaxWrite + 16
  BY <1>3
<1> QED BY <1>2, <1>4, LimitedInvariant, PTL DEF RelaySpec
=============================================================================
