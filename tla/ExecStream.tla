----------------------------- MODULE ExecStream -----------------------------
(***************************************************************************)
(* One streamed exec: nsjail writes to two pipes, a goroutine drains each  *)
(* of them and sends what it read as events, Wait collects the process,    *)
(* and the handler ends the stream.  ExecRelay adds the way to the caller. *)
(*                                                                         *)
(* Bytes are counted; an event of a stream carries the bytes from..to.  The*)
(* output is text whose characters take CharLen bytes each.                *)
(***************************************************************************)
EXTENDS Integers, Sequences

CONSTANTS MaxOutputBytes,  \* cap on both streams together; 0: none
          ChunkSize,       \* size of a drain's buffer
          CharLen,         \* bytes of a character
          MaxWrite         \* bound: bytes the command writes to each stream

ASSUME SizesAssumption ==
    /\ MaxOutputBytes \in Nat /\ ChunkSize \in Nat \ {0} /\ MaxWrite \in Nat
    /\ CharLen \in 1..4

Streams == {"stdout", "stderr"}

VARIABLES proc,      \* not started ("none"), "running", or its exit code
          written,   \* bytes the process has written to each pipe
          waited,    \* Wait has returned, and closed the pipes
          drain,     \* the goroutines
          totalRead, \* bytes accepted, under totalMu
          truncated, \* the cap was reached
          events,    \* what the client has received
          open       \* the stream has not ended

vars == <<proc, written, waited, drain, totalRead, truncated, events, open>>

\* pc   about to read, to send data, to send "truncated" (mark); or done
\* read bytes taken from the pipe
\* from, to  what there is to send
\* mark the truncated event is to be sent after the data
Drain == [pc : {"read", "send", "mark", "done"}, read : 0..MaxWrite,
          from : 0..MaxWrite, to : 0..MaxWrite, mark : BOOLEAN]

\* Exit codes: 0, and any other (a signal is -1, the time limit 137).
Codes == {"zero", "nonzero"}
Exited == proc \in Codes

\* A line of the answer.  json.Marshal replaces the bytes of a character that
\* the chunk holds only a part of: the text is not intact.
DataEvent(s, from, to) ==
    [type |-> s, from |-> from, to |-> to, code |-> "none",
     intact |-> from % CharLen = 0 /\ to % CharLen = 0]
Event(type, code) == [type |-> type, from |-> 0, to |-> 0, code |-> code, intact |-> TRUE]

Smaller(a, b) == IF a < b THEN a ELSE b

-----------------------------------------------------------------------------
\* ExecStream up to Start; it fails on an unknown sandbox and on any error
\* before the process runs.
Start ==
    /\ proc = "none" /\ open
    /\ \/ proc' = "running" /\ UNCHANGED <<events, open>>
       \/ /\ events' = Append(events, Event("error", "none"))
          /\ open' = FALSE
          /\ UNCHANGED proc
    /\ UNCHANGED <<written, waited, drain, totalRead, truncated>>

Write(s) ==
    /\ proc = "running" /\ written[s] < MaxWrite
    /\ written' = [written EXCEPT ![s] = @ + 1]
    /\ UNCHANGED <<proc, waited, drain, totalRead, truncated, events, open>>

\* It ends, or the time limit, the deadline or the caller's leaving kills it.
Exit(code) ==
    /\ proc = "running"
    /\ proc' = code
    /\ UNCHANGED <<written, waited, drain, totalRead, truncated, events, open>>

-----------------------------------------------------------------------------
\* What a drain may send of n bytes just read.
Room == MaxOutputBytes - totalRead
Accepted(n) ==
    IF MaxOutputBytes = 0 THEN n ELSE IF Room > 0 THEN Smaller(n, Room) ELSE 0

\* n bytes are read, ok of them are to be sent as from..; mark: "truncated" too.
Taken(s, n, ok, from, mark) ==
    /\ totalRead' = totalRead + ok
    /\ truncated' = (truncated \/ mark)
    /\ drain' = [drain EXCEPT ![s] =
                   [pc |-> IF ok > 0 THEN "send" ELSE "read", read |-> @.read + n,
                    from |-> from, to |-> from + ok, mark |-> mark]]

AtCap(ok) ==
    MaxOutputBytes > 0 /\ ok > 0 /\ totalRead + ok >= MaxOutputBytes /\ ~truncated

\* Mutant of Take: a read that would cross the cap is sent whole.
TakeWhole(s, n) ==
    LET ok == IF MaxOutputBytes = 0 \/ Room > 0 THEN n ELSE 0
    IN Taken(s, n, ok, drain[s].read, AtCap(ok))

\* Mutant of Take: the cap has to be exceeded.
TakeLate(s, n) ==
    Taken(s, n, Accepted(n), drain[s].read, totalRead > MaxOutputBytes /\ ~truncated)

\* Mutant of Take: the streams share one offset.
TakeShared(s, n) == Taken(s, n, Accepted(n), totalRead, AtCap(Accepted(n)))

\* The part of drain under totalMu, after a read of n bytes.
Take(s, n) == Taken(s, n, Accepted(n), drain[s].read, AtCap(Accepted(n)))

\* pipe.Read returns some bytes.
Read(s, n) ==
    /\ drain[s].pc = "read" /\ proc # "none" /\ ~waited
    /\ n \in 1..Smaller(ChunkSize, written[s] - drain[s].read)
    /\ Take(s, n)
    /\ UNCHANGED <<proc, written, waited, events, open>>

\* pipe.Read returns an error: the end of the output, or a closed pipe, whatever
\* there is left in it.
EOF(s) ==
    /\ drain[s].pc = "read"
    /\ waited \/ (Exited /\ drain[s].read = written[s])
    /\ drain' = [drain EXCEPT ![s].pc = "done"]
    /\ UNCHANGED <<proc, written, waited, totalRead, truncated, events, open>>

\* onEvent with the data.
Send(s) ==
    /\ drain[s].pc = "send"
    /\ events' = Append(events, DataEvent(s, drain[s].from, drain[s].to))
    /\ drain' = [drain EXCEPT ![s].pc = IF drain[s].mark THEN "mark" ELSE "read"]
    /\ UNCHANGED <<proc, written, waited, totalRead, truncated, open>>

\* onEvent with "truncated".
SendTruncated(s) ==
    /\ drain[s].pc = "mark"
    /\ events' = Append(events, Event("truncated", "none"))
    /\ drain' = [drain EXCEPT ![s].pc = "read", ![s].mark = FALSE]
    /\ UNCHANGED <<proc, written, waited, totalRead, truncated, open>>

-----------------------------------------------------------------------------
\* nsjailCmd.Wait returns when the process has ended.  It closes the pipes and
\* does not wait for the drains.
Wait ==
    /\ Exited /\ ~waited
    /\ waited' = TRUE
    /\ UNCHANGED <<proc, written, drain, totalRead, truncated, events, open>>

\* buildExecResponse and the event it leads to.  An exit code other than 0 is
\* passed on; success becomes a failure or an error when the deadline or the
\* caller ended the context before Wait returned.
LastEvents ==
    {Event("exit", proc)}
      \cup IF proc = "zero" THEN {Event("exit", "nonzero"), Event("error", "none")} ELSE {}

\* Mutant of Finish: no return after the error event.
FinishTwice ==
    /\ waited /\ open
    /\ \A s \in Streams : drain[s].pc = "done"
    /\ \E e \in LastEvents :
         events' = events \o IF e.type = "error" THEN <<e, Event("exit", "zero")>> ELSE <<e>>
    /\ open' = FALSE
    /\ UNCHANGED <<proc, written, waited, drain, totalRead, truncated>>

\* wg.Wait, and the last event.
Finish ==
    /\ waited /\ open
    /\ \A s \in Streams : drain[s].pc = "done"
    /\ \E e \in LastEvents : events' = Append(events, e)
    /\ open' = FALSE
    /\ UNCHANGED <<proc, written, waited, drain, totalRead, truncated>>

-----------------------------------------------------------------------------
Init ==
    /\ proc = "none"
    /\ written = [s \in Streams |-> 0]
    /\ waited = FALSE
    /\ drain = [s \in Streams |-> [pc |-> "read", read |-> 0, from |-> 0, to |-> 0,
                                   mark |-> FALSE]]
    /\ totalRead = 0 /\ truncated = FALSE
    /\ events = << >> /\ open = TRUE

Step(s) ==
    (\E n \in 1..ChunkSize : Read(s, n)) \/ EOF(s) \/ Send(s) \/ SendTruncated(s)

Next ==
    \/ Start \/ Wait \/ Finish
    \/ \E code \in Codes : Exit(code)
    \/ \E s \in Streams : Write(s) \/ Step(s)

Spec == Init /\ [][Next]_vars

-----------------------------------------------------------------------------
\* Every variable stays in its type.
TypeOK ==
    /\ proc \in {"none", "running"} \cup Codes
    /\ written \in [Streams -> 0..MaxWrite]
    /\ waited \in BOOLEAN
    /\ drain \in [Streams -> Drain]
    /\ totalRead \in 0..(2 * MaxWrite)
    /\ truncated \in BOOLEAN
    /\ open \in BOOLEAN

Of(type) == {i \in DOMAIN events : events[i].type = type}
Last == {i \in DOMAIN events : events[i].type \in {"exit", "error"}}

\* The events of a stream are what the command wrote, in order and without
\* gaps, although two goroutines send and the cap cuts in between.
InOrder ==
    \A s \in Streams : \A i \in Of(s) :
        /\ events[i].to <= written[s]
        /\ events[i].from = 0 \/ \E j \in Of(s) : j < i /\ events[j].to = events[i].from

\* How far the events of a stream have got.
SentTo(s) == {0} \cup {events[i].to : i \in Of(s)}

\* Both streams together never exceed the cap.
CapKept ==
    MaxOutputBytes > 0 =>
        \A a \in SentTo("stdout"), b \in SentTo("stderr") : a + b <= MaxOutputBytes

\* The stream ends once, and nothing follows its last event.
EndsOnce == \A i \in Last : i = Len(events) /\ ~open

\* Output that was read and dropped because of the cap was announced, once,
\* before the end.
TruncationAnnounced ==
    /\ \A i, j \in Of("truncated") : i = j
    /\ ~open /\ (\E s \in Streams : drain[s].read \notin SentTo(s)) => Of("truncated") # {}

\* The full output is returned (docs/architecture.md:290) unless the cap was hit.
FullOutput ==
    Of("exit") # {} /\ Of("truncated") = {} => \A s \in Streams : written[s] \in SentTo(s)

\* The text arrives as it was written (docs/architecture.md:290).
TextIntact == \A i \in DOMAIN events : events[i].intact

\* The exit event is always present (README.md:246).
ExitAlwaysPresent == ~open => Of("exit") # {}

\* After the truncated event all output is discarded (README.md:245).
NothingAfterTruncated ==
    \A i \in Of("truncated") : \A s \in Streams : \A j \in Of(s) : j < i
=============================================================================
