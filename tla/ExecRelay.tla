------------------------------ MODULE ExecRelay ------------------------------
(***************************************************************************)
(* A streamed exec from end to end: the controller's handler (ExecStream), *)
(* the connection, the client that reads the events in the router, and what*)
(* its caller is told: the API client of handleSessionExecStream, or the   *)
(* agent that called the MCP bash tool with a progress token.              *)
(*                                                                         *)
(* The connection may break or go silent, the caller may leave or stop     *)
(* reading, and the controller may stop, at once or after the grace period *)
(* of a shutdown.                                                          *)
(*                                                                         *)
(* The client hands every event to its callback before it reads the next,  *)
(* and the callback writes to the caller: the first "scanned" of the       *)
(* controller's events are what the caller has.  No server sets a write    *)
(* timeout, so a write waits as long as the other end does not read.       *)
(***************************************************************************)
EXTENDS ExecStream

VARIABLES caller,  \* it "reads", "stalls" (connected, but reads no more), or is "gone"
          ctrl,    \* the controller: "serving", "draining" (after a signal), "stopped"
          call,    \* the client's call: "dial", "read", "done"
          link,    \* "none", "up", "silent" (a partition), "broken", "ended"
          scanned, \* events the client has read
          result,  \* the ExitCode of the client's result, 0 when it is made
          answer   \* the last event the router writes: its type and code

relayVars == <<caller, ctrl, call, link, scanned, result, answer>>
allVars == <<vars, relayVars>>

NoAnswer == [type |-> "none", code |-> "none"]
ErrorAnswer == [type |-> "error", code |-> "none"]
ExitAnswer(code) == [type |-> "exit", code |-> code]

\* A write to the caller returns; one to a caller that is gone fails, unnoticed.
Hears == caller # "stalls"

\* The call returns, and its answer is written.
Return(a) == Hears /\ call' = "done" /\ answer' = a

-----------------------------------------------------------------------------
\* The caller.

CallerStalls ==
    /\ caller = "reads"
    /\ caller' = "stalls"
    /\ UNCHANGED <<vars, ctrl, call, link, scanned, result, answer>>

CallerLeaves ==
    /\ caller # "gone"
    /\ caller' = "gone"
    /\ UNCHANGED <<vars, ctrl, call, link, scanned, result, answer>>

-----------------------------------------------------------------------------
\* The controller's process.

\* The handler's step, as long as the process runs and it has the request.
Handle == Next /\ link # "none" /\ ctrl # "stopped" /\ UNCHANGED relayVars

\* SIGTERM: the listener is closed, handlers go on.
Shutdown ==
    /\ ctrl = "serving"
    /\ ctrl' = "draining"
    /\ UNCHANGED <<vars, caller, call, link, scanned, result, answer>>

\* Shutdown has returned, all handlers having done so or the grace period being
\* over, or the process has crashed.  A connection is reset, unless the whole
\* answer had been written to it.
Stop ==
    /\ ctrl # "stopped"
    /\ ctrl' = "stopped"
    /\ \/ link = "up" /\ link' = "broken"
       \/ (link = "up" => ~open) /\ UNCHANGED link
    /\ UNCHANGED <<vars, caller, call, scanned, result, answer>>

-----------------------------------------------------------------------------
\* The connection.

\* The handler has returned and everything it wrote has been read: net/http has
\* written the chunk that ends the body.
BodyEnds ==
    /\ link = "up" /\ ~open /\ scanned = Len(events)
    /\ link' = "ended"
    /\ UNCHANGED <<vars, caller, ctrl, call, scanned, result, answer>>

\* What is under way is lost: now, and noticed, or from now on, and not.
Cut(to) ==
    /\ link = "up"
    /\ link' = to
    /\ UNCHANGED <<vars, caller, ctrl, call, scanned, result, answer>>

\* Mutant of Deadline: a connection that shows no error is waited for.
DeadlineIdle ==
    /\ link = "up"
    /\ link' = "broken"
    /\ UNCHANGED <<vars, caller, ctrl, call, scanned, result, answer>>

\* The context of the request ends: the time limit of the exec and 30 s (5 s for
\* the tool) have passed, or the caller has gone.  The transport closes the
\* connection, whether or not the client is reading from it.
Deadline ==
    /\ link \in {"up", "silent"}
    /\ link' = "broken"
    /\ UNCHANGED <<vars, caller, ctrl, call, scanned, result, answer>>

-----------------------------------------------------------------------------
\* Client.ExecStream, in the router.

\* httpClient.Do fails, or the status is not 2xx (no slot, a bad request), or
\* the events follow.
Dial ==
    /\ call = "dial"
    /\ \/ /\ ctrl = "serving"
          /\ call' = "read" /\ link' = "up" /\ UNCHANGED answer
       \/ Return(ErrorAnswer) /\ UNCHANGED link
    /\ UNCHANGED <<vars, caller, ctrl, scanned, result>>

Reading == call = "read" /\ link = "up" /\ scanned < Len(events)

\* One line: an event for the callback, the exit code, or an error, on which the
\* call returns without reading on.  The callback waits for a caller that does not
\* read.  (No line is longer than the scanner takes:
\* 4096 bytes become at most 6 times as many in JSON, and its limit is 64 KiB.)
Scan ==
    /\ Reading
    /\ LET e == events[scanned + 1]
       IN /\ e.type # "exit" => Hears
          /\ scanned' = scanned + 1
          /\ result' = IF e.type = "exit" THEN e.code ELSE result
          /\ IF e.type = "error" THEN Return(ErrorAnswer) ELSE UNCHANGED <<call, answer>>
    /\ UNCHANGED <<vars, caller, ctrl, link>>

\* Mutant of ScanEnd: scanner.Err is not looked at.
ScanEndUnchecked ==
    /\ call = "read" /\ link \in {"ended", "broken"}
    /\ Return(ExitAnswer(result))
    /\ UNCHANGED <<vars, caller, ctrl, link, scanned, result>>

\* Mutant of ScanEnd: a broken connection is dialled again.
ScanEndRetry ==
    /\ call = "read" /\ link \in {"ended", "broken"}
    /\ IF link = "ended" THEN Return(ExitAnswer(result)) /\ UNCHANGED link
       ELSE call' = "dial" /\ link' = "none" /\ UNCHANGED answer
    /\ UNCHANGED <<vars, caller, ctrl, scanned, result>>

\* The loop ends: with the body, or with an error of the connection.  An exit
\* event is not asked for.
ScanEnd ==
    /\ call = "read" /\ link \in {"ended", "broken"}
    /\ Return(IF link = "ended" THEN ExitAnswer(result) ELSE ErrorAnswer)
    /\ UNCHANGED <<vars, caller, ctrl, link, scanned, result>>

-----------------------------------------------------------------------------
RelayInit ==
    /\ Init
    /\ caller = "reads" /\ ctrl = "serving" /\ call = "dial" /\ link = "none"
    /\ scanned = 0 /\ result = "zero" /\ answer = NoAnswer

RelayNext ==
    \/ CallerStalls \/ CallerLeaves
    \/ Handle \/ Shutdown \/ Stop
    \/ BodyEnds \/ Deadline \/ \E to \in {"silent", "broken"} : Cut(to)
    \/ Dial \/ Scan \/ ScanEnd

RelaySpec == RelayInit /\ [][RelayNext]_allVars

\* What the handler writes is taken: the client reads on, or there is no
\* connection any more and the write fails.
Drained == link \in {"broken", "ended"} \/ (link = "up" /\ Hears)

\* Goroutines run, every exec has a time limit, and every request a deadline.
\* A connection need not break, a controller need not stop, and a caller need
\* neither read nor leave; the handler moves on only while its writes do.
Alive(A) == ctrl # "stopped" /\ link # "none" /\ A /\ UNCHANGED relayVars
RelayFairSpec ==
    /\ RelaySpec
    /\ WF_allVars(Drained /\ Alive(Start)) /\ WF_allVars(Drained /\ Alive(Finish))
    /\ \A s \in Streams : WF_allVars(Drained /\ Alive(Step(s)))
    /\ WF_allVars(Alive(\E code \in Codes : Exit(code))) /\ WF_allVars(Alive(Wait))
    /\ WF_allVars(Dial) /\ WF_allVars(Scan) /\ WF_allVars(ScanEnd)
    /\ WF_allVars(BodyEnds) /\ WF_allVars(Deadline)

-----------------------------------------------------------------------------
\* Every variable of the relay stays in its type.
RelayTypeOK ==
    /\ caller \in {"reads", "stalls", "gone"}
    /\ ctrl \in {"serving", "draining", "stopped"}
    /\ call \in {"dial", "read", "done"}
    /\ link \in {"none", "up", "silent", "broken", "ended"}
    /\ scanned \in 0..Len(events)
    /\ result \in Codes
    /\ answer \in {NoAnswer, ErrorAnswer} \cup {ExitAnswer(c) : c \in Codes}

\* An exit code the caller is told is the one the controller sent, and the caller
\* has all the output the controller sent before it; 0 means that the command
\* has exited with 0.  ExecStream of the client does not ask for an exit event
\* and starts from code 0, and yet no broken connection and no stopping
\* controller passes for a success.
ExitIsGenuine ==
    answer.type = "exit" =>
        /\ scanned = Len(events) /\ ~open
        /\ Last # {} /\ events[scanned] = Event("exit", answer.code)
        /\ answer.code = "zero" => proc = "zero"

\* A bound on the steps that are left.  A byte that is read costs a read, an event
\* and its scan, and perhaps the truncated event and its scan.
PcLeft(d) ==
    CASE d.pc = "send" -> IF d.mark THEN 5 ELSE 3
      [] d.pc = "mark" -> 3
      [] d.pc = "read" -> 1
      [] OTHER -> 0
DrainLeft(s) == 5 * (MaxWrite - drain[s].read) + (MaxWrite - written[s]) + PcLeft(drain[s])
ProcLeft ==
    (CASE proc = "none" -> 2 [] proc = "running" -> 1 [] OTHER -> 0)
      + (IF waited THEN 0 ELSE 1) + (IF open THEN 2 ELSE 0)
CallLeft ==
    (CASE caller = "reads" -> 2 [] caller = "stalls" -> 1 [] OTHER -> 0)
      + (CASE ctrl = "serving" -> 2 [] ctrl = "draining" -> 1 [] OTHER -> 0)
      + (CASE call = "dial" -> 2 [] call = "read" -> 1 [] OTHER -> 0)
      + (CASE link = "none" -> 3 [] link = "up" -> 2 [] link = "silent" -> 1 [] OTHER -> 0)
StepsLeft ==
    DrainLeft("stdout") + DrainLeft("stderr") + ProcLeft + CallLeft + (Len(events) - scanned)

\* Nothing in an exec can be repeated for ever: with every step of the drains, of
\* the handler, of the connection, of the client and of its caller, failures
\* included, there are fewer left.
StepsRunOut == [][StepsLeft' < StepsLeft]_allVars

\* Every call returns, whatever breaks, unless its caller stays and does not read.
\* Even then the deadline closes the connection, and no controller that stays up
\* is left with a running command, or with a drain that waits to write.
CallReturns ==
    /\ <>(call = "done") \/ <>[](caller = "stalls")
    /\ link = "up" ~> (~open \/ ctrl = "stopped")

\* At its timeout "exec returns exit code 137" (docs/architecture.md:688): a call
\* returns, whatever its caller does.
AlwaysReturns == <>(call = "done")

-----------------------------------------------------------------------------
\* The MCP bash tool: what it puts together from the events, and whether it
\* tells of a cut.  It passes over the truncated event.
mcpBashTool ==
    [stdout |-> {events[i].to : i \in Of("stdout") \cap 1..scanned},
     stderr |-> {events[i].to : i \in Of("stderr") \cap 1..scanned},
     isError |-> answer # ExitAnswer("zero"),
     notice |-> FALSE]

\* The tool returns the full accumulated output (docs/architecture.md:290), or
\* says that it does not.
ToolOutputWhole ==
    answer.type = "exit" /\ ~mcpBashTool.notice =>
        \A s \in Streams : written[s] = 0 \/ written[s] \in mcpBashTool[s]
=============================================================================
