----------------------------- MODULE ExecOutput -----------------------------
(***************************************************************************)
(* What becomes of the output of one command that is not streamed: the     *)
(* adapter's limitWriter, filled by the copying goroutine of os/exec, the  *)
(* answer built from it, and what handleExec, handleFileRead and EditFile  *)
(* make of that.                                                           *)
(*                                                                         *)
(* Bytes are counted, not stored.  Of their values one thing matters: after*)
(* which of them the output, cut there, is valid UTF-8.                    *)
(***************************************************************************)
EXTENDS Integers

CONSTANTS MaxOutputBytes,  \* 0: no limit
          MaxLen,          \* bound: length of the output
          MaxChunk         \* bound: what one read of the pipe returns

ASSUME LimitAssumption ==
    MaxOutputBytes \in Nat /\ MaxLen \in Nat /\ MaxChunk \in Nat \ {0}

UTFMax == 4

\* code 0: there is no answer yet; notice: it says that output was cut.
Answer(code, len, notice) == [code |-> code, len |-> len, notice |-> notice]
NoAnswer == Answer(0, 0, FALSE)

VARIABLES handler, \* of "exec", "read" or "edit"
          out,     \* the output of the command: its length, and the cuts that
                   \* leave valid UTF-8
          copied,  \* bytes the goroutine has taken from the pipe
          buf,     \* bytes in the limitWriter
          copyErr, \* the copy ended with io.ErrShortWrite
          proc,    \* "running", "ok", "failed" (any exit code but 0)
          resp     \* the answer

outputVars == <<handler, out, copied, buf, copyErr, proc, resp>>

\* Of text: the ends of its runes.  Of other data: anything.
Cuts(len) == {cuts \in SUBSET (0..len) : 0 \in cuts}
IsText(o) ==
    /\ o.len \in o.cuts
    /\ \A n \in 1..o.len : \E c \in o.cuts : n \in c..(c + UTFMax - 1)

Smaller(a, b) == IF a < b THEN a ELSE b

-----------------------------------------------------------------------------
\* limitWriter.Write: what it stores of n bytes, and what it returns.  Once it
\* is full it claims to have written everything.
Remaining == MaxOutputBytes - buf

Stored(n) == IF MaxOutputBytes = 0 THEN n ELSE Smaller(n, Remaining)

Returned(n) == IF MaxOutputBytes > 0 /\ Remaining <= 0 THEN n ELSE Stored(n)

\* One round of io.Copy.  A short write ends it and closes the pipe.
Copy(n) ==
    /\ resp = NoAnswer /\ ~copyErr
    /\ n \in 1..Smaller(MaxChunk, out.len - copied)
    /\ copied' = copied + n
    /\ buf' = buf + Stored(n)
    /\ copyErr' = (Returned(n) < n)
    /\ UNCHANGED <<handler, out, proc, resp>>

\* The process ends: on its own, by the time limit, or because its pipe was
\* closed.  What it wrote is still in the pipe.
ProcExit(status) ==
    /\ proc = "running"
    /\ proc' = status
    /\ UNCHANGED <<handler, out, copied, buf, copyErr, resp>>

-----------------------------------------------------------------------------
\* The error of cmd.Run: an ExitError comes before an error of the copy.
RunErr == IF proc = "failed" THEN "exit" ELSE IF copyErr THEN "copy" ELSE "none"

\* Mutant of Truncated: only output over the limit counts.
TruncatedOver(n) == MaxOutputBytes > 0 /\ n > MaxOutputBytes

\* ReadFile: whether the file was cut.  It cannot tell a file of exactly the limit.
Truncated(n) == MaxOutputBytes > 0 /\ n >= MaxOutputBytes

\* Mutant of trimPartialRune: one round less.
trimPartialRuneTwice(n) ==
    LET tries == {k \in 0..2 : k <= n /\ (k = 2 \/ k = n \/ n - k \in out.cuts)}
    IN n - (CHOOSE k \in tries : \A j \in tries : k <= j)

\* trimPartialRune: drop at most UTFMax - 1 bytes, as long as the rest is invalid.
trimPartialRune(n) ==
    LET last == UTFMax - 1
        tries == {k \in 0..last : k <= n /\ (k = last \/ k = n \/ n - k \in out.cuts)}
    IN n - (CHOOSE k \in tries : \A j \in tries : k <= j)

\* truncateOutput: the length it cuts to, and whether it says so.  (The notice
\* takes part of the limit; its length is left out.)
truncateOutput(n) ==
    IF MaxOutputBytes = 0 \/ n <= MaxOutputBytes THEN [len |-> n, notice |-> FALSE]
    ELSE [len |-> MaxOutputBytes, notice |-> TRUE]

\* buildExecResponse: an ExitError is an answer, and so is any error once the
\* deadline has passed (late); other errors are not.
NsjailError(late) == RunErr = "copy" /\ ~late
Output == IF RunErr = "copy" THEN 0 ELSE buf
ExitZero == RunErr = "none"

\* handleExec: any exit code is an answer.
ExecAnswer(late) ==
    LET t == truncateOutput(Output)
    IN IF NsjailError(late) THEN Answer(500, 0, FALSE) ELSE Answer(200, t.len, t.notice)

\* ReadFile and handleFileRead.
ReadAnswer(late) ==
    LET n == IF Truncated(Output) THEN trimPartialRune(Output) ELSE Output
    IN CASE NsjailError(late) -> Answer(500, 0, FALSE)
         [] ExitZero /\ n \in out.cuts -> Answer(200, n, Truncated(Output))
         [] OTHER -> Answer(400, 0, FALSE)

\* EditFile: len is what it writes back in place of the file.
EditAnswer(late) ==
    CASE NsjailError(late) -> Answer(500, 0, FALSE)
      [] ExitZero /\ ~Truncated(Output) -> Answer(200, Output, FALSE)
      [] OTHER -> Answer(400, 0, FALSE)

Respond ==
    /\ resp = NoAnswer
    /\ proc # "running"
    /\ copied = out.len \/ copyErr
    /\ \E late \in BOOLEAN :
         resp' = CASE handler = "exec" -> ExecAnswer(late)
                   [] handler = "read" -> ReadAnswer(late)
                   [] handler = "edit" -> EditAnswer(late)
    /\ UNCHANGED <<handler, out, copied, buf, copyErr, proc>>

-----------------------------------------------------------------------------
OutputInit ==
    /\ handler \in {"exec", "read", "edit"}
    /\ \E len \in 0..MaxLen : \E cuts \in Cuts(len) : out = [len |-> len, cuts |-> cuts]
    /\ copied = 0 /\ buf = 0 /\ copyErr = FALSE
    /\ proc = "running" /\ resp = NoAnswer

OutputNext ==
    \/ \E n \in 1..MaxChunk : Copy(n)
    \/ \E status \in {"ok", "failed"} : ProcExit(status)
    \/ Respond

OutputSpec == OutputInit /\ [][OutputNext]_outputVars

-----------------------------------------------------------------------------
\* Every variable stays in its type; a limit bounds what is kept in memory.
OutputTypeOK ==
    /\ handler \in {"exec", "read", "edit"}
    /\ out \in [len : 0..MaxLen, cuts : SUBSET (0..MaxLen)]
    /\ copied \in 0..MaxLen
    /\ buf \in 0..(IF MaxOutputBytes = 0 THEN MaxLen ELSE Smaller(MaxOutputBytes, MaxLen))
    /\ copyErr \in BOOLEAN
    /\ proc \in {"running", "ok", "failed"}
    /\ resp \in [code : {0, 200, 400, 500}, len : 0..MaxLen, notice : BOOLEAN]

\* No handler takes a part of a file for the whole, whatever the chunks: a read
\* that returns less than the file says so, and EditFile, whose check for
\* truncation catches every cut, never writes back a part.
CutsAreNoticed ==
    resp.code = 200 /\ resp.len < out.len /\ handler # "exec" =>
        handler = "read" /\ resp.notice

\* A text file read to the end or up to the limit is returned as text, cut
\* between two runes: the limit does not turn it into "not valid UTF-8".
TextStaysText ==
    resp # NoAnswer /\ handler = "read" /\ IsText(out) /\ ExitZero => resp.code = 200

\* Output over the limit is truncated with a notice, and the answer is 200 OK
\* (README.md:284).
TruncationIsANotice ==
    resp # NoAnswer /\ handler = "exec" =>
        /\ resp.code = 200
        /\ resp.len < copied => resp.notice
=============================================================================
