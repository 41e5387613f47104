-------------------------- MODULE ProcessExecutor --------------------------
(***************************************************************************)
(* One call of ProcessExecutor: the tool it starts, a helper that tool may *)
(* leave behind with the same standard output and standard error, the two  *)
(* pipes and the goroutines that drain them, the watchdog of the timeout,  *)
(* and the writers that cut the output into lines for the log.             *)
(*                                                                         *)
(* Output is a sequence of pieces; a stream is described by positions in   *)
(* it: pieces 1..out were written, those at `breaks` are newlines, 1..read *)
(* left the pipe, 1..kept were logged, and kept+1..read is what the        *)
(* writer's buffer holds.  A line is the pair of its first and last        *)
(* position.                                                               *)
(*                                                                         *)
(* os/exec is modelled as Go 1.23 implements it: Run waits for the process *)
(* alone, asks the watchdog for its verdict, and then waits for both       *)
(* goroutines, which end when nobody holds the pipe any more.              *)
(***************************************************************************)
EXTENDS Integers, FiniteSets

CONSTANTS
    MaxOut,     \* bound on the pieces written to each stream
    PipeSize,   \* how many pieces a pipe holds
    MaxToken,   \* the fragment bufio.Scanner gives up on: 64K, in pieces
    Timed       \* is there a timeout?

ASSUME SizeAssumption ==
    MaxOut \in Nat /\ PipeSize \in Nat \ {0} /\ MaxToken \in Nat \ {0}
ASSUME TimedAssumption == Timed \in BOOLEAN

VARIABLES
    mode,     \* "log": redirect to the logger; "result": return standard output
    call,     \* where the call is
    child,    \* the tool: how it stands, and how it ended
    helper,   \* the process it left behind
    expired,  \* has the timeout passed?
    watch,    \* the watchdog goroutine
    out, breaks, read, kept, writing, eof, lines,
    verdict,  \* what execute returned
    answer    \* how much of standard output ExecuteAndGetResult returned

streams == <<out, breaks, read, kept, writing, eof, lines>>
vars == <<mode, call, child, helper, expired, watch, streams, verdict, answer>>

Streams == {"stdout", "stderr"}

Positions == 1 .. MaxOut

Ended == {"exit 0", "exit 1", "killed"}
Verdicts == {"ok", "exit", "timeout", "error"}
NoAnswer == -1

TypeOK ==
    /\ mode \in {"log", "result"}
    /\ call \in {"start", "wait", "ask", "drain", "judge", "close stderr", "close stdout", "done"}
    /\ child \in {"none", "running"} \cup Ended
    /\ helper \in {"none", "running", "gone"}
    /\ expired \in BOOLEAN
    /\ watch \in {"waiting", "cancelled", "late"}
    /\ out \in [Streams -> 0 .. MaxOut]
    /\ breaks \in [Streams -> SUBSET Positions]
    /\ read \in [Streams -> 0 .. MaxOut]
    /\ kept \in [Streams -> 0 .. MaxOut]
    /\ writing \in [Streams -> BOOLEAN]
    /\ eof \in [Streams -> BOOLEAN]
    /\ lines \in [Streams -> SUBSET (Positions \X Positions)]
    /\ verdict \in Verdicts \cup {"none"}
    /\ answer \in 0 .. MaxOut \cup {NoAnswer}

Init ==
    /\ mode \in {"log", "result"}
    /\ call = "start"
    /\ child = "none"
    /\ helper = "none"
    /\ expired = FALSE
    /\ watch = "waiting"
    /\ out = [s \in Streams |-> 0]
    /\ breaks = [s \in Streams |-> {}]
    /\ read = [s \in Streams |-> 0]
    /\ kept = [s \in Streams |-> 0]
    /\ writing = [s \in Streams |-> FALSE]
    /\ eof = [s \in Streams |-> FALSE]
    /\ lines = [s \in Streams |-> {}]
    /\ verdict = "none"
    /\ answer = NoAnswer

-----------------------------------------------------------------------------
(***************************************************************************)
(* The tool and its helper.                                                *)
(***************************************************************************)

Alive == child = "running" \/ helper = "running"

\* A write blocks while the pipe is full.
ToolWrites(s) ==
    /\ Alive
    /\ out[s] < MaxOut
    /\ out[s] - read[s] < PipeSize
    /\ out' = [out EXCEPT ![s] = @ + 1]
    /\ \/ breaks' = [breaks EXCEPT ![s] = @ \cup {out[s] + 1}]
       \/ UNCHANGED breaks
    /\ UNCHANGED <<mode, call, child, helper, expired, watch,
                   read, kept, writing, eof, lines, verdict, answer>>

ToolForks ==
    /\ child = "running"
    /\ helper = "none"
    /\ helper' = "running"
    /\ UNCHANGED <<mode, call, child, expired, watch, streams, verdict, answer>>

ToolExits ==
    /\ child = "running"
    /\ child' \in {"exit 0", "exit 1"}
    /\ UNCHANGED <<mode, call, helper, expired, watch, streams, verdict, answer>>

HelperExits ==
    /\ helper = "running"
    /\ helper' = "gone"
    /\ UNCHANGED <<mode, call, child, expired, watch, streams, verdict, answer>>

-----------------------------------------------------------------------------
(***************************************************************************)
(* The watchdog.                                                           *)
(***************************************************************************)

Expire ==
    /\ Timed
    /\ call \in {"wait", "ask", "drain", "judge"}
    /\ ~expired
    /\ expired' = TRUE
    /\ UNCHANGED <<mode, call, child, helper, watch, streams, verdict, answer>>

\* Variant: the watchdog never kills.
CancelNothing ==
    /\ expired
    /\ watch = "waiting"
    /\ call \in {"wait", "ask"}
    /\ watch' = "late"
    /\ UNCHANGED <<mode, call, child, helper, expired, streams, verdict, answer>>

\* Killing a process that ended by itself and was not waited for yet succeeds
\* without effect; one that was waited for is reported as done.
Cancel ==
    /\ expired
    /\ watch = "waiting"
    /\ call \in {"wait", "ask"}
    /\ watch' = IF call = "ask" THEN "late" ELSE "cancelled"
    /\ child' = IF child = "running" THEN "killed" ELSE child
    /\ UNCHANGED <<mode, call, helper, expired, streams, verdict, answer>>

-----------------------------------------------------------------------------
(***************************************************************************)
(* The goroutines that drain the pipes, and loggerWriter.                  *)
(***************************************************************************)

Buffered(s) == kept[s] + 1 .. read[s]

\* Variant: standard error waits until standard output has ended.
DrainInTurn(s) ==
    /\ s = "stderr" => eof["stdout"]
    /\ ~writing[s]
    /\ \E k \in read[s] + 1 .. out[s] : read' = [read EXCEPT ![s] = k]
    /\ writing' = [writing EXCEPT ![s] = (mode = "log")]
    /\ UNCHANGED <<mode, call, child, helper, expired, watch,
                   out, breaks, kept, eof, lines, verdict, answer>>

\* The goroutine takes what the pipe has and hands it to Write.
Drain(s) ==
    /\ ~writing[s]
    /\ \E k \in read[s] + 1 .. out[s] : read' = [read EXCEPT ![s] = k]
    /\ writing' = [writing EXCEPT ![s] = (mode = "log")]
    /\ UNCHANGED <<mode, call, child, helper, expired, watch,
                   out, breaks, kept, eof, lines, verdict, answer>>

\* Variant: the line is everything up to the last newline.
LogLineGreedy(s) ==
    /\ writing[s]
    /\ \E b \in breaks[s] \cap Buffered(s) :
         /\ \A c \in breaks[s] \cap Buffered(s) : c <= b
         /\ lines' = [lines EXCEPT ![s] = @ \cup {<<kept[s] + 1, b>>}]
         /\ kept' = [kept EXCEPT ![s] = b]
    /\ UNCHANGED <<mode, call, child, helper, expired, watch,
                   out, breaks, read, writing, eof, verdict, answer>>

\* ReadString finds the next newline of the buffer.
LogLine(s) ==
    /\ writing[s]
    /\ \E b \in breaks[s] \cap Buffered(s) :
         /\ \A c \in breaks[s] \cap Buffered(s) : b <= c
         /\ lines' = [lines EXCEPT ![s] = @ \cup {<<kept[s] + 1, b>>}]
         /\ kept' = [kept EXCEPT ![s] = b]
    /\ UNCHANGED <<mode, call, child, helper, expired, watch,
                   out, breaks, read, writing, eof, verdict, answer>>

\* Variant: the fragment ReadString consumed is not put back.
EndWriteForgets(s) ==
    /\ writing[s]
    /\ breaks[s] \cap Buffered(s) = {}
    /\ writing' = [writing EXCEPT ![s] = FALSE]
    /\ kept' = [kept EXCEPT ![s] = read[s]]
    /\ UNCHANGED <<mode, call, child, helper, expired, watch,
                   out, breaks, read, eof, lines, verdict, answer>>

\* Variant: the loop goes on with the fragment it put back.
EndWriteSpins(s) ==
    /\ writing[s]
    /\ Buffered(s) = {}
    /\ writing' = [writing EXCEPT ![s] = FALSE]
    /\ UNCHANGED <<mode, call, child, helper, expired, watch,
                   out, breaks, read, kept, eof, lines, verdict, answer>>

\* No newline left: the fragment goes back to wait for the rest of its line.
EndWrite(s) ==
    /\ writing[s]
    /\ breaks[s] \cap Buffered(s) = {}
    /\ writing' = [writing EXCEPT ![s] = FALSE]
    /\ UNCHANGED <<mode, call, child, helper, expired, watch,
                   out, breaks, read, kept, eof, lines, verdict, answer>>

\* The pipe is empty and nobody can write to it any more.
Eof(s) ==
    /\ call # "start"
    /\ ~Alive
    /\ ~eof[s] /\ ~writing[s]
    /\ read[s] = out[s]
    /\ eof' = [eof EXCEPT ![s] = TRUE]
    /\ UNCHANGED <<mode, call, child, helper, expired, watch,
                   out, breaks, read, kept, writing, lines, verdict, answer>>

-----------------------------------------------------------------------------
(***************************************************************************)
(* The caller: execute, cmd.Run and the deferred Close of both writers.    *)
(***************************************************************************)

\* Where a finished execute goes: the writers are closed, or the output taken.
After == IF mode = "log" THEN "close stderr" ELSE "done"

Start ==
    /\ call = "start"
    /\ call' = "wait"
    /\ child' = "running"
    /\ UNCHANGED <<mode, helper, expired, watch, streams, verdict, answer>>

\* The executable or the working directory is not there.
StartFails ==
    /\ call = "start"
    /\ call' = After
    /\ verdict' = "error"
    /\ UNCHANGED <<mode, child, helper, expired, watch, streams, answer>>

Reap ==
    /\ call = "wait"
    /\ child \in Ended
    /\ call' = IF Timed THEN "ask" ELSE "drain"
    /\ UNCHANGED <<mode, child, helper, expired, watch, streams, verdict, answer>>

\* The watchdog answers what it did, or that it did nothing.
Ask ==
    /\ call = "ask"
    /\ call' = "drain"
    /\ UNCHANGED <<mode, child, helper, expired, watch, streams, verdict, answer>>

\* Variant: the output is not waited for.
DrainedEarly ==
    /\ call = "drain"
    /\ call' = "judge"
    /\ UNCHANGED <<mode, child, helper, expired, watch, streams, verdict, answer>>

Drained ==
    /\ call = "drain"
    /\ \A s \in Streams : eof[s]
    /\ call' = "judge"
    /\ UNCHANGED <<mode, child, helper, expired, watch, streams, verdict, answer>>

\* Variant: only the exit status counts, and a killed process has none.
JudgedByStatus == IF child = "exit 1" THEN "exit" ELSE "ok"

\* A process that ended well under a watchdog that tried to kill it is an
\* error; any other failure after the timeout counts as killed.
Judged ==
    CASE child = "exit 0" -> IF watch = "cancelled" THEN "error" ELSE "ok"
      [] child # "exit 0" -> IF Timed /\ expired THEN "timeout" ELSE "exit"

Judge ==
    /\ call = "judge"
    /\ call' = After
    /\ verdict' = Judged
    /\ answer' = IF mode = "result" /\ Judged = "ok" THEN read["stdout"] ELSE NoAnswer
    /\ UNCHANGED <<mode, child, helper, expired, watch, streams>>

\* Close flushes the fragment that never got its newline, through a Scanner.
Flushed(s) ==
    IF kept[s] < read[s] /\ read[s] - kept[s] < MaxToken
    THEN [lines EXCEPT ![s] = @ \cup {<<kept[s] + 1, read[s]>>}]
    ELSE lines

Close(s, from, to) ==
    /\ call = from
    /\ call' = to
    /\ lines' = Flushed(s)
    /\ kept' = [kept EXCEPT ![s] = read[s]]
    /\ UNCHANGED <<mode, child, helper, expired, watch,
                   out, breaks, read, writing, eof, verdict, answer>>

CloseStderr == Close("stderr", "close stderr", "close stdout")
CloseStdout == Close("stdout", "close stdout", "done")

-----------------------------------------------------------------------------

Goroutine(s) == Drain(s) \/ LogLine(s) \/ EndWrite(s) \/ Eof(s)

Caller ==
    \/ Start \/ StartFails \/ Reap \/ Ask \/ Drained \/ Judge
    \/ CloseStderr \/ CloseStdout

Tool == ToolForks \/ ToolExits \/ HelperExits \/ \E s \in Streams : ToolWrites(s)

Next == Caller \/ Tool \/ Expire \/ Cancel \/ \E s \in Streams : Goroutine(s)

Spec == Init /\ [][Next]_vars

\* Goroutines are scheduled and time passes; the tool and its helper owe
\* nothing to anybody.
Fairness ==
    /\ WF_vars(Caller) /\ WF_vars(Expire) /\ WF_vars(Cancel)
    /\ \A s \in Streams : WF_vars(Goroutine(s))

FairSpec == Spec /\ Fairness

-----------------------------------------------------------------------------

\* A logged line is a line of the output: it starts after a newline or at the
\* beginning, has none inside, and ends with one unless it is the fragment
\* flushed at the end, whatever the chunks it arrived in (loggerWriter).
LinesAreLines ==
    \A s \in Streams : \A l \in lines[s] :
        /\ l[1] = 1 \/ l[1] - 1 \in breaks[s]
        /\ (l[1] .. l[2] - 1) \cap breaks[s] = {}
        /\ l[2] \in breaks[s] \/ (l[2] = out[s] /\ ~Alive /\ eof[s])

Logged(s) == UNION {l[1] .. l[2] : l \in lines[s]}

\* When the call returns, everything the tool and its helper ever wrote is in
\* the log: "A trailing fragment with no newline is flushed on Close, which is
\* why the executor closes both writers" (process_executor.go:194-195).
OutputComplete ==
    call = "done" /\ mode = "log" => \A s \in Streams : Logged(s) = 1 .. out[s]

\* A version probe that answers answers with all the tool printed, and only for
\* a tool that ended well (ExecuteAndGetResult).
AnswerIsWhole ==
    answer # NoAnswer => child = "exit 0" /\ ~Alive /\ answer = out["stdout"]

\* Success is never reported of a tool that failed or was killed, and an exit
\* status never of one that was killed (execute).
VerdictIsTrue ==
    /\ verdict = "ok" => child = "exit 0"
    /\ verdict = "exit" => child = "exit 1"
    /\ child = "killed" /\ call = "done" => verdict = "timeout"

\* The tool does not outlive its timeout (process_executor.go:35-36).
TimeoutKills == expired ~> child # "running"

\* Once nobody holds the pipes the call returns, however full they were.
CallReturns == (call # "start" /\ ~Alive) ~> call = "done"

\* A tool blocked on a full pipe gets to go on: the pipes are drained side by
\* side, so neither waits for the other (cmd.Run's two goroutines).
PipesDrain == \A s \in Streams : []<>(out[s] - read[s] < PipeSize)

=============================================================================
