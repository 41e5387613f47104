----------------------- MODULE ProcessExecutor_proofs -----------------------
(***************************************************************************)
(* Proofs about ProcessExecutor, for streams and pipes of any size, with a *)
(* timeout or without one.                                                 *)
(***************************************************************************)
EXTENDS ProcessExecutor, TLAPS

(***************************************************************************)
(* TypeOK in two parts: what is Boolean and what is not.                   *)
(***************************************************************************)
Flags ==
    /\ expired \in BOOLEAN
    /\ writing \in [Streams -> BOOLEAN]
    /\ eof \in [Streams -> BOOLEAN]

Control ==
    /\ mode \in {"log", "result"}
    /\ call \in {"start", "wait", "ask", "drain", "judge", "close stderr", "close stdout", "done"}
    /\ child \in {"none", "running"} \cup Ended
    /\ helper \in {"none", "running", "gone"}
    /\ watch \in {"waiting", "cancelled", "late"}
    /\ verdict \in Verdicts \cup {"none"}

Counts ==
    /\ out \in [Streams -> 0 .. MaxOut]
    /\ breaks \in [Streams -> SUBSET Positions]
    /\ read \in [Streams -> 0 .. MaxOut]
    /\ kept \in [Streams -> 0 .. MaxOut]
    /\ lines \in [Streams -> SUBSET (Positions \X Positions)]
    /\ answer \in 0 .. MaxOut \cup {NoAnswer}

LEMMA TypeParts == TypeOK <=> Flags /\ Control /\ Counts
  BY Zenon DEF TypeOK, Flags, Control, Counts

LEMMA TypeInit == Init => TypeOK
  <1> SUFFICES ASSUME Init PROVE Flags /\ Control /\ Counts
    BY TypeParts
  <1>1. Flags
    BY DEF Init, Flags
  <1>2. Control
    BY DEF Init, Control
  <1>3. Counts
    BY SizeAssumption DEF Init, Counts
  <1> QED
    BY <1>1, <1>2, <1>3

LEMMA FlagsNext == Flags /\ [Next]_vars => Flags'
  BY DEF Flags, Next, vars, streams, Caller, Start, StartFails, Reap, Ask, Drained, Judge,
         CloseStderr, CloseStdout, Close, Tool, ToolForks, ToolExits, HelperExits,
         ToolWrites, Expire, Cancel, Goroutine, Drain, LogLine, EndWrite, Eof

LEMMA ControlNext == Control /\ [Next]_vars => Control'
  BY DEF Control, Next, vars, streams, Caller, Start, StartFails, Reap, Ask, Drained, Judge,
         CloseStderr, CloseStdout, Close, Tool, ToolForks, ToolExits, HelperExits,
         ToolWrites, Expire, Cancel, Goroutine, Drain, LogLine, EndWrite, Eof,
         After, Judged, Verdicts, Ended

LEMMA CountsNext == Counts /\ [Next]_vars => Counts'
  <1> SUFFICES ASSUME Counts, [Next]_vars PROVE Counts'
    OBVIOUS
  <1> USE SizeAssumption DEF Counts, streams
  <1>1. CASE UNCHANGED vars
    BY <1>1 DEF vars
  <1>2. ASSUME \/ Start \/ StartFails \/ Reap \/ Ask \/ Drained
               \/ ToolForks \/ ToolExits \/ HelperExits \/ Expire \/ Cancel
        PROVE  Counts'
    BY <1>2 DEF Start, StartFails, Reap, Ask, Drained, ToolForks, ToolExits, HelperExits,
                Expire, Cancel
  <1>3. CASE Judge
    BY <1>3 DEF Judge, Streams
  <1>4. ASSUME NEW s \in Streams, NEW from, NEW to, Close(s, from, to)
        PROVE  Counts'
    <2>1. kept[s] < read[s] => <<kept[s] + 1, read[s]>> \in Positions \X Positions
      BY DEF Positions
    <2>2. lines' \in [Streams -> SUBSET (Positions \X Positions)]
      BY <1>4, <2>1 DEF Close, Flushed
    <2> QED
      BY <1>4, <2>2 DEF Close
  <1>5. CASE CloseStderr \/ CloseStdout
    BY <1>4, <1>5 DEF CloseStderr, CloseStdout, Streams
  <1>6. ASSUME NEW s \in Streams, ToolWrites(s) PROVE Counts'
    <2>1. out[s] + 1 \in Positions
      BY <1>6 DEF ToolWrites, Positions
    <2> QED
      BY <1>6, <2>1 DEF ToolWrites, Positions
  <1>7. ASSUME NEW s \in Streams, Drain(s) \/ EndWrite(s) \/ Eof(s) PROVE Counts'
    BY <1>7 DEF Drain, EndWrite, Eof
  <1>8. ASSUME NEW s \in Streams, LogLine(s) PROVE Counts'
    <2> PICK b \in breaks[s] \cap Buffered(s) :
               /\ lines' = [lines EXCEPT ![s] = @ \cup {<<kept[s] + 1, b>>}]
               /\ kept' = [kept EXCEPT ![s] = b]
      BY <1>8 DEF LogLine
    <2>1. <<kept[s] + 1, b>> \in Positions \X Positions /\ b \in 0 .. MaxOut
      BY DEF Buffered, Positions
    <2> QED
      BY <1>8, <2>1 DEF LogLine
  <1> QED
    BY <1>1, <1>2, <1>3, <1>5, <1>6, <1>7, <1>8 DEF Next, Caller, Tool, Goroutine

LEMMA TypeNext == TypeOK /\ [Next]_vars => TypeOK'
  <1>1. TypeOK' <=> Flags' /\ Control' /\ Counts'
    BY Zenon DEF TypeOK, Flags, Control, Counts
  <1> QED
    BY TypeParts, FlagsNext, ControlNext, CountsNext, <1>1

(***************************************************************************)
(* The type of every variable of a call.                                   *)
(***************************************************************************)
THEOREM TypeCorrect == Spec => []TypeOK
  BY TypeInit, TypeNext, PTL DEF Spec

-----------------------------------------------------------------------------
(***************************************************************************)
(* How a call and its processes stand to each other.  The verdict is given *)
(* of a tool that has ended, with nobody left to write: a stream at its    *)
(* end stays there, and only a passed timeout kills.                       *)
(***************************************************************************)
Over == {"close stderr", "close stdout", "done"}

ChildInv ==
    /\ call = "start" => child = "none"
    /\ child = "none" => helper = "none" /\ call \in {"start"} \cup Over /\ verdict \in {"none", "error"}
    /\ call \in {"ask", "drain", "judge"} => child \in Ended
    /\ child = "running" => call = "wait"

TimeoutInv ==
    /\ expired => Timed
    /\ child = "killed" => expired

EndInv ==
    /\ \A s \in Streams : eof[s] => call # "start" /\ ~Alive
    /\ call = "judge" => \A s \in Streams : eof[s]
    /\ call \in Over => child = "none" \/ \A s \in Streams : eof[s]

JudgedInv ==
    /\ verdict = "ok" => child = "exit 0"
    /\ verdict = "exit" => child = "exit 1"
    /\ child = "killed" /\ call \in Over => verdict = "timeout"

CallInv == ChildInv /\ TimeoutInv /\ EndInv /\ JudgedInv

LEMMA CallInit == Init => CallInv
  BY DEF Init, CallInv, ChildInv, TimeoutInv, EndInv, JudgedInv, Ended, Over, Streams

LEMMA ChildNext == Control /\ ChildInv /\ [Next]_vars => ChildInv'
  <1> SUFFICES ASSUME Control, ChildInv, [Next]_vars PROVE ChildInv'
    OBVIOUS
  <1> USE DEF Control, ChildInv, Over, Ended
  <1>1. ASSUME UNCHANGED <<call, child, helper, verdict>> PROVE ChildInv'
    BY <1>1
  <1>2. ASSUME Start \/ StartFails \/ Reap \/ Ask \/ Drained PROVE ChildInv'
    BY <1>2 DEF Start, StartFails, Reap, Ask, Drained, After
  <1>3. ASSUME Judge \/ CloseStderr \/ CloseStdout PROVE ChildInv'
    BY <1>3 DEF Judge, CloseStderr, CloseStdout, Close, After
  <1>4. ASSUME ToolForks \/ ToolExits \/ HelperExits \/ Cancel PROVE ChildInv'
    BY <1>4 DEF ToolForks, ToolExits, HelperExits, Cancel
  <1> QED
    BY <1>1, <1>2, <1>3, <1>4
    DEF Next, vars, streams, Caller, Tool, ToolWrites, Expire, Goroutine, Drain, LogLine,
        EndWrite, Eof

LEMMA TimeoutNext == TimeoutInv /\ [Next]_vars => TimeoutInv'
  <1> SUFFICES ASSUME TimeoutInv, [Next]_vars PROVE TimeoutInv'
    OBVIOUS
  <1> USE DEF TimeoutInv
  <1>1. ASSUME UNCHANGED <<child, expired>> PROVE TimeoutInv'
    BY <1>1
  <1>2. ASSUME Start \/ ToolExits PROVE TimeoutInv'
    <2>1. expired' = expired /\ child' # "killed"
      BY <1>2 DEF Start, ToolExits
    <2> QED
      BY <2>1
  <1>3. CASE Expire
    BY <1>3 DEF Expire
  <1>4. CASE Cancel
    BY <1>4 DEF Cancel
  <1> QED
    BY <1>1, <1>2, <1>3, <1>4
    DEF Next, vars, streams, Caller, StartFails, Reap, Ask, Drained, Judge, CloseStderr,
        CloseStdout, Close, Tool, ToolForks, HelperExits, ToolWrites, Goroutine, Drain,
        LogLine, EndWrite, Eof

LEMMA EndNext == Control /\ Flags /\ ChildInv /\ EndInv /\ [Next]_vars => EndInv'
  <1> SUFFICES ASSUME Control, Flags, ChildInv, EndInv, [Next]_vars PROVE EndInv'
    OBVIOUS
  <1> USE DEF Control, Flags, ChildInv, EndInv, Alive, Over, Ended, streams
  <1>1. ASSUME UNCHANGED <<call, child, helper, eof>> PROVE EndInv'
    BY <1>1
  <1>2. ASSUME Start \/ StartFails PROVE EndInv'
    BY <1>2 DEF Start, StartFails, After
  <1>3. ASSUME Reap \/ Ask \/ Drained \/ Judge \/ CloseStderr \/ CloseStdout PROVE EndInv'
    BY <1>3 DEF Reap, Ask, Drained, Judge, CloseStderr, CloseStdout, Close, After
  <1>4. ASSUME ToolForks \/ ToolExits \/ HelperExits \/ Cancel PROVE EndInv'
    BY <1>4 DEF ToolForks, ToolExits, HelperExits, Cancel
  <1>5. ASSUME NEW s \in Streams, Eof(s) PROVE EndInv'
    BY <1>5 DEF Eof
  <1> QED
    BY <1>1, <1>2, <1>3, <1>4, <1>5
    DEF Next, vars, Caller, Tool, ToolWrites, Expire, Goroutine, Drain, LogLine, EndWrite

LEMMA JudgedNext ==
    Control /\ ChildInv /\ TimeoutInv /\ JudgedInv /\ [Next]_vars => JudgedInv'
  <1> SUFFICES ASSUME Control, ChildInv, TimeoutInv, JudgedInv, [Next]_vars PROVE JudgedInv'
    OBVIOUS
  <1> USE DEF Control, ChildInv, TimeoutInv, JudgedInv, Over, Ended
  <1>1. ASSUME UNCHANGED <<call, child, verdict>> PROVE JudgedInv'
    BY <1>1
  <1>2. ASSUME Start \/ StartFails \/ Reap \/ Ask \/ Drained \/ CloseStderr \/ CloseStdout
        PROVE  JudgedInv'
    BY <1>2 DEF Start, StartFails, Reap, Ask, Drained, CloseStderr, CloseStdout, Close, After
  <1>3. CASE Judge
    BY <1>3 DEF Judge, Judged, After
  <1>4. ASSUME ToolExits \/ Cancel PROVE JudgedInv'
    BY <1>4 DEF ToolExits, Cancel
  <1> QED
    BY <1>1, <1>2, <1>3, <1>4
    DEF Next, vars, streams, Caller, Tool, ToolForks, HelperExits, ToolWrites, Expire,
        Goroutine, Drain, LogLine, EndWrite, Eof

LEMMA CallNext == TypeOK /\ CallInv /\ [Next]_vars => CallInv'
  BY TypeParts, ChildNext, TimeoutNext, EndNext, JudgedNext DEF CallInv

(***************************************************************************)
(* Whenever the timeout passes and whatever the watchdog meets, the        *)
(* verdict is true of how the tool ended.                                  *)
(***************************************************************************)
THEOREM VerdictsAreTrue == Spec => []VerdictIsTrue
  <1>1. CallInv => VerdictIsTrue
    BY DEF CallInv, JudgedInv, VerdictIsTrue, Over
  <1> QED
    BY TypeInit, TypeNext, CallInit, CallNext, <1>1, PTL DEF Spec

-----------------------------------------------------------------------------
(***************************************************************************)
(* How the positions of a stream stand to each other.  What is behind the  *)
(* last newline that was passed to the log waits in the buffer (`kept`     *)
(* stops at a newline until the writer is closed), and outside of Write    *)
(* the buffer has no newline: the fragment Close flushes is one line.      *)
(***************************************************************************)
PlaceInv ==
    \A s \in Streams :
        /\ kept[s] <= read[s] /\ read[s] <= out[s]
        /\ breaks[s] \subseteq 1 .. out[s]
        /\ eof[s] => read[s] = out[s] /\ ~writing[s]
        /\ child = "none" => out[s] = 0

BufferInv ==
    \A s \in Streams :
        /\ writing[s] => mode = "log"
        /\ mode = "log" /\ ~writing[s] => breaks[s] \cap Buffered(s) = {}
        /\ kept[s] = 0 \/ kept[s] \in breaks[s] \/ (eof[s] /\ kept[s] = read[s])

LineInv ==
    \A s \in Streams : \A l \in lines[s] :
        /\ l[2] <= kept[s]
        /\ l[1] = 1 \/ l[1] - 1 \in breaks[s]
        /\ (l[1] .. l[2] - 1) \cap breaks[s] = {}
        /\ l[2] \in breaks[s] \/ (l[2] = out[s] /\ eof[s])

ModeInv == call \in {"close stderr", "close stdout"} => mode = "log"

LEMMA PlaceInit == Init => PlaceInv /\ BufferInv /\ LineInv /\ ModeInv
  BY DEF Init, PlaceInv, BufferInv, LineInv, ModeInv, Buffered

LEMMA ModeNext == ModeInv /\ [Next]_vars => ModeInv'
  <1> SUFFICES ASSUME ModeInv, [Next]_vars PROVE ModeInv'
    OBVIOUS
  <1> USE DEF ModeInv
  <1>1. ASSUME UNCHANGED <<call, mode>> PROVE ModeInv'
    BY <1>1
  <1>2. ASSUME Caller PROVE ModeInv'
    BY <1>2 DEF Caller, Start, StartFails, Reap, Ask, Drained, Judge, After, CloseStderr,
                CloseStdout, Close
  <1> QED
    BY <1>1, <1>2
    DEF Next, vars, streams, Tool, ToolForks, ToolExits, HelperExits, ToolWrites, Expire,
        Cancel, Goroutine, Drain, LogLine, EndWrite, Eof

\* Closing a writer: its stream has ended, or nothing was ever started.
Closing(s) ==
    /\ kept' = [kept EXCEPT ![s] = read[s]]
    /\ lines' = Flushed(s)
    /\ eof[s] \/ child = "none"
    /\ UNCHANGED <<mode, child, helper, out, breaks, read, writing, eof>>

LEMMA CloseStep ==
    ASSUME EndInv, ModeInv, CloseStderr \/ CloseStdout
    PROVE  mode = "log" /\ \E s \in Streams : Closing(s)
  <1>1. ASSUME NEW s \in Streams, NEW from \in {"close stderr", "close stdout"}, NEW to,
               Close(s, from, to)
        PROVE  mode = "log" /\ Closing(s)
    <2>1. mode = "log"
      BY <1>1 DEF Close, ModeInv
    <2>2. eof[s] \/ child = "none"
      BY <1>1 DEF Close, EndInv, Over
    <2> QED
      BY <1>1, <2>1, <2>2 DEF Close, Closing
  <1> QED
    BY <1>1 DEF CloseStderr, CloseStdout, Streams

LEMMA PlaceNext ==
    /\ Flags /\ Counts /\ ChildInv /\ EndInv /\ ModeInv
    /\ PlaceInv /\ [Next]_vars
    => PlaceInv'
  <1> SUFFICES ASSUME Flags, Counts, ChildInv, EndInv, ModeInv, PlaceInv, [Next]_vars
               PROVE  PlaceInv'
    OBVIOUS
  <1> USE SizeAssumption DEF Flags, Counts, PlaceInv
  <1>1. ASSUME UNCHANGED <<out, breaks, read, kept, writing, eof>>,
               child' = "none" => child = "none"
        PROVE  PlaceInv'
    BY <1>1
  <1>2. ASSUME \/ Start \/ StartFails \/ Reap \/ Ask \/ Drained \/ Judge
               \/ ToolForks \/ ToolExits \/ HelperExits \/ Expire \/ Cancel
        PROVE  PlaceInv'
    BY <1>1, <1>2
    DEF Start, StartFails, Reap, Ask, Drained, Judge, ToolForks, ToolExits, HelperExits,
        Expire, Cancel, streams
  <1>3. ASSUME NEW s \in Streams, ToolWrites(s) PROVE PlaceInv'
    <2>1. child # "none" /\ ~eof[s]
      BY <1>3 DEF ToolWrites, Alive, ChildInv, EndInv
    <2> QED
      BY <1>3, <2>1 DEF ToolWrites
  <1>4. ASSUME NEW s \in Streams, Drain(s) PROVE PlaceInv'
    BY <1>4 DEF Drain
  <1>5. ASSUME NEW s \in Streams, LogLine(s) PROVE PlaceInv'
    BY <1>5 DEF LogLine, Buffered
  <1>6. ASSUME NEW s \in Streams, EndWrite(s) \/ Eof(s) PROVE PlaceInv'
    BY <1>6 DEF EndWrite, Eof
  <1>7. ASSUME CloseStderr \/ CloseStdout PROVE PlaceInv'
    BY <1>7, CloseStep DEF Closing
  <1> QED
    BY <1>1, <1>2, <1>3, <1>4, <1>5, <1>6, <1>7 DEF Next, vars, streams, Caller, Tool, Goroutine

LEMMA BufferNext ==
    /\ Flags /\ Counts /\ EndInv /\ PlaceInv /\ ModeInv /\ ChildInv
    /\ BufferInv /\ [Next]_vars
    => BufferInv'
  <1> SUFFICES ASSUME Flags, Counts, EndInv, PlaceInv, ModeInv, ChildInv, BufferInv, [Next]_vars
               PROVE  BufferInv'
    OBVIOUS
  <1> USE SizeAssumption DEF Flags, Counts, PlaceInv, BufferInv, Buffered
  <1>1. ASSUME UNCHANGED <<mode, breaks, read, kept, writing, eof>> PROVE BufferInv'
    BY <1>1
  <1>2. ASSUME NEW s \in Streams, ToolWrites(s) PROVE BufferInv'
    <2>1. ~eof[s]
      BY <1>2 DEF ToolWrites, EndInv
    <2>2. breaks'[s] \cap (kept[s] + 1 .. read[s]) = breaks[s] \cap (kept[s] + 1 .. read[s])
      BY <1>2 DEF ToolWrites
    <2> QED
      BY <1>2, <2>1, <2>2 DEF ToolWrites
  <1>3. ASSUME NEW s \in Streams, Drain(s) PROVE BufferInv'
    <2>1. ~eof[s]
      BY <1>3 DEF Drain
    <2>2. writing'[s] <=> mode = "log"
      BY <1>3 DEF Drain
    <2>3. \A z \in Streams \ {s} : writing'[z] = writing[z] /\ read'[z] = read[z]
      BY <1>3 DEF Drain
    <2>4. UNCHANGED <<mode, breaks, kept, eof>>
      BY <1>3 DEF Drain
    <2>5. ASSUME NEW z \in Streams \ {s}
          PROVE  /\ writing'[z] => mode = "log"
                 /\ mode = "log" /\ ~writing'[z] => breaks[z] \cap (kept[z] + 1 .. read'[z]) = {}
                 /\ kept[z] = 0 \/ kept[z] \in breaks[z] \/ (eof[z] /\ kept[z] = read'[z])
      BY <2>3, <2>5
    <2> QED
      BY <2>1, <2>2, <2>4, <2>5
  <1>4. ASSUME NEW s \in Streams, LogLine(s) PROVE BufferInv'
    BY <1>4 DEF LogLine
  <1>5. ASSUME NEW s \in Streams, EndWrite(s) PROVE BufferInv'
    BY <1>5 DEF EndWrite
  <1>6. ASSUME NEW s \in Streams, Eof(s) PROVE BufferInv'
    BY <1>6 DEF Eof
  <1>7. ASSUME CloseStderr \/ CloseStdout PROVE BufferInv'
    <2>1. PICK s \in Streams : Closing(s)
      BY <1>7, CloseStep
    <2>2. kept[s] <= read[s] /\ (eof[s] \/ read[s] = kept[s])
      BY <2>1 DEF Closing
    <2> QED
      BY <2>1, <2>2 DEF Closing
  <1> QED
    BY <1>1, <1>2, <1>3, <1>4, <1>5, <1>6, <1>7
    DEF Next, vars, streams, Caller, Start, StartFails, Reap, Ask, Drained, Judge,
        Tool, ToolForks, ToolExits, HelperExits, Expire, Cancel, Goroutine

LEMMA LineNext ==
    /\ Flags /\ Counts /\ EndInv /\ PlaceInv /\ ModeInv /\ BufferInv
    /\ LineInv /\ [Next]_vars
    => LineInv'
  <1> SUFFICES ASSUME Flags, Counts, EndInv, PlaceInv, ModeInv, BufferInv, LineInv, [Next]_vars
               PROVE  LineInv'
    OBVIOUS
  <1> USE SizeAssumption DEF Counts, PlaceInv, LineInv
  <1>1. ASSUME UNCHANGED <<out, breaks, kept, eof, lines>> PROVE LineInv'
    BY <1>1
  <1>2. ASSUME NEW s \in Streams, ToolWrites(s) PROVE LineInv'
    <2>1. ~eof[s]
      BY <1>2 DEF ToolWrites, EndInv
    <2> SUFFICES ASSUME NEW z \in Streams, NEW l \in lines[z]
                 PROVE  /\ l[2] <= kept[z]
                        /\ l[1] = 1 \/ l[1] - 1 \in breaks'[z]
                        /\ (l[1] .. l[2] - 1) \cap breaks'[z] = {}
                        /\ l[2] \in breaks'[z] \/ (l[2] = out'[z] /\ eof[z])
      BY <1>2 DEF ToolWrites
    <2>2. l[1] \in Positions /\ l[2] \in Positions
      OBVIOUS
    <2>3. CASE z # s
      BY <1>2, <2>3 DEF ToolWrites
    <2>4. CASE z = s
      <3>1. breaks[s] \subseteq breaks'[s] /\ breaks'[s] \subseteq breaks[s] \cup {out[s] + 1}
        BY <1>2 DEF ToolWrites
      <3> QED
        BY <2>1, <2>2, <2>4, <3>1 DEF Positions
    <2> QED
      BY <2>3, <2>4
  <1>3. ASSUME NEW s \in Streams, LogLine(s) PROVE LineInv'
    <2> PICK b \in breaks[s] \cap Buffered(s) :
               /\ \A c \in breaks[s] \cap Buffered(s) : b <= c
               /\ lines' = [lines EXCEPT ![s] = @ \cup {<<kept[s] + 1, b>>}]
               /\ kept' = [kept EXCEPT ![s] = b]
      BY <1>3 DEF LogLine
    <2>1. UNCHANGED <<out, breaks, eof>> /\ ~eof[s]
      BY <1>3 DEF LogLine
    <2>2. kept[s] + 1 = 1 \/ kept[s] \in breaks[s]
      BY <2>1 DEF BufferInv
    <2>3. ((kept[s] + 1) .. (b - 1)) \cap breaks[s] = {}
      BY DEF Buffered
    <2>4. kept[s] <= b /\ b \in breaks[s]
      BY DEF Buffered
    <2> SUFFICES ASSUME NEW z \in Streams, NEW l \in lines'[z]
                 PROVE  /\ l[2] <= kept'[z]
                        /\ l[1] = 1 \/ l[1] - 1 \in breaks[z]
                        /\ (l[1] .. l[2] - 1) \cap breaks[z] = {}
                        /\ l[2] \in breaks[z] \/ (l[2] = out[z] /\ eof[z])
      BY <2>1
    <2>5. CASE l \in lines[z]
      <3>1. l[2] \in Positions /\ kept[z] <= kept'[z]
        BY <2>4, <2>5
      <3> QED
        BY <2>5, <3>1 DEF Positions
    <2>6. CASE z = s /\ l = <<kept[s] + 1, b>>
      BY <2>2, <2>3, <2>4, <2>6
    <2> QED
      BY <2>5, <2>6
  <1>4. ASSUME CloseStderr \/ CloseStdout PROVE LineInv'
    <2> PICK s \in Streams : Closing(s)
      BY <1>4, CloseStep
    <2>1. mode = "log"
      BY <1>4, CloseStep
    <2>2. UNCHANGED <<out, breaks, eof>> /\ kept' = [kept EXCEPT ![s] = read[s]]
      BY DEF Closing
    <2>3. CASE lines' = lines
      <3> SUFFICES ASSUME NEW z \in Streams, NEW l \in lines[z]
                   PROVE  l[2] <= kept'[z]
        BY <2>2, <2>3
      <3>1. l[2] \in Positions /\ kept[z] <= kept'[z] /\ kept'[z] \in Nat
        BY <2>2
      <3> QED
        BY <3>1 DEF Positions
    <2>4. CASE /\ kept[s] < read[s]
               /\ lines' = [lines EXCEPT ![s] = @ \cup {<<kept[s] + 1, read[s]>>}]
      <3>1. eof[s] /\ read[s] = out[s] /\ ~writing[s]
        BY <2>4 DEF Closing
      <3>2. kept[s] + 1 = 1 \/ kept[s] \in breaks[s]
        BY <2>4 DEF BufferInv
      <3>3. ((kept[s] + 1) .. (read[s] - 1)) \cap breaks[s] = {}
        BY <2>1, <3>1 DEF BufferInv, Buffered
      <3> SUFFICES ASSUME NEW z \in Streams, NEW l \in lines'[z]
                   PROVE  /\ l[2] <= kept'[z]
                          /\ l[1] = 1 \/ l[1] - 1 \in breaks[z]
                          /\ (l[1] .. l[2] - 1) \cap breaks[z] = {}
                          /\ l[2] \in breaks[z] \/ (l[2] = out[z] /\ eof[z])
        BY <2>2
      <3>4. CASE l \in lines[z]
        <4>1. l[2] \in Positions /\ kept[z] <= kept'[z] /\ kept'[z] \in Nat
          BY <2>2, <3>4
        <4> QED
          BY <3>4, <4>1 DEF Positions
      <3>5. CASE z = s /\ l = <<kept[s] + 1, read[s]>>
        <4>1. l[1] = kept[s] + 1 /\ l[2] = read[s] /\ kept'[s] = read[s]
          BY <2>2, <3>5
        <4>2. l[1] - 1 = kept[s]
          BY <4>1
        <4> QED
          BY <3>1, <3>2, <3>3, <3>5, <4>1, <4>2
      <3> QED
        BY <2>4, <3>4, <3>5
    <2> QED
      BY <2>3, <2>4 DEF Closing, Flushed
  <1>5. ASSUME NEW s \in Streams, Eof(s) PROVE LineInv'
    BY <1>5 DEF Eof
  <1> QED
    BY <1>1, <1>2, <1>3, <1>4, <1>5
    DEF Next, vars, streams, Caller, Start, StartFails, Reap, Ask, Drained, Judge,
        Tool, ToolForks, ToolExits, HelperExits, Expire, Cancel, Goroutine, Drain, EndWrite

StreamInv == Flags /\ Counts /\ CallInv /\ ModeInv /\ PlaceInv /\ BufferInv /\ LineInv

LEMMA StreamInit == Init => StreamInv
  BY TypeInit, TypeParts, CallInit, PlaceInit DEF StreamInv

LEMMA StreamNext == TypeOK /\ StreamInv /\ [Next]_vars => StreamInv'
  BY TypeParts, FlagsNext, CountsNext, CallNext, ModeNext, PlaceNext, BufferNext, LineNext
  DEF StreamInv, CallInv

(***************************************************************************)
(* Whatever the chunks the output arrives in, what is logged are its       *)
(* lines: none is cut, none is glued to another.                           *)
(***************************************************************************)
THEOREM LinesAreWhole == Spec => []LinesAreLines
  <1>1. StreamInv => LinesAreLines
    BY DEF StreamInv, CallInv, EndInv, LineInv, LinesAreLines
  <1> QED
    BY TypeInit, TypeNext, StreamInit, StreamNext, <1>1, PTL DEF Spec

-----------------------------------------------------------------------------
(***************************************************************************)
(* An answer is taken of a stream that has ended, and stays what it was.   *)
(***************************************************************************)
AnswerInv ==
    answer # NoAnswer => child = "exit 0" /\ eof["stdout"] /\ answer = out["stdout"]

LEMMA AnswerInit == Init => AnswerInv
  BY DEF Init, AnswerInv

LEMMA AnswerNext == StreamInv /\ AnswerInv /\ [Next]_vars => AnswerInv'
  <1> SUFFICES ASSUME StreamInv, AnswerInv, [Next]_vars PROVE AnswerInv'
    OBVIOUS
  <1> USE DEF AnswerInv
  <1>1. ASSUME UNCHANGED <<answer, child, eof, out>> PROVE AnswerInv'
    BY <1>1
  <1>2. CASE Judge
    <2>1. eof["stdout"] /\ read["stdout"] = out["stdout"]
      BY <1>2 DEF Judge, StreamInv, CallInv, EndInv, PlaceInv, Streams
    <2>2. answer' # NoAnswer => child = "exit 0" /\ answer' = read["stdout"]
      BY <1>2 DEF Judge, Judged
    <2>3. UNCHANGED <<child, eof, out>>
      BY <1>2 DEF Judge, streams
    <2> QED
      BY <2>1, <2>2, <2>3
  <1>3. ASSUME child \notin Ended, UNCHANGED answer PROVE AnswerInv'
    BY <1>3 DEF Ended
  <1>4. ASSUME NEW s \in Streams, ToolWrites(s) PROVE AnswerInv'
    <2>1. ~eof["stdout"]
      BY <1>4 DEF ToolWrites, StreamInv, CallInv, EndInv, Streams
    <2> QED
      BY <1>4, <2>1 DEF ToolWrites
  <1>5. ASSUME NEW s \in Streams, Eof(s) PROVE AnswerInv'
    <2>1. eof["stdout"] => eof'["stdout"]
      BY <1>5 DEF Eof, StreamInv, Flags, Streams
    <2>2. UNCHANGED <<answer, child, out>>
      BY <1>5 DEF Eof
    <2> QED
      BY <2>1, <2>2
  <1>6. ASSUME Start \/ ToolExits PROVE AnswerInv'
    BY <1>3, <1>6 DEF Start, ToolExits, StreamInv, CallInv, ChildInv, Ended
  <1>7. CASE Cancel
    BY <1>1, <1>3, <1>7 DEF Cancel, Ended, streams
  <1> QED
    BY <1>1, <1>2, <1>4, <1>5, <1>6, <1>7
    DEF Next, vars, streams, Caller, StartFails, Reap, Ask, Drained, CloseStderr, CloseStdout,
        Close, Tool, ToolForks, HelperExits, Expire, Goroutine, Drain, LogLine, EndWrite

(***************************************************************************)
(* A version probe answers with all a tool printed that ended well, also   *)
(* what a process it left behind printed.                                  *)
(***************************************************************************)
THEOREM AnswersAreWhole == Spec => []AnswerIsWhole
  <1>1. StreamInv /\ AnswerInv => AnswerIsWhole
    BY DEF StreamInv, CallInv, EndInv, AnswerInv, AnswerIsWhole, Streams
  <1> QED
    BY TypeInit, TypeNext, StreamInit, StreamNext, AnswerInit, AnswerNext, <1>1, PTL DEF Spec

-----------------------------------------------------------------------------
(***************************************************************************)
(* The lines logged so far are everything up to `kept`, and a writer that  *)
(* was closed has logged all of its stream.  A fragment of MaxToken pieces *)
(* is lost, hence the assumption of the theorem.                           *)
(***************************************************************************)
LoggedInv == \A s \in Streams : Logged(s) = 1 .. kept[s]

ClosedInv ==
    mode = "log" =>
        /\ call \in {"close stdout", "done"} => kept["stderr"] = out["stderr"]
        /\ call = "done" => kept["stdout"] = out["stdout"]

Covered(L) == UNION {l[1] .. l[2] : l \in L}

LEMMA LineAdded ==
    ASSUME NEW L, NEW j \in Nat, NEW k \in Nat, j <= k, Covered(L) = 1 .. j
    PROVE  Covered(L \cup {<<j + 1, k>>}) = 1 .. k
  <1> DEFINE x == <<j + 1, k>>
  <1>1. x[1] .. x[2] = j + 1 .. k
    OBVIOUS
  <1>2. \A e : e \in Covered(L) <=> \E l \in L : e \in l[1] .. l[2]
    BY Zenon DEF Covered
  <1>3. \A e : e \in Covered(L \cup {x}) <=> \E l \in L \cup {x} : e \in l[1] .. l[2]
    BY Zenon DEF Covered
  <1> HIDE DEF x
  <1>4. \A e : (\E l \in L \cup {x} : e \in l[1] .. l[2])
                 <=> (\E l \in L : e \in l[1] .. l[2]) \/ e \in x[1] .. x[2]
    BY Zenon
  <1>5. \A e : e \in Covered(L \cup {x}) <=> e \in 1 .. j \/ e \in j + 1 .. k
    BY <1>1, <1>2, <1>3, <1>4
  <1>6. Covered(L \cup {x}) = 1 .. k
    <2>1. ASSUME NEW S, NEW T, \A e : e \in S <=> e \in T PROVE S = T
      BY <2>1
    <2>2. \A e : e \in 1 .. j \/ e \in j + 1 .. k <=> e \in 1 .. k
      OBVIOUS
    <2>3. \A e : e \in Covered(L \cup {x}) <=> e \in 1 .. k
      BY <1>5, <2>2
    <2> QED
      BY <2>1, <2>3
  <1> QED
    BY <1>6 DEF x

LEMMA Numbers ==
    ASSUME Counts
    PROVE  \A s \in Streams : out[s] \in Nat /\ read[s] \in Nat /\ kept[s] \in Nat
  BY SizeAssumption DEF Counts

LEMMA Order ==
    ASSUME PlaceInv
    PROVE  \A s \in Streams : kept[s] <= read[s] /\ read[s] <= out[s]
  BY DEF PlaceInv

\* The stream of a call that is over was read to its end.
LEMMA ReadToTheEnd ==
    ASSUME Counts, PlaceInv, EndInv, call \in Over
    PROVE  \A s \in Streams : read[s] = out[s] /\ ~(writing[s] /\ kept[s] < read[s])
  <1> SUFFICES ASSUME NEW s \in Streams
               PROVE  read[s] = out[s] /\ ~(writing[s] /\ kept[s] < read[s])
    OBVIOUS
  <1>1. eof[s] \/ child = "none"
    BY DEF EndInv
  <1>2. eof[s] => read[s] = out[s] /\ ~writing[s]
    BY DEF PlaceInv
  <1>3. child = "none" => out[s] = 0 /\ read[s] <= out[s]
    BY DEF PlaceInv
  <1> QED
    BY <1>1, <1>2, <1>3, Numbers

LEMMA LoggedInit == Init => LoggedInv /\ ClosedInv
  BY DEF Init, LoggedInv, ClosedInv, Logged

LEMMA LoggedNext ==
    ASSUME MaxOut < MaxToken
    PROVE  StreamInv /\ LoggedInv /\ [Next]_vars => LoggedInv'
  <1> SUFFICES ASSUME Counts, CallInv, ModeInv, PlaceInv, LoggedInv, [Next]_vars
               PROVE  LoggedInv'
    BY DEF StreamInv
  <1>1. ASSUME UNCHANGED <<kept, lines>> PROVE LoggedInv'
    BY <1>1 DEF LoggedInv, Logged
  <1>2. ASSUME NEW s \in Streams, NEW k \in kept[s] .. MaxOut,
               kept' = [kept EXCEPT ![s] = k],
               lines' = [lines EXCEPT ![s] = @ \cup {<<kept[s] + 1, k>>}]
        PROVE  LoggedInv'
    <2>1. Covered(lines[s] \cup {<<kept[s] + 1, k>>}) = 1 .. k
      <3>1. kept[s] \in Nat /\ k \in Nat /\ kept[s] <= k
        BY Numbers, SizeAssumption
      <3>2. Covered(lines[s]) = 1 .. kept[s]
        BY DEF LoggedInv, Logged, Covered
      <3> QED
        BY <3>1, <3>2, LineAdded
    <2>2. kept'[s] = k /\ lines'[s] = lines[s] \cup {<<kept[s] + 1, k>>}
      BY <1>2 DEF Counts
    <2>3. \A z \in Streams \ {s} : kept'[z] = kept[z] /\ lines'[z] = lines[z]
      BY <1>2 DEF Counts
    <2> QED
      BY <2>1, <2>2, <2>3 DEF LoggedInv, Logged, Covered
  <1>3. ASSUME NEW s \in Streams, LogLine(s) PROVE LoggedInv'
    <2> PICK b \in breaks[s] \cap Buffered(s) :
               /\ lines' = [lines EXCEPT ![s] = @ \cup {<<kept[s] + 1, b>>}]
               /\ kept' = [kept EXCEPT ![s] = b]
      BY <1>3 DEF LogLine
    <2>1. b \in kept[s] .. MaxOut
      BY Numbers, SizeAssumption DEF Buffered, Counts, Positions
    <2> QED
      BY <1>2, <2>1
  <1>4. ASSUME CloseStderr \/ CloseStdout PROVE LoggedInv'
    <2> PICK s \in Streams : Closing(s)
      BY <1>4, CloseStep DEF CallInv
    <2>1. CASE kept[s] < read[s]
      <3>1. read[s] - kept[s] < MaxToken /\ read[s] \in kept[s] .. MaxOut
        BY <2>1, Numbers, SizeAssumption DEF Counts
      <3>2. lines' = [lines EXCEPT ![s] = @ \cup {<<kept[s] + 1, read[s]>>}]
        BY <2>1, <3>1 DEF Closing, Flushed
      <3> QED
        BY <1>2, <3>1, <3>2 DEF Closing
    <2>2. CASE kept[s] = read[s]
      <3>1. kept' = kept /\ lines' = lines
        BY <2>2, Numbers DEF Closing, Flushed, Counts
      <3> QED
        BY <1>1, <3>1
    <2>3. kept[s] < read[s] \/ kept[s] = read[s]
      BY Numbers, Order
    <2> QED
      BY <2>1, <2>2, <2>3
  <1> QED
    BY <1>1, <1>3, <1>4
    DEF Next, vars, streams, Caller, Start, StartFails, Reap, Ask, Drained, Judge, Tool,
        ToolForks, ToolExits, HelperExits, ToolWrites, Expire, Cancel, Goroutine, Drain,
        EndWrite, Eof

LEMMA ClosedNext == Control /\ StreamInv /\ ClosedInv /\ [Next]_vars => ClosedInv'
  <1> SUFFICES ASSUME Control, Counts, CallInv, ModeInv, PlaceInv, ClosedInv, [Next]_vars
               PROVE  ClosedInv'
    BY DEF StreamInv
  <1>1. ASSUME UNCHANGED <<mode, call, kept, out>> PROVE ClosedInv'
    BY <1>1 DEF ClosedInv
  <1>2. ASSUME Start \/ StartFails \/ Reap \/ Ask \/ Drained \/ Judge PROVE ClosedInv'
    BY <1>2 DEF ClosedInv, Start, StartFails, Reap, Ask, Drained, Judge, After, streams
  <1>3. ASSUME CloseStderr \/ CloseStdout PROVE ClosedInv'
    <2>1. call \in Over
      BY <1>3 DEF CloseStderr, CloseStdout, Close, Over
    <2>2. \A s \in Streams : read[s] = out[s]
      BY <2>1, ReadToTheEnd DEF CallInv
    <2> QED
      BY <1>3, <2>2 DEF ClosedInv, CloseStderr, CloseStdout, Close, Counts, Streams
  <1>4. ASSUME NEW s \in Streams, ToolWrites(s) PROVE ClosedInv'
    BY <1>4 DEF ClosedInv, ToolWrites, Alive, CallInv, EndInv, ChildInv, Over, Streams
  <1>5. ASSUME NEW s \in Streams, LogLine(s) PROVE ClosedInv'
    <2>0. PICK b : b \in Buffered(s)
      BY <1>5 DEF LogLine
    <2>1. kept[s] < read[s]
      BY <2>0, Numbers DEF Buffered
    <2>2. call \notin Over
      BY <1>5, <2>1, ReadToTheEnd DEF CallInv, LogLine
    <2> QED
      BY <1>5, <2>2 DEF ClosedInv, LogLine, Over
  <1> QED
    BY <1>1, <1>2, <1>3, <1>4, <1>5
    DEF Next, vars, streams, Caller, Tool, ToolForks, ToolExits, HelperExits, Expire, Cancel,
        Goroutine, Drain, EndWrite, Eof

(***************************************************************************)
(* When a call returns everything the tool and its helper wrote is in the  *)
(* log, given that no fragment is as long as bufio.Scanner gives up on.    *)
(***************************************************************************)
THEOREM OutputIsComplete ==
    ASSUME MaxOut < MaxToken
    PROVE  Spec => []OutputComplete
  <1>1. StreamInv /\ LoggedInv /\ [Next]_vars => LoggedInv'
    BY LoggedNext
  <1>2. LoggedInv /\ ClosedInv => OutputComplete
    BY DEF LoggedInv, ClosedInv, OutputComplete, Streams
  <1>3. TypeOK => Control
    BY TypeParts
  <1> QED
    BY TypeInit, TypeNext, StreamInit, StreamNext, LoggedInit, ClosedNext, <1>1, <1>2, <1>3, PTL
    DEF Spec

=============================================================================
