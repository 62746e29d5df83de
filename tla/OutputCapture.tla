----------------------------- MODULE OutputCapture -----------------------------
(***************************************************************************)
(* What becomes of the output of one attempt: a reader per stream decodes  *)
(* the bytes of a pipe, keeps a head and a tail of them and sends pieces   *)
(* over a channel; the monitor inserts what has come on every pass, and    *)
(* before it settles the attempt waits, for a bounded time, for both       *)
(* readers to end.                                                         *)
(*                                                                         *)
(* Text is what it takes to tell one cut from another: characters of one   *)
(* byte and of two, and bytes that are no character's.                     *)
(***************************************************************************)
EXTENDS Naturals, SequencesExt, FlowliteStatus

CONSTANTS
  Instances,       \* the commands to check: the bytes each has to write to a stream, its
                   \* processes, whether [orchestrator] kill_grace_seconds is more
                   \* than 0, and as a bound the crashes and inserts that fail
  MaxStreamBytes,  \* [orchestrator] max_stream_bytes
  ReadBufferBytes, \* [orchestrator] read_buffer_bytes
  PipeBytes        \* what a pipe holds

Streams   == {"stdout", "stderr"}
\* The sh that was spawned, what else is in its group, and what left the group.
Processes == {"leader", "group", "escaped"}
Bytes     == {"ascii", "lead", "continuation"}

ASSUME CaptureAssumption ==
  /\ \A i \in Instances : /\ i.output \in [Streams -> Seq(Bytes)]
                          /\ "leader" \in i.processes /\ i.processes \subseteq Processes
                          /\ i.killGrace \in BOOLEAN /\ i.faults \in Nat
  /\ {MaxStreamBytes, ReadBufferBytes, PipeBytes} \subseteq Nat \ {0}

VARIABLES
  instance,     \* the command and its settings
  written,      \* how many bytes of it it has written
  taken,        \* how many bytes of it its reader has read
  holders,      \* the processes alive, all of which hold the pipes
  exited,       \* the exit status of the leader: none, zero, nonzero or signal
  reader,       \* reading, ended, aborted, or gone with the server or the channel
  carry,        \* the bytes a reader keeps for its next read
  capture,      \* StreamCapture, by stream
  chunks,       \* the channel: what was sent of each stream, in order
  child,        \* whether TaskRunAttemptChildren, or the pass, holds the process
  terminating,  \* the status the command was asked to exit for, None if it was not
  finishing,    \* the status finish_reading is waiting to settle, None if it is not
  attempt,      \* task_run_attempt.status
  rows,         \* the content of the attempt's task_run_attempt_output rows, by stream
  faults,       \* faults that may yet happen
  broken,       \* history: whether one has
  cut           \* history: whether finish_reading gave up on a reader

output  == instance.output   \* what the command has to write
command == <<instance, written, holders, exited>>
readers == <<taken, reader, carry, capture>>
vars == <<command, readers, chunks, child, terminating, finishing, attempt, rows, faults, broken, cut>>

-----------------------------------------------------------------------------
(* Text.                                                                   *)

Ascii       == <<"ascii", 1>>
Wide        == <<"wide", 2>>
Replacement == <<"replacement", 3>>
\* What flowlite puts in a stream itself: no byte of the command's.
OverBudget  == <<"over budget", 0>>
Note        == <<"note", 0>>
BytesDropped(n) == <<"dropped", n>>

Size(text) ==
  LET count(g) == Cardinality({i \in DOMAIN text : text[i] = g})
  IN  count(Ascii) + 2 * count(Wide) + 3 * count(Replacement)

\* What a byte completes after the one before it: a lead byte is no character until
\* the next byte has come, and none at all if that is not its continuation.
Completed(before, byte) ==
  CASE byte = "continuation" -> IF before = "lead" THEN <<Wide>> ELSE <<Replacement>>
    [] byte = "lead"         -> IF before = "lead" THEN <<Replacement>> ELSE <<>>
    [] byte = "ascii"        -> IF before = "lead" THEN <<Replacement, Ascii>> ELSE <<Ascii>>

\* take_valid_utf8: what is complete in the bytes, and what is kept of them.
TakeValidUtf8(bytes) ==
  [content |-> FlattenSeq([i \in DOMAIN bytes |->
                 Completed(IF i = 1 THEN "none" ELSE bytes[i - 1], bytes[i])]),
   carry   |-> IF bytes # <<>> /\ Last(bytes) = "lead" THEN <<"lead">> ELSE <<>>]

\* truncate_at_char_boundary: the characters of the longest prefix of at most max bytes.
CharsThatFit(text, max) == Max({i \in 0..Len(text) : Size(SubSeq(text, 1, i)) <= max})

\* trim_to_tail: the longest suffix of at most max bytes.
TrimToTail(text, max) ==
  SubSeq(text, Min({i \in 1..(Len(text) + 1) : Size(SubSeq(text, i, Len(text))) <= max}), Len(text))

-----------------------------------------------------------------------------
(* StreamCapture.                                                          *)

HeadBytes == MaxStreamBytes \div 2
TailBytes == MaxStreamBytes - HeadBytes
NewCapture == [headRoom |-> HeadBytes, tail |-> <<>>, held |-> 0, capped |-> FALSE]

\* The parts content falls into, as the one element of a set: what fits in the head
\* room, what does not, and the tail with it.
Parted(c, content) ==
  {[head |-> SubSeq(content, 1, k), rest |-> SubSeq(content, k + 1, Len(content)),
    tail |-> TrimToTail(c.tail \o SubSeq(content, k + 1, Len(content)), TailBytes)] :
     k \in {CharsThatFit(content, c.headRoom)}}

\* Mutation: the tail is not trimmed, and so nothing is ever over the budget.
RecordedUntrimmed(c, content) ==
  {[sent |-> p.head, capture |-> [c EXCEPT !.headRoom = @ - Size(p.head),
                                           !.held = @ + Size(p.rest), !.tail = @ \o p.rest]] :
     p \in Parted(c, content)}

\* Mutation: what is past the head is not counted once the marker is out.
RecordedUncounted(c, content) ==
  {LET over == ~c.capped /\ Size(p.tail) < c.held + Size(p.rest)
   IN  [sent |-> p.head \o (IF over THEN <<OverBudget>> ELSE <<>>),
        capture |-> [headRoom |-> c.headRoom - Size(p.head), tail |-> p.tail,
                     held |-> IF c.capped THEN c.held ELSE c.held + Size(p.rest),
                     capped |-> c.capped \/ over]] : p \in Parted(c, content)}

\* record: what still fits goes to the head, and the rest is held in the tail; the
\* first time something falls out of it is marked.
Recorded(c, content) ==
  {LET over == ~c.capped /\ Size(p.tail) < c.held + Size(p.rest)
   IN  [sent |-> p.head \o (IF over THEN <<OverBudget>> ELSE <<>>),
        capture |-> [headRoom |-> c.headRoom - Size(p.head), tail |-> p.tail,
                     held |-> c.held + Size(p.rest), capped |-> c.capped \/ over]] :
     p \in Parted(c, content)}

\* flush_tail: what the stream ended with, under a marker if something fell out.
FlushTail(c) ==
  (IF c.capped THEN <<BytesDropped(c.held - Size(c.tail))>> ELSE <<>>) \o c.tail

-----------------------------------------------------------------------------
TypeOK ==
  /\ instance \in Instances
  /\ written \in [Streams -> Nat] /\ taken \in [Streams -> Nat]
  /\ \A s \in Streams : taken[s] <= written[s] /\ written[s] <= Len(output[s])
  /\ holders \subseteq Processes /\ exited \in {"none", "zero", "nonzero", "signal"}
  /\ reader \in [Streams -> {"reading", "ended", "aborted", "gone"}]
  /\ \A s \in Streams : carry[s] \in {<<>>, <<"lead">>}
  /\ \A s \in Streams : capture[s].headRoom \in 0..HeadBytes /\ Size(capture[s].tail) <= TailBytes
  /\ {DOMAIN chunks, DOMAIN rows} = {Streams}
  /\ child \in BOOLEAN
  /\ terminating \in {"None", "TimedOut", "Aborted"}
  /\ finishing \in FinishedAttempt \cup {"None"}
  /\ attempt \in {"Running"} \cup FinishedAttempt
  /\ faults \in Nat /\ broken \in BOOLEAN /\ cut \in BOOLEAN

NoText == [s \in Streams |-> <<>>]

Init ==
  /\ instance \in Instances
  /\ holders = instance.processes /\ faults = instance.faults
  /\ written = [s \in Streams |-> 0] /\ taken = [s \in Streams |-> 0]
  /\ exited = "none"
  /\ reader = [s \in Streams |-> "reading"]
  /\ carry = [s \in Streams |-> <<>>]
  /\ capture = [s \in Streams |-> NewCapture]
  /\ chunks = NoText /\ rows = NoText
  /\ child = TRUE /\ terminating = "None" /\ finishing = "None"
  /\ attempt = "Running"
  /\ broken = FALSE /\ cut = FALSE

-----------------------------------------------------------------------------
(* The command.                                                            *)

trouble == <<faults, broken, cut>>
monitor == <<child, terminating, finishing, attempt, rows, trouble>>

\* A pipe nobody reads breaks, and one that is full blocks.
Write(s) ==
  /\ holders # {} /\ reader[s] = "reading"
  /\ written[s] < Len(output[s]) /\ written[s] - taken[s] < PipeBytes
  /\ written' = [written EXCEPT ![s] = @ + 1]
  /\ UNCHANGED <<instance, holders, exited, readers, chunks, monitor>>

\* Whether the command has nothing left to write, or nowhere to write it.
WroteAll == \A s \in Streams : written[s] = Len(output[s]) \/ reader[s] # "reading"

\* The last of the command's processes leaves when it has written everything,
\* another when it likes, and all of them when they are asked to.
Exit(p) ==
  /\ p \in holders
  /\ WroteAll \/ holders # {p} \/ terminating # "None"
  /\ holders' = holders \ {p}
  /\ exited' \in IF p # "leader" THEN {exited}
                 ELSE IF terminating # "None" THEN {"signal"} ELSE {"zero", "nonzero"}
  /\ UNCHANGED <<instance, written, readers, chunks, monitor>>

-----------------------------------------------------------------------------
(* read_task_run_attempt_stream.                                           *)

Least(a, b) == IF a < b THEN a ELSE b

\* What a reader does with what it has decoded, and whether it goes on: with the
\* receiver dropped a send fails and the reader returns.
Pass(s, now, sent, next) ==
  /\ capture' = [capture EXCEPT ![s] = now]
  /\ chunks' = IF child THEN [chunks EXCEPT ![s] = @ \o sent] ELSE chunks
  /\ reader' = [reader EXCEPT ![s] = IF child \/ sent = <<>> THEN next ELSE "gone"]

\* Mutation: a reader past the cap stops reading.
ReadUntilCapped(s) ==
  LET n == Least(ReadBufferBytes, written[s] - taken[s])
  IN  /\ reader[s] = "reading" /\ n > 0 /\ ~capture[s].capped
      /\ taken' = [taken EXCEPT ![s] = @ + n]
      /\ \E took \in {TakeValidUtf8(carry[s] \o SubSeq(output[s], taken[s] + 1, taken[s] + n))} :
           /\ carry' = [carry EXCEPT ![s] = took.carry]
           /\ \E now \in Recorded(capture[s], took.content) :
                Pass(s, now.capture, now.sent, "reading")
      /\ UNCHANGED <<command, monitor>>

\* One read, of what the pipe has and the buffer takes.
Read(s) ==
  LET n == Least(ReadBufferBytes, written[s] - taken[s])
  IN  /\ reader[s] = "reading" /\ n > 0
      /\ taken' = [taken EXCEPT ![s] = @ + n]
      /\ \E took \in {TakeValidUtf8(carry[s] \o SubSeq(output[s], taken[s] + 1, taken[s] + n))} :
           /\ carry' = [carry EXCEPT ![s] = took.carry]
           /\ \E now \in Recorded(capture[s], took.content) :
                Pass(s, now.capture, now.sent, "reading")
      /\ UNCHANGED <<command, monitor>>

\* The end of the stream: half a character is none, and the tail goes out.
ReadToEnd(s) ==
  /\ reader[s] = "reading" /\ holders = {} /\ taken[s] = written[s]
  /\ carry' = [carry EXCEPT ![s] = <<>>]
  /\ \E now \in Recorded(capture[s], IF carry[s] = <<>> THEN <<>> ELSE <<Replacement>>) :
       Pass(s, now.capture, now.sent \o FlushTail(now.capture), "ended")
  /\ UNCHANGED <<command, taken, monitor>>

-----------------------------------------------------------------------------
(* TaskRunAttemptMonitor.                                                  *)

Closed == \A s \in Streams : reader[s] # "reading"
Noted(text) == [s \in Streams |-> IF s = "stderr" THEN <<Note>> \o text[s] ELSE text[s]]

\* insert_output: a row for each stream that has text, stdout first, up to an
\* insert that fails.
Landings(text) == {Streams} \cup
  {l \in {{}, {"stdout"}} : faults > 0 /\ \E s \in Streams \ l : text[s] # <<>>}
Fault == faults > 0 /\ faults' = faults - 1 /\ broken' = TRUE
InsertOutput(text, landed) ==
  /\ rows' = [s \in Streams |-> IF s \in landed THEN rows[s] \o text[s] ELSE rows[s]]
  /\ IF landed = Streams THEN UNCHANGED <<faults, broken>> ELSE Fault

InPass == attempt = "Running" /\ child /\ finishing = "None"
Kill == /\ holders' = holders \cap {"escaped"}
        /\ exited' = IF exited = "none" THEN "signal" ELSE exited

\* record_output: a pass that decides nothing inserts what has come.
RecordOutput ==
  /\ InPass /\ chunks # NoText
  /\ IF terminating = "None" THEN exited = "none" ELSE holders \ {"escaped"} # {}
  /\ chunks' = NoText
  /\ \E landed \in Landings(chunks) : InsertOutput(chunks, landed)
  /\ UNCHANGED <<command, readers, child, terminating, finishing, attempt, cut>>

\* Mutation: the status is written before the readers are waited for.
SettleBeforeReading ==
  /\ InPass /\ terminating = "None" /\ exited # "none"
  /\ finishing' = IF exited = "zero" THEN "Succeeded" ELSE "Failed"
  /\ attempt' = finishing'
  /\ UNCHANGED <<command, readers, chunks, child, terminating, rows, trouble>>

\* set_to_succeeded and set_to_failed wait for the readers of a command that
\* has exited, and kill nothing.
BeginFinishing ==
  /\ InPass /\ terminating = "None" /\ exited # "none"
  /\ finishing' = IF exited = "zero" THEN "Succeeded" ELSE "Failed"
  /\ UNCHANGED <<command, readers, chunks, child, terminating, attempt, rows, trouble>>

\* begin_termination: a timeout is noted on stderr, and the command is asked to
\* exit, or killed where there is no grace.
BeginTermination(status) ==
  LET text == IF status = "TimedOut" THEN Noted(chunks) ELSE chunks
  IN  /\ InPass /\ terminating = "None" /\ exited = "none"
      /\ IF instance.killGrace
         THEN /\ terminating' = status
              /\ chunks' = NoText
              /\ \E landed \in Landings(text) : InsertOutput(text, landed)
              /\ UNCHANGED <<holders, exited, finishing>>
         ELSE /\ finishing' = status
              /\ InsertOutput(IF status = "TimedOut" THEN Noted(NoText) ELSE NoText, Streams)
              /\ Kill
              /\ UNCHANGED <<terminating, chunks>>
      /\ UNCHANGED <<instance, written, readers, child, attempt, cut>>

\* The note cannot be inserted: the pass lets go of the process, still running.
NoteFails ==
  /\ InPass /\ terminating = "None" /\ exited = "none" /\ Fault
  /\ child' = FALSE /\ chunks' = NoText
  /\ UNCHANGED <<command, readers, terminating, finishing, attempt, rows, cut>>

\* handle_terminating, the grace over or the group gone: the kill comes before
\* the wait for the readers.
FinishTermination ==
  /\ InPass /\ terminating # "None"
  /\ finishing' = terminating
  /\ Kill
  /\ UNCHANGED <<instance, written, readers, chunks, child, terminating, attempt, rows, trouble>>

\* What is inserted and settled once the wait is over.  A result that cannot be
\* recorded fails the attempt, with a note; a failed insert leaves it Running.
Settle(status) ==
  /\ status = finishing \/ (finishing = "Succeeded" /\ status = "Failed")
  /\ \E text \in {IF status = finishing THEN chunks ELSE Noted(chunks)} :
       \E landed \in Landings(text) :
         /\ InsertOutput(text, landed)
         /\ attempt' = IF landed = Streams THEN status ELSE attempt
  /\ child' = FALSE /\ finishing' = "None" /\ chunks' = NoText

\* Mutation: the attempt settles without waiting for its readers.
SettleAtOnce(status) ==
  /\ finishing # "None" /\ Settle(status)
  /\ UNCHANGED <<command, readers, terminating, cut>>

\* finish_reading, both readers at their end.
FinishReading(status) ==
  /\ finishing # "None" /\ Closed
  /\ Settle(status)
  /\ UNCHANGED <<command, readers, terminating, cut>>

\* Mutation: a reader whose stream does not end is waited for.
WaitForReaders(status) ==
  /\ finishing # "None" /\ Closed /\ cut
  /\ Settle(status)
  /\ UNCHANGED <<command, readers, terminating, cut>>

\* finish_reading gives up after reader_eof_timeout: what has come is inserted,
\* and what the readers held is gone with them.
GiveUpReading(status) ==
  /\ finishing # "None" /\ ~Closed
  /\ Settle(status)
  /\ reader' = [s \in Streams |-> IF reader[s] = "reading" THEN "aborted" ELSE reader[s]]
  /\ cut' = TRUE
  /\ UNCHANGED <<command, taken, carry, capture, terminating>>

\* set_to_invalid: no process is held, so there is nothing to wait for.
SetToInvalid ==
  /\ attempt = "Running" /\ ~child
  /\ attempt' = "Invalid"
  /\ UNCHANGED <<command, readers, chunks, child, terminating, finishing, rows, trouble>>

\* The server dies, and its readers with it; the command is left to broken pipes.
Crash ==
  /\ attempt = "Running" /\ Fault
  /\ child' = FALSE /\ finishing' = "None" /\ terminating' = "None" /\ chunks' = NoText
  /\ reader' = [s \in Streams |-> IF reader[s] = "reading" THEN "gone" ELSE reader[s]]
  /\ UNCHANGED <<command, taken, carry, capture, attempt, rows, cut>>

-----------------------------------------------------------------------------
ReaderStep(s) == Read(s) \/ ReadToEnd(s)
SettleStep ==
  \/ SetToInvalid \/ BeginFinishing \/ FinishTermination
  \/ \E status \in FinishedAttempt : FinishReading(status) \/ GiveUpReading(status)
Next == \/ \E s \in Streams : Write(s) \/ ReaderStep(s)
        \/ \E p \in Processes : Exit(p)
        \/ SettleStep \/ RecordOutput \/ NoteFails \/ Crash
        \/ \E status \in {"TimedOut", "Aborted"} : BeginTermination(status)

\* Readers read, the monitor polls, a command that can write does and its leader
\* leaves when there is nothing left to.  What left its group may stay for ever.
Fairness ==
  /\ \A s \in Streams : WF_vars(Write(s)) /\ WF_vars(ReaderStep(s))
  /\ WF_vars(Exit("leader")) /\ WF_vars(SettleStep)

Spec == Init /\ [][Next]_vars /\ Fairness

-----------------------------------------------------------------------------
(* Safety.                                                                 *)

Ended == attempt \in FinishedAttempt
Unbroken == ~broken /\ ~cut

\* What a stream says, decoded at once: take_valid_utf8 and the end of the stream.
Decoded(s) ==
  LET all == TakeValidUtf8(SubSeq(output[s], 1, written[s]))
  IN  all.content \o IF all.carry = <<>> THEN <<>> ELSE <<Replacement>>

\* A text without the notes of flowlite, and the gaps its markers name.
Unnoted(text) == FlattenSeq([i \in DOMAIN text |-> IF text[i] = Note THEN <<>> ELSE <<text[i]>>])
Gaps(text) == {text[i][2] : i \in {k \in DOMAIN text : text[k][1] = "dropped"}}

\* What is to be recorded of it: the two ends, if it does not fit as it is.
Recording(text) ==
  LET head == SubSeq(text, 1, CharsThatFit(text, HeadBytes))
      tail == TrimToTail(SubSeq(text, Len(head) + 1, Len(text)), TailBytes)
  IN  IF Size(text) <= MaxStreamBytes THEN text
      ELSE head \o <<OverBudget, BytesDropped(Size(text) - Size(head) - Size(tail))>> \o tail

\* Whether the head ends between two characters of it, or nothing is past it.
CutBetween(text) ==
  Size(text) <= HeadBytes \/ \E i \in 0..Len(text) : Size(SubSeq(text, 1, i)) = HeadBytes

\* However the stream was cut up into reads, passes and pieces, the rows of a settled
\* attempt are the stream or its two ends, if no character lies across the end of the
\* head: read_task_run_attempt_stream, finish_reading.
RecordedAsWritten ==
  Ended /\ Unbroken => \A s \in Streams : CutBetween(Decoded(s)) =>
    Unnoted(rows[s]) = Recording(Decoded(s))

\* A marker names what is missing, if anything is, wherever the cuts fell; and whatever
\* fails no stream takes more than its budget: StreamCapture, flush_tail.
NoByteUnaccountedFor ==
  /\ \A s \in Streams : Size(rows[s]) + Size(chunks[s]) <= MaxStreamBytes
  /\ Ended /\ Unbroken => \A s \in Streams :
       LET missing == Size(Decoded(s)) - Size(rows[s])
       IN  missing \in Nat /\ Gaps(rows[s]) = {missing} \ {0}

\* "An attempt that reads as terminal has complete output": nothing is inserted after.
SettledOutputIsFinal == [][Ended => rows' = rows]_vars

-----------------------------------------------------------------------------
(* Liveness.                                                               *)

\* A command is never blocked for good on a pipe its reader has stopped reading.
NoisyCommandsGoOn ==
  \A s \in Streams : []<>(holders = {} \/ reader[s] # "reading" \/ written[s] = Len(output[s]))

\* Once the wait for the readers has begun it ends, with the attempt settled, even if
\* what left the group holds the pipes for ever: reader_eof_timeout.
WaitForReadersEnds == finishing # "None" ~> Ended

-----------------------------------------------------------------------------
(* What the documentation says, and the code does not do.                  *)

\* "A stream that stays inside the budget is kept whole and unmarked."
WholeInsideTheBudget ==
  Ended /\ Unbroken => \A s \in Streams : Size(Decoded(s)) <= MaxStreamBytes =>
    Unnoted(rows[s]) = Decoded(s)

=============================================================================
