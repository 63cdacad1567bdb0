------------------------------ MODULE LogTail ------------------------------
(***************************************************************************)
(* Reading an instance's log: log_service.py (the bounded fetch and the    *)
(* live tail), the agent's collect_logs.go, and what happens to the log    *)
(* meanwhile (instancehost.go, Docker).                                     *)
(*                                                                         *)
(* log is everything the instance has written to one stream, byte by byte; *)
(* the first hidden bytes of it can no longer be read.  The control plane  *)
(* counts its offset from the first byte that can.                         *)
(***************************************************************************)
EXTENDS Integers, Sequences, FiniteSets, FiniteSetsExt

CONSTANTS
    Adapters,               \* adapters of the instances looked at
    MaxLog,                 \* bound on the bytes written
    RotateAt,               \* maxLogSizeBytes
    MaxResponse,            \* bytes of a Docker answer that are accepted
    InitialBytes, InitialLines,     \* STREAM_INITIAL_MAX_*
    PollBytes, PollLines,           \* STREAM_POLL_MAX_*
    DefaultBytes, DefaultLines,     \* DEFAULT_MAX_*
    HardBytes, HardLines            \* HARD_MAX_*

File == "windows-waitress-service"

Container == "linux-docker"

\* Python's None, for numbers.
None == -1

ASSUME LogConstants ==
    /\ Adapters \subseteq {File, Container}
    /\ {MaxLog, RotateAt, MaxResponse} \subseteq Nat
    /\ {InitialBytes, PollBytes, DefaultBytes} \subseteq 1..HardBytes
    /\ {InitialLines, PollLines, DefaultLines} \subseteq 1..HardLines
    /\ {HardBytes, HardLines} \subseteq Nat \ {0}

VARIABLES
    adapter,    \* the instance's adapter
    log,        \* the bytes written so far: text or newline
    hidden,     \* bytes that are gone: rotated, removed, or out of Docker's window
    exists,     \* the file or the container is there
    offset,     \* of the tail; None until its first chunk
    reading,    \* the collect_logs command under way
    shown,      \* bytes of text the tail has yielded
    dropped,    \* history: bytes of text the line limit cut off
    since       \* history: where the tail's first chunk began, and hidden at that time

logVars == <<adapter, log, hidden, exists, offset, reading, shown, dropped, since>>

theLog == <<adapter, log, hidden, exists>>

theTail == <<offset, shown, dropped, since>>

----------------------------------------------------------------------------

Bytes == 1..MaxLog

Sleeping == [phase |-> "sleeping"]

Ended == [phase |-> "ended"]

NotYet == [first |-> None, hidden |-> None]

Readings ==
    {Sleeping, Ended}
    \cup [phase : {"asked"}, by : {"stream", "fetch"}, offset : Nat \cup {None},
          maxBytes : 1..HardBytes, maxLines : 1..HardLines]
    \cup [phase : {"answered"}, by : {"stream", "fetch"}, kept : SUBSET Bytes,
          cut : SUBSET Bytes, endOffset : Nat, first : Nat, hidden : Nat]

LogTypeOK ==
    /\ adapter \in Adapters
    /\ log \in Seq({"text", "newline"}) /\ Len(log) <= MaxLog
    /\ hidden \in 0..Len(log)
    /\ exists \in BOOLEAN
    /\ offset \in Nat \cup {None}
    /\ reading \in Readings
    /\ shown \subseteq Bytes /\ dropped \subseteq Bytes
    /\ since \in [first : Nat, hidden : Nat] \cup {NotYet}
    /\ reading.phase = "answered" => Cardinality(reading.kept \cup reading.cut) <= HardBytes

LogInit ==
    /\ adapter \in Adapters
    /\ log = <<>>
    /\ hidden = 0
    /\ exists = (adapter = Container)
    /\ offset = None
    /\ reading = Sleeping
    /\ shown = {} /\ dropped = {}
    /\ since = NotYet

----------------------------------------------------------------------------
(* The log.                                                                *)

Newlines(bytes, i, j) == {k \in i..j : bytes[k] = "newline"}

\* What is out of reach once Docker only returns the last HardLines lines.
Rolled(bytes) ==
    Min({k \in hidden..Len(bytes) : Cardinality(Newlines(bytes, k + 1, Len(bytes))) <= HardLines})

\* A file grows byte by byte, Docker's log line by line.
WriteLog(byte) ==
    /\ exists
    /\ LET more == IF adapter = File THEN <<byte>> ELSE (IF byte = "text" THEN <<byte, "newline">> ELSE <<byte>>)
       IN /\ Len(log) + Len(more) <= MaxLog
          /\ log' = log \o more
          /\ hidden' = IF adapter = File THEN hidden ELSE Rolled(log \o more)
    /\ UNCHANGED <<adapter, exists, reading, theTail>>

\* A new start: rotateIfLarge, or CreateContainer removing the old container.
Rotate ==
    /\ exists
    /\ adapter = File => Len(log) - hidden >= RotateAt
    /\ exists' = FALSE
    /\ hidden' = Len(log)
    /\ UNCHANGED <<adapter, log, reading, theTail>>

\* openLog, or the new container.
Open ==
    /\ ~exists
    /\ exists' = TRUE
    /\ UNCHANGED <<adapter, log, hidden, reading, theTail>>

----------------------------------------------------------------------------
(* The agent: HandleCollectLogs                                            *)

Size == Len(log) - hidden

\* Docker's answer is read whole, or not at all.
Fits == adapter = Container => Size <= MaxResponse

\* _clamp; the agent does the same to the limits of a payload.
Clamp(value, default, cap) ==
    IF value = None THEN default ELSE IF value <= 0 \/ value > cap THEN default ELSE value

StartOf(q) ==
    LET start == IF q.offset = None \/ (adapter = Container /\ q.offset > Size)
                 THEN Size - q.maxBytes ELSE q.offset
    IN Max({0, Min({start, Size})})

\* A read is at most maxBytes long.
EndOf(q) == Min({StartOf(q) + q.maxBytes, Size})

\* Faulty variant: the next read begins at the end of the log.
EndOffsetAtSize(q) == Size

\* The next read begins where this one ends.
EndOffset(q) == EndOf(q)

\* Without an offset the read begins inside a line, which is left out.
FirstOf(q) ==
    LET whole == Newlines(log, hidden + StartOf(q) + 1, hidden + EndOf(q))
    IN IF q.offset # None \/ StartOf(q) = 0 THEN hidden + StartOf(q) + 1
       ELSE IF whole = {} THEN hidden + EndOf(q) + 1
       ELSE Min(whole) + 1

\* The text of a read and, of that, what is on its last maxLines lines (empty
\* lines at the end do not count).
TextOf(q) == {k \in FirstOf(q)..(hidden + EndOf(q)) : log[k] = "text"}

LineOf(q, k) == Cardinality(Newlines(log, FirstOf(q), k))

KeptOf(q) ==
    {k \in TextOf(q) : LineOf(q, k) > LineOf(q, Max(TextOf(q))) - q.maxLines}

AgentReads ==
    /\ reading.phase = "asked"
    /\ exists
    /\ Fits
    /\ reading' = [phase |-> "answered", by |-> reading.by, kept |-> KeptOf(reading),
                   cut |-> TextOf(reading) \ KeptOf(reading), endOffset |-> EndOffset(reading),
                   first |-> FirstOf(reading), hidden |-> hidden]
    /\ UNCHANGED <<theLog, theTail>>

\* not_found; a container that is not there is an error.
AgentFindsNothing ==
    /\ reading.phase = "asked"
    /\ ~exists
    /\ adapter = File
    /\ reading' = [phase |-> "answered", by |-> reading.by, kept |-> {}, cut |-> {},
                   endOffset |-> 0, first |-> hidden + 1, hidden |-> hidden]
    /\ UNCHANGED <<theLog, theTail>>

----------------------------------------------------------------------------
(* The control plane                                                       *)

\* Faulty variant: offset 0 is taken for no offset.
AskNextUnlessZero ==
    /\ reading = Sleeping
    /\ reading' = [phase |-> "asked", by |-> "stream", offset |-> IF offset = 0 THEN None ELSE offset,
                   maxBytes |-> IF offset = None THEN InitialBytes ELSE PollBytes,
                   maxLines |-> IF offset = None THEN InitialLines ELSE PollLines]
    /\ UNCHANGED <<theLog, theTail>>

\* stream_instance_log: one turn of its loop up to the wait in _collect.
AskNext ==
    /\ reading = Sleeping
    /\ reading' = [phase |-> "asked", by |-> "stream", offset |-> offset,
                   maxBytes |-> IF offset = None THEN InitialBytes ELSE PollBytes,
                   maxLines |-> IF offset = None THEN InitialLines ELSE PollLines]
    /\ UNCHANGED <<theLog, theTail>>

\* LogUnavailableError: no connected agent, an error, or no answer in time. An
\* answer that comes later belongs to a command nobody waits for.
Unavailable ==
    /\ reading.phase \in {"asked", "answered"}
    /\ reading' = IF reading.by = "stream" THEN Sleeping ELSE Ended
    /\ UNCHANGED <<theLog, theTail>>

\* Faulty variant: the tail starts over whenever there was nothing to show.
YieldOrStartOver ==
    /\ reading.phase = "answered"
    /\ reading.by = "stream"
    /\ offset' = IF reading.kept = {} THEN None ELSE reading.endOffset
    /\ shown' = shown \cup reading.kept
    /\ dropped' = dropped \cup reading.cut
    /\ since' = IF offset = None THEN [first |-> reading.first, hidden |-> reading.hidden] ELSE since
    /\ reading' = Sleeping
    /\ UNCHANGED theLog

Yield ==
    /\ reading.phase = "answered"
    /\ reading.by = "stream"
    /\ offset' = reading.endOffset
    /\ shown' = shown \cup reading.kept
    /\ dropped' = dropped \cup reading.cut
    /\ since' = IF offset = None THEN [first |-> reading.first, hidden |-> reading.hidden] ELSE since
    /\ reading' = Sleeping
    /\ UNCHANGED theLog

\* The instance is gone, or STREAM_MAX_SECONDS are over.
Close ==
    /\ reading = Sleeping
    /\ reading' = Ended
    /\ offset' = None
    /\ shown' = {} /\ dropped' = {}
    /\ since' = NotYet
    /\ UNCHANGED theLog

\* The next GET .../logs/stream.
Connect ==
    /\ reading = Ended
    /\ reading' = Sleeping
    /\ UNCHANGED <<theLog, theTail>>

\* GET .../logs: fetch_instance_log shares nothing with the tail but the log.
Fetch(bytes, lines, from) ==
    /\ reading = Ended
    /\ reading' = [phase |-> "asked", by |-> "fetch", offset |-> from,
                   maxBytes |-> Clamp(bytes, DefaultBytes, HardBytes),
                   maxLines |-> Clamp(lines, DefaultLines, HardLines)]
    /\ UNCHANGED <<theLog, theTail>>

Fetched ==
    /\ reading.phase = "answered"
    /\ reading.by = "fetch"
    /\ reading' = Ended
    /\ UNCHANGED <<theLog, theTail>>

----------------------------------------------------------------------------

Asked == {None} \cup 1..(HardBytes + 1)

LogNext ==
    \/ \E byte \in {"text", "newline"} : WriteLog(byte)
    \/ Rotate \/ Open
    \/ AgentReads \/ AgentFindsNothing
    \/ AskNext \/ Unavailable \/ Yield \/ Close \/ Connect
    \/ \E bytes, lines \in Asked, from \in {None} \cup 0..MaxLog : Fetch(bytes, lines, from)
    \/ Fetched

LogSpec == LogInit /\ [][LogNext]_logVars

\* The loop polls again and again, and an agent that is asked again and again
\* answers in time again and again.
LogFairSpec ==
    /\ LogSpec
    /\ WF_logVars(AskNext)
    /\ SF_logVars(AgentReads)
    /\ SF_logVars(Yield)

----------------------------------------------------------------------------

Tailing ==
    reading = Sleeping \/ (reading.phase \in {"asked", "answered"} /\ reading.by = "stream")

\* Since the first chunk all of the log can be read.
Intact == exists /\ Fits /\ (since # NotYet => since.hidden = hidden)

\* What the tail is about to yield is newer than all it has yielded: no line is
\* shown twice or out of order, also after answers that came too late and after
\* a rotation. Docker's window must not have moved.
ShownInOrder ==
    reading.phase = "answered" /\ reading.by = "stream" /\ (adapter = File \/ Intact) =>
        \A new \in reading.kept, old \in shown : old < new

\* Between its first chunk and its offset the tail has skipped no text but the
\* lines over the line limit, as long as the log is neither rotated nor rolled.
NothingSkipped ==
    since # NotYet /\ Intact =>
        \A k \in since.first..(hidden + offset) : log[k] = "text" => k \in shown \cup dropped

\* What the instance writes is shown while the tail lasts, unless it came before
\* the first chunk, was over the line limit, or the log did not stay intact.
CatchesUp ==
    \A k \in Bytes :
        (k <= Len(log) /\ log[k] = "text" /\ Tailing)
            ~> \/ k \in shown \cup dropped
               \/ ~Tailing
               \/ since # NotYet /\ k < since.first
               \/ ~Intact
============================================================================
