------------------------------ MODULE LogConsole ------------------------------
(***************************************************************************)
(* The log stream: log_source.py's LogManager, the file tail and the mock,  *)
(* ws_logs() of main.py, and useLogs.ts under LogConsole.tsx.               *)
(*                                                                         *)
(* Lines are numbered in the order they are written or made up.  A line is  *)
(* written to the file as a whole; one page is subscribed at a time.        *)
(***************************************************************************)
EXTENDS Integers, Sequences, SequencesExt

CONSTANTS
  BufferSize,  \* bufferSize of useLogs()
  QueueCap,    \* SUBSCRIBER_QUEUE_CAP
  MaxLines,    \* bound: lines made
  MaxMoves,    \* bound: removals, creations and truncations of the file
  MaxPresses,  \* bound: presses of Pause, Resume, Clear and the level buttons
  MaxDrops     \* bound: connections lost

VARIABLES
  file,       \* [ino, lines]; ino 0 while the path is not there
  lastIno,
  mode,       \* what the manager runs: "tail" or "mock"
  tail,       \* FileTailLogSource.run(): [ino, pos]; ino 0 before it opened one
  queue,      \* the subscriber's queue; what is taken from it is shown at once
  connected, paused,
  events, pausedBuffer,
  label,      \* mode as the page shows it
  levels,     \* filter.levels: those that are shown
  made, moves, presses, drops,
  delivered   \* history: what reached the page since the last Clear

disk == <<file, lastIno>>
source == <<mode, tail>>
page == <<connected, paused, events, pausedBuffer, label, levels>>
bounds == <<made, moves, presses, drops>>
vars == <<disk, source, queue, page, bounds, delivered>>

Absent == [ino |-> 0, lines |-> <<>>]
Closed == [ino |-> 0, pos |-> 0]

\* LOG_LEVELS, of which two are enough: lines are of one and of the other in turn.
Levels == {"DEBUG", "INFO"}
Level(line) == IF line % 2 = 0 THEN "DEBUG" ELSE "INFO"

Desired == IF file.ino # 0 THEN "tail" ELSE "mock"

\* The bridge comes up with or without a file, and the page with it.
Init ==
  /\ file \in {Absent, [ino |-> 1, lines |-> <<>>]} /\ lastIno = 1
  /\ mode = Desired /\ tail = Closed
  /\ queue = <<>> /\ connected = FALSE /\ label = "idle"
  /\ paused = FALSE /\ events = <<>> /\ pausedBuffer = <<>>
  /\ levels = {"INFO"}
  /\ made = 0 /\ moves = 0 /\ presses = 0 /\ drops = 0
  /\ delivered = <<>>

LastOf(s, n) == IF Len(s) <= n THEN s ELSE SubSeq(s, Len(s) - n + 1, Len(s))

-----------------------------------------------------------------------------
(* The file, external                                                        *)

WriteLine ==
  /\ file.ino # 0 /\ made < MaxLines
  /\ made' = made + 1
  /\ file' = [file EXCEPT !.lines = Append(@, made + 1)]
  /\ UNCHANGED <<lastIno, source, queue, page, moves, presses, drops, delivered>>

\* Removed, created anew, or cut to nothing in place.
MoveFile ==
  /\ moves < MaxMoves /\ moves' = moves + 1
  /\ \/ file.ino # 0 /\ file' = Absent /\ UNCHANGED lastIno
     \/ file.ino = 0 /\ file' = [ino |-> lastIno + 1, lines |-> <<>>] /\ lastIno' = lastIno + 1
     \/ file.ino # 0 /\ file' = [file EXCEPT !.lines = <<>>] /\ UNCHANGED lastIno
  /\ UNCHANGED <<source, queue, page, made, presses, drops, delivered>>

-----------------------------------------------------------------------------
(* The bridge                                                                *)

\* LogManager._run(): another source when the file came or went.
Switch ==
  /\ mode # Desired
  /\ mode' = Desired /\ tail' = Closed
  /\ UNCHANGED <<disk, queue, page, bounds, delivered>>

\* _emit(): a full queue loses its oldest.
Put(new) == queue' = IF connected THEN LastOf(queue \o new, QueueCap) ELSE <<>>

\* An iteration of FileTailLogSource.run(): another inode is opened at its end;
\* what is new is emitted, without an await; a file that shrank is read again
\* from its start.
Poll ==
  /\ mode = "tail" /\ file.ino # 0
  /\ \/ /\ tail.ino # file.ino
        /\ tail' = [ino |-> file.ino, pos |-> Len(file.lines)]
        /\ UNCHANGED queue
     \/ /\ tail.ino = file.ino /\ tail.pos < Len(file.lines)
        /\ Put(SubSeq(file.lines, tail.pos + 1, Len(file.lines)))
        /\ tail' = [tail EXCEPT !.pos = Len(file.lines)]
     \/ /\ tail.ino = file.ino /\ Len(file.lines) < tail.pos
        /\ tail' = [tail EXCEPT !.pos = 0]
        /\ UNCHANGED queue
  /\ UNCHANGED <<disk, mode, page, bounds, delivered>>

\* MockLogSource.run(): a line nobody wrote.
MockLine ==
  /\ mode = "mock" /\ made < MaxLines
  /\ made' = made + 1
  /\ Put(<<made + 1>>)
  /\ UNCHANGED <<disk, source, page, moves, presses, drops, delivered>>

-----------------------------------------------------------------------------
(* The page                                                                  *)

\* The socket opens: the bridge subscribes a queue and sends the mode, once.
Connect ==
  /\ ~connected
  /\ connected' = TRUE /\ label' = mode /\ queue' = <<>>
  /\ UNCHANGED <<disk, source, paused, events, pausedBuffer, levels, bounds, delivered>>

\* handleLost(); a timer connects again.
Lose ==
  /\ connected /\ drops < MaxDrops
  /\ connected' = FALSE /\ queue' = <<>> /\ drops' = drops + 1
  /\ UNCHANGED <<disk, source, paused, events, pausedBuffer, label, levels, made, moves, presses, delivered>>

\* Mutant: what is paused over is kept from its start, not to its end.
OnMessage_KeepFirst ==
  /\ queue # <<>> /\ queue' = Tail(queue)
  /\ delivered' = Append(delivered, Head(queue))
  /\ IF paused
       THEN /\ pausedBuffer' = IF Len(pausedBuffer) < BufferSize
                               THEN Append(pausedBuffer, Head(queue)) ELSE pausedBuffer
            /\ UNCHANGED events
       ELSE events' = LastOf(Append(events, Head(queue)), BufferSize) /\ UNCHANGED pausedBuffer
  /\ UNCHANGED <<disk, source, connected, paused, label, levels, bounds>>

\* sock.onmessage
OnMessage ==
  /\ queue # <<>> /\ queue' = Tail(queue)
  /\ delivered' = Append(delivered, Head(queue))
  /\ IF paused
       THEN /\ pausedBuffer' = LastOf(Append(pausedBuffer, Head(queue)), BufferSize)
            /\ UNCHANGED events
       ELSE events' = LastOf(Append(events, Head(queue)), BufferSize) /\ UNCHANGED pausedBuffer
  /\ UNCHANGED <<disk, source, connected, paused, label, levels, bounds>>

Press ==
  /\ presses < MaxPresses /\ presses' = presses + 1
  /\ UNCHANGED <<disk, source, queue, connected, label, made, moves, drops>>

Pause ==
  Press /\ ~paused /\ paused' = TRUE /\ UNCHANGED <<events, pausedBuffer, levels, delivered>>

\* The effect on [paused] runs before the click is over (React flushes the
\* effects of a click at once), so no line comes in between.
Resume ==
  /\ Press /\ paused
  /\ paused' = FALSE
  /\ events' = LastOf(events \o pausedBuffer, BufferSize) /\ pausedBuffer' = <<>>
  /\ UNCHANGED <<levels, delivered>>

\* Clear, while paused or not.
Clear ==
  /\ Press
  /\ events' = <<>> /\ pausedBuffer' = <<>> /\ delivered' = <<>>
  /\ UNCHANGED <<paused, levels>>

\* toggleLevel(), as good as the module and search filters
ToggleLevel(level) ==
  /\ Press
  /\ levels' = IF level \in levels THEN levels \ {level} ELSE levels \cup {level}
  /\ UNCHANGED <<paused, events, pausedBuffer, delivered>>

\* filtered: what the console lists, and what Export writes
Filtered(lines) == SelectSeq(lines, LAMBDA line : Level(line) \in levels)

Next ==
  \/ WriteLine \/ MoveFile \/ Switch \/ Poll \/ MockLine
  \/ Connect \/ Lose \/ OnMessage \/ Pause \/ Resume \/ Clear
  \/ \E level \in Levels : ToggleLevel(level)

Spec == Init /\ [][Next]_vars

-----------------------------------------------------------------------------
\* "Re-opens if the file is rotated", and "to avoid replaying full history":
\* no line comes twice or out of order, neither in the console nor in what is
\* held back by a pause nor on its way, through removals and truncations of the
\* file, switches between the sources, full queues and reconnections.
LinesInOrder ==
  LET all == events \o pausedBuffer \o queue
  IN \A i, j \in DOMAIN all : i < j => all[i] < all[j]

\* "Keep paused buffer bounded too; drop oldest if over-large": whatever is
\* paused, resumed, cleared and filtered, the console has, or is going to have
\* when it is resumed, the last lines that reached the page, as many as it holds,
\* and lists those of them that pass the filter: a line of a level that was
\* hidden when it came is there when the level is shown.
NewestAreShown ==
  /\ LastOf(events \o pausedBuffer, BufferSize) = LastOf(delivered, BufferSize)
  /\ ~paused => pausedBuffer = <<>> /\ Filtered(events) = Filtered(LastOf(delivered, BufferSize))
=============================================================================
