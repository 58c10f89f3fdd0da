----------------------------- MODULE LiveStream -----------------------------
(***************************************************************************)
(* One client following the output of one job: make writes a file, the     *)
(* socket handler handle_live_order_stream reads it to the client in       *)
(* numbered chunks until the job has terminated, and the page's            *)
(* OrderStreamLogs shows them.                                             *)
(*                                                                         *)
(* The content of the file is left out: a chunk is the interval of file    *)
(* positions it carries, and the page's text is its length.                *)
(***************************************************************************)
EXTENDS Integers, Sequences

CONSTANTS
  BufferSize,  \* buf, 4096 bytes
  Window,      \* chunks that fit between the handler and the page
  MaxOutput    \* bound: bytes the job writes

ASSUME BufferAssumption == BufferSize \in Nat \ {0}
ASSUME WindowAssumption == Window \in Nat \ {0}
ASSUME OutputAssumption == MaxOutput \in Nat

VARIABLES
  \* the job
  job,          \* "preparing", "writing" or "closed" (its termination channel)
  registered,   \* the manager has handled BeginWork
  created,      \* the output file exists
  written,      \* its length
  final,        \* its length when the channel closed, NotYet before
  \* the handler
  handler,      \* where it is
  answer,       \* what it was told of the job: "none", "live", "early", "over"
  terminated,   \* job_has_terminated
  pending,      \* what a read of the file brought, NotYet while there is none
  offset,       \* file position of file_reader
  chunk_id,
  \* the socket and the page
  wire,         \* chunks sent and not received
  connected,    \* the page is open
  last_data_id, message, shown, is_done

vars == <<job, registered, created, written, final, handler, answer, terminated,
          pending, offset, chunk_id, wire, connected, last_data_id, message,
          shown, is_done>>

NotYet == -1

Chunk == [id : Nat, from : Nat, to : Nat]
NoChunk == [id |-> NotYet, from |-> 0, to |-> 0]

TypeOK ==
  /\ job \in {"preparing", "writing", "closed"}
  /\ registered \in BOOLEAN /\ created \in BOOLEAN
  /\ written \in Nat
  /\ final \in Nat \cup {NotYet}
  /\ handler \in {"ask", "open", "stream", "mark", "close", "closed", "panicked",
                  "gone"}
  /\ answer \in {"none", "live", "early", "over"}
  /\ terminated \in BOOLEAN
  /\ pending \in Nat \cup {NotYet}
  /\ offset \in Nat
  /\ chunk_id \in Nat
  /\ wire \in Seq(Chunk)
  /\ connected \in BOOLEAN
  /\ last_data_id \in Nat \cup {NotYet}
  /\ message \in Chunk \cup {NoChunk}
  /\ shown \in Nat
  /\ is_done \in BOOLEAN

Init ==
  /\ job = "preparing"
  /\ registered = FALSE /\ created = FALSE
  /\ written = 0
  /\ final = NotYet
  /\ handler = "ask"
  /\ answer = "none"
  /\ terminated = FALSE
  /\ pending = NotYet
  /\ offset = 0
  /\ chunk_id = 0
  /\ wire = <<>>
  /\ connected = TRUE
  /\ last_data_id = NotYet
  /\ message = NoChunk
  /\ shown = 0
  /\ is_done = FALSE

reader == <<handler, answer, terminated, pending, offset, chunk_id>>
page   == <<connected, last_data_id, message, shown, is_done>>

-----------------------------------------------------------------------------
(* The job.                                                                *)

\* BeginWork is handled at any time after it was sent: the worker goes on
\* without waiting for it.
Register ==
  /\ ~registered
  /\ registered' = TRUE
  /\ UNCHANGED <<job, created, written, final, reader, wire, page>>

\* The child opens its output files.
CreateFile ==
  /\ job = "preparing"
  /\ job' = "writing"
  /\ created' = TRUE
  /\ UNCHANGED <<registered, written, final, reader, wire, page>>

\* Processes that make left behind write on after the job has terminated.
WriteOutput ==
  /\ created
  /\ written < MaxOutput
  /\ written' = written + 1
  /\ UNCHANGED <<job, registered, created, final, reader, wire, page>>

\* The worker ends, before its fork or after it, and drops the channel.
EndJob ==
  /\ job # "closed"
  /\ job' = "closed"
  /\ final' = written
  /\ UNCHANGED <<registered, created, written, reader, wire, page>>

-----------------------------------------------------------------------------
(* The handler.                                                            *)

\* QueryLiveStatus: None stands for a job that is over and for one that has not
\* been announced yet; the handler cannot tell which.
Ask ==
  /\ handler = "ask"
  /\ handler' = "open"
  /\ answer' = CASE job = "closed" -> "over"
                 [] job # "closed" /\ registered -> "live"
                 [] OTHER -> "early"
  /\ UNCHANGED <<job, registered, created, written, final, terminated, pending,
                 offset, chunk_id, wire, page>>

Open ==
  /\ handler = "open"
  /\ handler' = IF created THEN "stream" ELSE "panicked"
  /\ UNCHANGED <<job, registered, created, written, final, answer, terminated,
                 pending, offset, chunk_id, wire, page>>

\* The read runs on another thread: select! may take the other branch meanwhile,
\* and the next turn of the loop gets its result, however old.
ReadFile ==
  /\ handler = "stream"
  /\ pending = NotYet
  /\ pending' = IF written - offset < BufferSize THEN written - offset
                ELSE BufferSize
  /\ offset' = offset + pending'
  /\ UNCHANGED <<job, registered, created, written, final, handler, answer,
                 terminated, chunk_id, wire, page>>

\* Without a handle the channel is one that is closed already.
NoticeEnd ==
  /\ handler = "stream"
  /\ ~terminated
  /\ answer = "live" => job = "closed"
  /\ terminated' = TRUE
  /\ UNCHANGED <<job, registered, created, written, final, handler, answer,
                 pending, offset, chunk_id, wire, page>>

Send(id, from, to) ==
  /\ connected
  /\ Len(wire) < Window
  /\ wire' = Append(wire, [id |-> id, from |-> from, to |-> to])

SendChunk ==
  /\ handler = "stream"
  /\ pending \notin {NotYet, 0}
  /\ Send(chunk_id, offset - pending, offset)
  /\ chunk_id' = chunk_id + 1
  /\ pending' = NotYet
  /\ UNCHANGED <<job, registered, created, written, final, handler, answer,
                 terminated, offset, page>>

\* End of file, and the job still runs: read again at once.
ReadAgain ==
  /\ handler = "stream"
  /\ pending = 0
  /\ ~terminated
  /\ pending' = NotYet
  /\ UNCHANGED <<job, registered, created, written, final, handler, answer,
                 terminated, offset, chunk_id, wire, page>>

\* Mutants of EndOfFile: the last end of file is believed, and the file is read
\* up to its length at the termination.
OldEndOfFile == offset
FinalEndOfFile == final

\* read_to_end reads as far as the file goes now.
EndOfFile == written

\* End of file, and the job has terminated: one more chunk, empty or not.
SendRest ==
  /\ handler = "stream"
  /\ pending = 0
  /\ terminated
  /\ Send(chunk_id, offset, EndOfFile)
  /\ offset' = EndOfFile
  /\ chunk_id' = chunk_id + 1
  /\ handler' = "mark"
  /\ UNCHANGED <<job, registered, created, written, final, answer, terminated,
                 pending, page>>

\* Mutant of SendMark: the mark carries the number of the chunk before it.
SendMarkUnnumbered ==
  /\ handler = "mark"
  /\ Send(chunk_id - 1, offset, offset)
  /\ handler' = "close"
  /\ UNCHANGED <<job, registered, created, written, final, answer, terminated,
                 pending, offset, chunk_id, page>>

\* The final message: a chunk id and no data.
SendMark ==
  /\ handler = "mark"
  /\ Send(chunk_id, offset, offset)
  /\ handler' = "close"
  /\ UNCHANGED <<job, registered, created, written, final, answer, terminated,
                 pending, offset, chunk_id, page>>

Close ==
  /\ handler = "close"
  /\ handler' = IF connected THEN "closed" ELSE "gone"
  /\ UNCHANGED <<job, registered, created, written, final, answer, terminated,
                 pending, offset, chunk_id, wire, page>>

\* unwrap() on a send to a page that was left.
SendFails ==
  /\ ~connected
  /\ \/ handler = "mark"
     \/ handler = "stream" /\ pending \notin {NotYet, 0}
     \/ handler = "stream" /\ pending = 0 /\ terminated
  /\ handler' = "gone"
  /\ UNCHANGED <<job, registered, created, written, final, answer, terminated,
                 pending, offset, chunk_id, wire, page>>

-----------------------------------------------------------------------------
(* The page.                                                               *)

\* Mutant of IsNew: every render shows the message.
AlwaysNew(m) == TRUE

IsNew(m) == m.id # last_data_id

\* One render with m as the socket's last message.
Render(m) ==
  IF ~is_done /\ IsNew(m)
  THEN /\ shown' = shown + (m.to - m.from)
       /\ is_done' = (m.from = m.to)
       /\ last_data_id' = m.id
  ELSE UNCHANGED <<shown, is_done, last_data_id>>

\* A message changes the socket hook's state, and yew renders before the next
\* event.
Receive ==
  /\ connected
  /\ wire # <<>>
  /\ wire' = Tail(wire)
  /\ message' = Head(wire)
  /\ Render(Head(wire))
  /\ UNCHANGED <<job, registered, created, written, final, reader, connected>>

\* Any other change of state renders the same message again.
RenderAgain ==
  /\ connected
  /\ message # NoChunk
  /\ Render(message)
  /\ UNCHANGED <<job, registered, created, written, final, reader, wire, message,
                 connected>>

Leave ==
  /\ connected
  /\ ~is_done
  /\ connected' = FALSE
  /\ wire' = <<>>
  /\ UNCHANGED <<job, registered, created, written, final, reader, last_data_id,
                 message, shown, is_done>>

-----------------------------------------------------------------------------
Next ==
  \/ Register \/ CreateFile \/ WriteOutput \/ EndJob
  \/ Ask \/ Open \/ ReadFile \/ NoticeEnd \/ SendChunk \/ ReadAgain \/ SendRest
  \/ SendMark \/ Close \/ SendFails
  \/ Receive \/ RenderAgain \/ Leave

Spec == Init /\ [][Next]_vars

\* The handler is polled, select! takes each ready branch in time, the blocking
\* thread reads, and an open page gets what was sent.  Nothing obliges the job
\* to write or to end.
Fairness ==
  /\ WF_vars(Open)
  /\ WF_vars(ReadFile)
  /\ WF_vars(NoticeEnd)
  /\ WF_vars(SendChunk)
  /\ WF_vars(ReadAgain)
  /\ WF_vars(SendRest)
  /\ WF_vars(SendMark)
  /\ WF_vars(Close)
  /\ WF_vars(Receive)

FairSpec == Spec /\ Fairness

-----------------------------------------------------------------------------
(* Properties.                                                             *)

\* The page's text grows by the bytes that follow it in the file: no chunk is
\* shown twice, although a page renders each of them many times, and none is
\* skipped (order.rs:516-530 with the chunk ids of upload.rs:429-446).
OutputInOrder ==
  [][shown' # shown => wire # <<>> /\ Head(wire).from = shown]_vars

\* The handler closes with "the job was terminated and will no longer produce
\* any output" only after it has sent all of it, also when the read that found
\* the end of the file is older than the termination (upload.rs:434-458).
StreamComplete ==
  handler = "closed" /\ answer # "early" => final # NotYet /\ offset >= final

\* The page writes its end mark below the whole output only, although the chunk
\* that brings it there may be the rest or the final message.
DoneShowsAll == is_done /\ answer # "early" => final # NotYet /\ shown >= final

\* Once the job has terminated, a page that stays open comes to its end mark.
StreamEnds == handler = "stream" /\ job = "closed" ~> is_done \/ ~connected

-----------------------------------------------------------------------------
\* upload.rs:405 expects that the stream of a job opens: "failed to open order
\* stream" is not the fate of a job the manager says is running.
RunningJobOpens == answer = "live" => handler # "panicked"
=============================================================================
