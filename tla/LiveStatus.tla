----------------------------- MODULE LiveStatus -----------------------------
(***************************************************************************)
(* One order page and one job: the page asks for the order's status; while *)
(* the job runs it holds a socket whose handler handle_live_order_status   *)
(* forwards the job's status, throttled, takes a stop request, and closes  *)
(* when the job has terminated; a page whose socket was closed reloads     *)
(* itself, to show the record.                                             *)
(*                                                                         *)
(* A status is the version of the watch channel: 0 is Preparing, the last  *)
(* one Terminated, those between are samples.  The order's account exists, *)
(* and the socket of a page that stays does not break.                     *)
(***************************************************************************)
EXTENDS Integers, Sequences

CONSTANTS
  Window,      \* messages that fit between the handler and the page
  MaxSamples   \* bound: samples a job takes

ASSUME WindowAssumption == Window \in Nat \ {0}
ASSUME SamplesAssumption == MaxSamples \in Nat

VARIABLES
  \* the worker and the manager
  worker,        \* where the worker task is
  failed,        \* it returned Err
  recorded,      \* the row has its status_json
  term_open,     \* _term_send has not been dropped
  version,       \* of the status channel
  cancelled,     \* the stop token
  registration,  \* BeginWork: "sent", "held" as a running handle, "gone" again
  \* the handler
  handler,       \* "none", "open", "refusing" (close_immediately), "closed"
  seen,          \* the version its receiver has seen
  due,           \* more than update_interval has passed since last_update_at
  \* the socket and the page
  wire,          \* statuses and the Close frame, sent and not received
  stops,         \* 1 while a stop request is under way, else 0
  page,          \* where the page is
  row_recorded,  \* whether the row its request read had a record
  shown,         \* last_data, 0 for none
  reloaded       \* the page was reloaded because its socket was closed

vars == <<worker, failed, recorded, term_open, version, cancelled, registration,
          handler, seen, due, wire, stops, page, row_recorded, shown, reloaded>>

Closed == -1   \* the Close frame
LastVersion == MaxSamples + 1
Message == 0..LastVersion \cup {Closed}

TypeOK ==
  /\ worker \in {"executing", "committing", "finishing", "leaving", "ended"}
  /\ failed \in BOOLEAN /\ recorded \in BOOLEAN /\ term_open \in BOOLEAN
  /\ version \in 0..LastVersion
  /\ cancelled \in BOOLEAN
  /\ registration \in {"sent", "held", "gone"}
  /\ handler \in {"none", "open", "refusing", "closed"}
  /\ seen \in 0..LastVersion
  /\ due \in BOOLEAN
  /\ wire \in Seq(Message)
  /\ stops \in {0, 1}
  /\ page \in {"idle", "asking", "connecting", "live", "completed", "error", "left"}
  /\ row_recorded \in BOOLEAN
  /\ shown \in 0..LastVersion
  /\ reloaded \in BOOLEAN

\* The worker has sent BeginWork and forked.
Init ==
  /\ worker = "executing"
  /\ failed = FALSE /\ recorded = FALSE /\ term_open = TRUE
  /\ version = 0
  /\ cancelled = FALSE
  /\ registration = "sent"
  /\ handler = "none"
  /\ seen = 0
  /\ due = TRUE
  /\ wire = <<>>
  /\ stops = 0
  /\ page = "idle"
  /\ row_recorded = FALSE
  /\ shown = 0
  /\ reloaded = FALSE

job    == <<worker, failed, recorded, term_open, version>>
server == <<handler, seen, due>>
client == <<page, row_recorded, shown, reloaded>>

-----------------------------------------------------------------------------
(* The worker and the manager.                                             *)

Sample ==
  /\ worker = "executing"
  /\ version < MaxSamples
  /\ version' = version + 1
  /\ UNCHANGED <<worker, failed, recorded, term_open, cancelled, registration,
                 server, wire, stops, client>>

\* Mutant of Terminate: _term_send lives as long as the execution only.
TerminateAndDrop ==
  /\ worker = "executing"
  /\ worker' = "committing"
  /\ version' = version + 1
  /\ term_open' = FALSE
  /\ UNCHANGED <<failed, recorded, cancelled, registration, server, wire, stops,
                 client>>

\* fork_and_make has returned: the status is Terminated, before the commit.
Terminate ==
  /\ worker = "executing"
  /\ worker' = "committing"
  /\ version' = version + 1
  /\ UNCHANGED <<failed, recorded, term_open, cancelled, registration, server,
                 wire, stops, client>>

Commit ==
  /\ worker = "committing"
  /\ worker' = "finishing"
  /\ recorded' = TRUE
  /\ UNCHANGED <<failed, term_open, version, cancelled, registration, server,
                 wire, stops, client>>

\* Execution or transaction fails.
Fail ==
  /\ worker \in {"executing", "committing"}
  /\ worker' = "leaving"
  /\ failed' = TRUE
  /\ UNCHANGED <<recorded, term_open, version, cancelled, registration, server,
                 wire, stops, client>>

SendFinishWork ==
  /\ worker = "finishing"
  /\ worker' = "leaving"
  /\ UNCHANGED <<failed, recorded, term_open, version, cancelled, registration,
                 server, wire, stops, client>>

\* The task ends, and drops what it held.
EndTask ==
  /\ worker = "leaving"
  /\ worker' = "ended"
  /\ term_open' = FALSE
  /\ UNCHANGED <<failed, recorded, version, cancelled, registration, server, wire,
                 stops, client>>

HandleBeginWork ==
  /\ registration = "sent"
  /\ registration' = "held"
  /\ UNCHANGED <<job, cancelled, server, wire, stops, client>>

\* FinishWork comes after BeginWork on the same channel.
HandleFinishWork ==
  /\ worker \in {"leaving", "ended"} /\ ~failed
  /\ registration = "held"
  /\ registration' = "gone"
  /\ UNCHANGED <<job, cancelled, server, wire, stops, client>>

\* A prune meets the ended task.
Reap ==
  /\ worker = "ended"
  /\ registration' = IF registration = "held" THEN "gone" ELSE registration
  /\ recorded' = TRUE
  /\ UNCHANGED <<worker, failed, term_open, version, cancelled, server, wire, stops,
                 client>>

\* The answer to QueryLiveStatus: Some or None.
IsLive == registration = "held" /\ term_open

-----------------------------------------------------------------------------
(* The page asks get_order_status, which reads the row and then the        *)
(* manager.                                                                *)

ReadRow ==
  /\ page = "idle"
  /\ page' = "asking"
  /\ row_recorded' = recorded
  /\ UNCHANGED <<job, cancelled, registration, server, wire, stops, shown, reloaded>>

GetStatus ==
  /\ page = "asking"
  /\ page' = IF IsLive THEN "connecting"
             ELSE IF row_recorded THEN "completed" ELSE "error"
  /\ UNCHANGED <<job, cancelled, registration, server, wire, stops, row_recorded,
                 shown, reloaded>>

\* The user opens the page again by hand.
Revisit ==
  /\ page = "error"
  /\ page' = "idle"
  /\ UNCHANGED <<job, cancelled, registration, server, wire, stops, row_recorded,
                 shown, reloaded>>

-----------------------------------------------------------------------------
(* The socket.                                                             *)

\* get_live_order_status asks the manager again.  The cloned receiver has seen
\* what the manager's own has seen: Preparing.
Connect ==
  /\ page = "connecting"
  /\ page' = "live"
  /\ handler' = IF IsLive THEN "open" ELSE "refusing"
  /\ seen' = 0
  /\ due' = TRUE
  /\ wire' = <<>>
  /\ UNCHANGED <<job, cancelled, registration, stops, row_recorded, shown, reloaded>>

Send(m) ==
  /\ page = "live"
  /\ Len(wire) < Window
  /\ wire' = Append(wire, m)

\* status.changed() resolves for an unseen version, and at once when the sender
\* is dropped.  It marks the version as seen also when the throttle lets it go
\* unsent.
Changed == handler = "open" /\ (version # seen \/ ~term_open)

ForwardStatus ==
  /\ Changed
  /\ due
  /\ Send(version)
  /\ seen' = version
  /\ due' = FALSE
  /\ UNCHANGED <<job, cancelled, registration, handler, stops, client>>

SkipStatus ==
  /\ Changed
  /\ ~due
  /\ seen' = version
  /\ UNCHANGED <<job, cancelled, registration, handler, due, wire, stops, client>>

IntervalPasses ==
  /\ ~due
  /\ due' = TRUE
  /\ UNCHANGED <<job, cancelled, registration, handler, seen, wire, stops, client>>

\* Mutant of CloseSocket: the branch waits for a message on the termination
\* channel, to which nothing is ever written.
CloseOnMessage ==
  /\ handler = "refusing"
  /\ Send(Closed)
  /\ handler' = "closed"
  /\ UNCHANGED <<job, cancelled, registration, seen, due, stops, client>>

\* The job has terminated: code 1000, or 1008 if it had at the time of Connect.
CloseSocket ==
  /\ \/ handler = "refusing"
     \/ handler = "open" /\ ~term_open
  /\ Send(Closed)
  /\ handler' = "closed"
  /\ UNCHANGED <<job, cancelled, registration, seen, due, stops, client>>

\* Mutants of HearStop: only a binary message is a request, or no message is.
HearBinary ==
  /\ handler = "open"
  /\ stops = 1
  /\ stops' = 0
  /\ UNCHANGED <<job, cancelled, registration, server, wire, client>>

HearNothing ==
  /\ handler = "open"
  /\ stops' = stops - 1
  /\ cancelled' = TRUE
  /\ UNCHANGED <<job, registration, server, wire, client>>

HearStop ==
  /\ handler = "open"
  /\ stops = 1
  /\ stops' = 0
  /\ cancelled' = TRUE
  /\ UNCHANGED <<job, registration, server, wire, client>>

\* unwrap() on a send to a page that was left.
SendFails ==
  /\ page = "left"
  /\ \/ Changed /\ due
     \/ handler = "refusing"
     \/ handler = "open" /\ ~term_open
  /\ handler' = "closed"
  /\ UNCHANGED <<job, cancelled, registration, seen, due, wire, stops, client>>

-----------------------------------------------------------------------------
(* The page with its socket.                                               *)

ShowStatus ==
  /\ page = "live"
  /\ wire # <<>> /\ Head(wire) # Closed
  /\ wire' = Tail(wire)
  /\ shown' = Head(wire)
  /\ UNCHANGED <<job, cancelled, registration, server, stops, page, row_recorded,
                 reloaded>>

\* The socket was open (did_open) and is closed: reload.
Reload ==
  /\ page = "live"
  /\ wire # <<>> /\ Head(wire) = Closed
  /\ wire' = <<>>
  /\ stops' = 0
  /\ page' = "idle"
  /\ shown' = 0
  /\ reloaded' = TRUE
  /\ UNCHANGED <<job, cancelled, registration, server, row_recorded>>

PressStop ==
  /\ page = "live"
  /\ stops = 0
  /\ stops' = 1
  /\ UNCHANGED <<job, cancelled, registration, server, wire, client>>

Leave ==
  /\ page = "live"
  /\ page' = "left"
  /\ wire' = <<>>
  /\ UNCHANGED <<job, cancelled, registration, server, stops, row_recorded, shown,
                 reloaded>>

-----------------------------------------------------------------------------
Next ==
  \/ Sample \/ Terminate \/ Commit \/ Fail \/ SendFinishWork \/ EndTask
  \/ HandleBeginWork \/ HandleFinishWork \/ Reap
  \/ ReadRow \/ GetStatus \/ Revisit
  \/ Connect \/ ForwardStatus \/ SkipStatus \/ IntervalPasses \/ CloseSocket
  \/ HearStop \/ SendFails
  \/ ShowStatus \/ Reload \/ PressStop \/ Leave

Spec == Init /\ [][Next]_vars

\* Requests are answered, select! takes each branch that stays ready, a send that
\* waits for room gets it, the page gets what was sent.  Nothing obliges the job
\* to go on or the user to act.
Fairness ==
  /\ WF_vars(ReadRow)
  /\ WF_vars(GetStatus)
  /\ SF_vars(CloseSocket)
  /\ WF_vars(HearStop)
  /\ WF_vars(ShowStatus)
  /\ WF_vars(Reload)

FairSpec == Spec /\ Fairness

-----------------------------------------------------------------------------
(* Properties.                                                             *)

\* A page that reloads because its socket was closed finds the record, unless
\* the worker failed, and never the job running: Closed and None come after the
\* commit, by whichever of the termination channel, FinishWork and the prune the
\* page came to know of the end (worker.rs:59-60, 106-148; upload.rs:152-210).
ReloadFindsRecord ==
  reloaded =>
    /\ page \notin {"connecting", "live"}
    /\ page = "error" => failed

\* A stop request of a page that stays reaches the job while it can still be
\* stopped, among any number of status updates (upload.rs:212-222).
StopIsHeard == stops = 1 ~> cancelled \/ worker # "executing" \/ page = "left"

\* A page that watches a job comes to its result, although the throttle may have
\* dropped the last status (upload.rs:186-210).
EndIsSeen ==
  page = "live" /\ ~term_open ~> page \in {"completed", "error", "left"}
=============================================================================
