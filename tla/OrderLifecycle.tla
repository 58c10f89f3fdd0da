--------------------------- MODULE OrderLifecycle ---------------------------
(***************************************************************************)
(* The life of an order on the server: upload handlers, the manager task   *)
(* behind its bounded mpsc channel, one worker task per order, status      *)
(* handlers, the orders and accounts tables, faults of the database and of *)
(* fork, and the end and restart of the server process.                    *)
(*                                                                         *)
(* An id of Orders is one upload: the handler that asks for it, the row,   *)
(* the worker and the directory /compile/{id} carry the same name (ids are *)
(* drawn at random and never collide, manager.rs:118).  Money is counted   *)
(* in whole units.  What a worker does between fork and the last waitid    *)
(* is one step here and is the subject of module JobExecution.             *)
(***************************************************************************)
EXTENDS Integers, Sequences, FiniteSets, Functions

CONSTANTS
  Orders, Users, Owner, Costs, InitialBalance,
  ChannelCapacity,   \* mpsc::channel(100)
  QueriedOrders,     \* the orders whose status page somebody opens
  MaxQueuedPrunes,   \* bound: PruneDeadJobs messages in the channel at once
  MaxSpawnedPrunes,  \* bound: a page is not opened while that many tasks wait
                     \* to send PruneDeadJobs
  MaxFaults,         \* bound: failing statements, directories and forks
  MaxExits           \* bound: ends of the server process

ASSUME OrdersAssumption   == IsFiniteSet(Orders)
ASSUME OwnerAssumption    == Owner \in [Orders -> Users]
ASSUME CostsAssumption    == Costs \subseteq Nat
ASSUME BalanceAssumption  == InitialBalance \in Int
ASSUME CapacityAssumption == ChannelCapacity \in Nat \ {0}
ASSUME QueriedAssumption  == QueriedOrders \subseteq Orders
ASSUME BoundsAssumption   ==
  /\ MaxQueuedPrunes \in Nat /\ MaxSpawnedPrunes \in Nat
  /\ MaxFaults \in Nat /\ MaxExits \in Nat

VARIABLES
  \* the database and the disk, which survive the process
  orders,         \* id -> row of table orders
  balance,        \* user -> accounts.balance
  dirs,           \* ids with a directory /compile/{id}
  \* the process
  server,         \* "up", "stopping" (manager gone after ctrl-c) or "down"
  queue,          \* the manager's channel
  running_handles, join_handles,   \* the manager's maps, by their key sets
  to_take,        \* ids PruneDeadJobs still has to reap, {} outside of it
  prune_senders,  \* spawned tasks about to send PruneDeadJobs
  uploads,        \* id -> where its upload handler is
  workers,        \* id -> where its worker task is, and its locals
  queries,        \* id -> where its status handler is, and its locals
  \* bookkeeping of the bounds
  faults, exits

vars == <<orders, balance, dirs, server, queue, running_handles, join_handles,
          to_take, prune_senders, uploads, workers, queries, faults, exits>>

-----------------------------------------------------------------------------
(* Values.                                                                 *)

\* status_json: null, a ProcessExit record, or a VeryAbnormalTermination one
\* written by the manager ("reaped") or by the next start-up ("swept").
Status == [kind : {"null", "exit", "reaped", "swept"}, cost : Nat]
NullStatus   == [kind |-> "null", cost |-> 0]
ReapedStatus == [kind |-> "reaped", cost |-> 0]
SweptStatus  == [kind |-> "swept", cost |-> 0]
ExitStatus(c) == [kind |-> "exit", cost |-> c]

Row == [present : BOOLEAN, is_running : BOOLEAN, status : Status]
NoRow      == [present |-> FALSE, is_running |-> FALSE, status |-> NullStatus]
RunningRow == [present |-> TRUE, is_running |-> TRUE, status |-> NullStatus]

PruneDeadJobs == [type |-> "PruneDeadJobs"]
Request(t, o) == [type |-> t, order |-> o]
ManagerRequest ==
  [type : {"AllocateOrder", "UploadFiles", "BeginWork", "FinishWork",
           "QueryLiveStatus"}, order : Orders] \cup {PruneDeadJobs}

UploadPc == {"idle", "allocating", "copying", "submitting", "answered", "gone"}

\* "leaving": the future is done with its code and has dropped its locals, so
\* the termination channel is closed; "ended": the JoinHandle is finished.
WorkerPc == {"none", "announce", "lookup", "execute", "record", "finish",
             "leavingOk", "leavingErr", "endedOk", "endedErr"}
Worker == [pc : WorkerPc, cost : Nat]
NoWorker == [pc |-> "none", cost |-> 0]

Query == [pc : {"idle", "read", "waiting", "told"}, status : Status,
          live : BOOLEAN,
          reply : {"none", "notAccessible", "running", "completed", "error"}]
NoQuery ==
  [pc |-> "idle", status |-> NullStatus, live |-> FALSE, reply |-> "none"]

TypeOK ==
  /\ orders \in [Orders -> Row]
  /\ balance \in [Users -> Int]
  /\ dirs \subseteq Orders
  /\ server \in {"up", "stopping", "down"}
  /\ queue \in Seq(ManagerRequest)
  /\ running_handles \subseteq Orders
  /\ join_handles \subseteq Orders
  /\ to_take \subseteq Orders
  /\ prune_senders \in Nat
  /\ uploads \in [Orders -> UploadPc]
  /\ workers \in [Orders -> Worker]
  /\ queries \in [Orders -> Query]
  /\ faults \in Nat
  /\ exits \in Nat

Init ==
  /\ orders = [o \in Orders |-> NoRow]
  /\ balance = [u \in Users |-> InitialBalance]
  /\ dirs = {}
  /\ server = "up"
  /\ queue = <<>>
  /\ running_handles = {}
  /\ join_handles = {}
  /\ to_take = {}
  /\ prune_senders = 0
  /\ uploads = [o \in Orders |-> "idle"]
  /\ workers = [o \in Orders |-> NoWorker]
  /\ queries = [o \in Orders |-> NoQuery]
  /\ faults = 0
  /\ exits = 0

-----------------------------------------------------------------------------
(* Helpers.                                                                *)

\* A send on the bounded channel completes only while there is room.
Send(m) ==
  /\ server = "up"
  /\ Len(queue) < ChannelCapacity
  /\ queue' = Append(queue, m)

\* One statement, directory operation or fork fails.
Fault ==
  /\ faults < MaxFaults
  /\ faults' = faults + 1

\* Mutant of Recorded: the statement forgets is_running.
RecordedStillRunning(o, s) ==
  [orders EXCEPT ![o] = IF @.present THEN [@ EXCEPT !.status = s] ELSE @]

\* UPDATE orders SET is_running=0, status_json=s WHERE id=o
Recorded(o, s) ==
  [orders EXCEPT ![o] =
     IF @.present THEN [@ EXCEPT !.is_running = FALSE, !.status = s] ELSE @]

UploadTo(o, pc) == uploads' = [uploads EXCEPT ![o] = pc]
WorkerTo(o, pc) == workers' = [workers EXCEPT ![o].pc = pc]

TerminationClosed(o) ==
  workers[o].pc \in {"leavingOk", "leavingErr", "endedOk", "endedErr"}
IsFinished(o) == workers[o].pc \in {"endedOk", "endedErr"}

disk     == <<orders, balance, dirs>>
handlers == <<uploads, queries>>
maps     == <<running_handles, join_handles, to_take>>
bounds   == <<faults, exits>>

-----------------------------------------------------------------------------
(* The upload handler (upload_order).                                      *)

StartUpload(o) ==
  /\ uploads[o] = "idle"
  /\ Send(Request("AllocateOrder", o))
  /\ UploadTo(o, "allocating")
  /\ UNCHANGED <<disk, server, maps, prune_senders, workers, queries, bounds>>

\* Every multipart field has been written to the order's directory.
CopyFiles(o) ==
  /\ server # "down"
  /\ uploads[o] = "copying"
  /\ UploadTo(o, "submitting")
  /\ UNCHANGED <<disk, server, queue, maps, prune_senders, workers, queries,
                 bounds>>

\* uploaded_files: hand the order to the manager and answer with its id.
SubmitUpload(o) ==
  /\ uploads[o] = "submitting"
  /\ Send(Request("UploadFiles", o))
  /\ UploadTo(o, "answered")
  /\ UNCHANGED <<disk, server, maps, prune_senders, workers, queries, bounds>>

\* The client disconnects (the future is dropped), a field or a file fails,
\* or the channel is closed: the handler ends without an answer.
AbandonUpload(o) ==
  /\ server # "down"
  /\ uploads[o] \in {"allocating", "copying", "submitting"}
  /\ UploadTo(o, "gone")
  /\ UNCHANGED <<disk, server, queue, maps, prune_senders, workers, queries,
                 bounds>>

-----------------------------------------------------------------------------
(* The manager: one message at a time, unless it is inside a prune.        *)

Receive(m) ==
  /\ server = "up"
  /\ to_take = {}
  /\ queue # <<>>
  /\ Head(queue) = m
  /\ queue' = Tail(queue)

\* The id reaches the handler, or the handler is gone and the row goes too.
HandleAllocateOrder(o) ==
  /\ Receive(Request("AllocateOrder", o))
  /\ IF uploads[o] = "allocating"
     THEN /\ orders' = [orders EXCEPT ![o] = RunningRow]
          /\ dirs' = dirs \cup {o}
          /\ UploadTo(o, "copying")
     ELSE /\ orders' = [orders EXCEPT ![o] = NoRow]
          /\ dirs' = dirs \ {o}
          /\ UNCHANGED uploads
  /\ UNCHANGED <<balance, server, maps, prune_senders, workers, queries, bounds>>

\* The directory or the INSERT fails: the reply channel is dropped, and the
\* handler, if it still waits, panics.
FailAllocateOrder(o) ==
  /\ Receive(Request("AllocateOrder", o))
  /\ Fault
  /\ dirs' \in {dirs, dirs \cup {o}}
  /\ UploadTo(o, "gone")
  /\ UNCHANGED <<orders, balance, server, maps, prune_senders, workers, queries,
                 exits>>

\* Mutant of FailDeallocate: the directory is removed before the row.
FailDeallocateDirectoryFirst(o) ==
  /\ Receive(Request("AllocateOrder", o))
  /\ uploads[o] # "allocating"
  /\ Fault
  /\ orders' = [orders EXCEPT ![o] = RunningRow]
  /\ dirs' = dirs \ {o}
  /\ UNCHANGED <<balance, server, maps, prune_senders, handlers, workers, exits>>

\* The handler is gone and the compensating DELETE fails.
FailDeallocate(o) ==
  /\ Receive(Request("AllocateOrder", o))
  /\ uploads[o] # "allocating"
  /\ Fault
  /\ orders' = [orders EXCEPT ![o] = RunningRow]
  /\ dirs' = dirs \cup {o}
  /\ UNCHANGED <<balance, server, maps, prune_senders, handlers, workers, exits>>

HandleUploadFiles(o) ==
  /\ Receive(Request("UploadFiles", o))
  /\ WorkerTo(o, "announce")
  /\ join_handles' = join_handles \cup {o}
  /\ UNCHANGED <<disk, server, running_handles, to_take, prune_senders, handlers,
                 bounds>>

\* Mutant of FailUploadFiles: the row is deleted as in a failed allocation.
FailUploadFilesDropsRow(o) ==
  /\ Receive(Request("UploadFiles", o))
  /\ Fault
  /\ orders' = [orders EXCEPT ![o] = NoRow]
  /\ UNCHANGED <<balance, dirs, server, maps, prune_senders, handlers, workers,
                 exits>>

\* UPDATE ... src_file_list fails: no worker is ever spawned.
FailUploadFiles(o) ==
  /\ Receive(Request("UploadFiles", o))
  /\ Fault
  /\ UNCHANGED <<disk, server, maps, prune_senders, handlers, workers, exits>>

HandleBeginWork(o) ==
  /\ Receive(Request("BeginWork", o))
  /\ running_handles' = running_handles \cup {o}
  /\ UNCHANGED <<disk, server, join_handles, to_take, prune_senders, handlers,
                 workers, bounds>>

HandleFinishWork(o) ==
  /\ Receive(Request("FinishWork", o))
  /\ running_handles' = running_handles \ {o}
  /\ join_handles' = join_handles \ {o}
  /\ UNCHANGED <<disk, server, to_take, prune_senders, handlers, workers, bounds>>

\* A registered handle is given out only while its termination channel is open.
IsLive(o) == o \in running_handles /\ ~TerminationClosed(o)

HandleQueryLiveStatus(o) ==
  /\ Receive(Request("QueryLiveStatus", o))
  /\ queries' = [queries EXCEPT ![o].pc = "told", ![o].live = IsLive(o)]
  /\ prune_senders' = prune_senders
       + (IF o \in running_handles /\ TerminationClosed(o) THEN 1 ELSE 0)
  /\ UNCHANGED <<disk, server, maps, uploads, workers, bounds>>

\* Mutant of FinishedJobs: the prune takes, and then awaits, every job.
AllJobs == join_handles

\* The first loop of the prune: which join handles are finished.
FinishedJobs == {o \in join_handles : IsFinished(o)}

HandlePruneDeadJobs ==
  /\ Receive(PruneDeadJobs)
  /\ to_take' = FinishedJobs
  /\ UNCHANGED <<disk, server, running_handles, join_handles, prune_senders,
                 handlers, workers, bounds>>

\* Mutant of ReapDead: a failed job is forgotten without a record.
ReapDeadUnrecorded(o) ==
  /\ server = "up"
  /\ o \in to_take
  /\ IsFinished(o)
  /\ to_take' = to_take \ {o}
  /\ join_handles' = join_handles \ {o}
  /\ running_handles' = running_handles \ {o}
  /\ UNCHANGED <<disk, server, queue, prune_senders, handlers, workers, bounds>>

\* The second loop, one id per step: forget the job, await its handle, record a
\* failure.  Nothing else reaches the manager meanwhile.
ReapDead(o) ==
  /\ server = "up"
  /\ o \in to_take
  /\ IsFinished(o)
  /\ to_take' = to_take \ {o}
  /\ join_handles' = join_handles \ {o}
  /\ running_handles' = running_handles \ {o}
  /\ orders' = IF workers[o].pc = "endedErr" THEN Recorded(o, ReapedStatus)
               ELSE orders
  /\ UNCHANGED <<balance, dirs, server, queue, prune_senders, handlers, workers,
                 bounds>>

\* Writing the record fails: the job is forgotten, the loop is left.
FailReapDead(o) ==
  /\ server = "up"
  /\ o \in to_take
  /\ workers[o].pc = "endedErr"
  /\ Fault
  /\ to_take' = {}
  /\ join_handles' = join_handles \ {o}
  /\ running_handles' = running_handles \ {o}
  /\ UNCHANGED <<disk, server, queue, prune_senders, handlers, workers, exits>>

\* The 30 second ticker, and the tasks spawned by a query on a dead job.
QueuedPrunes == Cardinality({i \in 1..Len(queue) : queue[i] = PruneDeadJobs})

PruneTick ==
  /\ QueuedPrunes < MaxQueuedPrunes
  /\ Send(PruneDeadJobs)
  /\ UNCHANGED <<disk, server, maps, prune_senders, handlers, workers, bounds>>

\* Mutant of SendSpawnedPrune: a prune is sent though no task was spawned.
SendUnspawnedPrune ==
  /\ Send(PruneDeadJobs)
  /\ prune_senders' = prune_senders - 1
  /\ UNCHANGED <<disk, server, maps, handlers, workers, bounds>>

SendSpawnedPrune ==
  /\ prune_senders > 0
  /\ Send(PruneDeadJobs)
  /\ prune_senders' = prune_senders - 1
  /\ UNCHANGED <<disk, server, maps, handlers, workers, bounds>>

-----------------------------------------------------------------------------
(* The worker task (run_order_work).                                       *)

\* Mutant of Announce: try_send, whose error on a full channel is ignored.
TryAnnounce(o) ==
  /\ workers[o].pc = "announce"
  /\ server = "up"
  /\ IF Len(queue) < ChannelCapacity
     THEN Send(Request("BeginWork", o)) ELSE UNCHANGED queue
  /\ WorkerTo(o, "lookup")
  /\ UNCHANGED <<disk, server, maps, prune_senders, handlers, bounds>>

Announce(o) ==
  /\ workers[o].pc = "announce"
  /\ Send(Request("BeginWork", o))
  /\ WorkerTo(o, "lookup")
  /\ UNCHANGED <<disk, server, maps, prune_senders, handlers, bounds>>

\* The account row is always found: accounts are never deleted, and a worker's
\* order row exists (invariant WorkerHasRow).  The balance read here is an input
\* of the execution and of the record's balance_before only.
LookupAccount(o) ==
  /\ server # "down"
  /\ workers[o].pc = "lookup"
  /\ WorkerTo(o, "execute")
  /\ UNCHANGED <<disk, server, queue, maps, prune_senders, handlers, bounds>>

\* fork_and_make returns ProcessExit with its grand total.
Execute(o) ==
  /\ server # "down"
  /\ workers[o].pc = "execute"
  /\ \E c \in Costs :
       workers' = [workers EXCEPT ![o].pc = "record", ![o].cost = c]
  /\ UNCHANGED <<disk, server, queue, maps, prune_senders, handlers, bounds>>

\* Mutant of CommitRecord: the order is recorded and not charged.
CommitRecordUncharged(o) ==
  /\ server # "down"
  /\ workers[o].pc = "record"
  /\ orders' = Recorded(o, ExitStatus(workers[o].cost))
  /\ WorkerTo(o, "finish")
  /\ UNCHANGED <<balance, dirs, server, queue, maps, prune_senders, handlers,
                 bounds>>

\* The transaction: the record and the charge, both or neither.
CommitRecord(o) ==
  /\ server # "down"
  /\ workers[o].pc = "record"
  /\ orders' = Recorded(o, ExitStatus(workers[o].cost))
  /\ balance' = [balance EXCEPT ![Owner[o]] = @ - workers[o].cost]
  /\ WorkerTo(o, "finish")
  /\ UNCHANGED <<dirs, server, queue, maps, prune_senders, handlers, bounds>>

AnnounceFinished(o) ==
  /\ workers[o].pc = "finish"
  /\ Send(Request("FinishWork", o))
  /\ WorkerTo(o, "leavingOk")
  /\ UNCHANGED <<disk, server, maps, prune_senders, handlers, bounds>>

\* Mutant of FailWorker: without the transaction, the record stays when the
\* charge fails.
FailWorkerHalfway(o) ==
  /\ server # "down"
  /\ workers[o].pc \in {"lookup", "execute", "record"}
  /\ Fault
  /\ WorkerTo(o, "leavingErr")
  /\ orders' = IF workers[o].pc = "record"
               THEN Recorded(o, ExitStatus(workers[o].cost)) ELSE orders
  /\ UNCHANGED <<balance, dirs, server, queue, maps, prune_senders, handlers,
                 exits>>

\* The SELECT, the fork or the transaction fails: the task returns Err.
FailWorker(o) ==
  /\ server # "down"
  /\ workers[o].pc \in {"lookup", "execute", "record"}
  /\ Fault
  /\ WorkerTo(o, "leavingErr")
  /\ UNCHANGED <<disk, server, queue, maps, prune_senders, handlers, exits>>

\* The channel is closed: BeginWork returns Err, FinishWork panics.
SendToClosedManager(o) ==
  /\ server = "stopping"
  /\ workers[o].pc \in {"announce", "finish"}
  /\ WorkerTo(o, "leavingErr")
  /\ UNCHANGED <<disk, server, queue, maps, prune_senders, handlers, bounds>>

EndTask(o) ==
  /\ server # "down"
  /\ \/ workers[o].pc = "leavingOk"  /\ WorkerTo(o, "endedOk")
     \/ workers[o].pc = "leavingErr" /\ WorkerTo(o, "endedErr")
  /\ UNCHANGED <<disk, server, queue, maps, prune_senders, handlers, bounds>>

-----------------------------------------------------------------------------
(* The status handler (get_order_status).                                  *)

\* The row is read first, before the manager is asked.
ReadRow(o) ==
  /\ server = "up"
  /\ queries[o].pc = "idle"
  /\ queries[o].reply = "none"
  /\ prune_senders < MaxSpawnedPrunes
  /\ uploads[o] = "answered"
  /\ orders[o].present
  /\ queries' = [queries EXCEPT ![o].pc = "read", ![o].status = orders[o].status]
  /\ UNCHANGED <<disk, server, queue, maps, prune_senders, uploads, workers,
                 bounds>>

\* Some id that no row has.
ReadNoRow(o) ==
  /\ server = "up"
  /\ queries[o].pc = "idle"
  /\ queries[o].reply = "none"
  /\ ~orders[o].present
  /\ queries' = [queries EXCEPT ![o].reply = "notAccessible"]
  /\ UNCHANGED <<disk, server, queue, maps, prune_senders, uploads, workers,
                 bounds>>

AskManager(o) ==
  /\ queries[o].pc = "read"
  /\ Send(Request("QueryLiveStatus", o))
  /\ queries' = [queries EXCEPT ![o].pc = "waiting"]
  /\ UNCHANGED <<disk, server, maps, prune_senders, uploads, workers, bounds>>

ReplyTo(q) ==
  IF q.live THEN "running" ELSE IF q.status # NullStatus THEN "completed"
  ELSE "error"

AnswerQuery(o) ==
  /\ server # "down"
  /\ queries[o].pc = "told"
  /\ queries' = [queries EXCEPT ![o] = [NoQuery EXCEPT !.reply = ReplyTo(queries[o])]]
  /\ UNCHANGED <<disk, server, queue, maps, prune_senders, uploads, workers,
                 bounds>>

\* The page is opened again.
Revisit(o) ==
  /\ queries[o].pc = "idle"
  /\ queries[o].reply # "none"
  /\ queries' = [queries EXCEPT ![o] = NoQuery]
  /\ UNCHANGED <<disk, server, queue, maps, prune_senders, uploads, workers,
                 bounds>>

-----------------------------------------------------------------------------
(* The process: ctrl-c, its end (from either state), and the next start.   *)

\* The manager task panics at the top of its loop: the channel closes, and
\* with it the reply channels of the requests that were queued.
StopManager ==
  /\ server = "up"
  /\ to_take = {}
  /\ exits < MaxExits
  /\ server' = "stopping"
  /\ queue' = <<>>
  /\ running_handles' = {} /\ join_handles' = {}
  /\ prune_senders' = 0
  /\ uploads' = [o \in Orders |->
       IF uploads[o] = "allocating" THEN "gone" ELSE uploads[o]]
  /\ queries' = [o \in Orders |->
       IF queries[o].pc \in {"read", "waiting"} THEN NoQuery ELSE queries[o]]
  /\ UNCHANGED <<disk, to_take, workers, bounds>>

Exit ==
  /\ server # "down"
  /\ exits < MaxExits
  /\ exits' = exits + 1
  /\ server' = "down"
  /\ queue' = <<>>
  /\ running_handles' = {} /\ join_handles' = {} /\ to_take' = {}
  /\ prune_senders' = 0
  /\ uploads' = [o \in Orders |->
       IF uploads[o] \in {"idle", "answered"} THEN uploads[o] ELSE "gone"]
  /\ workers' = [o \in Orders |-> NoWorker]
  /\ queries' = [o \in Orders |-> NoQuery]
  /\ UNCHANGED <<disk, faults>>

\* Mutant of Boot: the sweep lacks WHERE is_running=1.
BootSweepsAll ==
  /\ server = "down"
  /\ server' = "up"
  /\ orders' = [o \in Orders |-> Recorded(o, SweptStatus)[o]]
  /\ UNCHANGED <<balance, dirs, queue, maps, prune_senders, handlers, workers,
                 bounds>>

\* Start-up settles every order that was left running.
Boot ==
  /\ server = "down"
  /\ server' = "up"
  /\ orders' = [o \in Orders |->
       IF orders[o].is_running
       THEN [orders[o] EXCEPT !.is_running = FALSE, !.status = SweptStatus]
       ELSE orders[o]]
  /\ UNCHANGED <<balance, dirs, queue, maps, prune_senders, handlers, workers,
                 bounds>>

-----------------------------------------------------------------------------
UploadNext(o) ==
  StartUpload(o) \/ CopyFiles(o) \/ SubmitUpload(o) \/ AbandonUpload(o)

ManagerNext(o) ==
  \/ HandleAllocateOrder(o) \/ FailAllocateOrder(o) \/ FailDeallocate(o)
  \/ HandleUploadFiles(o) \/ FailUploadFiles(o)
  \/ HandleBeginWork(o) \/ HandleFinishWork(o) \/ HandleQueryLiveStatus(o)
  \/ ReapDead(o) \/ FailReapDead(o)

WorkerNext(o) ==
  \/ Announce(o) \/ LookupAccount(o) \/ Execute(o) \/ CommitRecord(o)
  \/ AnnounceFinished(o) \/ FailWorker(o) \/ SendToClosedManager(o) \/ EndTask(o)

QueryNext(o) ==
  ReadRow(o) \/ ReadNoRow(o) \/ AskManager(o) \/ AnswerQuery(o) \/ Revisit(o)

Next ==
  \/ \E o \in Orders : UploadNext(o) \/ ManagerNext(o) \/ WorkerNext(o)
  \/ \E o \in QueriedOrders : QueryNext(o)
  \/ HandlePruneDeadJobs \/ PruneTick \/ SendSpawnedPrune
  \/ StopManager \/ Exit \/ Boot

Spec == Init /\ [][Next]_vars

-----------------------------------------------------------------------------
(* Fairness.  tokio polls every ready task; the mpsc semaphore is a FIFO,  *)
(* so a task that waits for room gets it (strong fairness of the sends);   *)
(* a job ends (JobExecution); once ctrl-c came the process does exit; the  *)
(* Deployment of deploy.yaml starts it again.  The ticker sends again and  *)
(* again for as long as the manager runs (manager.rs:92).  Nothing obliges *)
(* clients, faults or crashes to act.                                      *)
ManagerStep ==
  HandlePruneDeadJobs \/ (\E o \in Orders : ManagerNext(o))

Fairness ==
  /\ WF_vars(ManagerStep)
  /\ SF_vars(PruneTick)
  /\ WF_vars(Boot)
  /\ WF_vars(server = "stopping" /\ Exit)
  /\ \A o \in Orders :
       /\ SF_vars(Announce(o))
       /\ SF_vars(AnnounceFinished(o))
       /\ WF_vars(LookupAccount(o))
       /\ WF_vars(Execute(o))
       /\ WF_vars(CommitRecord(o))
       /\ WF_vars(EndTask(o))

FairSpec == Spec /\ Fairness

-----------------------------------------------------------------------------
(* Safety.                                                                 *)

\* migrations/..._orders.sql says of status_json "null if running".  A present
\* row has a record exactly when it is not running, whoever settled it: the
\* worker's transaction, the prune, or the sweep at start-up.
StatusNullIffRunning ==
  \A o \in Orders : orders[o].present =>
    (orders[o].is_running <=> orders[o].status = NullStatus)

Charged == [o \in Orders |-> orders[o].status.cost]
OrdersOf(u) == {o \in Orders : Owner[o] = u}

\* Every unit taken from a balance is stated by the record of one of the
\* user's orders and the other way round: no order is charged twice, charged
\* without a record, or recorded without a charge (worker.rs:109-140 against
\* the prune and the sweep, which overwrite status_json without looking).
LedgerBalanced ==
  \A u \in Users :
    balance[u] = InitialBalance - SumFunctionOnSet(Charged, OrdersOf(u))

\* Once an order has a record, no later prune, retry, or restart changes it.
RecordIsFinal ==
  [][\A o \in Orders : orders[o].status # NullStatus =>
       orders'[o].status = orders[o].status]_orders

\* While the manager is up, an order that was handed to a worker and still
\* counts as running has a join handle: some prune will see how it ends.
\* It holds against one fault; a job's failure and the failure to record it
\* (manager.rs:188-199) are two, and lose the order until the next start.
EveryJobSupervised ==
  server = "up" /\ faults < 2 =>
    \A o \in Orders :
      workers[o].pc # "none" /\ orders[o].is_running => o \in join_handles

\* The row a worker works on exists, so does the row of every id a client was
\* given: the compensating DELETE (manager.rs:133-140) never meets either, and
\* the branch of run_order_work for a missing account is never taken.
WorkerHasRow ==
  \A o \in Orders :
    workers[o].pc # "none" \/ uploads[o] \in {"copying", "submitting", "answered"}
      => orders[o].present

\* A row's directory exists, so a worker's child finds it (worker.rs:160): the
\* directory is made before the row and removed after it, also when the second
\* step of either fails.
RowHasDirectory == \A o \in Orders : orders[o].present => o \in dirs

AtWork(o) == workers[o].pc \in {"lookup", "execute", "record", "finish"}
NotAnnounced(o) ==
  \/ workers[o].pc \in {"none", "announce"}
  \/ Request("BeginWork", o) \in Range(queue)
HasFailed(o) == workers[o].pc \in {"leavingErr", "endedErr"}

\* Whether q, a request the manager has just answered, leads to a true reply.
IsTrueOf(q, o) ==
  CASE ReplyTo(q) = "running"   -> AtWork(o)
    [] ReplyTo(q) = "completed" -> ~AtWork(o)
    [] ReplyTo(q) = "error"     ->
         NotAnnounced(o) \/ HasFailed(o) \/ orders[o].status # NullStatus

\* What get_order_status makes of a row it read earlier and of the manager's
\* answer is true when the manager answers.  It calls an order running only
\* while its worker is at work, and completed only when no worker is.  It fails
\* (upload.rs:125) in three cases only: the worker has not been heard of yet,
\* the record was written after the row was read, or the worker failed.
AnswerIsTrue ==
  [][\A o \in QueriedOrders :
       queries[o].pc = "waiting" /\ queries'[o].pc = "told"
         => IsTrueOf(queries'[o], o)]_queries

-----------------------------------------------------------------------------
(* Liveness.                                                               *)

\* The UPDATE of src_file_list failed: nobody will work on the order.
NeverSpawned(o) ==
  /\ server = "up"
  /\ workers[o].pc = "none"
  /\ Request("UploadFiles", o) \notin Range(queue)

\* Every order whose id a client was given gets its record, by its worker, by
\* the prune that finds its worker failed, or by the sweep of the next start: no
\* wait between the manager, its bounded channel, and the workers, handlers and
\* tasks that send to it is for ever.  Excepted are an order without a worker
\* (manager.rs:145) and a second fault, as in EveryJobSupervised.
AnsweredOrderSettles ==
  \A o \in Orders :
    uploads[o] = "answered" ~>
      \/ orders[o].present /\ ~orders[o].is_running
      \/ NeverSpawned(o)
      \/ faults > 1

-----------------------------------------------------------------------------
(* The abstract specification this one implements.                         *)
Phase(o) ==
  IF ~orders[o].present THEN "none"
  ELSE IF orders[o].is_running THEN "running" ELSE "settled"

Ledger == INSTANCE OrderLedger WITH
            phase <- [o \in Orders |-> Phase(o)],
            paid  <- Charged

\* Faults, exits and interleavings of manager, workers and handlers never show
\* a client or an owner anything but the promise of OrderLedger.
ImplementsLedger == Ledger!Spec
=============================================================================
