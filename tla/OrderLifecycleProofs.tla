------------------------ MODULE OrderLifecycleProofs ------------------------
(***************************************************************************)
(* Theorems about OrderLifecycle, for every set of orders and users, every *)
(* channel capacity and every number of faults and exits.                  *)
(***************************************************************************)
EXTENDS OrderLifecycle, SumLemmas, TLAPS

Queued(m) == \E i \in 1..Len(queue) : queue[i] = m
AtMostOnce(m) ==
  \A i, j \in 1..Len(queue) : queue[i] = m /\ queue[j] = m => i = j

Allocate(o) == Request("AllocateOrder", o)
Upload(o)   == Request("UploadFiles", o)

-----------------------------------------------------------------------------
(* The inductive invariant.                                                *)

\* Each request of an upload is in the channel once, and only in the phase of
\* the upload that sent it.
RequestInv(o) ==
  /\ AtMostOnce(Allocate(o))
  /\ AtMostOnce(Upload(o))
  /\ Queued(Allocate(o)) => uploads[o] \in {"allocating", "gone"}
  /\ Queued(Upload(o)) => uploads[o] = "answered" /\ workers[o].pc = "none"

\* The row follows the upload until the worker takes over.
RowInv(o) ==
  /\ Queued(Allocate(o)) => ~orders[o].present
  /\ Queued(Upload(o)) => orders[o].is_running
  /\ uploads[o] \in {"idle", "allocating"} => ~orders[o].present
  /\ uploads[o] \in {"copying", "submitting"} => orders[o].is_running
  /\ uploads[o] = "answered" => orders[o].present
  /\ orders[o].is_running => orders[o].present
  /\ ~orders[o].present => orders[o].status = NullStatus
  /\ orders[o].present =>
       (orders[o].is_running <=> orders[o].status = NullStatus)
  /\ orders[o].present => o \in dirs

\* A worker belongs to an answered upload; until it has committed, and while
\* the manager can still reap it as failed, its order has no record.
WorkerInv(o) ==
  /\ workers[o].pc # "none" => uploads[o] = "answered"
  /\ workers[o].pc \in {"announce", "lookup", "execute", "record"}
       => orders[o].is_running
  /\ server = "up" /\ workers[o].pc \in {"leavingErr", "endedErr"}
         /\ o \in join_handles
       => orders[o].is_running
  /\ workers[o].pc = "record" => workers[o].cost \in Costs

\* Nothing of the process survives it.
DownInv ==
  server = "down" =>
    /\ queue = <<>>
    /\ \A o \in Orders : /\ workers[o].pc = "none"
                         /\ uploads[o] \in {"idle", "answered", "gone"}

IndInv ==
  /\ TypeOK
  /\ to_take \subseteq join_handles
  /\ DownInv
  /\ \A o \in Orders : RequestInv(o) /\ RowInv(o) /\ WorkerInv(o)

-----------------------------------------------------------------------------
(* The channel.                                                            *)

\* A send adds its message and nothing else.
LEMMA SendFacts ==
  ASSUME queue \in Seq(ManagerRequest), NEW m \in ManagerRequest, Send(m)
  PROVE  /\ queue' \in Seq(ManagerRequest)
         /\ \A n : Queued(n)' <=> Queued(n) \/ n = m
         /\ \A n : n # m /\ AtMostOnce(n) => AtMostOnce(n)'
         /\ ~Queued(m) => AtMostOnce(m)'
<1>1. /\ queue' = Append(queue, m)
      /\ queue' \in Seq(ManagerRequest)
      /\ Len(queue) \in Nat
      /\ Len(queue') = Len(queue) + 1
      /\ queue'[Len(queue) + 1] = m
      /\ \A i \in 1..Len(queue) : queue'[i] = queue[i]
  BY DEF Send
<1>2. \A n : Queued(n)' <=> Queued(n) \/ n = m
  BY <1>1 DEF Queued
<1>3. \A n : n # m /\ AtMostOnce(n) => AtMostOnce(n)'
  BY <1>1 DEF AtMostOnce
<1>4. ~Queued(m) => AtMostOnce(m)'
  BY <1>1 DEF AtMostOnce, Queued
<1> QED  BY <1>1, <1>2, <1>3, <1>4

\* A receive takes the head, and the last copy of what is in the channel once.
LEMMA ReceiveFacts ==
  ASSUME queue \in Seq(ManagerRequest), NEW m, Receive(m)
  PROVE  /\ queue' \in Seq(ManagerRequest)
         /\ Queued(m)
         /\ \A n : Queued(n)' => Queued(n)
         /\ \A n : AtMostOnce(n) => AtMostOnce(n)'
         /\ AtMostOnce(m) => ~Queued(m)'
<1>1. /\ queue # <<>>
      /\ queue' = Tail(queue)
      /\ queue' \in Seq(ManagerRequest)
      /\ Len(queue) \in Nat \ {0}
      /\ Len(queue') = Len(queue) - 1
      /\ queue[1] = m
      /\ \A i \in 1..Len(queue') : queue'[i] = queue[i + 1]
  BY DEF Receive
<1>2. Queued(m)
  BY <1>1 DEF Queued
<1>3. \A n : Queued(n)' => Queued(n)
  BY <1>1 DEF Queued
<1>4. \A n : AtMostOnce(n) => AtMostOnce(n)'
  BY <1>1 DEF AtMostOnce
<1>5. AtMostOnce(m) => ~Queued(m)'
  BY <1>1 DEF AtMostOnce, Queued
<1> QED  BY <1>1, <1>2, <1>3, <1>4, <1>5

-----------------------------------------------------------------------------
(* Type correctness.                                                       *)

LEMMA StatusTypes ==
  /\ NullStatus \in Status /\ ReapedStatus \in Status /\ SweptStatus \in Status
  /\ \A c \in Nat : ExitStatus(c) \in Status
  /\ NoRow \in Row /\ RunningRow \in Row
  /\ NoWorker \in Worker /\ NoQuery \in Query
BY DEF NullStatus, ReapedStatus, SweptStatus, ExitStatus, Status, NoRow,
       RunningRow, Row, NoWorker, Worker, WorkerPc, NoQuery, Query

LEMMA RequestTypes ==
  /\ PruneDeadJobs \in ManagerRequest
  /\ \A t \in {"AllocateOrder", "UploadFiles", "BeginWork", "FinishWork",
               "QueryLiveStatus"} :
       \A o \in Orders : Request(t, o) \in ManagerRequest
BY DEF ManagerRequest, PruneDeadJobs, Request

LEMMA UploadTypes ==
  ASSUME TypeOK, NEW o \in Orders, UploadNext(o)
  PROVE  TypeOK'
<1>1. CASE StartUpload(o)
  <2>1. queue' \in Seq(ManagerRequest)
    BY <1>1, SendFacts, RequestTypes DEF StartUpload, TypeOK
  <2> QED
    BY <1>1, <2>1 DEF StartUpload, Send, TypeOK, UploadTo, UploadPc, disk, maps, bounds
<1>2. CASE CopyFiles(o)
  BY <1>2 DEF CopyFiles, TypeOK, UploadTo, UploadPc, disk, maps, bounds
<1>3. CASE SubmitUpload(o)
  <2>1. queue' \in Seq(ManagerRequest)
    BY <1>3, SendFacts, RequestTypes DEF SubmitUpload, TypeOK
  <2> QED
    BY <1>3, <2>1 DEF SubmitUpload, Send, TypeOK, UploadTo, UploadPc, disk, maps, bounds
<1>4. CASE AbandonUpload(o)
  BY <1>4 DEF AbandonUpload, TypeOK, UploadTo, UploadPc, disk, maps, bounds
<1> QED  BY <1>1, <1>2, <1>3, <1>4 DEF UploadNext

LEMMA RecordedType ==
  ASSUME orders \in [Orders -> Row], NEW o \in Orders, NEW s \in Status
  PROVE  Recorded(o, s) \in [Orders -> Row]
BY DEF Recorded, Row

LEMMA ManagerTypes ==
  ASSUME TypeOK, NEW o \in Orders, ManagerNext(o)
  PROVE  TypeOK'
<1> USE StatusTypes DEF TypeOK, disk, maps, bounds, handlers
<1>1. CASE HandleAllocateOrder(o)
  <2>1. queue' \in Seq(ManagerRequest)
    BY <1>1, ReceiveFacts DEF HandleAllocateOrder
  <2>2. orders' \in [Orders -> Row]
    BY <1>1 DEF HandleAllocateOrder
  <2> QED
    BY <1>1, <2>1, <2>2 DEF HandleAllocateOrder, UploadTo, UploadPc
<1>2. CASE FailAllocateOrder(o)
  <2>1. queue' \in Seq(ManagerRequest)
    BY <1>2, ReceiveFacts DEF FailAllocateOrder
  <2> QED
    BY <1>2, <2>1 DEF FailAllocateOrder, UploadTo, UploadPc, Fault
<1>3. CASE FailDeallocate(o)
  <2>1. queue' \in Seq(ManagerRequest)
    BY <1>3, ReceiveFacts DEF FailDeallocate
  <2> QED
    BY <1>3, <2>1 DEF FailDeallocate, Fault
<1>4. CASE HandleUploadFiles(o)
  <2>1. queue' \in Seq(ManagerRequest)
    BY <1>4, ReceiveFacts DEF HandleUploadFiles
  <2>2. workers' \in [Orders -> Worker]
    BY <1>4 DEF HandleUploadFiles, WorkerTo, Worker, WorkerPc
  <2> QED
    BY <1>4, <2>1, <2>2 DEF HandleUploadFiles
<1>5. CASE FailUploadFiles(o)
  <2>1. queue' \in Seq(ManagerRequest)
    BY <1>5, ReceiveFacts DEF FailUploadFiles
  <2> QED
    BY <1>5, <2>1 DEF FailUploadFiles, Fault
<1>6. CASE HandleBeginWork(o)
  <2>1. queue' \in Seq(ManagerRequest)
    BY <1>6, ReceiveFacts DEF HandleBeginWork
  <2> QED
    BY <1>6, <2>1 DEF HandleBeginWork
<1>7. CASE HandleFinishWork(o)
  <2>1. queue' \in Seq(ManagerRequest)
    BY <1>7, ReceiveFacts DEF HandleFinishWork
  <2> QED
    BY <1>7, <2>1 DEF HandleFinishWork
<1>8. CASE HandleQueryLiveStatus(o)
  <2>1. queue' \in Seq(ManagerRequest)
    BY <1>8, ReceiveFacts DEF HandleQueryLiveStatus
  <2>2. IsLive(o) \in BOOLEAN
    BY DEF IsLive, TerminationClosed
  <2>3. queries' \in [Orders -> Query]
    BY <1>8, <2>2 DEF HandleQueryLiveStatus, Query
  <2> QED
    BY <1>8, <2>1, <2>3 DEF HandleQueryLiveStatus
<1>9. CASE ReapDead(o)
  <2>1. orders' \in [Orders -> Row]
    BY <1>9, RecordedType DEF ReapDead
  <2> QED
    BY <1>9, <2>1 DEF ReapDead
<1>10. CASE FailReapDead(o)
  BY <1>10 DEF FailReapDead, Fault
<1> QED
  BY <1>1, <1>2, <1>3, <1>4, <1>5, <1>6, <1>7, <1>8, <1>9, <1>10
  DEF ManagerNext

LEMMA WorkerToType ==
  ASSUME workers \in [Orders -> Worker], NEW o \in Orders, NEW pc \in WorkerPc,
         WorkerTo(o, pc)
  PROVE  workers' \in [Orders -> Worker]
BY DEF WorkerTo, Worker

LEMMA WorkerTypes ==
  ASSUME TypeOK, NEW o \in Orders, WorkerNext(o)
  PROVE  TypeOK'
<1> USE DEF TypeOK, disk, maps, bounds, handlers
<1>1. CASE Announce(o)
  <2>1. queue' \in Seq(ManagerRequest)
    BY <1>1, SendFacts, RequestTypes DEF Announce
  <2>2. workers' \in [Orders -> Worker]
    BY <1>1, WorkerToType DEF Announce, WorkerPc
  <2> QED
    BY <1>1, <2>1, <2>2 DEF Announce, Send
<1>2. CASE LookupAccount(o)
  <2>1. workers' \in [Orders -> Worker]
    BY <1>2, WorkerToType DEF LookupAccount, WorkerPc
  <2> QED
    BY <1>2, <2>1 DEF LookupAccount
<1>3. CASE Execute(o)
  <2>1. PICK c \in Costs :
          workers' = [workers EXCEPT ![o].pc = "record", ![o].cost = c]
    BY <1>3 DEF Execute
  <2>2. c \in Nat /\ "record" \in WorkerPc
    BY CostsAssumption DEF WorkerPc
  <2>4. workers' = [x \in Orders |->
                      IF x = o THEN [workers[o] EXCEPT !.pc = "record", !.cost = c]
                      ELSE workers[x]]
    BY <2>1
  <2>5. workers[o] \in Worker
    OBVIOUS
  <2>6. [workers[o] EXCEPT !.pc = "record", !.cost = c] \in Worker
    BY <2>2, <2>5 DEF Worker
  <2>7. workers' \in [Orders -> Worker]
    BY <2>4, <2>6
  <2> QED
    BY <1>3, <2>7 DEF Execute
<1>4. CASE CommitRecord(o)
  <2>1. ExitStatus(workers[o].cost) \in Status
    BY StatusTypes DEF Worker
  <2>2. orders' \in [Orders -> Row]
    BY <1>4, <2>1, RecordedType DEF CommitRecord
  <2>3. workers' \in [Orders -> Worker]
    BY <1>4, WorkerToType DEF CommitRecord, WorkerPc
  <2>4. workers[o].cost \in Int
    BY DEF Worker
  <2>5. balance' \in [Users -> Int]
    BY <1>4, <2>4, OwnerAssumption DEF CommitRecord
  <2> QED
    BY <1>4, <2>2, <2>3, <2>5 DEF CommitRecord
<1>5. CASE AnnounceFinished(o)
  <2>1. queue' \in Seq(ManagerRequest)
    BY <1>5, SendFacts, RequestTypes DEF AnnounceFinished
  <2>2. workers' \in [Orders -> Worker]
    BY <1>5, WorkerToType DEF AnnounceFinished, WorkerPc
  <2> QED
    BY <1>5, <2>1, <2>2 DEF AnnounceFinished, Send
<1>6. CASE FailWorker(o)
  <2>1. workers' \in [Orders -> Worker]
    BY <1>6, WorkerToType DEF FailWorker, WorkerPc
  <2> QED
    BY <1>6, <2>1 DEF FailWorker, Fault
<1>7. CASE SendToClosedManager(o)
  <2>1. workers' \in [Orders -> Worker]
    BY <1>7, WorkerToType DEF SendToClosedManager, WorkerPc
  <2> QED
    BY <1>7, <2>1 DEF SendToClosedManager
<1>8. CASE EndTask(o)
  <2>1. workers' \in [Orders -> Worker]
    BY <1>8, WorkerToType DEF EndTask, WorkerPc
  <2> QED
    BY <1>8, <2>1 DEF EndTask
<1> QED
  BY <1>1, <1>2, <1>3, <1>4, <1>5, <1>6, <1>7, <1>8 DEF WorkerNext

LEMMA QueryTypes ==
  ASSUME TypeOK, NEW o \in QueriedOrders, QueryNext(o)
  PROVE  TypeOK'
<1> USE QueriedAssumption, StatusTypes DEF TypeOK, disk, maps, bounds
<1>0. orders[o].status \in Status
  BY DEF Row
<1>1. CASE ReadRow(o)
  BY <1>0, <1>1 DEF ReadRow, Query
<1>2. CASE ReadNoRow(o)
  BY <1>2 DEF ReadNoRow, Query
<1>3. CASE AskManager(o)
  <2>1. queue' \in Seq(ManagerRequest)
    BY <1>3, SendFacts, RequestTypes DEF AskManager
  <2>2. queries' \in [Orders -> Query]
    BY <1>3 DEF AskManager, Query
  <2> QED
    BY <1>3, <2>1, <2>2 DEF AskManager, Send
<1>4. CASE AnswerQuery(o)
  BY <1>4 DEF AnswerQuery, ReplyTo, Query
<1>5. CASE Revisit(o)
  BY <1>5 DEF Revisit
<1> QED
  BY <1>1, <1>2, <1>3, <1>4, <1>5 DEF QueryNext

LEMMA ProcessTypes ==
  ASSUME TypeOK,
         HandlePruneDeadJobs \/ PruneTick \/ SendSpawnedPrune \/ StopManager
           \/ Exit \/ Boot
  PROVE  TypeOK'
<1> USE StatusTypes DEF TypeOK, disk, maps, bounds, handlers
<1>1. CASE HandlePruneDeadJobs
  <2>1. queue' \in Seq(ManagerRequest)
    BY <1>1, ReceiveFacts DEF HandlePruneDeadJobs
  <2> QED
    BY <1>1, <2>1 DEF HandlePruneDeadJobs, FinishedJobs
<1>2. CASE PruneTick
  <2>1. queue' \in Seq(ManagerRequest)
    BY <1>2, SendFacts, RequestTypes DEF PruneTick
  <2> QED
    BY <1>2, <2>1 DEF PruneTick, Send
<1>3. CASE SendSpawnedPrune
  <2>1. queue' \in Seq(ManagerRequest)
    BY <1>3, SendFacts, RequestTypes DEF SendSpawnedPrune
  <2> QED
    BY <1>3, <2>1 DEF SendSpawnedPrune, Send
<1>4. CASE StopManager
  <2>1. uploads' \in [Orders -> UploadPc]
    BY <1>4 DEF StopManager, UploadPc
  <2>2. queries' \in [Orders -> Query]
    BY <1>4 DEF StopManager
  <2> QED
    BY <1>4, <2>1, <2>2 DEF StopManager
<1>5. CASE Exit
  <2>1. uploads' \in [Orders -> UploadPc]
    BY <1>5 DEF Exit, UploadPc
  <2> QED
    BY <1>5, <2>1 DEF Exit
<1>6. CASE Boot
  <2>1. orders' \in [Orders -> Row]
    BY <1>6 DEF Boot, Row
  <2> QED
    BY <1>6, <2>1 DEF Boot
<1> QED
  BY <1>1, <1>2, <1>3, <1>4, <1>5, <1>6

LEMMA TypeStep ==
  ASSUME TypeOK, [Next]_vars
  PROVE  TypeOK'
<1>1. CASE UNCHANGED vars
  BY <1>1 DEF vars, TypeOK
<1>2. CASE Next
  BY <1>2, UploadTypes, ManagerTypes, WorkerTypes, QueryTypes, ProcessTypes
  DEF Next
<1> QED  BY <1>1, <1>2

LEMMA TypeInit == ASSUME Init PROVE TypeOK
BY BalanceAssumption, StatusTypes DEF Init, TypeOK, UploadPc

\* Every variable keeps its type, for every value of the constants.
THEOREM TypeCorrect == Spec => []TypeOK
<1>1. Init => TypeOK
  BY TypeInit
<1>2. TypeOK /\ [Next]_vars => TypeOK'
  BY TypeStep
<1> QED  BY <1>1, <1>2, PTL DEF Spec

-----------------------------------------------------------------------------
(* The inductive invariant is kept, one lemma per actor.                   *)

LEMMA RequestsDiffer ==
  ASSUME NEW o, NEW x
  PROVE  /\ Allocate(o) = Allocate(x) => o = x
         /\ Upload(o) = Upload(x) => o = x
         /\ Allocate(o) # Upload(x)
         /\ \A t \in {"BeginWork", "FinishWork", "QueryLiveStatus"} :
              Request(t, o) # Allocate(x) /\ Request(t, o) # Upload(x)
         /\ PruneDeadJobs # Allocate(x) /\ PruneDeadJobs # Upload(x)
BY DEF Allocate, Upload, Request, PruneDeadJobs

LEMMA UploadStep ==
  ASSUME IndInv, NEW o \in Orders, UploadNext(o), NEW x \in Orders
  PROVE  RequestInv(x)' /\ RowInv(x)' /\ WorkerInv(x)'
<1> USE DEF IndInv, RequestInv, RowInv, WorkerInv, disk, maps, bounds
<1>0. RequestInv(x) /\ RowInv(x) /\ WorkerInv(x) /\ RequestInv(o) /\ RowInv(o)
        /\ queue \in Seq(ManagerRequest)
  BY DEF TypeOK
<1>1. CASE StartUpload(o)
  <2>1. /\ \A n : Queued(n)' <=> Queued(n) \/ n = Allocate(o)
        /\ \A n : n # Allocate(o) /\ AtMostOnce(n) => AtMostOnce(n)'
        /\ ~Queued(Allocate(o)) => AtMostOnce(Allocate(o))'
    BY <1>0, <1>1, SendFacts, RequestTypes DEF StartUpload, Allocate
  <2> QED
    BY <1>0, <1>1, <2>1, RequestsDiffer DEF StartUpload, UploadTo, TypeOK
<1>2. CASE CopyFiles(o)
  BY <1>0, <1>2 DEF CopyFiles, UploadTo, TypeOK, Queued, AtMostOnce
<1>3. CASE SubmitUpload(o)
  <2>1. /\ \A n : Queued(n)' <=> Queued(n) \/ n = Upload(o)
        /\ \A n : n # Upload(o) /\ AtMostOnce(n) => AtMostOnce(n)'
        /\ ~Queued(Upload(o)) => AtMostOnce(Upload(o))'
    BY <1>0, <1>3, SendFacts, RequestTypes DEF SubmitUpload, Upload
  <2>2. WorkerInv(o)
    OBVIOUS
  <2> QED
    BY <1>0, <1>3, <2>1, <2>2, RequestsDiffer DEF SubmitUpload, UploadTo, TypeOK
<1>4. CASE AbandonUpload(o)
  BY <1>0, <1>4 DEF AbandonUpload, UploadTo, TypeOK, Queued, AtMostOnce
<1> QED  BY <1>1, <1>2, <1>3, <1>4 DEF UploadNext

LEMMA RecordedFacts ==
  ASSUME orders \in [Orders -> Row], NEW o \in Orders, NEW s \in Status,
         orders[o].present, NEW x \in Orders
  PROVE  /\ Recorded(o, s)[x].present = orders[x].present
         /\ x # o => Recorded(o, s)[x] = orders[x]
         /\ ~Recorded(o, s)[o].is_running /\ Recorded(o, s)[o].status = s
BY DEF Recorded, Row

LEMMA ManagerStepKeeps ==
  ASSUME IndInv, NEW o \in Orders, ManagerNext(o), NEW x \in Orders
  PROVE  RequestInv(x)' /\ RowInv(x)' /\ WorkerInv(x)'
<1> USE DEF IndInv, RequestInv, RowInv, WorkerInv, disk, maps, bounds, handlers
<1>0. /\ RequestInv(x) /\ RowInv(x) /\ WorkerInv(x)
      /\ RequestInv(o) /\ RowInv(o) /\ WorkerInv(o)
      /\ queue \in Seq(ManagerRequest)
  BY DEF TypeOK
<1>1. CASE HandleAllocateOrder(o)
  <2>1. /\ Queued(Allocate(o)) /\ ~Queued(Allocate(o))'
        /\ \A n : Queued(n)' => Queued(n)
        /\ \A n : AtMostOnce(n) => AtMostOnce(n)'
    BY <1>0, <1>1, ReceiveFacts DEF HandleAllocateOrder, Allocate
  <2> QED
    BY <1>0, <1>1, <2>1, RequestsDiffer
    DEF HandleAllocateOrder, UploadTo, TypeOK, RunningRow, NoRow
<1>2. CASE FailAllocateOrder(o)
  <2>1. /\ Queued(Allocate(o)) /\ ~Queued(Allocate(o))'
        /\ \A n : Queued(n)' => Queued(n)
        /\ \A n : AtMostOnce(n) => AtMostOnce(n)'
    BY <1>0, <1>2, ReceiveFacts DEF FailAllocateOrder, Allocate
  <2> QED
    BY <1>0, <1>2, <2>1, RequestsDiffer DEF FailAllocateOrder, UploadTo, TypeOK
<1>3. CASE FailDeallocate(o)
  <2>1. /\ Queued(Allocate(o)) /\ ~Queued(Allocate(o))'
        /\ \A n : Queued(n)' => Queued(n)
        /\ \A n : AtMostOnce(n) => AtMostOnce(n)'
    BY <1>0, <1>3, ReceiveFacts DEF FailDeallocate, Allocate
  <2> QED
    BY <1>0, <1>3, <2>1, RequestsDiffer DEF FailDeallocate, TypeOK, RunningRow
<1>4. CASE HandleUploadFiles(o)
  <2>1. /\ Queued(Upload(o)) /\ ~Queued(Upload(o))'
        /\ \A n : Queued(n)' => Queued(n)
        /\ \A n : AtMostOnce(n) => AtMostOnce(n)'
    BY <1>0, <1>4, ReceiveFacts DEF HandleUploadFiles, Upload
  <2> QED
    BY <1>0, <1>4, <2>1, RequestsDiffer
    DEF HandleUploadFiles, WorkerTo, TypeOK, Worker
<1>5. CASE FailUploadFiles(o)
  <2>1. /\ \A n : Queued(n)' => Queued(n)
        /\ \A n : AtMostOnce(n) => AtMostOnce(n)'
    BY <1>0, <1>5, ReceiveFacts DEF FailUploadFiles
  <2> QED
    BY <1>0, <1>5, <2>1 DEF FailUploadFiles
<1>6. CASE HandleBeginWork(o)
  <2>1. /\ \A n : Queued(n)' => Queued(n)
        /\ \A n : AtMostOnce(n) => AtMostOnce(n)'
    BY <1>0, <1>6, ReceiveFacts DEF HandleBeginWork
  <2> QED
    BY <1>0, <1>6, <2>1 DEF HandleBeginWork
<1>7. CASE HandleFinishWork(o)
  <2>1. /\ \A n : Queued(n)' => Queued(n)
        /\ \A n : AtMostOnce(n) => AtMostOnce(n)'
    BY <1>0, <1>7, ReceiveFacts DEF HandleFinishWork
  <2> QED
    BY <1>0, <1>7, <2>1 DEF HandleFinishWork
<1>8. CASE HandleQueryLiveStatus(o)
  <2>1. /\ \A n : Queued(n)' => Queued(n)
        /\ \A n : AtMostOnce(n) => AtMostOnce(n)'
    BY <1>0, <1>8, ReceiveFacts DEF HandleQueryLiveStatus
  <2> QED
    BY <1>0, <1>8, <2>1 DEF HandleQueryLiveStatus
<1>9. CASE ReapDead(o)
  <2>1. \A n : (Queued(n)' <=> Queued(n)) /\ (AtMostOnce(n)' <=> AtMostOnce(n))
    BY <1>9 DEF ReapDead, Queued, AtMostOnce
  <2>2. CASE workers[o].pc = "endedErr"
    <3>1. orders' = Recorded(o, ReapedStatus) /\ ReapedStatus \in Status
      BY <1>9, <2>2, StatusTypes DEF ReapDead
    <3>2. orders[o].is_running /\ orders[o].present
      BY <1>0, <1>9, <2>2 DEF ReapDead
    <3>3. /\ orders'[x].present = orders[x].present
          /\ x # o => orders'[x] = orders[x]
          /\ ~orders'[o].is_running /\ orders'[o].status # NullStatus
      BY <3>1, <3>2, RecordedFacts DEF TypeOK, ReapedStatus, NullStatus
    <3>4. UNCHANGED <<uploads, workers, dirs, server>>
            /\ join_handles' = join_handles \ {o}
      BY <1>9 DEF ReapDead
    <3>5. x = o => ~Queued(Upload(x)) /\ uploads[x] = "answered"
      BY <1>0, <2>2
    <3> QED
      BY <1>0, <2>1, <2>2, <3>2, <3>3, <3>4, <3>5
  <2>3. CASE workers[o].pc # "endedErr"
    BY <1>0, <1>9, <2>1, <2>3 DEF ReapDead
  <2> QED  BY <2>2, <2>3
<1>10. CASE FailReapDead(o)
  <2>1. \A n : (Queued(n)' <=> Queued(n)) /\ (AtMostOnce(n)' <=> AtMostOnce(n))
    BY <1>10 DEF FailReapDead, Queued, AtMostOnce
  <2> QED
    BY <1>0, <1>10, <2>1 DEF FailReapDead
<1> QED
  BY <1>1, <1>2, <1>3, <1>4, <1>5, <1>6, <1>7, <1>8, <1>9, <1>10
  DEF ManagerNext

LEMMA WorkerStepKeeps ==
  ASSUME IndInv, NEW o \in Orders, WorkerNext(o), NEW x \in Orders
  PROVE  RequestInv(x)' /\ RowInv(x)' /\ WorkerInv(x)'
<1> USE DEF IndInv, RequestInv, RowInv, WorkerInv, disk, maps, bounds, handlers
<1>0. /\ RequestInv(x) /\ RowInv(x) /\ WorkerInv(x)
      /\ RequestInv(o) /\ RowInv(o) /\ WorkerInv(o)
      /\ queue \in Seq(ManagerRequest) /\ workers \in [Orders -> Worker]
  BY DEF TypeOK
<1>1. CASE Announce(o)
  <2>1. /\ \A n : Queued(n)' <=> Queued(n) \/ n = Request("BeginWork", o)
        /\ \A n : n # Request("BeginWork", o) /\ AtMostOnce(n) => AtMostOnce(n)'
    BY <1>0, <1>1, SendFacts, RequestTypes DEF Announce
  <2> QED
    BY <1>0, <1>1, <2>1, RequestsDiffer DEF Announce, WorkerTo, Worker
<1>2. CASE LookupAccount(o)
  BY <1>0, <1>2 DEF LookupAccount, WorkerTo, Worker, Queued, AtMostOnce
<1>3. CASE Execute(o)
  <2>1. PICK c \in Costs :
          workers' = [workers EXCEPT ![o].pc = "record", ![o].cost = c]
    BY <1>3 DEF Execute
  <2> QED
    BY <1>0, <1>3, <2>1 DEF Execute, Worker, Queued, AtMostOnce
<1>4. CASE CommitRecord(o)
  <2>1. \A n : (Queued(n)' <=> Queued(n)) /\ (AtMostOnce(n)' <=> AtMostOnce(n))
    BY <1>4 DEF CommitRecord, Queued, AtMostOnce
  <2>2. /\ orders' = Recorded(o, ExitStatus(workers[o].cost))
        /\ ExitStatus(workers[o].cost) \in Status
    BY <1>0, <1>4, StatusTypes DEF CommitRecord, Worker
  <2>3. orders[o].is_running /\ orders[o].present
    BY <1>0, <1>4 DEF CommitRecord
  <2>4. /\ orders'[x].present = orders[x].present
        /\ x # o => orders'[x] = orders[x]
        /\ ~orders'[o].is_running /\ orders'[o].status # NullStatus
    BY <2>2, <2>3, RecordedFacts DEF TypeOK, ExitStatus, NullStatus
  <2>5. /\ UNCHANGED <<uploads, dirs, server, join_handles>>
        /\ workers' = [workers EXCEPT ![o].pc = "finish"]
    BY <1>4 DEF CommitRecord, WorkerTo
  <2>6. x = o => ~Queued(Upload(x)) /\ uploads[x] = "answered"
    BY <1>0, <1>4 DEF CommitRecord
  <2> QED
    BY <1>0, <2>1, <2>3, <2>4, <2>5, <2>6 DEF Worker
<1>5. CASE AnnounceFinished(o)
  <2>1. /\ \A n : Queued(n)' <=> Queued(n) \/ n = Request("FinishWork", o)
        /\ \A n : n # Request("FinishWork", o) /\ AtMostOnce(n) => AtMostOnce(n)'
    BY <1>0, <1>5, SendFacts, RequestTypes DEF AnnounceFinished
  <2> QED
    BY <1>0, <1>5, <2>1, RequestsDiffer DEF AnnounceFinished, WorkerTo, Worker
<1>6. CASE FailWorker(o)
  BY <1>0, <1>6 DEF FailWorker, WorkerTo, Worker, Queued, AtMostOnce
<1>7. CASE SendToClosedManager(o)
  BY <1>0, <1>7 DEF SendToClosedManager, WorkerTo, Worker, Queued, AtMostOnce
<1>8. CASE EndTask(o)
  BY <1>0, <1>8 DEF EndTask, WorkerTo, Worker, Queued, AtMostOnce
<1> QED
  BY <1>1, <1>2, <1>3, <1>4, <1>5, <1>6, <1>7, <1>8 DEF WorkerNext

LEMMA QueryStepKeeps ==
  ASSUME IndInv, NEW o \in QueriedOrders, QueryNext(o), NEW x \in Orders
  PROVE  RequestInv(x)' /\ RowInv(x)' /\ WorkerInv(x)'
<1> USE DEF IndInv, RequestInv, RowInv, WorkerInv, disk, maps, bounds
<1>0. /\ RequestInv(x) /\ RowInv(x) /\ WorkerInv(x)
      /\ queue \in Seq(ManagerRequest) /\ o \in Orders
  BY QueriedAssumption DEF TypeOK
<1>1. CASE AskManager(o)
  <2>1. /\ \A n : Queued(n)' <=> Queued(n) \/ n = Request("QueryLiveStatus", o)
        /\ \A n : n # Request("QueryLiveStatus", o) /\ AtMostOnce(n)
             => AtMostOnce(n)'
    BY <1>0, <1>1, SendFacts, RequestTypes DEF AskManager
  <2> QED
    BY <1>0, <1>1, <2>1, RequestsDiffer DEF AskManager
<1>2. CASE ReadRow(o) \/ ReadNoRow(o) \/ AnswerQuery(o) \/ Revisit(o)
  <2>1. UNCHANGED <<orders, dirs, server, queue, join_handles, uploads, workers>>
    BY <1>2 DEF ReadRow, ReadNoRow, AnswerQuery, Revisit
  <2> QED
    BY <1>0, <2>1 DEF Queued, AtMostOnce
<1> QED  BY <1>1, <1>2 DEF QueryNext

LEMMA ProcessStepKeeps ==
  ASSUME IndInv, NEW x \in Orders,
         HandlePruneDeadJobs \/ PruneTick \/ SendSpawnedPrune \/ StopManager
           \/ Exit \/ Boot
  PROVE  RequestInv(x)' /\ RowInv(x)' /\ WorkerInv(x)'
<1> USE DEF IndInv, RequestInv, RowInv, WorkerInv, disk, maps, bounds, handlers
<1>0. /\ RequestInv(x) /\ RowInv(x) /\ WorkerInv(x)
      /\ queue \in Seq(ManagerRequest)
  BY DEF TypeOK
<1>1. CASE HandlePruneDeadJobs
  <2>1. /\ \A n : Queued(n)' => Queued(n)
        /\ \A n : AtMostOnce(n) => AtMostOnce(n)'
    BY <1>0, <1>1, ReceiveFacts DEF HandlePruneDeadJobs
  <2> QED
    BY <1>0, <1>1, <2>1 DEF HandlePruneDeadJobs
<1>2. CASE PruneTick \/ SendSpawnedPrune
  <2>1. /\ \A n : Queued(n)' <=> Queued(n) \/ n = PruneDeadJobs
        /\ \A n : n # PruneDeadJobs /\ AtMostOnce(n) => AtMostOnce(n)'
    BY <1>0, <1>2, SendFacts, RequestTypes DEF PruneTick, SendSpawnedPrune
  <2>2. UNCHANGED <<orders, dirs, server, join_handles, uploads, workers>>
    BY <1>2 DEF PruneTick, SendSpawnedPrune, Send
  <2> QED
    BY <1>0, <2>1, <2>2, RequestsDiffer
<1>3. CASE StopManager
  <2>1. \A n : ~Queued(n)' /\ AtMostOnce(n)'
    BY <1>3 DEF StopManager, Queued, AtMostOnce
  <2> QED
    BY <1>0, <1>3, <2>1 DEF StopManager, TypeOK
<1>4. CASE Exit
  <2>1. \A n : ~Queued(n)' /\ AtMostOnce(n)'
    BY <1>4 DEF Exit, Queued, AtMostOnce
  <2> QED
    BY <1>0, <1>4, <2>1 DEF Exit, TypeOK, NoWorker, UploadPc
<1>5. CASE Boot
  <2>0. queue' = <<>>
    BY <1>5 DEF Boot, DownInv
  <2>1. \A n : ~Queued(n)' /\ AtMostOnce(n)'
    BY <2>0 DEF Queued, AtMostOnce
  <2> QED
    BY <1>0, <1>5, <2>1
    DEF Boot, TypeOK, DownInv, Row, SweptStatus, NullStatus
<1> QED
  BY <1>1, <1>2, <1>3, <1>4, <1>5

LEMMA MapsStep ==
  ASSUME IndInv, [Next]_vars
  PROVE  (to_take \subseteq join_handles)' /\ DownInv'
<1> USE DEF IndInv, disk, maps, bounds, handlers
<1>1. CASE UNCHANGED vars
  BY <1>1 DEF vars, DownInv
<1>2. ASSUME NEW o \in Orders, UploadNext(o)
      PROVE  (to_take \subseteq join_handles)' /\ DownInv'
  BY <1>2 DEF UploadNext, StartUpload, CopyFiles, SubmitUpload, AbandonUpload,
     Send, DownInv
<1>3. ASSUME NEW o \in Orders, ManagerNext(o)
      PROVE  (to_take \subseteq join_handles)' /\ DownInv'
  <2>1. server = "up" /\ server' = "up"
    BY <1>3 DEF ManagerNext, HandleAllocateOrder, FailAllocateOrder, FailDeallocate,
       HandleUploadFiles, FailUploadFiles, HandleBeginWork, HandleFinishWork,
       HandleQueryLiveStatus, ReapDead, FailReapDead, Receive
  <2>2. (to_take \subseteq join_handles)'
    BY <1>3 DEF ManagerNext, HandleAllocateOrder, FailAllocateOrder, FailDeallocate,
       HandleUploadFiles, FailUploadFiles, HandleBeginWork, HandleFinishWork,
       HandleQueryLiveStatus, ReapDead, FailReapDead, Receive
  <2> QED  BY <2>1, <2>2 DEF DownInv
<1>4. ASSUME NEW o \in Orders, WorkerNext(o)
      PROVE  (to_take \subseteq join_handles)' /\ DownInv'
  BY <1>4 DEF WorkerNext, Announce, LookupAccount, Execute, CommitRecord,
     AnnounceFinished, FailWorker, SendToClosedManager, EndTask, Send, DownInv
<1>5. ASSUME NEW o \in QueriedOrders, QueryNext(o)
      PROVE  (to_take \subseteq join_handles)' /\ DownInv'
  BY <1>5 DEF QueryNext, ReadRow, ReadNoRow, AskManager, AnswerQuery, Revisit,
     Send, DownInv
<1>6. CASE HandlePruneDeadJobs \/ PruneTick \/ SendSpawnedPrune
  BY <1>6 DEF HandlePruneDeadJobs, PruneTick, SendSpawnedPrune, FinishedJobs,
     Send, Receive, DownInv
<1>7. CASE StopManager
  BY <1>7 DEF StopManager, DownInv
<1>8. CASE Exit
  BY <1>8 DEF Exit, DownInv, NoWorker, TypeOK, UploadPc
<1>9. CASE Boot
  BY <1>9 DEF Boot, DownInv
<1> QED
  BY <1>1, <1>2, <1>3, <1>4, <1>5, <1>6, <1>7, <1>8, <1>9 DEF Next

LEMMA IndInvStep ==
  ASSUME IndInv, [Next]_vars
  PROVE  IndInv'
<1>1. TypeOK'
  BY TypeStep DEF IndInv
<1>2. (to_take \subseteq join_handles)' /\ DownInv'
  BY MapsStep
<1>3. ASSUME NEW x \in Orders
      PROVE  RequestInv(x)' /\ RowInv(x)' /\ WorkerInv(x)'
  <2>1. CASE UNCHANGED vars
    <3>1. RequestInv(x) /\ RowInv(x) /\ WorkerInv(x)
      BY DEF IndInv
    <3> QED
      BY <2>1, <3>1 DEF vars, RequestInv, RowInv, WorkerInv, Queued, AtMostOnce
  <2>2. CASE Next
    BY <2>2, UploadStep, ManagerStepKeeps, WorkerStepKeeps, QueryStepKeeps,
       ProcessStepKeeps
    DEF Next
  <2> QED  BY <2>1, <2>2
<1> QED  BY <1>1, <1>2, <1>3 DEF IndInv

LEMMA IndInvInit == ASSUME Init PROVE IndInv
<1>1. TypeOK
  BY TypeInit
<1>2. \A x \in Orders : RequestInv(x) /\ RowInv(x) /\ WorkerInv(x)
  BY DEF Init, RequestInv, RowInv, WorkerInv, Queued, AtMostOnce, NoRow, NoWorker
<1>3. to_take \subseteq join_handles /\ DownInv
  BY DEF Init, DownInv
<1> QED  BY <1>1, <1>2, <1>3 DEF IndInv

LEMMA IndInvAlways == Spec => []IndInv
<1>1. Init => IndInv
  BY IndInvInit
<1>2. IndInv /\ [Next]_vars => IndInv'
  BY IndInvStep
<1> QED  BY <1>1, <1>2, PTL DEF Spec

-----------------------------------------------------------------------------
(* What follows from the inductive invariant.                              *)

\* status_json is null exactly while the row is running.
THEOREM StatusMatchesRunning == Spec => []StatusNullIffRunning
<1>1. IndInv => StatusNullIffRunning
  BY DEF IndInv, RowInv, StatusNullIffRunning
<1> QED  BY <1>1, IndInvAlways, PTL

\* The row a worker or a client relies on is there.
THEOREM WorkerRowExists == Spec => []WorkerHasRow
<1>1. IndInv => WorkerHasRow
  BY DEF IndInv, RowInv, WorkerInv, WorkerHasRow
<1> QED  BY <1>1, IndInvAlways, PTL

\* A row has its directory, whichever statement or directory operation fails.
THEOREM DirectoryExists == Spec => []RowHasDirectory
<1>1. IndInv => RowHasDirectory
  BY DEF IndInv, RowInv, RowHasDirectory
<1> QED  BY <1>1, IndInvAlways, PTL

-----------------------------------------------------------------------------
(* The four ways in which a step changes the database.                     *)

Opens(o) ==
  /\ ~orders[o].present
  /\ orders' = [orders EXCEPT ![o] = RunningRow]
  /\ UNCHANGED balance

Settles(o, c) ==
  /\ orders[o].present /\ orders[o].is_running
  /\ orders' = [x \in Orders |->
       IF x = o THEN [orders[x] EXCEPT !.is_running = FALSE,
                                       !.status = ExitStatus(c)]
       ELSE orders[x]]
  /\ balance' = [balance EXCEPT ![Owner[o]] = @ - c]

WritesOff(S, s) ==
  /\ \A o \in S : orders[o].present /\ orders[o].is_running
  /\ orders' = [x \in Orders |->
       IF x \in S THEN [orders[x] EXCEPT !.is_running = FALSE, !.status = s]
       ELSE orders[x]]
  /\ UNCHANGED balance

DatabaseStep ==
  \/ UNCHANGED <<orders, balance>>
  \/ \E o \in Orders : Opens(o)
  \/ \E o \in Orders, c \in Costs : Settles(o, c)
  \/ \E S \in SUBSET Orders : \E s \in {ReapedStatus, SweptStatus} :
       WritesOff(S, s)

LEMMA ManagerDatabaseStep ==
  ASSUME IndInv, NEW o \in Orders, ManagerNext(o)
  PROVE  DatabaseStep
<1> USE DEF IndInv, disk, maps, bounds, handlers
<1>0. RequestInv(o) /\ RowInv(o) /\ WorkerInv(o) /\ orders \in [Orders -> Row]
        /\ queue \in Seq(ManagerRequest)
  BY DEF TypeOK
<1>1. CASE HandleAllocateOrder(o)
  <2>1. Queued(Allocate(o))
    BY <1>0, <1>1, ReceiveFacts DEF HandleAllocateOrder, Allocate
  <2>2. ~orders[o].present /\ orders[o].status = NullStatus /\ ~orders[o].is_running
    BY <1>0, <2>1 DEF RowInv
  <2>3. CASE uploads[o] = "allocating"
    BY <1>1, <2>2, <2>3 DEF HandleAllocateOrder, DatabaseStep, Opens
  <2>4. CASE uploads[o] # "allocating"
    <3>1. orders[o] = NoRow
      BY <1>0, <2>2 DEF Row, NoRow
    <3>2. orders' = orders /\ balance' = balance
      BY <1>0, <1>1, <2>4, <3>1 DEF HandleAllocateOrder
    <3> QED  BY <3>2 DEF DatabaseStep
  <2> QED  BY <2>3, <2>4
<1>2. CASE FailDeallocate(o)
  <2>1. Queued(Allocate(o))
    BY <1>0, <1>2, ReceiveFacts DEF FailDeallocate, Allocate
  <2> QED
    BY <1>0, <1>2, <2>1 DEF RowInv, FailDeallocate, DatabaseStep, Opens
<1>3. CASE ReapDead(o)
  <2>1. CASE workers[o].pc = "endedErr"
    <3>1. orders[o].is_running /\ orders[o].present
      BY <1>0, <1>3, <2>1 DEF ReapDead, RowInv, WorkerInv
    <3>2. orders' = [x \in Orders |->
            IF x \in {o} THEN [orders[x] EXCEPT !.is_running = FALSE,
                                                !.status = ReapedStatus]
            ELSE orders[x]]
      BY <1>0, <1>3, <2>1, <3>1 DEF ReapDead, Recorded
    <3>3. WritesOff({o}, ReapedStatus)
      BY <1>3, <3>1, <3>2 DEF WritesOff, ReapDead
    <3>4. {o} \in SUBSET Orders
      OBVIOUS
    <3> QED  BY <3>3, <3>4 DEF DatabaseStep
  <2>2. CASE workers[o].pc # "endedErr"
    BY <1>3, <2>2 DEF ReapDead, DatabaseStep
  <2> QED  BY <2>1, <2>2
<1>4. CASE \/ FailAllocateOrder(o) \/ HandleUploadFiles(o) \/ FailUploadFiles(o)
           \/ HandleBeginWork(o) \/ HandleFinishWork(o)
           \/ HandleQueryLiveStatus(o) \/ FailReapDead(o)
  BY <1>4 DEF FailAllocateOrder, HandleUploadFiles, FailUploadFiles,
     HandleBeginWork, HandleFinishWork, HandleQueryLiveStatus, FailReapDead,
     DatabaseStep
<1> QED  BY <1>1, <1>2, <1>3, <1>4 DEF ManagerNext

LEMMA WorkerDatabaseStep ==
  ASSUME IndInv, NEW o \in Orders, WorkerNext(o)
  PROVE  DatabaseStep
<1> USE DEF IndInv, disk, maps, bounds, handlers
<1>0. RowInv(o) /\ WorkerInv(o) /\ orders \in [Orders -> Row]
  BY DEF TypeOK
<1>1. CASE CommitRecord(o)
  <2>1. /\ orders[o].is_running /\ orders[o].present
        /\ workers[o].cost \in Costs
    BY <1>0, <1>1 DEF CommitRecord, RowInv, WorkerInv
  <2>2. Settles(o, workers[o].cost)
    BY <1>0, <1>1, <2>1 DEF CommitRecord, Recorded, Settles
  <2> QED  BY <2>1, <2>2 DEF DatabaseStep
<1>2. CASE \/ Announce(o) \/ LookupAccount(o) \/ Execute(o) \/ AnnounceFinished(o)
           \/ FailWorker(o) \/ SendToClosedManager(o) \/ EndTask(o)
  BY <1>2 DEF Announce, LookupAccount, Execute, AnnounceFinished, FailWorker,
     SendToClosedManager, EndTask, DatabaseStep
<1> QED  BY <1>1, <1>2 DEF WorkerNext

LEMMA DatabaseSteps ==
  ASSUME IndInv, [Next]_vars
  PROVE  DatabaseStep
<1> USE DEF disk, maps, bounds, handlers
<1>1. CASE UNCHANGED vars
  BY <1>1 DEF vars, DatabaseStep
<1>2. ASSUME NEW o \in Orders, UploadNext(o)
      PROVE  DatabaseStep
  BY <1>2 DEF UploadNext, StartUpload, CopyFiles, SubmitUpload, AbandonUpload,
     DatabaseStep
<1>3. ASSUME NEW o \in QueriedOrders, QueryNext(o)
      PROVE  DatabaseStep
  BY <1>3 DEF QueryNext, ReadRow, ReadNoRow, AskManager, AnswerQuery, Revisit,
     DatabaseStep
<1>4. CASE \/ HandlePruneDeadJobs \/ PruneTick \/ SendSpawnedPrune \/ StopManager
           \/ Exit
  BY <1>4 DEF HandlePruneDeadJobs, PruneTick, SendSpawnedPrune, StopManager, Exit,
     DatabaseStep
<1>5. CASE Boot
  <2> DEFINE S == {o \in Orders : orders[o].is_running}
  <2>1. \A o \in S : orders[o].present /\ orders[o].is_running
    BY DEF IndInv, RowInv
  <2>2. WritesOff(S, SweptStatus)
    BY <1>5, <2>1 DEF Boot, WritesOff
  <2>3. S \in SUBSET Orders
    OBVIOUS
  <2> HIDE DEF S
  <2> QED  BY <2>2, <2>3 DEF DatabaseStep
<1> QED
  BY <1>1, <1>2, <1>3, <1>4, <1>5, ManagerDatabaseStep, WorkerDatabaseStep
  DEF Next

\* A record is never rewritten.
THEOREM RecordsAreFinal == Spec => RecordIsFinal
<1>1. ASSUME IndInv, [Next]_vars
      PROVE  [\A o \in Orders : orders[o].status # NullStatus =>
                orders'[o].status = orders[o].status]_orders
  <2>1. SUFFICES ASSUME NEW x \in Orders, orders[x].status # NullStatus
                 PROVE  orders'[x].status = orders[x].status
    OBVIOUS
  <2>2. orders[x].present /\ ~orders[x].is_running /\ orders \in [Orders -> Row]
    BY <1>1, <2>1 DEF IndInv, RowInv, TypeOK
  <2>3. DatabaseStep
    BY <1>1, DatabaseSteps
  <2> QED
    BY <2>2, <2>3 DEF DatabaseStep, Opens, Settles, WritesOff
<1> QED
  BY <1>1, IndInvAlways, PTL DEF Spec, RecordIsFinal

-----------------------------------------------------------------------------
(* The ledger.                                                             *)

LEMMA ChargesAreNumbers ==
  ASSUME orders \in [Orders -> Row], NEW u
  PROVE  /\ IsFiniteSet(OrdersOf(u)) /\ OrdersOf(u) \subseteq Orders
         /\ \A o \in Orders : Charged[o] = orders[o].status.cost
         /\ \A o \in Orders : Charged[o] \in Nat
BY OrdersAssumption, FS_Subset DEF OrdersOf, Charged, Row, Status

\* A step that leaves the balances alone leaves every charge alone.
LEMMA UnchargedStep ==
  ASSUME IndInv, TypeOK', LedgerBalanced, UNCHANGED balance,
         \A o \in Orders : orders'[o].status.cost = orders[o].status.cost
  PROVE  LedgerBalanced'
<1> SUFFICES ASSUME NEW u \in Users
             PROVE  balance'[u] = InitialBalance - SumFunctionOnSet(Charged', OrdersOf(u))
  BY DEF LedgerBalanced, OrdersOf
<1>1. \A o \in OrdersOf(u) : Charged[o] = Charged'[o]
  BY DEF Charged, OrdersOf
<1>2. IsFiniteSet(OrdersOf(u))
  BY ChargesAreNumbers DEF IndInv, TypeOK
<1>3. SumFunctionOnSet(Charged', OrdersOf(u)) = SumFunctionOnSet(Charged, OrdersOf(u))
  BY <1>1, <1>2, SumSame
<1> QED  BY <1>3 DEF LedgerBalanced

\* The transaction of a worker takes from the owner what it records.
LEMMA ChargedStep ==
  ASSUME IndInv, TypeOK', LedgerBalanced, NEW o \in Orders, NEW c \in Costs,
         Settles(o, c)
  PROVE  LedgerBalanced'
<1>0. /\ orders \in [Orders -> Row] /\ orders' \in [Orders -> Row]
      /\ balance \in [Users -> Int] /\ c \in Nat /\ InitialBalance \in Int
      /\ Owner[o] \in Users
  BY CostsAssumption, BalanceAssumption, OwnerAssumption DEF IndInv, TypeOK
<1>1. /\ Charged[o] = 0 /\ Charged'[o] = c
      /\ \A x \in Orders : x # o => Charged'[x] = Charged[x]
  <2>1. /\ orders[o].status = NullStatus /\ orders[o] \in Row
        /\ orders' = [x \in Orders |->
              IF x = o THEN [orders[x] EXCEPT !.is_running = FALSE,
                                              !.status = ExitStatus(c)]
              ELSE orders[x]]
    BY <1>0 DEF Settles, IndInv, RowInv
  <2>2. orders'[o].status = ExitStatus(c)
    BY <2>1 DEF Row
  <2>3. \A x \in Orders : x # o => orders'[x] = orders[x]
    BY <2>1
  <2>4. Charged[o] = 0
    <3>1. orders[o].status = NullStatus
      BY <2>1
    <3> QED  BY <3>1 DEF NullStatus, Charged
  <2>5. Charged'[o] = c
    BY <2>2 DEF ExitStatus, Charged
  <2>6. \A x \in Orders : x # o => Charged'[x] = Charged[x]
    BY <2>3 DEF Charged
  <2> QED  BY <2>4, <2>5, <2>6
<1> SUFFICES ASSUME NEW u \in Users
             PROVE  balance'[u] = InitialBalance - SumFunctionOnSet(Charged', OrdersOf(u))
  BY DEF LedgerBalanced, OrdersOf
<1>2. /\ IsFiniteSet(OrdersOf(u)) /\ OrdersOf(u) \subseteq Orders
      /\ \A x \in OrdersOf(u) : Charged[x] \in Int /\ Charged'[x] \in Int
  <2>1. \A x \in Orders : Charged'[x] \in Nat
    BY <1>0 DEF Charged, Row, Status
  <2> QED  BY <1>0, <2>1, ChargesAreNumbers
<1>3. balance[u] = InitialBalance - SumFunctionOnSet(Charged, OrdersOf(u))
  BY DEF LedgerBalanced
<1>4. SumFunctionOnSet(Charged, OrdersOf(u)) \in Int
  BY <1>2, SumInt
<1>5. CASE Owner[o] = u
  <2>1. o \in OrdersOf(u)
    BY <1>5 DEF OrdersOf
  <2>2. SumFunctionOnSet(Charged', OrdersOf(u))
          = SumFunctionOnSet(Charged, OrdersOf(u)) - Charged[o] + Charged'[o]
    BY <1>1, <1>2, <2>1, SumChange
  <2>3. balance'[u] = balance[u] - c
    BY <1>0, <1>5 DEF Settles
  <2> QED  BY <1>0, <1>1, <1>3, <1>4, <2>2, <2>3
<1>6. CASE Owner[o] # u
  <2>1. \A x \in OrdersOf(u) : Charged[x] = Charged'[x]
    BY <1>1, <1>2, <1>6 DEF OrdersOf
  <2>2. SumFunctionOnSet(Charged', OrdersOf(u)) = SumFunctionOnSet(Charged, OrdersOf(u))
    BY <1>2, <2>1, SumSame
  <2>3. balance'[u] = balance[u]
    BY <1>0, <1>6 DEF Settles
  <2> QED  BY <1>3, <2>2, <2>3
<1> QED  BY <1>5, <1>6

LEMMA LedgerBalancedStep ==
  ASSUME IndInv, LedgerBalanced, [Next]_vars
  PROVE  LedgerBalanced'
<1>0. /\ orders \in [Orders -> Row] /\ TypeOK'
      /\ \A o \in Orders : RowInv(o)
  BY TypeStep DEF IndInv, TypeOK
<1>1. CASE UNCHANGED <<orders, balance>>
  BY <1>0, <1>1, UnchargedStep
<1>2. ASSUME NEW o \in Orders, Opens(o)
      PROVE  LedgerBalanced'
  <2>1. orders[o].status = NullStatus /\ UNCHANGED balance
    BY <1>0, <1>2 DEF Opens, RowInv
  <2>2. \A x \in Orders : orders'[x].status.cost = orders[x].status.cost
    BY <1>0, <1>2, <2>1 DEF Opens, RunningRow, NullStatus
  <2> QED  BY <1>0, <2>1, <2>2, UnchargedStep
<1>3. ASSUME NEW S \in SUBSET Orders, NEW s \in {ReapedStatus, SweptStatus},
             WritesOff(S, s)
      PROVE  LedgerBalanced'
  <2>1. \A x \in S : orders[x].status = NullStatus
    BY <1>0, <1>3 DEF WritesOff, RowInv
  <2>2. s.cost = 0
    BY DEF ReapedStatus, SweptStatus
  <2>3. \A x \in Orders : orders'[x].status.cost = orders[x].status.cost
    <3>1. \A x \in Orders : orders[x] \in Row
      BY <1>0
    <3>2. \A x \in S : orders'[x].status = s
      BY <1>3, <3>1 DEF WritesOff, Row
    <3>3. \A x \in Orders \ S : orders'[x] = orders[x]
      BY <1>3 DEF WritesOff
    <3> QED  BY <2>1, <2>2, <3>2, <3>3 DEF NullStatus
  <2> QED  BY <1>0, <1>3, <2>3, UnchargedStep DEF WritesOff
<1> QED
  BY <1>0, <1>1, <1>2, <1>3, DatabaseSteps, ChargedStep DEF DatabaseStep

\* What accounts lost is what the records of their orders state, to the unit,
\* whatever the prune, the sweep, faults and restarts do in between.
THEOREM LedgerAlwaysBalanced == Spec => []LedgerBalanced
<1>1. Init => LedgerBalanced
  <2> SUFFICES ASSUME Init, NEW u \in Users
               PROVE  balance[u] = InitialBalance - SumFunctionOnSet(Charged, OrdersOf(u))
    BY DEF LedgerBalanced
  <2>1. orders \in [Orders -> Row]
    BY TypeInit DEF TypeOK
  <2>2. \A o \in OrdersOf(u) : Charged[o] = 0
    BY DEF Init, OrdersOf, Charged, NoRow, NullStatus
  <2>3. SumFunctionOnSet(Charged, OrdersOf(u)) = 0
    BY <2>1, <2>2, ChargesAreNumbers, SumZero
  <2> QED  BY <2>3, BalanceAssumption DEF Init
<1>2. IndInv /\ LedgerBalanced /\ [Next]_vars => LedgerBalanced'
  BY LedgerBalancedStep
<1> QED  BY <1>1, <1>2, IndInvAlways, PTL DEF Spec

-----------------------------------------------------------------------------
(* Answers and supervision.                                                *)

Settled(o) == orders[o].present /\ ~orders[o].is_running
Finish(o)  == Request("FinishWork", o)

\* What a status request has read is still in the table, if it is a record.
QueryInv(o) ==
  queries[o].status # NullStatus =>
    orders[o].present /\ orders[o].status = queries[o].status

\* A worker that committed has settled its row, the more so when the manager
\* is told; and while the manager is up, a worker only fails of a fault.
SupervisedInv(o) ==
  /\ workers[o].pc \in {"finish", "leavingOk", "endedOk"} => Settled(o)
  /\ Queued(Finish(o)) => Settled(o)
  /\ server = "up" /\ workers[o].pc \in {"leavingErr", "endedErr"} => faults > 0
  /\ server = "up" /\ faults < 2 /\ workers[o].pc # "none" /\ orders[o].is_running
       => o \in join_handles

LEMMA SettledStays ==
  ASSUME IndInv, [Next]_vars, NEW x \in Orders, Settled(x)
  PROVE  orders'[x] = orders[x]
<1>1. DatabaseStep
  BY DatabaseSteps
<1>2. orders \in [Orders -> Row]
  BY DEF IndInv, TypeOK
<1> QED  BY <1>1, <1>2 DEF Settled, DatabaseStep, Opens, Settles, WritesOff

\* A request keeps what it read, forgets it, or reads the row that is there.
LEMMA QueriesRead ==
  ASSUME TypeOK, [Next]_vars, NEW x \in Orders
  PROVE  \/ queries'[x].status \in {queries[x].status, NullStatus}
         \/ /\ queries'[x].status = orders[x].status
            /\ orders[x].present /\ orders' = orders
<1> USE QueriedAssumption DEF TypeOK, disk, maps, bounds, handlers
<1>0. queries \in [Orders -> Query]
  OBVIOUS
<1>1. CASE UNCHANGED queries
  BY <1>1
<1>2. ASSUME NEW o \in Orders, HandleQueryLiveStatus(o)
      PROVE  queries'[x].status = queries[x].status
  BY <1>0, <1>2 DEF HandleQueryLiveStatus, Query
<1>3. ASSUME NEW o \in QueriedOrders, ReadRow(o)
      PROVE  \/ queries'[x].status = queries[x].status
             \/ /\ queries'[x].status = orders[x].status
                /\ orders[x].present /\ orders' = orders
  BY <1>0, <1>3 DEF ReadRow, Query
<1>4. ASSUME NEW o \in QueriedOrders,
             ReadNoRow(o) \/ AskManager(o) \/ AnswerQuery(o) \/ Revisit(o)
      PROVE  queries'[x].status \in {queries[x].status, NullStatus}
  <2>1. CASE ReadNoRow(o)
    BY <1>0, <2>1 DEF ReadNoRow, Query
  <2>4. CASE AskManager(o)
    BY <1>0, <2>4 DEF AskManager, Query
  <2>2. CASE AnswerQuery(o)
    <3>1. \/ queries'[x] = queries[x]
          \/ queries'[x] = [NoQuery EXCEPT !.reply = ReplyTo(queries[o])]
      BY <1>0, <2>2 DEF AnswerQuery
    <3> QED  BY <3>1 DEF NoQuery
  <2>3. CASE Revisit(o)
    BY <1>0, <2>3 DEF Revisit, NoQuery
  <2> QED  BY <1>4, <2>1, <2>2, <2>3, <2>4
<1>5. CASE StopManager \/ Exit
  BY <1>0, <1>5 DEF StopManager, Exit, NoQuery
<1>6. ASSUME NEW o \in Orders, ManagerNext(o), ~HandleQueryLiveStatus(o)
      PROVE  UNCHANGED queries
  BY <1>6 DEF ManagerNext, HandleAllocateOrder, FailAllocateOrder, FailDeallocate,
     HandleUploadFiles, FailUploadFiles, HandleBeginWork, HandleFinishWork,
     ReapDead, FailReapDead
<1>7. ASSUME NEW o \in Orders, UploadNext(o) \/ WorkerNext(o)
      PROVE  UNCHANGED queries
  BY <1>7 DEF UploadNext, StartUpload, CopyFiles, SubmitUpload, AbandonUpload,
     WorkerNext, Announce, LookupAccount, Execute, CommitRecord, AnnounceFinished,
     FailWorker, SendToClosedManager, EndTask
<1>8. CASE HandlePruneDeadJobs \/ PruneTick \/ SendSpawnedPrune \/ Boot
  BY <1>8 DEF HandlePruneDeadJobs, PruneTick, SendSpawnedPrune, Boot
<1> QED
  BY <1>1, <1>2, <1>3, <1>4, <1>5, <1>6, <1>7, <1>8 DEF Next, QueryNext, vars

LEMMA QueryInvStep ==
  ASSUME IndInv, [Next]_vars, NEW x \in Orders, QueryInv(x)
  PROVE  QueryInv(x)'
<1>1. SUFFICES ASSUME queries'[x].status # NullStatus
               PROVE  orders'[x].present /\ orders'[x].status = queries'[x].status
  BY DEF QueryInv
<1>2. CASE queries'[x].status = queries[x].status
  <2>1. orders[x].present /\ orders[x].status = queries[x].status
    BY <1>1, <1>2 DEF QueryInv
  <2>2. Settled(x)
    BY <1>1, <1>2, <2>1 DEF IndInv, RowInv, Settled
  <2> QED  BY <1>2, <2>1, <2>2, SettledStays
<1> QED  BY <1>1, <1>2, QueriesRead DEF IndInv

LEMMA FinishDiffers ==
  ASSUME NEW o, NEW x
  PROVE  /\ Finish(o) = Finish(x) => o = x
         /\ \A t \in {"AllocateOrder", "UploadFiles", "BeginWork", "QueryLiveStatus"} :
              Request(t, o) # Finish(x)
         /\ PruneDeadJobs # Finish(x)
BY DEF Finish, Request, PruneDeadJobs

LEMMA SupervisedManager ==
  ASSUME IndInv, NEW x \in Orders, SupervisedInv(x), Settled(x) => Settled(x)',
         NEW o \in Orders, ManagerNext(o)
  PROVE  SupervisedInv(x)'
<1> USE DEF SupervisedInv, disk, maps, bounds, handlers
<1>0. /\ RowInv(x) /\ WorkerInv(x) /\ RequestInv(x) /\ queue \in Seq(ManagerRequest)
      /\ TypeOK
  BY DEF IndInv, TypeOK
<1>1. ASSUME NEW m, Receive(m)
      PROVE  Queued(m) /\ (Queued(Finish(x))' => Queued(Finish(x)))
  BY <1>0, <1>1, ReceiveFacts
<1>2. CASE HandleAllocateOrder(o) \/ FailDeallocate(o) \/ FailAllocateOrder(o)
  <2>1. Queued(Allocate(o)) /\ (Queued(Finish(x))' => Queued(Finish(x)))
    BY <1>1, <1>2 DEF HandleAllocateOrder, FailDeallocate, FailAllocateOrder, Allocate
  <2>2. uploads[o] # "answered"
    BY <2>1 DEF IndInv, RequestInv
  <2>3. workers[x].pc # "none" => x # o
    BY <1>0, <2>2 DEF WorkerInv
  <2>4. workers[x].pc # "none" => orders'[x] = orders[x]
    BY <1>0, <1>2, <2>3
    DEF HandleAllocateOrder, FailDeallocate, FailAllocateOrder, TypeOK
  <2>5. UNCHANGED <<workers, server, join_handles>> /\ faults' >= faults
          /\ faults \in Nat /\ faults' \in Nat
    BY <1>0, <1>2
    DEF HandleAllocateOrder, FailDeallocate, FailAllocateOrder, Fault, TypeOK
  <2> QED  BY <2>1, <2>4, <2>5
<1>3. CASE HandleUploadFiles(o)
  <2>1. Queued(Finish(x))' => Queued(Finish(x))
    BY <1>1, <1>3 DEF HandleUploadFiles
  <2> QED  BY <1>0, <1>3, <2>1 DEF HandleUploadFiles, WorkerTo, TypeOK, Worker
<1>4. CASE HandleFinishWork(o)
  <2>1. Queued(Finish(o)) /\ (Queued(Finish(x))' => Queued(Finish(x)))
    BY <1>1, <1>4 DEF HandleFinishWork, Finish
  <2>2. x = o => ~orders[x].is_running
    BY <2>1 DEF Settled
  <2> QED  BY <1>0, <1>4, <2>1, <2>2 DEF HandleFinishWork
<1>5. CASE \/ FailUploadFiles(o) \/ HandleBeginWork(o) \/ HandleQueryLiveStatus(o)
  <2>1. Queued(Finish(x))' => Queued(Finish(x))
    BY <1>1, <1>5 DEF FailUploadFiles, HandleBeginWork, HandleQueryLiveStatus
  <2>2. UNCHANGED <<workers, server, orders, join_handles>> /\ faults' >= faults
          /\ faults \in Nat /\ faults' \in Nat
    BY <1>0, <1>5
    DEF FailUploadFiles, HandleBeginWork, HandleQueryLiveStatus, Fault, TypeOK
  <2> QED  BY <2>1, <2>2
<1>6. CASE ReapDead(o)
  <2>1. Queued(Finish(x))' => Queued(Finish(x))
    BY <1>6 DEF ReapDead, Queued
  <2>2. CASE x # o
    BY <1>0, <1>6, <2>1, <2>2 DEF ReapDead, Recorded, TypeOK
  <2>3. CASE x = o
    <3>1. orders[x].present /\ orders[x] \in Row
      BY <1>0, <1>6, <2>3 DEF ReapDead, IsFinished, WorkerInv, RowInv, TypeOK
    <3>2. ~orders'[x].is_running
      BY <1>0, <1>6, <2>3, <3>1
      DEF ReapDead, IsFinished, Recorded, Settled, TypeOK, Row
    <3> QED  BY <1>0, <1>6, <2>1, <2>3, <3>2 DEF ReapDead
  <2> QED  BY <2>2, <2>3
<1>7. CASE FailReapDead(o)
  <2>1. Queued(Finish(x))' => Queued(Finish(x))
    BY <1>7 DEF FailReapDead, Queued
  <2>2. x = o => faults > 0
    BY <1>7 DEF FailReapDead
  <2>3. faults \in Nat /\ faults' = faults + 1
    BY <1>0, <1>7 DEF FailReapDead, Fault, TypeOK
  <2> QED  BY <1>7, <2>1, <2>2, <2>3 DEF FailReapDead
<1> QED  BY <1>2, <1>3, <1>4, <1>5, <1>6, <1>7 DEF ManagerNext

LEMMA SupervisedWorker ==
  ASSUME IndInv, NEW x \in Orders, SupervisedInv(x), Settled(x) => Settled(x)',
         NEW o \in Orders, WorkerNext(o)
  PROVE  SupervisedInv(x)'
<1> USE DEF SupervisedInv, disk, maps, bounds, handlers
<1>0. /\ RowInv(x) /\ WorkerInv(x) /\ queue \in Seq(ManagerRequest)
      /\ workers \in [Orders -> Worker] /\ orders \in [Orders -> Row] /\ faults \in Nat
  BY DEF IndInv, TypeOK
<1>1. CASE Announce(o)
  <2>1. \A n : Queued(n)' <=> Queued(n) \/ n = Request("BeginWork", o)
    BY <1>0, <1>1, SendFacts, RequestTypes DEF Announce
  <2>2. Queued(Finish(x))' => Queued(Finish(x))
    BY <2>1, FinishDiffers
  <2> QED  BY <1>0, <1>1, <2>2 DEF Announce, Send, WorkerTo, Worker
<1>2. CASE AnnounceFinished(o)
  <2>1. \A n : Queued(n)' <=> Queued(n) \/ n = Finish(o)
    BY <1>0, <1>2, SendFacts, RequestTypes DEF AnnounceFinished, Finish
  <2>2. Queued(Finish(x))' => Queued(Finish(x)) \/ x = o
    BY <2>1, FinishDiffers
  <2> QED  BY <1>0, <1>2, <2>2 DEF AnnounceFinished, Send, WorkerTo, Worker
<1>3. ASSUME UNCHANGED queue PROVE Queued(Finish(x))' => Queued(Finish(x))
  BY <1>3 DEF Queued
<1>4. CASE CommitRecord(o)
  <2>1. x = o => orders[x].present
    BY <1>0, <1>4 DEF CommitRecord, WorkerInv, RowInv
  <2>2. x = o => Settled(x)'
    BY <1>0, <1>4, <2>1 DEF CommitRecord, Recorded, Settled, Row
  <2>3. x # o => orders'[x] = orders[x]
    BY <1>0, <1>4 DEF CommitRecord, Recorded
  <2> QED
    BY <1>0, <1>3, <1>4, <2>2, <2>3 DEF CommitRecord, WorkerTo, Worker, Settled
<1>5. CASE LookupAccount(o) \/ Execute(o)
  <2>1. \/ workers'[x].pc = workers[x].pc
        \/ /\ workers[x].pc # "none"
           /\ workers'[x].pc \in {"execute", "record"}
    <3>0. x # o => workers'[x] = workers[x]
      BY <1>0, <1>5 DEF LookupAccount, Execute, WorkerTo
    <3>1. CASE LookupAccount(o) /\ x = o
      BY <1>0, <3>1 DEF LookupAccount, WorkerTo, Worker
    <3>2. CASE Execute(o) /\ x = o
      <4>1. PICK c \in Costs :
              workers' = [workers EXCEPT ![o].pc = "record", ![o].cost = c]
        BY <3>2 DEF Execute
      <4>2. workers'[o] = [workers[o] EXCEPT !.pc = "record", !.cost = c]
        BY <1>0, <4>1
      <4>3. workers[o] \in Worker /\ workers[o].pc # "none"
        BY <1>0, <3>2 DEF Execute
      <4> QED  BY <3>2, <4>2, <4>3 DEF Worker
    <3> QED  BY <1>5, <3>0, <3>1, <3>2
  <2> QED  BY <1>3, <1>5, <2>1 DEF LookupAccount, Execute
<1>6. CASE FailWorker(o)
  BY <1>0, <1>3, <1>6 DEF FailWorker, Fault, WorkerTo, Worker
<1>7. CASE SendToClosedManager(o)
  BY <1>0, <1>3, <1>7 DEF SendToClosedManager, WorkerTo, Worker
<1>8. CASE EndTask(o)
  BY <1>0, <1>3, <1>8 DEF EndTask, WorkerTo, Worker
<1> QED  BY <1>1, <1>2, <1>4, <1>5, <1>6, <1>7, <1>8 DEF WorkerNext

LEMMA SupervisedOthers ==
  ASSUME IndInv, NEW x \in Orders, SupervisedInv(x), Settled(x) => Settled(x)',
         \/ \E o \in Orders : UploadNext(o)
         \/ \E o \in QueriedOrders : QueryNext(o)
         \/ HandlePruneDeadJobs \/ PruneTick \/ SendSpawnedPrune
         \/ StopManager \/ Exit \/ Boot
  PROVE  SupervisedInv(x)'
<1> USE QueriedAssumption DEF SupervisedInv, disk, maps, bounds, handlers
<1>0. queue \in Seq(ManagerRequest) /\ DownInv
  BY DEF IndInv, TypeOK
<1>1. ASSUME NEW m \in ManagerRequest, m # Finish(x), Send(m)
      PROVE  Queued(Finish(x))' => Queued(Finish(x))
  BY <1>0, <1>1, SendFacts
<1>2. ASSUME NEW m, Receive(m)
      PROVE  Queued(Finish(x))' => Queued(Finish(x))
  BY <1>0, <1>2, ReceiveFacts
<1>3. ASSUME queue' \in {queue, <<>>}
      PROVE  Queued(Finish(x))' => Queued(Finish(x))
  BY <1>3 DEF Queued
<1>4. ASSUME NEW o \in Orders, UploadNext(o)
      PROVE  SupervisedInv(x)'
  <2>1. Queued(Finish(x))' => Queued(Finish(x))
    BY <1>1, <1>3, <1>4, RequestTypes, FinishDiffers
    DEF UploadNext, StartUpload, CopyFiles, SubmitUpload, AbandonUpload
  <2> QED
    BY <1>4, <2>1
    DEF UploadNext, StartUpload, CopyFiles, SubmitUpload, AbandonUpload, Send
<1>5. ASSUME NEW o \in QueriedOrders, QueryNext(o)
      PROVE  SupervisedInv(x)'
  <2>1. Queued(Finish(x))' => Queued(Finish(x))
    BY <1>1, <1>3, <1>5, RequestTypes, FinishDiffers
    DEF QueryNext, ReadRow, ReadNoRow, AskManager, AnswerQuery, Revisit
  <2> QED
    BY <1>5, <2>1 DEF QueryNext, ReadRow, ReadNoRow, AskManager, AnswerQuery, Revisit, Send
<1>6. CASE HandlePruneDeadJobs
  BY <1>2, <1>6 DEF HandlePruneDeadJobs, Receive
<1>7. CASE PruneTick \/ SendSpawnedPrune
  <2>1. Queued(Finish(x))' => Queued(Finish(x))
    BY <1>1, <1>7, RequestTypes, FinishDiffers DEF PruneTick, SendSpawnedPrune
  <2> QED  BY <1>7, <2>1 DEF PruneTick, SendSpawnedPrune, Send
<1>8. CASE StopManager
  BY <1>3, <1>8 DEF StopManager
<1>9. CASE Exit
  BY <1>3, <1>9 DEF Exit, NoWorker
<1>10. CASE Boot
  BY <1>0, <1>3, <1>10 DEF Boot, DownInv
<1> QED  BY <1>4, <1>5, <1>6, <1>7, <1>8, <1>9, <1>10

Begin(o) == Request("BeginWork", o)
Ask(o)   == Request("QueryLiveStatus", o)
Overtaken(o) ==
  \E i, j \in 1..Len(queue) : i < j /\ queue[i] = Ask(o) /\ queue[j] = Begin(o)

\* The manager holds the handle of every job at work or has its announcement
\* before it, and of no other; it is told of the end of a job that has ended.
AnnouncedInv(o) ==
  /\ server = "up" /\ AtWork(o) => o \in running_handles \/ Queued(Begin(o))
  /\ o \in running_handles \/ Queued(Begin(o))
       => workers[o].pc \notin {"none", "announce"}
  /\ Queued(Finish(o)) => workers[o].pc \in {"leavingOk", "endedOk"}

\* A status request waits for one answer, and when it has read a record, the
\* announcement of the job went ahead of it.
AskedInv(o) ==
  /\ AtMostOnce(Ask(o))
  /\ Queued(Ask(o)) => queries[o].pc = "waiting"
  /\ queries[o].status # NullStatus => ~Overtaken(o)

LEMMA OvertakenFacts ==
  ASSUME queue \in Seq(ManagerRequest), NEW x
  PROVE  /\ \A m \in ManagerRequest :
              Send(m) /\ m # Begin(x) /\ Overtaken(x)' => Overtaken(x)
         /\ \A m : Receive(m) /\ Overtaken(x)' => Overtaken(x)
         /\ queue' \in {queue, <<>>} /\ Overtaken(x)' => Overtaken(x)
<1>1. ASSUME NEW m \in ManagerRequest, Send(m), m # Begin(x), Overtaken(x)'
      PROVE  Overtaken(x)
  <2>1. /\ Len(queue) \in Nat
        /\ Len(queue') = Len(queue) + 1
        /\ queue'[Len(queue) + 1] = m
        /\ \A i \in 1..Len(queue) : queue'[i] = queue[i]
    BY <1>1 DEF Send
  <2>2. PICK i, j \in 1..Len(queue') :
          i < j /\ queue'[i] = Ask(x) /\ queue'[j] = Begin(x)
    BY <1>1 DEF Overtaken, Ask, Begin, Request
  <2>3. j # Len(queue) + 1
    BY <1>1, <2>1, <2>2
  <2>4. i \in 1..Len(queue) /\ j \in 1..Len(queue)
    BY <2>1, <2>2, <2>3
  <2> QED  BY <2>1, <2>2, <2>4 DEF Overtaken
<1>2. ASSUME NEW m, Receive(m), Overtaken(x)'
      PROVE  Overtaken(x)
  <2>1. /\ Len(queue) \in Nat \ {0}
        /\ Len(queue') = Len(queue) - 1
        /\ \A i \in 1..Len(queue') : queue'[i] = queue[i + 1]
    BY <1>2 DEF Receive
  <2>2. PICK i, j \in 1..Len(queue') :
          i < j /\ queue'[i] = Ask(x) /\ queue'[j] = Begin(x)
    BY <1>2 DEF Overtaken, Ask, Begin, Request
  <2>3. /\ i + 1 \in 1..Len(queue) /\ j + 1 \in 1..Len(queue) /\ i + 1 < j + 1
        /\ queue[i + 1] = Ask(x) /\ queue[j + 1] = Begin(x)
    BY <2>1, <2>2
  <2> QED  BY <2>3 DEF Overtaken
<1>3. ASSUME queue' \in {queue, <<>>}, Overtaken(x)'
      PROVE  Overtaken(x)
  BY <1>3 DEF Overtaken, Ask, Begin, Request
<1> QED  BY <1>1, <1>2, <1>3

LEMMA BeginAskDiffer ==
  ASSUME NEW o, NEW x
  PROVE  /\ Begin(o) = Begin(x) => o = x
         /\ Ask(o) = Ask(x) => o = x
         /\ \A t \in {"AllocateOrder", "UploadFiles", "FinishWork", "QueryLiveStatus"} :
              Request(t, o) # Begin(x)
         /\ \A t \in {"AllocateOrder", "UploadFiles", "FinishWork", "BeginWork"} :
              Request(t, o) # Ask(x)
         /\ PruneDeadJobs # Begin(x) /\ PruneDeadJobs # Ask(x)
BY DEF Begin, Ask, Request, PruneDeadJobs

LEMMA ReceiveLeaves ==
  ASSUME queue \in Seq(ManagerRequest), NEW m, NEW n, Receive(m), n # m, Queued(n)
  PROVE  Queued(n)'
<1>1. /\ Len(queue) \in Nat \ {0}
      /\ Len(queue') = Len(queue) - 1
      /\ queue[1] = m
      /\ \A i \in 1..Len(queue') : queue'[i] = queue[i + 1]
  BY DEF Receive
<1>2. PICK i \in 1..Len(queue) : queue[i] = n
  BY DEF Queued
<1>3. i - 1 \in 1..Len(queue') /\ queue'[i - 1] = n
  BY <1>1, <1>2
<1> QED  BY <1>3 DEF Queued

LEMMA AnnouncedManager ==
  ASSUME IndInv, NEW x \in Orders, AnnouncedInv(x), NEW o \in Orders, ManagerNext(o)
  PROVE  AnnouncedInv(x)'
<1> USE DEF AnnouncedInv, AtWork, disk, maps, bounds, handlers
<1>0. /\ queue \in Seq(ManagerRequest) /\ workers \in [Orders -> Worker]
      /\ RequestInv(o)
  BY DEF IndInv, TypeOK
<1>1. ASSUME NEW m, Receive(m)
      PROVE  /\ Queued(m)
             /\ \A n : Queued(n)' => Queued(n)
             /\ \A n : n # m /\ Queued(n) => Queued(n)'
  BY <1>0, <1>1, ReceiveFacts, ReceiveLeaves
<1>2. CASE HandleUploadFiles(o)
  <2>1. /\ Queued(Upload(o))
        /\ \A n : Queued(n)' => Queued(n)
        /\ Queued(Begin(x)) => Queued(Begin(x))'
    BY <1>1, <1>2, BeginAskDiffer DEF HandleUploadFiles, Upload
  <2>2. workers[o].pc = "none"
    BY <1>0, <2>1 DEF RequestInv
  <2>3. x = o => workers'[x].pc = "announce"
    BY <1>0, <1>2 DEF HandleUploadFiles, WorkerTo, Worker
  <2>4. x # o => workers'[x] = workers[x]
    BY <1>0, <1>2 DEF HandleUploadFiles, WorkerTo
  <2>5. running_handles' = running_handles /\ server' = server
    BY <1>2 DEF HandleUploadFiles
  <2> QED  BY <2>1, <2>2, <2>3, <2>4, <2>5
<1>3. CASE HandleBeginWork(o)
  <2>1. /\ Queued(Begin(o))
        /\ \A n : Queued(n)' => Queued(n)
        /\ x # o /\ Queued(Begin(x)) => Queued(Begin(x))'
    BY <1>1, <1>3, BeginAskDiffer DEF HandleBeginWork, Begin
  <2> QED  BY <1>3, <2>1 DEF HandleBeginWork
<1>4. CASE HandleFinishWork(o)
  <2>1. /\ Queued(Finish(o))
        /\ \A n : Queued(n)' => Queued(n)
        /\ Queued(Begin(x)) => Queued(Begin(x))'
    BY <1>1, <1>4, BeginAskDiffer DEF HandleFinishWork, Finish
  <2> QED  BY <1>4, <2>1 DEF HandleFinishWork
<1>5. CASE ReapDead(o) \/ FailReapDead(o)
  <2>1. workers[o].pc \in {"endedOk", "endedErr"}
    BY <1>5 DEF ReapDead, FailReapDead, IsFinished
  <2>2. \A n : Queued(n)' <=> Queued(n)
    BY <1>5 DEF ReapDead, FailReapDead, Queued
  <2> QED  BY <1>5, <2>1, <2>2 DEF ReapDead, FailReapDead
<1>6. CASE \/ HandleAllocateOrder(o) \/ FailAllocateOrder(o) \/ FailDeallocate(o)
           \/ FailUploadFiles(o) \/ HandleQueryLiveStatus(o)
  <2>1. /\ \A n : Queued(n)' => Queued(n)
        /\ Queued(Begin(x)) => Queued(Begin(x))'
    BY <1>1, <1>6, BeginAskDiffer
    DEF HandleAllocateOrder, FailAllocateOrder, FailDeallocate, FailUploadFiles,
        HandleQueryLiveStatus
  <2>2. UNCHANGED <<workers, server, running_handles>>
    BY <1>6
    DEF HandleAllocateOrder, FailAllocateOrder, FailDeallocate, FailUploadFiles,
        HandleQueryLiveStatus
  <2> QED  BY <2>1, <2>2
<1> QED  BY <1>2, <1>3, <1>4, <1>5, <1>6 DEF ManagerNext

LEMMA AnnouncedWorker ==
  ASSUME IndInv, NEW x \in Orders, AnnouncedInv(x), NEW o \in Orders, WorkerNext(o)
  PROVE  AnnouncedInv(x)'
<1> USE DEF AnnouncedInv, AtWork, disk, maps, bounds, handlers
<1>0. /\ queue \in Seq(ManagerRequest) /\ workers \in [Orders -> Worker]
  BY DEF IndInv, TypeOK
<1>1. UNCHANGED <<server, running_handles>>
  BY DEF WorkerNext, Announce, LookupAccount, Execute, CommitRecord, AnnounceFinished,
     FailWorker, SendToClosedManager, EndTask, Send
<1>2. x # o => workers'[x] = workers[x]
  BY <1>0
  DEF WorkerNext, Announce, LookupAccount, Execute, CommitRecord, AnnounceFinished,
     FailWorker, SendToClosedManager, EndTask, WorkerTo
<1>3. CASE Announce(o)
  <2>1. \A n : Queued(n)' <=> Queued(n) \/ n = Begin(o)
    BY <1>0, <1>3, SendFacts, RequestTypes DEF Announce, Begin
  <2>2. /\ Queued(Begin(x))' <=> Queued(Begin(x)) \/ x = o
        /\ Queued(Finish(x))' => Queued(Finish(x))
    BY <2>1, BeginAskDiffer, FinishDiffers DEF Finish
  <2>3. workers[o].pc = "announce" /\ workers'[o].pc = "lookup"
    BY <1>0, <1>3 DEF Announce, WorkerTo, Worker
  <2> QED  BY <1>1, <1>2, <2>2, <2>3
<1>4. CASE AnnounceFinished(o)
  <2>1. \A n : Queued(n)' <=> Queued(n) \/ n = Finish(o)
    BY <1>0, <1>4, SendFacts, RequestTypes DEF AnnounceFinished, Finish
  <2>2. /\ Queued(Begin(x))' <=> Queued(Begin(x))
        /\ Queued(Finish(x))' <=> Queued(Finish(x)) \/ x = o
    BY <2>1, BeginAskDiffer, FinishDiffers DEF Finish
  <2>3. workers[o].pc = "finish" /\ workers'[o].pc = "leavingOk"
    BY <1>0, <1>4 DEF AnnounceFinished, WorkerTo, Worker
  <2> QED  BY <1>1, <1>2, <2>2, <2>3
<1>5. ASSUME UNCHANGED queue PROVE \A n : Queued(n)' <=> Queued(n)
  BY <1>5 DEF Queued
<1>6. CASE Execute(o)
  <2>1. PICK c \in Costs : workers' = [workers EXCEPT ![o].pc = "record", ![o].cost = c]
    BY <1>6 DEF Execute
  <2>2. workers'[o] = [workers[o] EXCEPT !.pc = "record", !.cost = c]
    BY <1>0, <2>1
  <2>3. workers[o].pc = "execute" /\ workers'[o].pc = "record"
    BY <1>0, <1>6, <2>2 DEF Execute, Worker
  <2> QED  BY <1>1, <1>2, <1>5, <1>6, <2>3 DEF Execute
<1>7. CASE LookupAccount(o) \/ CommitRecord(o)
  <2>1. /\ workers[o].pc \in {"lookup", "record"}
        /\ workers'[o].pc \in {"execute", "finish"}
    BY <1>0, <1>7 DEF LookupAccount, CommitRecord, WorkerTo, Worker
  <2> QED  BY <1>1, <1>2, <1>5, <1>7, <2>1 DEF LookupAccount, CommitRecord
<1>8. CASE FailWorker(o)
  <2>1. /\ workers[o].pc \in {"lookup", "execute", "record"}
        /\ workers'[o].pc = "leavingErr"
    BY <1>0, <1>8 DEF FailWorker, WorkerTo, Worker
  <2> QED  BY <1>1, <1>2, <1>5, <1>8, <2>1 DEF FailWorker
<1>9. CASE SendToClosedManager(o)
  <2>1. /\ server # "up" /\ workers[o].pc \in {"announce", "finish"}
        /\ workers'[o].pc = "leavingErr"
    BY <1>0, <1>9 DEF SendToClosedManager, WorkerTo, Worker
  <2> QED  BY <1>1, <1>2, <1>5, <1>9, <2>1 DEF SendToClosedManager
<1>10. CASE EndTask(o)
  <2>1. \/ workers[o].pc = "leavingOk" /\ workers'[o].pc = "endedOk"
        \/ workers[o].pc = "leavingErr" /\ workers'[o].pc = "endedErr"
    BY <1>0, <1>10 DEF EndTask, WorkerTo, Worker
  <2> QED  BY <1>1, <1>2, <1>5, <1>10, <2>1 DEF EndTask
<1> QED  BY <1>3, <1>4, <1>6, <1>7, <1>8, <1>9, <1>10 DEF WorkerNext

LEMMA AnnouncedOthers ==
  ASSUME IndInv, NEW x \in Orders, AnnouncedInv(x),
         \/ \E o \in Orders : UploadNext(o)
         \/ \E o \in QueriedOrders : QueryNext(o)
         \/ HandlePruneDeadJobs \/ PruneTick \/ SendSpawnedPrune
         \/ StopManager \/ Exit \/ Boot
  PROVE  AnnouncedInv(x)'
<1> USE QueriedAssumption DEF AnnouncedInv, AtWork, disk, maps, bounds, handlers
<1>0. queue \in Seq(ManagerRequest) /\ DownInv
  BY DEF IndInv, TypeOK
<1> DEFINE Calm == /\ Queued(Begin(x))' <=> Queued(Begin(x))
                   /\ Queued(Finish(x))' <=> Queued(Finish(x))
<1>1. ASSUME NEW m \in ManagerRequest, m # Begin(x), m # Finish(x), Send(m)
      PROVE  Calm
  BY <1>0, <1>1, SendFacts
<1>2. ASSUME queue' = queue PROVE Calm
  BY <1>2 DEF Queued
<1>3. ASSUME queue' = <<>> PROVE ~Queued(Begin(x))' /\ ~Queued(Finish(x))'
  BY <1>3 DEF Queued
<1>4. CASE \E o \in Orders : UploadNext(o)
  <2>0. PICK o \in Orders : UploadNext(o)
    BY <1>4
  <2>1. Calm
    BY <1>1, <1>2, <2>0, RequestTypes, FinishDiffers, BeginAskDiffer
    DEF UploadNext, StartUpload, CopyFiles, SubmitUpload, AbandonUpload
  <2> QED
    BY <2>0, <2>1 DEF UploadNext, StartUpload, CopyFiles, SubmitUpload, AbandonUpload, Send
<1>5. CASE \E o \in QueriedOrders : QueryNext(o)
  <2>0. PICK o \in QueriedOrders : QueryNext(o)
    BY <1>5
  <2>1. Calm
    BY <1>1, <1>2, <2>0, RequestTypes, FinishDiffers, BeginAskDiffer
    DEF QueryNext, ReadRow, ReadNoRow, AskManager, AnswerQuery, Revisit
  <2> QED
    BY <2>0, <2>1
    DEF QueryNext, ReadRow, ReadNoRow, AskManager, AnswerQuery, Revisit, Send
<1>6. CASE HandlePruneDeadJobs
  <2>1. Receive(PruneDeadJobs)
    BY <1>6 DEF HandlePruneDeadJobs
  <2>2. Calm
    BY <1>0, <2>1, ReceiveFacts, ReceiveLeaves, BeginAskDiffer, FinishDiffers
  <2> QED  BY <1>6, <2>2 DEF HandlePruneDeadJobs
<1>7. CASE PruneTick \/ SendSpawnedPrune
  <2>1. Calm
    BY <1>1, <1>7, RequestTypes, FinishDiffers, BeginAskDiffer
    DEF PruneTick, SendSpawnedPrune
  <2> QED  BY <1>7, <2>1 DEF PruneTick, SendSpawnedPrune, Send
<1>8. CASE StopManager \/ Exit
  <2>1. /\ ~Queued(Begin(x))' /\ ~Queued(Finish(x))'
        /\ running_handles' = {} /\ server' # "up"
    BY <1>3, <1>8 DEF StopManager, Exit
  <2> QED  BY <2>1
<1>9. CASE Boot
  <2>1. Calm /\ workers[x].pc = "none"
    BY <1>0, <1>2, <1>9 DEF Boot, DownInv
  <2> QED  BY <1>9, <2>1 DEF Boot
<1> QED  BY <1>4, <1>5, <1>6, <1>7, <1>8, <1>9

LEMMA AskedStep ==
  ASSUME IndInv, [Next]_vars, NEW x \in Orders, QueryInv(x)', AskedInv(x)
  PROVE  AskedInv(x)'
<1> USE QueriedAssumption DEF AskedInv, disk, maps, bounds, handlers
<1>0. /\ queue \in Seq(ManagerRequest) /\ queries \in [Orders -> Query]
      /\ orders \in [Orders -> Row]
  BY DEF IndInv, TypeOK
<1>1. ASSUME NEW m \in ManagerRequest, m # Begin(x), m # Ask(x), Send(m)
      PROVE  /\ AtMostOnce(Ask(x))' /\ (Queued(Ask(x))' => Queued(Ask(x)))
             /\ Overtaken(x)' => Overtaken(x)
  BY <1>0, <1>1, SendFacts, OvertakenFacts
<1>2. ASSUME NEW m, Receive(m)
      PROVE  /\ AtMostOnce(Ask(x))' /\ (Queued(Ask(x))' => Queued(Ask(x)))
             /\ Overtaken(x)' => Overtaken(x)
  BY <1>0, <1>2, ReceiveFacts, OvertakenFacts
<1>3. ASSUME queue' \in {queue, <<>>}
      PROVE  /\ AtMostOnce(Ask(x))' /\ (Queued(Ask(x))' => Queued(Ask(x)))
             /\ Overtaken(x)' => Overtaken(x)
  BY <1>0, <1>3, OvertakenFacts DEF AtMostOnce, Queued
<1>4. CASE UNCHANGED vars
  BY <1>3, <1>4 DEF vars
<1>5. ASSUME NEW o \in Orders, UploadNext(o)
      PROVE  AskedInv(x)'
  BY <1>1, <1>3, <1>5, RequestTypes, BeginAskDiffer
  DEF UploadNext, StartUpload, CopyFiles, SubmitUpload, AbandonUpload
<1>6. ASSUME NEW o \in Orders, HandleQueryLiveStatus(o)
      PROVE  AskedInv(x)'
  <2>1. Receive(Ask(o))
    BY <1>6 DEF HandleQueryLiveStatus, Ask
  <2>2. x = o => ~Queued(Ask(x))'
    BY <1>0, <2>1, ReceiveFacts
  <2>3. queries'[x].status = queries[x].status
    BY <1>0, <1>6 DEF HandleQueryLiveStatus, Query
  <2>4. x # o => queries'[x] = queries[x]
    BY <1>0, <1>6 DEF HandleQueryLiveStatus
  <2> QED  BY <1>2, <2>1, <2>2, <2>3, <2>4
<1>7. ASSUME NEW o \in Orders, ManagerNext(o), ~HandleQueryLiveStatus(o)
      PROVE  AskedInv(x)'
  <2>1. UNCHANGED queries
    BY <1>7 DEF ManagerNext, HandleAllocateOrder, FailAllocateOrder, FailDeallocate,
       HandleUploadFiles, FailUploadFiles, HandleBeginWork, HandleFinishWork,
       ReapDead, FailReapDead
  <2>2. (\E m : Receive(m)) \/ queue' = queue
    BY <1>7 DEF ManagerNext, HandleAllocateOrder, FailAllocateOrder, FailDeallocate,
       HandleUploadFiles, FailUploadFiles, HandleBeginWork, HandleFinishWork,
       ReapDead, FailReapDead
  <2> QED  BY <1>2, <1>3, <2>1, <2>2
<1>8. ASSUME NEW o \in Orders, Announce(o)
      PROVE  AskedInv(x)'
  <2>1. Send(Begin(o)) /\ UNCHANGED <<queries, orders>>
    BY <1>8 DEF Announce, Begin
  <2>2. AtMostOnce(Ask(x))' /\ (Queued(Ask(x))' => Queued(Ask(x)))
    <3>1. Begin(o) \in ManagerRequest /\ Ask(x) # Begin(o)
      BY RequestTypes, BeginAskDiffer DEF Begin
    <3> QED  BY <1>0, <2>1, <3>1, SendFacts
  <2>3. CASE x # o
    BY <1>1, <2>1, <2>3, RequestTypes, BeginAskDiffer DEF Begin
  <2>4. CASE x = o
    <3>1. orders[x].is_running /\ orders[x].status = NullStatus
      BY <1>8, <2>4 DEF Announce, IndInv, WorkerInv, RowInv
    <3>2. queries'[x].status = NullStatus
      BY <2>1, <3>1 DEF QueryInv
    <3> QED  BY <2>1, <2>2, <3>2
  <2> QED  BY <2>3, <2>4
<1>9. ASSUME NEW o \in Orders, WorkerNext(o), ~Announce(o)
      PROVE  AskedInv(x)'
  <2>1. UNCHANGED queries
    BY <1>9 DEF WorkerNext, LookupAccount, Execute, CommitRecord, AnnounceFinished,
       FailWorker, SendToClosedManager, EndTask
  <2>2. Send(Finish(o)) \/ queue' = queue
    BY <1>9 DEF WorkerNext, LookupAccount, Execute, CommitRecord, AnnounceFinished,
       FailWorker, SendToClosedManager, EndTask, Finish
  <2> QED
    BY <1>1, <1>3, <2>1, <2>2, RequestTypes, BeginAskDiffer DEF Finish
<1>10. ASSUME NEW o \in QueriedOrders, QueryNext(o)
      PROVE  AskedInv(x)'
  <2>1. x # o => queries'[x] = queries[x]
    BY <1>0, <1>10
    DEF QueryNext, ReadRow, ReadNoRow, AskManager, AnswerQuery, Revisit
  <2>2. CASE AskManager(o)
    <3>1. Send(Ask(o)) /\ Ask(o) \in ManagerRequest /\ Ask(o) # Begin(x)
      BY <2>2, RequestTypes, BeginAskDiffer DEF AskManager, Ask
    <3>2. x # o => AskedInv(x)'
      BY <1>1, <2>1, <3>1, BeginAskDiffer
    <3>3. CASE x = o
      <4>1. ~Queued(Ask(x))
        BY <2>2, <3>3 DEF AskManager
      <4>2. AtMostOnce(Ask(x))' /\ (Overtaken(x)' => Overtaken(x))
        BY <1>0, <3>1, <3>3, <4>1, SendFacts, OvertakenFacts
      <4>3. queries'[x].pc = "waiting" /\ queries'[x].status = queries[x].status
        BY <1>0, <2>2, <3>3 DEF AskManager, Query
      <4> QED  BY <4>2, <4>3
    <3> QED  BY <3>2, <3>3
  <2>3. CASE ~AskManager(o)
    <3>1. queue' = queue
      BY <1>10, <2>3 DEF QueryNext, ReadRow, ReadNoRow, AnswerQuery, Revisit
    <3>2. x = o => queries[x].pc # "waiting"
      BY <1>10, <2>3 DEF QueryNext, ReadRow, ReadNoRow, AnswerQuery, Revisit
    <3>3. x = o => ~Queued(Ask(x))
      BY <3>2
    <3>4. x = o => ~Overtaken(x)
      BY <3>3 DEF Overtaken, Queued
    <3> QED  BY <1>3, <2>1, <3>1, <3>3, <3>4
  <2> QED  BY <2>2, <2>3
<1>11. CASE HandlePruneDeadJobs \/ PruneTick \/ SendSpawnedPrune \/ Boot
  BY <1>1, <1>2, <1>3, <1>11, RequestTypes, BeginAskDiffer
  DEF HandlePruneDeadJobs, PruneTick, SendSpawnedPrune, Boot
<1>12. CASE StopManager \/ Exit
  <2>1. queue' = <<>>
    BY <1>12 DEF StopManager, Exit
  <2>2. ~Queued(Ask(x))' /\ ~Overtaken(x)'
    BY <2>1 DEF Queued, Overtaken
  <2> QED  BY <1>3, <2>1, <2>2
<1> QED
  BY <1>4, <1>5, <1>6, <1>7, <1>8, <1>9, <1>10, <1>11, <1>12 DEF Next

ServiceInv ==
  IndInv /\ \A o \in Orders :
    QueryInv(o) /\ SupervisedInv(o) /\ AnnouncedInv(o) /\ AskedInv(o)

LEMMA ServiceInvStep ==
  ASSUME ServiceInv, [Next]_vars
  PROVE  ServiceInv'
<1>1. IndInv /\ IndInv'
  BY IndInvStep DEF ServiceInv
<1>2. ASSUME NEW x \in Orders
      PROVE  QueryInv(x)' /\ SupervisedInv(x)' /\ AnnouncedInv(x)' /\ AskedInv(x)'
  <2>1. QueryInv(x) /\ SupervisedInv(x) /\ AnnouncedInv(x) /\ AskedInv(x)
    BY DEF ServiceInv
  <2>2. Settled(x) => Settled(x)'
    BY <1>1, SettledStays DEF Settled
  <2>3. QueryInv(x)' /\ AskedInv(x)'
    BY <1>1, <2>1, QueryInvStep, AskedStep
  <2>4. CASE UNCHANGED vars
    BY <2>1, <2>3, <2>4 DEF vars, SupervisedInv, AnnouncedInv, AtWork, Settled, Queued
  <2>5. CASE Next
    BY <1>1, <2>1, <2>2, <2>3, <2>5, SupervisedManager, SupervisedWorker,
       SupervisedOthers, AnnouncedManager, AnnouncedWorker, AnnouncedOthers
    DEF Next
  <2> QED  BY <2>4, <2>5
<1> QED  BY <1>1, <1>2 DEF ServiceInv

LEMMA ServiceInvAlways == Spec => []ServiceInv
<1>1. Init => ServiceInv
  BY IndInvInit
  DEF Init, ServiceInv, QueryInv, SupervisedInv, AnnouncedInv, AskedInv, Queued,
      AtMostOnce, AtWork, NoQuery, NoWorker
<1> QED  BY <1>1, ServiceInvStep, PTL DEF Spec

LEMMA OnlyManagerTells ==
  ASSUME TypeOK, [Next]_vars, NEW x \in Orders,
         queries[x].pc = "waiting", queries'[x].pc = "told"
  PROVE  HandleQueryLiveStatus(x)
<1> USE QueriedAssumption DEF TypeOK, disk, maps, bounds, handlers
<1>0. queries \in [Orders -> Query] /\ queries'[x] # queries[x]
  OBVIOUS
<1>1. ASSUME NEW o \in Orders, HandleQueryLiveStatus(o)
      PROVE  o = x
  BY <1>0, <1>1 DEF HandleQueryLiveStatus
<1>2. ASSUME NEW o \in QueriedOrders, QueryNext(o)
      PROVE  FALSE
  <2>1. o = x
    BY <1>0, <1>2 DEF QueryNext, ReadRow, ReadNoRow, AskManager, AnswerQuery, Revisit
  <2> QED  BY <1>2, <2>1 DEF QueryNext, ReadRow, ReadNoRow, AskManager, AnswerQuery, Revisit
<1>3. CASE StopManager \/ Exit
  BY <1>0, <1>3 DEF StopManager, Exit, NoQuery
<1>4. ASSUME NEW o \in Orders, ManagerNext(o), ~HandleQueryLiveStatus(o)
      PROVE  FALSE
  BY <1>0, <1>4 DEF ManagerNext, HandleAllocateOrder, FailAllocateOrder, FailDeallocate,
     HandleUploadFiles, FailUploadFiles, HandleBeginWork, HandleFinishWork,
     ReapDead, FailReapDead
<1>5. ASSUME NEW o \in Orders, UploadNext(o) \/ WorkerNext(o)
      PROVE  FALSE
  BY <1>0, <1>5 DEF UploadNext, StartUpload, CopyFiles, SubmitUpload, AbandonUpload,
     WorkerNext, Announce, LookupAccount, Execute, CommitRecord, AnnounceFinished,
     FailWorker, SendToClosedManager, EndTask
<1>6. CASE HandlePruneDeadJobs \/ PruneTick \/ SendSpawnedPrune \/ Boot \/ UNCHANGED vars
  BY <1>0, <1>6 DEF HandlePruneDeadJobs, PruneTick, SendSpawnedPrune, Boot, vars
<1> QED  BY <1>1, <1>2, <1>3, <1>4, <1>5, <1>6 DEF Next

\* The manager's answer and the row that was read before it make a reply that
\* is true when the manager answers, or an error for one of three reasons.
THEOREM RepliesAreTrue == Spec => AnswerIsTrue
<1>1. ASSUME ServiceInv, [Next]_vars, NEW o \in QueriedOrders,
             queries[o].pc = "waiting", queries'[o].pc = "told"
      PROVE  IsTrueOf(queries'[o], o)
  <2>0. /\ o \in Orders /\ TypeOK /\ queries \in [Orders -> Query]
        /\ workers \in [Orders -> Worker] /\ queue \in Seq(ManagerRequest)
    BY <1>1, QueriedAssumption DEF ServiceInv, IndInv, TypeOK
  <2>1. AnnouncedInv(o) /\ AskedInv(o) /\ SupervisedInv(o) /\ RowInv(o)
    BY <1>1, <2>0 DEF ServiceInv, IndInv
  <2>2. HandleQueryLiveStatus(o)
    BY <1>1, <2>0, OnlyManagerTells
  <2>3. /\ queries'[o] = [queries[o] EXCEPT !.pc = "told", !.live = IsLive(o)]
        /\ server = "up" /\ Receive(Ask(o))
    BY <2>0, <2>2 DEF HandleQueryLiveStatus, Receive, Ask
  <2>4. queries'[o].live = IsLive(o) /\ queries'[o].status = queries[o].status
    BY <2>0, <2>3 DEF Query
  <2>5. workers[o].pc \in WorkerPc
    BY <2>0 DEF Worker
  <2>6. CASE IsLive(o)
    <3>1. AtWork(o)
      BY <2>1, <2>5, <2>6
      DEF AnnouncedInv, IsLive, TerminationClosed, AtWork, WorkerPc
    <3> QED  BY <2>4, <2>6, <3>1 DEF ReplyTo, IsTrueOf
  <2>7. CASE ~IsLive(o) /\ queries[o].status # NullStatus
    <3>1. Len(queue) \in Nat \ {0} /\ queue[1] = Ask(o)
      BY <2>0, <2>3 DEF Receive
    <3>2. ~Queued(Begin(o))
      <4>1. ASSUME NEW j \in 1..Len(queue), queue[j] = Begin(o) PROVE FALSE
        <5>1. j # 1
          BY <3>1, <4>1, BeginAskDiffer DEF Ask
        <5>2. 1 < j /\ 1 \in 1..Len(queue)
          BY <3>1, <5>1
        <5>3. Overtaken(o)
          BY <3>1, <4>1, <5>2 DEF Overtaken
        <5> QED  BY <2>1, <2>7, <5>3 DEF AskedInv
      <4> QED  BY <4>1 DEF Queued
    <3>3. ~AtWork(o)
      BY <2>1, <2>3, <2>7, <3>2
      DEF AnnouncedInv, IsLive, TerminationClosed, AtWork
    <3> QED  BY <2>4, <2>7, <3>3 DEF ReplyTo, IsTrueOf
  <2>8. CASE ~IsLive(o) /\ queries[o].status = NullStatus
    <3>0. SUFFICES NotAnnounced(o) \/ HasFailed(o) \/ orders[o].status # NullStatus
      BY <2>4, <2>8 DEF ReplyTo, IsTrueOf
    <3>2. Queued(Begin(o)) => NotAnnounced(o)
      BY <2>0 DEF Queued, NotAnnounced, Begin, Range
    <3>3. CASE AtWork(o)
      BY <2>1, <2>3, <2>8, <3>2, <3>3
      DEF AnnouncedInv, IsLive, TerminationClosed, AtWork
    <3>4. CASE workers[o].pc \in {"leavingOk", "endedOk"}
      <4>1. Settled(o)
        BY <2>1, <3>4 DEF SupervisedInv
      <4>2. orders[o].status # NullStatus
        BY <2>1, <4>1 DEF RowInv, Settled
      <4> QED  BY <4>2
    <3> QED  BY <2>5, <3>3, <3>4 DEF AtWork, NotAnnounced, HasFailed, WorkerPc
  <2> QED  BY <2>6, <2>7, <2>8
<1>2. ServiceInv /\ [Next]_vars =>
        [\A o \in QueriedOrders :
           queries[o].pc = "waiting" /\ queries'[o].pc = "told"
             => IsTrueOf(queries'[o], o)]_queries
  BY <1>1
<1> QED  BY <1>2, ServiceInvAlways, PTL DEF Spec, AnswerIsTrue

\* Against a single fault, the manager holds a join handle for every order
\* that a worker was given and that still counts as running.
THEOREM JobsAreSupervised == Spec => []EveryJobSupervised
<1>1. ServiceInv => EveryJobSupervised
  BY DEF ServiceInv, SupervisedInv, EveryJobSupervised
<1> QED  BY <1>1, ServiceInvAlways, PTL

-----------------------------------------------------------------------------
(* The refinement.                                                         *)

LEMMA LedgerStep ==
  ASSUME IndInv, [Next]_vars
  PROVE  [Ledger!Next]_(Ledger!vars)
<1> DEFINE phase == [o \in Orders |-> Phase(o)]
           paid  == Charged
<1>0. /\ orders \in [Orders -> Row] /\ orders' \in [Orders -> Row]
      /\ \A o \in Orders : RowInv(o)
  BY TypeStep DEF IndInv, TypeOK
<1>1. CASE UNCHANGED <<orders, balance>>
  BY <1>1 DEF Ledger!vars, Phase, Charged
<1>2. ASSUME NEW o \in Orders, Opens(o)
      PROVE  Ledger!Open(o)
  <2>1. phase[o] = "none" /\ orders[o].status = NullStatus
    BY <1>0, <1>2 DEF Phase, Opens, RowInv
  <2>2. phase' = [phase EXCEPT ![o] = "running"]
    BY <1>0, <1>2 DEF Phase, Opens, RunningRow
  <2>3. paid' = paid
    BY <1>0, <1>2, <2>1 DEF Opens, RunningRow, NullStatus, Charged
  <2> QED
    BY <1>2, <2>1, <2>2, <2>3 DEF Opens, Ledger!Open
<1>3. ASSUME NEW o \in Orders, NEW c \in Costs, Settles(o, c)
      PROVE  Ledger!Settle(o)
  <2>1. phase[o] = "running"
    BY <1>3 DEF Phase, Settles
  <2>2. phase' = [phase EXCEPT ![o] = "settled"]
    BY <1>0, <1>3 DEF Phase, Settles, Row
  <2>3. paid' = [paid EXCEPT ![o] = c]
    BY <1>0, <1>3 DEF Settles, Row, ExitStatus, Charged
  <2> QED
    BY <1>3, <2>1, <2>2, <2>3 DEF Settles, Ledger!Settle
<1>4. ASSUME NEW S \in SUBSET Orders, NEW s \in {ReapedStatus, SweptStatus},
             WritesOff(S, s)
      PROVE  Ledger!WriteOff(S)
  <2>1. \A o \in S : orders[o].present /\ orders[o].is_running
    BY <1>4 DEF WritesOff
  <2>2. \A x \in Orders : orders[x] \in Row
    BY <1>0
  <2>3. s \in Status /\ s.cost = 0
    BY StatusTypes DEF ReapedStatus, SweptStatus
  <2>4. \A x \in S : /\ orders'[x].present = orders[x].present
                     /\ orders'[x].is_running = FALSE
                     /\ orders'[x].status = s
    BY <1>4, <2>2 DEF WritesOff, Row
  <2>5. \A x \in Orders \ S : orders'[x] = orders[x]
    BY <1>4 DEF WritesOff
  <2>6. \A x \in S : Phase(x) = "running"
    BY <2>1 DEF Phase
  <2>7. \A x \in S : Phase(x)' = "settled"
    BY <2>1, <2>4 DEF Phase
  <2>8. \A x \in Orders \ S : Phase(x)' = Phase(x)
    BY <2>5 DEF Phase
  <2>9. phase' = [o \in Orders |-> IF o \in S THEN "settled" ELSE phase[o]]
    BY <2>7, <2>8
  <2>10. \A x \in S : orders[x].status = NullStatus
    BY <1>0, <2>1 DEF RowInv
  <2>11. \A x \in Orders : orders'[x].status.cost = orders[x].status.cost
    BY <2>3, <2>4, <2>5, <2>10 DEF NullStatus
  <2>12. paid' = paid
    BY <2>11 DEF Charged
  <2> QED
    BY <1>4, <2>6, <2>9, <2>12 DEF WritesOff, Ledger!WriteOff
<1>5. DatabaseStep
  BY DatabaseSteps
<1> HIDE DEF phase, paid
<1> QED
  BY <1>1, <1>2, <1>3, <1>4, <1>5 DEF DatabaseStep, Ledger!Next

\* The service implements the promise of OrderLedger: whatever fails, exits or
\* interleaves, an order is settled once and paid for as its record says.
THEOREM LifecycleImplementsLedger == Spec => ImplementsLedger
<1>1. Init => Ledger!Init
  BY DEF Init, Ledger!Init, Phase, NoRow, NullStatus, Charged
<1>2. IndInv /\ [Next]_vars => [Ledger!Next]_(Ledger!vars)
  BY LedgerStep
<1> QED
  BY <1>1, <1>2, IndInvAlways, PTL DEF Spec, ImplementsLedger, Ledger!Spec
=============================================================================
