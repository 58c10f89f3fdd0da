-------------------------- MODULE LiveStatusProofs --------------------------
(***************************************************************************)
(* What holds of LiveStatus for every window and number of samples.        *)
(***************************************************************************)
EXTENDS LiveStatus, TLAPS

\* The manager will never again say that the job runs.
Over ==
  \/ registration = "gone"
  \/ registration = "held" /\ ~term_open

\* What the worker has done, by where it is.
WorkerInv ==
  /\ worker = "executing" => version <= MaxSamples
  /\ worker = "finishing" => recorded
  /\ worker \in {"leaving", "ended"} => recorded \/ failed
  /\ worker = "ended" <=> ~term_open
  /\ registration = "gone" => worker \in {"leaving", "ended"}

\* A page connects because the job was running.  What tells it to reload, and
\* what it is told then, says that the job is over.
PageInv ==
  /\ page \in {"connecting", "live"} => registration # "sent" /\ ~reloaded
  /\ handler = "refusing" => Over
  /\ handler = "open" => registration # "sent"
  /\ \A i \in 1..Len(wire) : wire[i] = Closed => Over
  /\ reloaded => Over
  /\ reloaded /\ page = "asking" => row_recorded \/ failed
  /\ reloaded /\ page = "error" => failed

IndInv == TypeOK /\ WorkerInv /\ PageInv

-----------------------------------------------------------------------------
LEMMA VersionFacts ==
  /\ LastVersion \in Nat /\ MaxSamples \in Nat /\ LastVersion = MaxSamples + 1
  /\ Closed \in Message /\ Closed \notin 0..LastVersion
  /\ \A v : v \in Message <=> v \in 0..LastVersion \/ v = Closed
BY SamplesAssumption DEF LastVersion, Message, Closed

\* A send appends its message and changes none of the others.
LEMMA SendFacts ==
  ASSUME TypeOK, NEW m \in Message, Send(m)
  PROVE  /\ wire' \in Seq(Message)
         /\ \A i \in 1..Len(wire') :
              wire'[i] = m \/ (i \in 1..Len(wire) /\ wire'[i] = wire[i])
<1>1. wire \in Seq(Message) /\ wire' = Append(wire, m)
  BY DEF Send, TypeOK
<1>2. wire' \in Seq(Message) /\ Len(wire') = Len(wire) + 1 /\ Len(wire) \in Nat
  BY <1>1
<1>3. ASSUME NEW i \in 1..Len(wire')
      PROVE  wire'[i] = m \/ (i \in 1..Len(wire) /\ wire'[i] = wire[i])
  <2>1. CASE i = Len(wire) + 1
    BY <1>1, <1>2, <2>1
  <2>2. CASE i # Len(wire) + 1
    <3>1. i \in 1..Len(wire)
      BY <1>2, <2>2
    <3> QED  BY <1>1, <3>1
  <2> QED  BY <2>1, <2>2
<1> QED  BY <1>2, <1>3

\* What is over stays over.
LEMMA OverStays ==
  ASSUME IndInv, [Next]_vars, Over
  PROVE  Over'
<1>1. registration' = registration \/ registration' = "gone"
  BY DEF Next, vars, job, server, client, Over, Sample, Terminate, Commit, Fail,
     SendFinishWork, EndTask, HandleBeginWork, HandleFinishWork, Reap, ReadRow,
     GetStatus, Revisit, Connect, ForwardStatus, SkipStatus, IntervalPasses,
     CloseSocket, HearStop, SendFails, ShowStatus, Reload, PressStop, Leave
<1>2. ~term_open => ~term_open'
  BY DEF Next, vars, job, server, client, IndInv, WorkerInv, Sample, Terminate,
     Commit, Fail, SendFinishWork, EndTask, HandleBeginWork, HandleFinishWork,
     Reap, ReadRow, GetStatus, Revisit, Connect, ForwardStatus, SkipStatus,
     IntervalPasses, CloseSocket, HearStop, SendFails, ShowStatus, Reload,
     PressStop, Leave
<1> QED  BY <1>1, <1>2 DEF Over

LEMMA WorkerStep ==
  ASSUME IndInv, [Next]_vars
  PROVE  WorkerInv'
<1> USE DEF IndInv, TypeOK, WorkerInv, job
<1>1. CASE Sample \/ Terminate \/ Commit
  <2>1. worker' = "executing" => version' <= MaxSamples
    BY <1>1, VersionFacts DEF Sample, Terminate, Commit
  <2> QED  BY <1>1, <2>1 DEF Sample, Terminate, Commit
<1>2. CASE Fail \/ SendFinishWork \/ EndTask
  BY <1>2 DEF Fail, SendFinishWork, EndTask
<1>3. CASE HandleBeginWork \/ HandleFinishWork \/ Reap
  BY <1>3 DEF HandleBeginWork, HandleFinishWork, Reap
<1>4. CASE \/ ReadRow \/ GetStatus \/ Revisit \/ Connect \/ ForwardStatus
           \/ SkipStatus \/ IntervalPasses \/ CloseSocket \/ HearStop \/ SendFails
           \/ ShowStatus \/ Reload \/ PressStop \/ Leave \/ UNCHANGED vars
  <2>1. UNCHANGED <<worker, failed, recorded, term_open, version, registration>>
    BY <1>4 DEF ReadRow, GetStatus, Revisit, Connect, ForwardStatus, SkipStatus,
       IntervalPasses, CloseSocket, HearStop, SendFails, ShowStatus, Reload,
       PressStop, Leave, vars
  <2> QED  BY <2>1
<1> QED  BY <1>1, <1>2, <1>3, <1>4 DEF Next

LEMMA TypeStep ==
  ASSUME IndInv, [Next]_vars
  PROVE  TypeOK'
<1>a. TypeOK
  BY DEF IndInv
<1>1. CASE Sample
  BY <1>a, <1>1, VersionFacts DEF TypeOK, Sample, server, client
<1>2. CASE Terminate
  <2>1. version + 1 \in 0..LastVersion
    <3>1. version \in Nat /\ version <= MaxSamples
      BY <1>2, <1>a, VersionFacts DEF IndInv, WorkerInv, TypeOK, Terminate
    <3> QED  BY <3>1, VersionFacts
  <2>2. /\ worker' = "committing" /\ version' \in 0..LastVersion
        /\ UNCHANGED <<failed, recorded, term_open, cancelled, registration, handler,
                       seen, due, wire, stops, page, row_recorded, shown, reloaded>>
    BY <1>2, <2>1 DEF Terminate, server, client
  <2> QED  BY <1>a, <2>2 DEF TypeOK
<1>3. CASE Commit \/ Fail \/ SendFinishWork \/ EndTask
  <2>1. CASE Commit
    BY <1>a, <2>1 DEF TypeOK, Commit, server, client
  <2>2. CASE Fail
    BY <1>a, <2>2 DEF TypeOK, Fail, server, client
  <2>3. CASE SendFinishWork
    BY <1>a, <2>3 DEF TypeOK, SendFinishWork, server, client
  <2>4. CASE EndTask
    <3>1. /\ worker' = "ended" /\ term_open' \in BOOLEAN
          /\ UNCHANGED <<failed, recorded, version, cancelled, registration, handler,
                         seen, due, wire, stops, page, row_recorded, shown, reloaded>>
      BY <2>4 DEF EndTask, server, client
    <3> QED  BY <1>a, <3>1 DEF TypeOK
  <2> QED  BY <1>3, <2>1, <2>2, <2>3, <2>4
<1>4. CASE HandleBeginWork \/ HandleFinishWork
  BY <1>a, <1>4 DEF TypeOK, HandleBeginWork, HandleFinishWork, job, server, client
<1>5. CASE Reap
  BY <1>a, <1>5 DEF TypeOK, Reap, server, client
<1>6. CASE ReadRow \/ Revisit
  BY <1>a, <1>6 DEF TypeOK, ReadRow, Revisit, job, server, client
<1>7. CASE GetStatus
  BY <1>a, <1>7 DEF TypeOK, GetStatus, job, server, client
<1>8. CASE Connect
  BY <1>a, <1>8, VersionFacts DEF TypeOK, Connect, job, server, client
<1>9. CASE SkipStatus \/ IntervalPasses \/ HearStop \/ SendFails \/ PressStop
  <2>1. CASE SkipStatus
    BY <1>a, <2>1 DEF TypeOK, SkipStatus, job, server, client
  <2>2. CASE IntervalPasses
    BY <1>a, <2>2 DEF TypeOK, IntervalPasses, job, server, client
  <2>3. CASE HearStop
    BY <1>a, <2>3 DEF TypeOK, HearStop, job, server, client
  <2>4. CASE SendFails
    BY <1>a, <2>4 DEF TypeOK, SendFails, job, server, client
  <2>5. CASE PressStop
    BY <1>a, <2>5 DEF TypeOK, PressStop, job, server, client
  <2> QED  BY <1>9, <2>1, <2>2, <2>3, <2>4, <2>5
<1>10. CASE ForwardStatus
  <2>1. version \in Message
    BY <1>a, VersionFacts DEF TypeOK
  <2>2. wire' \in Seq(Message)
    BY <1>a, <1>10, <2>1, SendFacts DEF ForwardStatus
  <2>3. /\ seen' = version /\ due' \in BOOLEAN
        /\ UNCHANGED <<worker, failed, recorded, term_open, version, cancelled,
                       registration, handler, stops, page, row_recorded, shown,
                       reloaded>>
    BY <1>10 DEF ForwardStatus, job, client
  <2> QED  BY <1>a, <2>2, <2>3 DEF TypeOK
<1>11. CASE CloseSocket
  <2>1. wire' \in Seq(Message)
    BY <1>a, <1>11, VersionFacts, SendFacts DEF CloseSocket
  <2> QED  BY <1>a, <1>11, <2>1 DEF TypeOK, CloseSocket, job, client
<1>12. CASE ShowStatus
  <2>1. wire \in Seq(Message) /\ wire # <<>> /\ Head(wire) # Closed
    BY <1>a, <1>12 DEF ShowStatus, TypeOK
  <2>2. Head(wire) \in Message /\ Tail(wire) \in Seq(Message)
    BY <2>1
  <2>3. Head(wire) \in 0..LastVersion
    BY <2>1, <2>2, VersionFacts
  <2> QED  BY <1>a, <1>12, <2>2, <2>3 DEF TypeOK, ShowStatus, job, server
<1>13. CASE Reload
  BY <1>a, <1>13, VersionFacts DEF TypeOK, Reload, job, server
<1>14. CASE Leave
  BY <1>a, <1>14 DEF TypeOK, Leave, job, server
<1>15. CASE UNCHANGED vars
  BY <1>a, <1>15 DEF TypeOK, vars
<1> QED
  BY <1>1, <1>2, <1>3, <1>4, <1>5, <1>6, <1>7, <1>8, <1>9, <1>10, <1>11, <1>12,
     <1>13, <1>14, <1>15 DEF Next

\* An order that is over has its record, unless its worker failed.
LEMMA OverIsSettled ==
  ASSUME IndInv, Over
  PROVE  (recorded \/ failed) /\ ~IsLive
BY DEF IndInv, WorkerInv, Over, IsLive

LEMMA PageStep ==
  ASSUME IndInv, [Next]_vars
  PROVE  PageInv'
<1>a. TypeOK /\ WorkerInv /\ PageInv
  BY DEF IndInv
<1>o. Over => Over'
  BY OverStays
<1>1. CASE \/ Sample \/ Terminate \/ Commit \/ Fail \/ SendFinishWork \/ EndTask
           \/ HandleBeginWork \/ HandleFinishWork \/ Reap \/ SkipStatus
           \/ IntervalPasses \/ HearStop \/ SendFails \/ PressStop \/ UNCHANGED vars
  <2>1. /\ UNCHANGED <<wire, page, reloaded, row_recorded>>
        /\ handler' = handler \/ handler' = "closed"
        /\ failed => failed'
        /\ registration # "sent" => registration' # "sent"
    BY <1>1 DEF job, server, client, Sample, Terminate, Commit, Fail, SendFinishWork,
       EndTask, HandleBeginWork, HandleFinishWork, Reap, SkipStatus,
       IntervalPasses, HearStop, SendFails, PressStop, vars
  <2> QED  BY <1>a, <1>o, <2>1 DEF PageInv
<1>2. CASE ReadRow
  <2>1. reloaded => recorded \/ failed
    BY <1>a, OverIsSettled DEF PageInv
  <2> QED  BY <1>a, <1>o, <1>2, <2>1 DEF ReadRow, PageInv, job, server
<1>3. CASE GetStatus
  <2>1. reloaded => ~IsLive
    BY <1>a, OverIsSettled DEF PageInv
  <2>2. IsLive => registration # "sent"
    BY DEF IsLive
  <2>3. UNCHANGED <<wire, handler, reloaded, failed, registration>>
    BY <1>3 DEF GetStatus, job, server
  <2> QED  BY <1>a, <1>o, <1>3, <2>1, <2>2, <2>3 DEF GetStatus, PageInv
<1>4. CASE Revisit
  BY <1>a, <1>o, <1>4 DEF Revisit, PageInv, job, server
<1>5. CASE Connect
  <2>1. registration # "sent" /\ ~reloaded
    BY <1>a, <1>5 DEF Connect, PageInv
  <2>2. ~IsLive => Over
    <3>1. registration = "held" \/ registration = "gone"
      BY <1>a, <2>1 DEF TypeOK
    <3> QED  BY <3>1 DEF IsLive, Over
  <2>3. /\ page' = "live" /\ Len(wire') = 0
        /\ handler' = IF IsLive THEN "open" ELSE "refusing"
        /\ UNCHANGED <<reloaded, registration>>
    BY <1>5 DEF Connect
  <2> QED  BY <1>o, <2>1, <2>2, <2>3 DEF PageInv
<1>6. CASE ForwardStatus
  <2>1. /\ UNCHANGED <<handler, page, reloaded, row_recorded, failed, registration>>
        /\ Send(version) /\ version \in Message /\ version # Closed
    BY <1>a, <1>6, VersionFacts DEF ForwardStatus, job, client, TypeOK
  <2>2. \A i \in 1..Len(wire') :
          wire'[i] = version \/ (i \in 1..Len(wire) /\ wire'[i] = wire[i])
    BY <1>a, <2>1, SendFacts
  <2> QED  BY <1>a, <1>o, <2>1, <2>2 DEF PageInv
<1>7. CASE CloseSocket
  <2>1. /\ UNCHANGED <<page, reloaded, row_recorded, failed, registration>>
        /\ handler' = "closed" /\ Send(Closed)
    BY <1>7 DEF CloseSocket, job, client
  <2>2. Over
    BY <1>a, <1>7 DEF CloseSocket, PageInv, Over, TypeOK
  <2>3. \A i \in 1..Len(wire') :
          wire'[i] = Closed \/ (i \in 1..Len(wire) /\ wire'[i] = wire[i])
    BY <1>a, <2>1, VersionFacts, SendFacts
  <2> QED  BY <1>a, <1>o, <2>1, <2>2, <2>3 DEF PageInv
<1>8. CASE ShowStatus
  <2>1. /\ UNCHANGED <<page, handler, reloaded, row_recorded, failed, registration>>
        /\ wire # <<>> /\ wire' = Tail(wire) /\ wire \in Seq(Message)
    BY <1>a, <1>8 DEF ShowStatus, job, server, TypeOK
  <2>2. \A i \in 1..Len(wire') : i + 1 \in 1..Len(wire) /\ wire'[i] = wire[i + 1]
    BY <2>1
  <2> QED  BY <1>a, <1>o, <2>1, <2>2 DEF PageInv
<1>9. CASE Reload
  <2>1. /\ page' = "idle" /\ reloaded' = TRUE /\ Len(wire') = 0
        /\ UNCHANGED <<handler, row_recorded, failed, registration>>
        /\ wire # <<>> /\ wire \in Seq(Message) /\ Head(wire) = Closed
    BY <1>a, <1>9 DEF Reload, job, server, TypeOK
  <2>2. 1 \in 1..Len(wire) /\ wire[1] = Closed
    BY <2>1
  <2>3. Over
    BY <1>a, <2>2 DEF PageInv
  <2> QED  BY <1>a, <1>o, <2>1, <2>3 DEF PageInv
<1>10. CASE Leave
  <2>1. /\ page' = "left" /\ Len(wire') = 0
        /\ UNCHANGED <<handler, reloaded, row_recorded, failed, registration>>
    BY <1>10 DEF Leave, job, server
  <2> QED  BY <1>a, <1>o, <2>1 DEF PageInv
<1> QED
  BY <1>1, <1>2, <1>3, <1>4, <1>5, <1>6, <1>7, <1>8, <1>9, <1>10 DEF Next

-----------------------------------------------------------------------------
(* The theorems.                                                           *)

LEMMA InitHolds == Init => IndInv
<1> SUFFICES ASSUME Init PROVE IndInv
  OBVIOUS
<1>1. Len(wire) = 0 /\ wire \in Seq(Message)
  BY DEF Init
<1>2. 0 \in 0..LastVersion
  BY VersionFacts
<1>3. TypeOK
  BY <1>1, <1>2 DEF Init, TypeOK
<1>4. WorkerInv
  BY VersionFacts DEF Init, WorkerInv
<1>5. PageInv
  BY <1>1 DEF Init, PageInv
<1> QED  BY <1>3, <1>4, <1>5 DEF IndInv

LEMMA IndInvAlways == Spec => []IndInv
<1>1. IndInv /\ [Next]_vars => IndInv'
  BY TypeStep, WorkerStep, PageStep DEF IndInv
<1> QED  BY InitHolds, <1>1, PTL DEF Spec

\* Handler, socket and page are well formed, for every window and any number of
\* samples.
THEOREM TypeCorrect == Spec => []TypeOK
<1>1. IndInv => TypeOK
  BY DEF IndInv
<1> QED  BY IndInvAlways, <1>1, PTL

\* Whatever closed the page's socket, the reloaded page finds the record of a
\* worker that did not fail (worker.rs:106-148).
THEOREM ReloadsFindRecords == Spec => []ReloadFindsRecord
<1>1. IndInv => ReloadFindsRecord
  BY DEF IndInv, PageInv, ReloadFindsRecord
<1> QED  BY IndInvAlways, <1>1, PTL
=============================================================================
