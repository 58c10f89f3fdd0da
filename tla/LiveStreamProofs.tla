-------------------------- MODULE LiveStreamProofs --------------------------
(***************************************************************************)
(* What holds of LiveStream for every buffer, window and length of output. *)
(***************************************************************************)
EXTENDS LiveStream, TLAPS

-----------------------------------------------------------------------------
(* The inductive invariant.                                                *)

\* No chunk ends before it begins.
ChunkInv ==
  /\ \A i \in 1..Len(wire) : wire[i].from <= wire[i].to
  /\ message.from <= message.to

\* What the handler has read, and what it knows of the job.
ReadInv ==
  /\ final # NotYet <=> job = "closed"
  /\ final <= written /\ offset <= written
  /\ pending # NotYet => pending <= offset
  /\ handler = "ask" <=> answer = "none"
  /\ handler = "ask" => chunk_id = 0
  /\ answer = "over" => job = "closed"
  /\ terminated => answer # "none" /\ (answer # "early" => job = "closed")
  /\ handler \in {"mark", "close", "closed"} =>
       /\ answer # "none" /\ pending = 0
       /\ answer # "early" => final # NotYet /\ offset >= final

\* The file position up to which chunks have been sent.
SentTo == IF pending = NotYet THEN offset ELSE offset - pending

\* How many chunks have been sent; the final message does not raise chunk_id.
SentCount ==
  IF handler \in {"close", "closed"} THEN chunk_id + 1 ELSE chunk_id

\* The page's text and the chunks under way are, in this order, the file up to
\* SentTo, in consecutive chunks, of which only the last ones may be empty.
WireInv ==
  /\ message.id = last_data_id
  /\ last_data_id = SentCount - Len(wire) - 1
  /\ \A i \in 1..Len(wire) : wire[i].id = last_data_id + i
  /\ wire = <<>> => shown = SentTo
  /\ wire # <<>> => wire[1].from = shown /\ wire[Len(wire)].to = SentTo
  /\ \A i \in 1..Len(wire) - 1 : wire[i].to = wire[i + 1].from
  /\ \A i \in 1..Len(wire) :
       wire[i].from = wire[i].to /\ answer # "early" =>
         final # NotYet /\ wire[i].to >= final

IndInv ==
  /\ TypeOK /\ ChunkInv /\ ReadInv /\ DoneShowsAll
  /\ handler = "ask" => ~is_done
  /\ connected /\ ~is_done => WireInv

-----------------------------------------------------------------------------
USE BufferAssumption DEF NotYet, reader, page

\* Sequences.
LEMMA AppendFacts ==
  ASSUME NEW S, NEW q \in Seq(S), NEW m \in S
  PROVE  /\ Append(q, m) \in Seq(S)
         /\ Len(Append(q, m)) = Len(q) + 1
         /\ \A i \in 1..Len(q) : Append(q, m)[i] = q[i]
         /\ Append(q, m)[Len(q) + 1] = m
OBVIOUS

LEMMA TailFacts ==
  ASSUME NEW S, NEW q \in Seq(S), q # <<>>
  PROVE  /\ Tail(q) \in Seq(S)
         /\ Len(q) \in Nat \ {0} /\ Len(Tail(q)) = Len(q) - 1
         /\ \A i \in 1..Len(q) - 1 : Tail(q)[i] = q[i + 1]
         /\ Head(q) \in S /\ Head(q) = q[1]
OBVIOUS

LEMMA Chunks ==
  /\ \A c \in Chunk : c.id \in Nat /\ c.from \in Nat /\ c.to \in Nat
  /\ \A i, f, t \in Nat : [id |-> i, from |-> f, to |-> t] \in Chunk
  /\ NoChunk.id = -1 /\ NoChunk.from = 0 /\ NoChunk.to = 0
BY DEF Chunk, NoChunk

\* A send appends a chunk that begins at from, ends at to and has that id.
LEMMA SendFacts ==
  ASSUME TypeOK, NEW id \in Nat, NEW from \in Nat, NEW to \in Nat,
         Send(id, from, to)
  PROVE  /\ wire' \in Seq(Chunk)
         /\ Len(wire) \in Nat /\ Len(wire') = Len(wire) + 1
         /\ \A i \in 1..Len(wire) : wire'[i] = wire[i]
         /\ wire'[Len(wire) + 1].id = id
         /\ wire'[Len(wire) + 1].from = from
         /\ wire'[Len(wire) + 1].to = to
<1> DEFINE c == [id |-> id, from |-> from, to |-> to]
<1>1. c \in Chunk /\ c.id = id /\ c.from = from /\ c.to = to
  BY Chunks
<1>2. wire' = Append(wire, c) /\ wire \in Seq(Chunk)
  BY DEF Send, TypeOK
<1> HIDE DEF c
<1>3. Len(wire) \in Nat
  BY <1>2
<1> QED  BY <1>1, <1>2, <1>3, AppendFacts

\* A render shows a chunk or changes nothing.
LEMMA RenderFacts ==
  ASSUME TypeOK, NEW m \in Chunk \cup {NoChunk}, m.from <= m.to, Render(m)
  PROVE  /\ shown' \in Nat /\ is_done' \in BOOLEAN
         /\ last_data_id' \in Nat \cup {NotYet}
<1>1. m.id \in Nat \cup {NotYet} /\ m.from \in Nat /\ m.to \in Nat
  BY Chunks
<1>2. shown + (m.to - m.from) \in Nat
  BY <1>1 DEF TypeOK
<1> QED  BY <1>1, <1>2 DEF Render, TypeOK

LEMMA TypeStep ==
  ASSUME IndInv, [Next]_vars
  PROVE  TypeOK' /\ ChunkInv'
<1> USE DEF TypeOK
<1>a. TypeOK /\ ChunkInv /\ ReadInv
  BY DEF IndInv
<1>0. UNCHANGED <<wire, message>> => ChunkInv'
  BY <1>a DEF ChunkInv
<1>1. CASE Register \/ CreateFile \/ WriteOutput \/ EndJob
  <2>1. UNCHANGED <<wire, message>>
    BY <1>1 DEF Register, CreateFile, WriteOutput, EndJob
  <2>2. Register \/ CreateFile => TypeOK'
    BY <1>a DEF Register, CreateFile
  <2>3. WriteOutput => TypeOK'
    BY <1>a DEF WriteOutput
  <2>4. EndJob => TypeOK'
    BY <1>a DEF EndJob
  <2> QED  BY <1>0, <1>1, <2>1, <2>2, <2>3, <2>4
<1>2. CASE Ask \/ Open \/ NoticeEnd \/ ReadAgain \/ Close \/ SendFails
  <2>1. UNCHANGED <<wire, message>>
    BY <1>2 DEF Ask, Open, NoticeEnd, ReadAgain, Close, SendFails
  <2>2. Ask \/ Open => TypeOK'
    BY <1>a DEF Ask, Open
  <2>3. NoticeEnd \/ ReadAgain \/ Close \/ SendFails => TypeOK'
    BY <1>a DEF NoticeEnd, ReadAgain, Close, SendFails
  <2> QED  BY <1>0, <1>2, <2>1, <2>2, <2>3
<1>3. CASE ReadFile
  <2>1. written - offset \in Nat
    BY <1>a DEF ReadInv
  <2>2. pending' \in Nat /\ offset' \in Nat
    BY <1>a, <1>3, <2>1 DEF ReadFile
  <2> QED  BY <1>a, <1>3, <2>2 DEF ReadFile, ChunkInv
<1>4. ASSUME NEW id \in Nat, NEW from \in Nat, NEW to \in Nat, from <= to,
             Send(id, from, to)
      PROVE  /\ wire' \in Seq(Chunk)
             /\ \A i \in 1..Len(wire') : wire'[i].from <= wire'[i].to
  <2>1. \A i \in 1..Len(wire') : i \in 1..Len(wire) \/ i = Len(wire) + 1
    BY <1>a, <1>4, SendFacts
  <2> QED  BY <1>a, <1>4, <2>1, SendFacts DEF ChunkInv
<1>5. CASE SendChunk
  <2>1. offset - pending \in Nat /\ offset - pending <= offset
    BY <1>a, <1>5 DEF SendChunk, ReadInv
  <2>2. Send(chunk_id, offset - pending, offset)
    BY <1>a, <1>5 DEF SendChunk
  <2>3. /\ wire' \in Seq(Chunk)
        /\ \A i \in 1..Len(wire') : wire'[i].from <= wire'[i].to
    BY <1>a, <1>4, <2>1, <2>2
  <2> QED  BY <1>a, <1>5, <2>3 DEF SendChunk, ChunkInv
<1>6. CASE SendRest
  <2>1. offset <= written /\ Send(chunk_id, offset, written)
    BY <1>a, <1>6 DEF SendRest, EndOfFile, ReadInv
  <2>2. /\ wire' \in Seq(Chunk)
        /\ \A i \in 1..Len(wire') : wire'[i].from <= wire'[i].to
    BY <1>a, <1>4, <2>1
  <2> QED  BY <1>a, <1>6, <2>2 DEF SendRest, EndOfFile, ChunkInv
<1>7. CASE SendMark
  <2>1. Send(chunk_id, offset, offset) /\ offset <= offset
    BY <1>a, <1>7 DEF SendMark
  <2>2. /\ wire' \in Seq(Chunk)
        /\ \A i \in 1..Len(wire') : wire'[i].from <= wire'[i].to
    BY <1>a, <1>4, <2>1
  <2> QED  BY <1>a, <1>7, <2>2 DEF SendMark, ChunkInv
<1>8. CASE Receive
  <2>1. wire \in Seq(Chunk) /\ wire # <<>> /\ wire' = Tail(wire)
    BY <1>a, <1>8 DEF Receive
  <2>2. /\ Head(wire) \in Chunk /\ Head(wire) = wire[1] /\ 1 \in 1..Len(wire)
        /\ wire' \in Seq(Chunk)
        /\ \A i \in 1..Len(wire') : wire'[i] = wire[i + 1] /\ i + 1 \in 1..Len(wire)
    BY <1>a, <2>1, TailFacts
  <2>3. Head(wire).from <= Head(wire).to
    BY <1>a, <2>2 DEF ChunkInv
  <2>4. \A i \in 1..Len(wire') : wire'[i].from <= wire'[i].to
    BY <1>a, <2>2 DEF ChunkInv
  <2>5. Render(Head(wire)) /\ message' = Head(wire)
    BY <1>a, <1>8 DEF Receive
  <2>6. /\ shown' \in Nat /\ is_done' \in BOOLEAN
        /\ last_data_id' \in Nat \cup {NotYet}
    BY <1>a, <2>2, <2>3, <2>5, RenderFacts
  <2> QED  BY <1>a, <1>8, <2>2, <2>3, <2>4, <2>5, <2>6 DEF Receive, ChunkInv
<1>9. CASE RenderAgain
  <2>1. /\ shown' \in Nat /\ is_done' \in BOOLEAN
        /\ last_data_id' \in Nat \cup {NotYet}
    BY <1>a, <1>9, RenderFacts DEF RenderAgain, ChunkInv
  <2> QED  BY <1>a, <1>9, <2>1 DEF RenderAgain, ChunkInv
<1>10. CASE Leave
  <2>1. wire' = <<>> /\ UNCHANGED message
    BY <1>10 DEF Leave
  <2>2. Len(wire') = 0 /\ wire' \in Seq(Chunk)
    BY <2>1
  <2>3. ChunkInv'
    BY <1>a, <2>1, <2>2 DEF ChunkInv
  <2>4. wire' \in Seq(Chunk) /\ connected' \in BOOLEAN
    BY <1>10, <2>2 DEF Leave
  <2>5. UNCHANGED <<job, registered, created, written, final, handler, answer,
                    terminated, pending, offset, chunk_id, last_data_id,
                    message, shown, is_done>>
    BY <1>10 DEF Leave
  <2>6. TypeOK'
    BY <1>a, <2>4, <2>5
  <2> QED  BY <2>3, <2>6
<1>11. CASE UNCHANGED vars
  BY <1>a, <1>11 DEF vars, ChunkInv
<1> QED
  BY <1>1, <1>2, <1>3, <1>5, <1>6, <1>7, <1>8, <1>9, <1>10, <1>11 DEF Next

LEMMA ReadStep ==
  ASSUME IndInv, [Next]_vars
  PROVE  ReadInv'
<1> USE DEF IndInv, TypeOK, ReadInv
<1>1. CASE Register \/ CreateFile \/ WriteOutput \/ EndJob
  BY <1>1 DEF Register, CreateFile, WriteOutput, EndJob
<1>2. CASE Ask \/ Open
  BY <1>2 DEF Ask, Open
<1>3. CASE ReadFile
  BY <1>3 DEF ReadFile
<1>4. CASE NoticeEnd \/ ReadAgain
  BY <1>4 DEF NoticeEnd, ReadAgain
<1>5. CASE SendChunk \/ SendRest \/ SendMark
  BY <1>5 DEF SendChunk, SendRest, SendMark, EndOfFile
<1>6. CASE Close \/ SendFails
  BY <1>6 DEF Close, SendFails
<1>7. CASE Receive \/ RenderAgain \/ Leave
  BY <1>7 DEF Receive, RenderAgain, Leave
<1>8. CASE UNCHANGED vars
  BY <1>8 DEF vars
<1> QED
  BY <1>1, <1>2, <1>3, <1>4, <1>5, <1>6, <1>7, <1>8 DEF Next

\* Steps that leave the page and the socket alone keep the chunks in place.
LEMMA WireFrame ==
  ASSUME WireInv, UNCHANGED <<wire, message, last_data_id, shown>>,
         SentTo' = SentTo, SentCount' = SentCount,
         \/ UNCHANGED <<answer, final>>
         \/ answer = "early" /\ answer' = answer
         \/ wire = <<>>
         \/ final = NotYet /\ UNCHANGED answer
  PROVE  WireInv'
BY DEF WireInv

\* A chunk that follows the ones under way keeps them consecutive.
LEMMA WireGrows ==
  ASSUME IndInv, WireInv, NEW from \in Nat, NEW to \in Nat, from <= to,
         Send(SentCount, from, to),
         from = SentTo, SentTo' = to, SentCount' = SentCount + 1,
         UNCHANGED <<message, last_data_id, shown, answer, final>>,
         from = to /\ answer # "early" => final # NotYet /\ to >= final
  PROVE  WireInv'
<1> USE DEF IndInv
<1>1. SentCount \in Nat
  BY DEF SentCount, TypeOK
<1>2. /\ wire \in Seq(Chunk) /\ wire' \in Seq(Chunk)
      /\ Len(wire) \in Nat /\ Len(wire') = Len(wire) + 1
      /\ \A i \in 1..Len(wire) : wire'[i] = wire[i]
      /\ wire'[Len(wire) + 1].id = SentCount
      /\ wire'[Len(wire) + 1].from = from
      /\ wire'[Len(wire) + 1].to = to
  BY <1>1, SendFacts DEF TypeOK
<1>3. /\ wire' # <<>>
      /\ wire = <<>> <=> Len(wire) = 0
      /\ \A i \in 1..Len(wire') : i \in 1..Len(wire) \/ i = Len(wire) + 1
      /\ \A i \in 1..Len(wire') - 1 : i \in 1..Len(wire)
      /\ \A i \in 1..Len(wire) - 1 : i + 1 \in 1..Len(wire)
  BY <1>2
<1>4. last_data_id \in Int
  BY DEF TypeOK
<1>5. /\ message'.id = last_data_id'
      /\ last_data_id' = SentCount' - Len(wire') - 1
      /\ \A i \in 1..Len(wire') : wire'[i].id = last_data_id' + i
  <2>1. /\ message'.id = last_data_id'
        /\ last_data_id' = SentCount' - Len(wire') - 1
    BY <1>1, <1>2, <1>4 DEF WireInv
  <2>2. last_data_id + (Len(wire) + 1) = SentCount
    BY <1>1, <1>2, <1>4 DEF WireInv
  <2>3. ASSUME NEW i \in 1..Len(wire')
        PROVE  wire'[i].id = last_data_id' + i
    <3>1. CASE i \in 1..Len(wire)
      BY <1>2, <3>1 DEF WireInv
    <3>2. CASE i = Len(wire) + 1
      BY <1>2, <2>2, <3>2
    <3> QED  BY <1>3, <3>1, <3>2
  <2> QED  BY <2>1, <2>3
<1>6. /\ wire'[1].from = shown' /\ wire'[Len(wire')].to = SentTo'
      /\ \A i \in 1..Len(wire') - 1 : wire'[i].to = wire'[i + 1].from
  <2>1. wire'[1].from = shown'
    <3>1. CASE wire = <<>>
      BY <1>2, <1>3, <3>1 DEF WireInv
    <3>2. CASE wire # <<>>
      BY <1>2, <1>3, <3>2 DEF WireInv
    <3> QED  BY <3>1, <3>2
  <2>2. ASSUME NEW i \in 1..Len(wire') - 1
        PROVE  wire'[i].to = wire'[i + 1].from
    <3>1. CASE i = Len(wire)
      BY <1>2, <1>3, <3>1 DEF WireInv
    <3>2. CASE i # Len(wire)
      <4>1. i \in 1..Len(wire) - 1 /\ i + 1 \in 1..Len(wire)
        BY <1>2, <3>2
      <4>2. wire'[i] = wire[i] /\ wire'[i + 1] = wire[i + 1]
        BY <1>2, <4>1
      <4> QED  BY <4>1, <4>2 DEF WireInv
    <3> QED  BY <3>1, <3>2
  <2> QED  BY <1>2, <2>1, <2>2
<1>7. \A i \in 1..Len(wire') :
        wire'[i].from = wire'[i].to /\ answer' # "early" =>
          final' # NotYet /\ wire'[i].to >= final'
  BY <1>2, <1>3 DEF WireInv
<1> QED  BY <1>3, <1>5, <1>6, <1>7 DEF WireInv

\* Nothing is under way before the handler was told of the job.
LEMMA NothingSentYet ==
  ASSUME IndInv, WireInv, handler = "ask"
  PROVE  wire = <<>>
<1>1. Len(wire) \in Nat /\ (wire = <<>> <=> Len(wire) = 0)
  BY DEF IndInv, TypeOK
<1>2. SentCount = 0
  BY DEF IndInv, ReadInv, SentCount
<1>3. last_data_id >= -1
  BY DEF IndInv, TypeOK
<1> QED  BY <1>1, <1>2, <1>3 DEF WireInv

\* The chunk that the page gets is new to it, and it continues the text.
LEMMA ReceiveFacts ==
  ASSUME IndInv, WireInv, Receive, ~is_done
  PROVE  /\ wire # <<>> /\ Head(wire) = wire[1] /\ 1 \in 1..Len(wire)
         /\ wire[1] \in Chunk /\ wire[1].from = shown
         /\ wire[1].id = last_data_id + 1
         /\ message' = wire[1] /\ last_data_id' = wire[1].id
         /\ shown' = wire[1].to
         /\ is_done' = (wire[1].from = wire[1].to)
<1>1. wire \in Seq(Chunk) /\ wire # <<>> /\ last_data_id \in Int /\ shown \in Nat
  BY DEF IndInv, TypeOK, Receive
<1>2. Head(wire) = wire[1] /\ Len(wire) \in Nat \ {0} /\ wire[1] \in Chunk
  BY <1>1, TailFacts
<1>3. 1 \in 1..Len(wire)
  BY <1>2
<1>4. wire[1].from \in Nat /\ wire[1].to \in Nat
  BY <1>2, Chunks
<1>5. wire[1].from = shown /\ wire[1].id = last_data_id + 1
  BY <1>1, <1>3 DEF WireInv
<1>6. IsNew(wire[1])
  BY <1>1, <1>5 DEF IsNew
<1>7. message' = wire[1] /\ Render(wire[1])
  BY <1>2 DEF Receive
<1>8. /\ shown' = shown + (wire[1].to - wire[1].from)
      /\ is_done' = (wire[1].from = wire[1].to)
      /\ last_data_id' = wire[1].id
  BY <1>6, <1>7 DEF Render
<1> QED  BY <1>1, <1>2, <1>3, <1>4, <1>5, <1>7, <1>8

\* A message that was shown is not shown again.
LEMMA RenderAgainIdles ==
  ASSUME IndInv, RenderAgain
  PROVE  UNCHANGED <<shown, is_done, last_data_id>>
<1>1. is_done \/ WireInv
  BY DEF IndInv, RenderAgain
<1>2. is_done \/ ~IsNew(message)
  BY <1>1 DEF WireInv, IsNew
<1> QED  BY <1>2 DEF RenderAgain, Render

LEMMA ReceiveStep ==
  ASSUME IndInv, WireInv, Receive, ~is_done, ~is_done'
  PROVE  WireInv'
<1>1. /\ wire \in Seq(Chunk) /\ wire # <<>> /\ wire' = Tail(wire)
      /\ last_data_id \in Int
      /\ UNCHANGED <<answer, final, handler, chunk_id, pending, offset>>
  BY DEF IndInv, TypeOK, Receive
<1>2. /\ Len(wire) \in Nat \ {0} /\ Len(wire') = Len(wire) - 1
      /\ wire' \in Seq(Chunk)
      /\ \A i \in 1..Len(wire) - 1 : wire'[i] = wire[i + 1]
  BY <1>1, TailFacts
<1>3. SentTo' = SentTo /\ SentCount' = SentCount
  BY <1>1 DEF SentTo, SentCount
<1>4. SentCount \in Nat
  BY DEF SentCount, IndInv, TypeOK
<1>5. /\ message' = wire[1] /\ last_data_id' = wire[1].id
      /\ wire[1].id = last_data_id + 1 /\ shown' = wire[1].to
  BY ReceiveFacts
<1>6. /\ wire' = <<>> <=> Len(wire) = 1
      /\ \A i \in 1..Len(wire') : i \in 1..Len(wire) - 1 /\ i + 1 \in 1..Len(wire)
      /\ \A i \in 1..Len(wire') - 1 :
           i \in 1..Len(wire) - 1 /\ i + 1 \in 1..Len(wire) - 1
  BY <1>2
<1>7. last_data_id' = SentCount' - Len(wire') - 1
  BY <1>1, <1>2, <1>3, <1>4, <1>5 DEF WireInv
<1>8. \A i \in 1..Len(wire') : wire'[i].id = last_data_id' + i
  <2>1. \A i \in 1..Len(wire') : wire'[i].id = last_data_id + (i + 1)
    BY <1>2, <1>6 DEF WireInv
  <2> QED  BY <1>1, <1>5, <2>1
<1>9. wire' = <<>> => shown' = SentTo'
  BY <1>1, <1>3, <1>5, <1>6 DEF WireInv
<1>10. wire' # <<>> => wire'[1].from = shown' /\ wire'[Len(wire')].to = SentTo'
  <2>1. SUFFICES ASSUME wire' # <<>>
                 PROVE  wire'[1].from = shown' /\ wire'[Len(wire')].to = SentTo'
    OBVIOUS
  <2>2. /\ 1 \in 1..Len(wire) - 1 /\ Len(wire) - 1 \in 1..Len(wire) - 1
        /\ (Len(wire) - 1) + 1 = Len(wire) /\ 1 + 1 = 2
    BY <1>2, <1>6, <2>1
  <2>3. wire'[1] = wire[2] /\ wire'[Len(wire')] = wire[Len(wire)]
    BY <1>2, <2>2
  <2>4. wire[1].to = wire[2].from /\ wire[Len(wire)].to = SentTo
    BY <1>1, <2>2 DEF WireInv
  <2> QED  BY <1>3, <1>5, <2>3, <2>4
<1>11. \A i \in 1..Len(wire') - 1 : wire'[i].to = wire'[i + 1].from
  BY <1>2, <1>6 DEF WireInv
<1>12. \A i \in 1..Len(wire') :
         wire'[i].from = wire'[i].to /\ answer' # "early" =>
           final' # NotYet /\ wire'[i].to >= final'
  BY <1>1, <1>2, <1>6 DEF WireInv
<1> QED
  BY <1>5, <1>7, <1>8, <1>9, <1>10, <1>11, <1>12 DEF WireInv

\* While the page is open and not at its end mark, what it shows and what is
\* under way is the file up to SentTo.
LEMMA WireStep ==
  ASSUME IndInv, [Next]_vars, connected', ~is_done'
  PROVE  WireInv'
<1>a. TypeOK /\ ReadInv
  BY DEF IndInv
<1>1. CASE Receive
  <2>1. connected /\ ~is_done
    BY <1>1 DEF Receive, Render
  <2> QED  BY <1>1, <2>1, ReceiveStep DEF IndInv
<1>2. CASE RenderAgain
  <2>1. /\ connected
        /\ UNCHANGED <<wire, message, answer, final, handler, chunk_id, pending,
                       offset>>
    BY <1>2 DEF RenderAgain
  <2>2. UNCHANGED <<shown, is_done, last_data_id>>
    BY <1>2, RenderAgainIdles
  <2>3. SentTo' = SentTo /\ SentCount' = SentCount
    BY <2>1 DEF SentTo, SentCount
  <2>4. WireInv
    BY <2>1, <2>2 DEF IndInv
  <2> QED  BY <2>1, <2>2, <2>3, <2>4, WireFrame
<1>3. CASE Leave
  BY <1>3 DEF Leave
<1>4. CASE Register \/ CreateFile \/ WriteOutput \/ EndJob
  <2>1. UNCHANGED <<reader, wire, page>>
    BY <1>4 DEF Register, CreateFile, WriteOutput, EndJob
  <2>2. WireInv
    BY <2>1 DEF IndInv
  <2>3. SentTo' = SentTo /\ SentCount' = SentCount
    BY <2>1 DEF SentTo, SentCount
  <2>4. UNCHANGED final \/ final = NotYet
    BY <1>a, <1>4 DEF Register, CreateFile, WriteOutput, EndJob, ReadInv
  <2>5. UNCHANGED <<wire, message, last_data_id, shown, answer>>
    BY <2>1
  <2> QED  BY <2>2, <2>3, <2>4, <2>5, WireFrame
<1>5. CASE Ask \/ Open \/ ReadFile \/ NoticeEnd \/ ReadAgain \/ Close
  <2>1. UNCHANGED <<final, wire, page>>
    BY <1>5 DEF Ask, Open, ReadFile, NoticeEnd, ReadAgain, Close
  <2>2. WireInv
    BY <2>1 DEF IndInv
  <2>3. SentTo' = SentTo
    <3>1. Ask \/ Open \/ NoticeEnd \/ Close => UNCHANGED <<pending, offset>>
      BY DEF Ask, Open, NoticeEnd, Close
    <3>2. ReadFile => SentTo' = SentTo
      BY <1>a DEF ReadFile, SentTo, TypeOK, ReadInv
    <3>3. ReadAgain => SentTo' = SentTo
      BY <1>a DEF ReadAgain, SentTo, TypeOK
    <3> QED  BY <1>5, <3>1, <3>2, <3>3 DEF SentTo
  <2>4. SentCount' = SentCount
    <3>1. connected
      BY <2>1
    <3> QED
      BY <1>5, <3>1 DEF Ask, Open, ReadFile, NoticeEnd, ReadAgain, Close, SentCount
  <2>5. UNCHANGED answer \/ wire = <<>>
    <3>1. Ask => wire = <<>>
      BY <2>2, NothingSentYet DEF Ask
    <3> QED
      BY <1>5, <3>1 DEF Open, ReadFile, NoticeEnd, ReadAgain, Close
  <2>6. UNCHANGED <<wire, message, last_data_id, shown, final>>
    BY <2>1
  <2> QED  BY <2>2, <2>3, <2>4, <2>5, <2>6, WireFrame
<1>6. CASE SendChunk \/ SendRest \/ SendMark
  <2>1. UNCHANGED <<answer, final, message, last_data_id, shown, connected, is_done>>
    BY <1>6 DEF SendChunk, SendRest, SendMark
  <2>2. WireInv
    BY <2>1 DEF IndInv
  <2>3. CASE SendChunk
    <3>1. /\ pending \in Nat /\ pending # 0 /\ pending # -1 /\ pending <= offset
          /\ offset \in Nat /\ pending' = -1 /\ offset' = offset
          /\ handler = "stream" /\ handler' = handler /\ chunk_id' = chunk_id + 1
          /\ Send(chunk_id, offset - pending, offset)
      BY <1>a, <2>3 DEF SendChunk, TypeOK, ReadInv
    <3>2. /\ offset - pending \in Nat /\ offset - pending <= offset
          /\ offset - pending # offset
          /\ SentTo = offset - pending /\ SentTo' = offset
      BY <3>1 DEF SentTo
    <3>3. SentCount = chunk_id /\ SentCount' = SentCount + 1
      BY <3>1 DEF SentCount
    <3> QED  BY <2>1, <2>2, <3>1, <3>2, <3>3, WireGrows
  <2>4. CASE SendRest
    <3>1. /\ pending = 0 /\ pending' = 0 /\ offset \in Nat /\ written \in Nat
          /\ offset <= written /\ offset' = written
          /\ handler = "stream" /\ handler' = "mark" /\ chunk_id' = chunk_id + 1
          /\ Send(chunk_id, offset, written)
          /\ answer # "early" => final # NotYet /\ final <= written
          /\ final \in Int
      BY <1>a, <2>4 DEF SendRest, EndOfFile, TypeOK, ReadInv
    <3>2. SentTo = offset /\ SentTo' = written
      BY <3>1 DEF SentTo
    <3>3. SentCount = chunk_id /\ SentCount' = SentCount + 1
      BY <3>1 DEF SentCount
    <3>4. offset = written /\ answer # "early" => final # NotYet /\ written >= final
      BY <3>1
    <3> QED  BY <2>1, <2>2, <3>1, <3>2, <3>3, <3>4, WireGrows
  <2>5. CASE SendMark
    <3>1. /\ pending = 0 /\ pending' = 0 /\ offset \in Nat /\ offset' = offset
          /\ handler = "mark" /\ handler' = "close" /\ chunk_id' = chunk_id
          /\ Send(chunk_id, offset, offset)
          /\ answer # "early" => final # NotYet /\ offset >= final
      BY <1>a, <2>5 DEF SendMark, TypeOK, ReadInv
    <3>2. SentTo = offset /\ SentTo' = offset
      BY <3>1 DEF SentTo
    <3>3. SentCount = chunk_id /\ SentCount' = SentCount + 1
      BY <3>1 DEF SentCount
    <3> QED  BY <2>1, <2>2, <3>1, <3>2, <3>3, WireGrows
  <2> QED  BY <1>6, <2>3, <2>4, <2>5
<1>7. CASE SendFails
  BY <1>7 DEF SendFails
<1>8. CASE UNCHANGED vars
  <2>1. WireInv
    BY <1>8 DEF vars, IndInv
  <2>2. SentTo' = SentTo /\ SentCount' = SentCount
    BY <1>8 DEF vars, SentTo, SentCount
  <2>3. UNCHANGED <<wire, message, last_data_id, shown, answer, final>>
    BY <1>8 DEF vars
  <2> QED  BY <2>1, <2>2, <2>3, WireFrame
<1> QED
  BY <1>1, <1>2, <1>3, <1>4, <1>5, <1>6, <1>7, <1>8 DEF Next

LEMMA DoneStep ==
  ASSUME IndInv, [Next]_vars
  PROVE  DoneShowsAll' /\ (handler' = "ask" => ~is_done')
<1> USE DEF IndInv
<1>1. CASE Receive
  <2>1. UNCHANGED <<answer, final, handler>> /\ connected
    BY <1>1 DEF Receive
  <2>2. CASE is_done
    BY <1>1, <2>1, <2>2 DEF Receive, Render, DoneShowsAll
  <2>3. CASE ~is_done
    <3>1. WireInv
      BY <2>1, <2>3
    <3>2. handler # "ask"
      BY <1>1, <3>1, NothingSentYet DEF Receive
    <3>3. /\ 1 \in 1..Len(wire) /\ shown' = wire[1].to
          /\ is_done' = (wire[1].from = wire[1].to)
      BY <1>1, <2>3, <3>1, ReceiveFacts
    <3>4. wire[1].from = wire[1].to /\ answer # "early" =>
            final # NotYet /\ wire[1].to >= final
      BY <3>1, <3>3 DEF WireInv
    <3> QED  BY <2>1, <3>2, <3>3, <3>4 DEF DoneShowsAll
  <2> QED  BY <2>2, <2>3
<1>2. CASE RenderAgain
  <2>1. UNCHANGED <<answer, final, handler, shown, is_done>>
    BY <1>2, RenderAgainIdles DEF RenderAgain
  <2> QED  BY <2>1 DEF DoneShowsAll
<1>3. CASE EndJob
  BY <1>3 DEF EndJob, DoneShowsAll, ReadInv
<1>4. CASE Ask
  BY <1>4 DEF Ask, DoneShowsAll
<1>5. CASE \/ Register \/ CreateFile \/ WriteOutput \/ Open \/ ReadFile \/ NoticeEnd
           \/ SendChunk \/ ReadAgain \/ SendRest \/ SendMark \/ Close \/ SendFails
           \/ Leave \/ UNCHANGED vars
  <2>1. UNCHANGED <<answer, final, shown, is_done>> /\ (handler' = "ask" => handler = "ask")
    BY <1>5 DEF Register, CreateFile, WriteOutput, Open, ReadFile, NoticeEnd,
       SendChunk, ReadAgain, SendRest, SendMark, Close, SendFails, Leave, vars
  <2> QED  BY <2>1 DEF DoneShowsAll
<1> QED  BY <1>1, <1>2, <1>3, <1>4, <1>5 DEF Next

-----------------------------------------------------------------------------
(* The theorems.                                                           *)

LEMMA InitHolds == Init => IndInv
<1> SUFFICES ASSUME Init PROVE IndInv
  OBVIOUS
<1>1. Len(wire) = 0 /\ wire \in Seq(Chunk)
  BY DEF Init
<1>2. TypeOK
  BY <1>1 DEF Init, TypeOK
<1>3. ChunkInv /\ ReadInv /\ DoneShowsAll /\ (handler = "ask" => ~is_done)
  BY <1>1, Chunks DEF Init, ChunkInv, ReadInv, DoneShowsAll
<1>4. SentTo = 0 /\ SentCount = 0
  BY DEF Init, SentTo, SentCount
<1>5. WireInv
  <2>0. message = NoChunk /\ wire = <<>> /\ shown = 0 /\ last_data_id = -1
    BY DEF Init
  <2>1. message.id = -1 /\ last_data_id = SentCount - Len(wire) - 1
    <3>1. message.id = -1
      BY <2>0, Chunks
    <3> QED  BY <1>1, <1>4, <2>0, <3>1
  <2>2. 1..Len(wire) = {} /\ 1..Len(wire) - 1 = {}
    BY <1>1
  <2> QED  BY <1>4, <2>0, <2>1, <2>2 DEF WireInv
<1> QED  BY <1>2, <1>3, <1>5 DEF IndInv

LEMMA IndInvAlways == Spec => []IndInv
<1>1. IndInv /\ [Next]_vars => IndInv'
  BY TypeStep, ReadStep, DoneStep, WireStep DEF IndInv
<1> QED  BY InitHolds, <1>1, PTL DEF Spec

\* The state of the handler, the wire and the page stays well formed, for every
\* buffer size and length of the output.
THEOREM TypeCorrect == Spec => []TypeOK
<1>1. IndInv => TypeOK
  BY DEF IndInv
<1> QED  BY IndInvAlways, <1>1, PTL

\* The handler never closes a stream before it has sent all that the job wrote
\* until its termination (upload.rs:434-458).
THEOREM StreamIsComplete == Spec => []StreamComplete
<1>1. IndInv => StreamComplete
  BY DEF IndInv, ReadInv, StreamComplete
<1> QED  BY IndInvAlways, <1>1, PTL

\* The page never writes its end mark above missing output
\* (order.rs:516-530).
THEOREM DoneShowsEverything == Spec => []DoneShowsAll
<1>1. IndInv => DoneShowsAll
  BY DEF IndInv
<1> QED  BY IndInvAlways, <1>1, PTL

\* The page never shows a chunk twice and never skips one (order.rs:516-530).
THEOREM OutputStaysInOrder == Spec => OutputInOrder
<1>1. IndInv /\ [Next]_vars =>
        [shown' # shown => wire # <<>> /\ Head(wire).from = shown]_vars
  <2>1. SUFFICES ASSUME IndInv, [Next]_vars, shown' # shown
                 PROVE  wire # <<>> /\ Head(wire).from = shown
    OBVIOUS
  <2>2. CASE Receive
    <3>1. connected /\ ~is_done
      BY <2>1, <2>2 DEF Receive, Render
    <3> QED  BY <2>1, <2>2, <3>1, ReceiveFacts DEF IndInv
  <2>3. CASE RenderAgain
    BY <2>1, <2>3, RenderAgainIdles
  <2>4. CASE \/ Register \/ CreateFile \/ WriteOutput \/ EndJob \/ Ask \/ Open
             \/ ReadFile \/ NoticeEnd \/ SendChunk \/ ReadAgain \/ SendRest
             \/ SendMark \/ Close \/ SendFails \/ Leave \/ UNCHANGED vars
    BY <2>1, <2>4 DEF Register, CreateFile, WriteOutput, EndJob, Ask, Open,
       ReadFile, NoticeEnd, SendChunk, ReadAgain, SendRest, SendMark, Close,
       SendFails, Leave, vars
  <2> QED  BY <2>1, <2>2, <2>3, <2>4 DEF Next
<1> QED  BY IndInvAlways, <1>1, PTL DEF Spec, OutputInOrder
=============================================================================
