--------------------------- MODULE S3WriterProofs ---------------------------
(***************************************************************************)
(* Proofs about S3Writer for every number of callers, keys and writes.     *)
(***************************************************************************)
EXTENDS S3Writer, SequenceTheorems, TLAPS

Requests == [number : Nat, key : Keys]

LEMMA RequestTyped ==
  ASSUME NEW n \in Nat, NEW k \in Keys
  PROVE  /\ Request(n, k) \in Requests
         /\ Request(n, k).number = n /\ Request(n, k).key = k
  BY DEF Request, Requests

\* What a push, a pop and an empty queue come to.
LEMMA Pushing ==
  ASSUME NEW S, NEW s \in Seq(S), NEW e \in S
  PROVE  /\ Append(s, e) \in Seq(S)
         /\ Len(Append(s, e)) = Len(s) + 1
         /\ Append(s, e)[Len(s) + 1] = e
         /\ \A i \in 1..Len(s) : Append(s, e)[i] = s[i]
  BY AppendProperties

LEMMA Popping ==
  ASSUME NEW S, NEW s \in Seq(S), s # <<>>
  PROVE  /\ Tail(s) \in Seq(S)
         /\ 0 < Len(s) /\ Len(Tail(s)) = Len(s) - 1
         /\ Head(s) = s[1]
         /\ \A i \in 1..Len(Tail(s)) : Tail(s)[i] = s[i + 1]
<1>1. Len(s) \in Nat /\ 0 < Len(s)
  BY EmptySeq, LenProperties
<1>2. QED
  BY <1>1, HeadTailProperties

\* The requests that wait are within what was submitted.
LEMMA Counting ==
  ASSUME WriterInv
  PROVE  /\ Len(submitted) \in Nat /\ Len(queue) \in Nat
         /\ Taken \in Nat /\ Taken <= Len(submitted)
         /\ Finished \in Nat /\ Finished <= Taken
         /\ activeTasks \in Nat
         /\ queue = <<>> => Taken = Len(submitted)
<1>1. Len(submitted) \in Nat /\ Len(queue) \in Nat
  BY LenProperties DEF WriterInv
<1>2. Taken \in Int /\ Taken <= Len(submitted)
  BY <1>1 DEF Taken
<1>3. Finished \in Nat /\ Finished <= Taken
  BY <1>2 DEF WriterInv, FirstInFirstOut, Finished
<1>4. activeTasks \in Nat
  <2>1. Busy \in {0, 1}
    BY DEF Busy
  <2>2. QED
    BY <1>1, <2>1 DEF WriterInv, TypeOK
<1>5. queue = <<>> => Taken = Len(submitted)
  BY <1>1, Len(<<>>) = 0 DEF Taken
<1>6. QED
  BY <1>1, <1>2, <1>3, <1>4, <1>5

LEMMA InitWriterInv == Init => WriterInv
<1> SUFFICES ASSUME Init PROVE WriterInv
  OBVIOUS
<1>1. Len(queue) = 0 /\ Len(submitted) = 0 /\ Taken = 0 /\ Finished = 0 /\ Busy = 0
  BY DEF Init, Taken, Finished, Busy, Unsettled
<1>2. TypeOK
  <2>1. Len(queue) + Busy = activeTasks
    BY <1>1 DEF Init
  <2>2. bucket \in [Keys -> 0..Len(submitted)]
    BY <1>1 DEF Init
  <2>3. stop \in BOOLEAN /\ (stop <=> owner # "using")
    BY DEF Init
  <2>4. \A i \in 1..Len(queue) : FALSE
    BY <1>1
  <2>5. failed \subseteq settled /\ settled \subseteq Numbers
    BY DEF Init
  <2>6. caller \in [Callers -> {"idle", "notify", "flush", "asleep"}] /\ worker = "check"
    BY DEF Init
  <2>7. QED
    BY <2>1, <2>2, <2>3, <2>4, <2>5, <2>6 DEF TypeOK
<1>3. submitted \in Seq(Keys) /\ queue \in Seq(Requests)
  BY DEF Init
<1>4. FirstInFirstOut /\ EndsEmpty /\ LastUploadWins
  BY <1>1 DEF Init, FirstInFirstOut, EndsEmpty, LastUploadWins
<1>5. QED
  BY <1>1, <1>2, <1>3, <1>4 DEF Init, WriterInv, Requests
-----------------------------------------------------------------------------
LEMMA SubmitKeeps ==
  ASSUME WriterInv, NEW c \in Callers, NEW key \in Keys, Submit(c, key)
  PROVE  WriterInv'
<1> USE DEF outside
<1> DEFINE n == Len(submitted) + 1
           r == Request(n, key)
<1>1. /\ n \in Nat /\ r \in Requests
      /\ submitted' = Append(submitted, key) /\ Len(submitted') = n
      /\ queue' = Append(queue, r)
  BY Counting, RequestTyped, Pushing DEF Submit, Enqueued, WriterInv
<1>2. /\ submitted' \in Seq(Keys) /\ submitted'[n] = key
      /\ \A i \in 1..Len(submitted) : submitted'[i] = submitted[i]
  BY <1>1, Pushing DEF WriterInv
<1>3. /\ queue' \in Seq(Requests) /\ Len(queue') = Len(queue) + 1
      /\ queue'[Len(queue) + 1] = r
      /\ \A i \in 1..Len(queue) : queue'[i] = queue[i]
  BY <1>1, Pushing DEF WriterInv, Requests
<1>4. Taken' = Taken /\ Finished' = Finished /\ Busy' = Busy
  <2>1. worker' = worker
    BY DEF Submit
  <2>2. Taken' = Taken
    BY <1>1, <1>3, Counting DEF Taken
  <2>3. QED
    BY <2>1, <2>2 DEF Finished, Busy, Unsettled
<1>5. TypeOK'
  <2>1. (Len(queue) + Busy = activeTasks)'
    <3>1. Len(queue) + Busy = activeTasks /\ activeTasks' = activeTasks + 1
      BY DEF Submit, WriterInv, TypeOK
    <3>2. Busy \in Nat /\ Len(queue) \in Nat
      BY Counting DEF Busy
    <3>3. QED
      BY <1>3, <1>4, <3>1, <3>2
  <2>2. ASSUME NEW i \in 1..Len(queue')
        PROVE  queue'[i].number \in Numbers' /\ queue'[i].key = submitted'[queue'[i].number]
    <3>1. CASE i = Len(queue) + 1
      BY <1>1, <1>2, <1>3, <3>1, RequestTyped DEF Numbers
    <3>2. CASE i \in 1..Len(queue)
      <4>1. queue[i].number \in Numbers /\ queue[i].key = submitted[queue[i].number]
        BY <3>2 DEF WriterInv, TypeOK
      <4>2. QED
        BY <1>1, <1>2, <1>3, <3>2, <4>1, Counting DEF Numbers
    <3>3. QED
      BY <1>3, <3>1, <3>2, Counting
  <2>3. /\ bucket' \in [Keys -> 0..Len(submitted')]
        /\ failed' \subseteq settled' /\ settled' \subseteq Numbers'
    <3>1. /\ bucket' = bucket /\ failed' = failed /\ settled' = settled
          /\ bucket \in [Keys -> 0..Len(submitted)]
          /\ failed \subseteq settled /\ settled \subseteq 1..Len(submitted)
      BY DEF Submit, WriterInv, TypeOK, Numbers
    <3>2. 0..Len(submitted) \subseteq 0..Len(submitted')
      BY <1>1, Counting
    <3>3. settled' \subseteq 1..Len(submitted')
      BY <1>1, <3>1, Counting
    <3>4. QED
      BY <3>1, <3>2, <3>3 DEF Numbers
  <2>4. QED
    BY <2>1, <2>2, <2>3 DEF Submit, WriterInv, TypeOK
<1>6. FirstInFirstOut'
  <2>1. ASSUME NEW i \in 1..Len(queue')
        PROVE  queue'[i] = Request(Taken' + i, submitted'[Taken' + i])
    <3>1. CASE i = Len(queue) + 1
      BY <1>1, <1>2, <1>3, <1>4, <3>1, Counting DEF Taken
    <3>2. CASE i \in 1..Len(queue)
      <4>1. Taken + i \in 1..Len(submitted)
        BY <3>2, Counting DEF Taken
      <4>2. QED
        BY <1>2, <1>3, <1>4, <3>2, <4>1 DEF WriterInv, FirstInFirstOut
    <3>3. QED
      BY <1>3, <3>1, <3>2, Counting
  <2>2. Busy' = 1 => 1 <= Taken' /\ current' = Request(Taken', submitted'[Taken'])
    BY <1>2, <1>4, Counting DEF Submit, WriterInv, FirstInFirstOut
  <2>3. QED
    BY <1>4, <2>1, <2>2 DEF Submit, WriterInv, FirstInFirstOut
<1>7. LastUploadWins'
  <2>1. settled \subseteq 1..Len(submitted)
    BY DEF WriterInv, TypeOK, Numbers
  <2>2. \A k \in Keys : {m \in settled' \ failed' : submitted'[m] = k}
                         = {m \in settled \ failed : submitted[m] = k}
    BY <1>2, <2>1 DEF Submit
  <2>3. QED
    BY <2>2 DEF Submit, WriterInv, LastUploadWins
<1>8. EndsEmpty'
  BY DEF Submit, WriterInv, EndsEmpty, TypeOK
<1>9. QED
  BY <1>1, <1>2, <1>3, <1>4, <1>5, <1>6, <1>7, <1>8, Counting
     DEF Submit, WriterInv, Requests

LEMMA TestQueueKeeps ==
  ASSUME WriterInv, TestQueue
  PROVE  WriterInv'
<1> USE DEF outside
<1>1. CASE queue' = queue /\ worker' \in {"asleep", "exited"} /\ current' = current
  <2>1. worker = "check" /\ (worker' = "exited" => stop /\ queue = <<>>)
    BY <1>1 DEF TestQueue, MayStop
  <2>2. Busy = 0 /\ Busy' = 0 /\ Taken' = Taken /\ Finished' = Finished
    BY <1>1, <2>1 DEF TestQueue, Busy, Unsettled, Taken, Finished
  <2>3. TypeOK' /\ LastUploadWins'
    BY <1>1, <2>2 DEF TestQueue, WriterInv, TypeOK, Numbers, LastUploadWins
  <2>4. FirstInFirstOut' /\ EndsEmpty'
    BY <1>1, <2>1, <2>2 DEF TestQueue, WriterInv, FirstInFirstOut, EndsEmpty
  <2>5. QED
    BY <1>1, <2>2, <2>3, <2>4 DEF TestQueue, WriterInv
<1>2. CASE queue # <<>> /\ current' = Head(queue) /\ queue' = Remaining /\ worker' = "serialise"
  <2>1. /\ queue' \in Seq(Requests) /\ Len(queue') = Len(queue) - 1 /\ 0 < Len(queue)
        /\ current' = queue[1]
        /\ \A i \in 1..Len(queue') : queue'[i] = queue[i + 1]
    BY <1>2, Popping DEF Remaining, WriterInv, Requests
  <2>2. /\ Busy = 0 /\ Busy' = 1 /\ Taken' = Taken + 1 /\ Finished' = Finished
    BY <1>2, <2>1, Counting DEF TestQueue, Busy, Unsettled, Taken, Finished
  <2>3. TypeOK'
    <3>1. (Len(queue) + Busy = activeTasks)'
      BY <2>1, <2>2, Counting DEF TestQueue, WriterInv, TypeOK
    <3>2. ASSUME NEW i \in 1..Len(queue')
          PROVE  /\ queue'[i].number \in Numbers'
                 /\ queue'[i].key = submitted'[queue'[i].number]
      <4>1. i + 1 \in 1..Len(queue) /\ queue'[i] = queue[i + 1]
        BY <2>1, Counting
      <4>2. queue[i + 1].number \in Numbers /\ queue[i + 1].key = submitted[queue[i + 1].number]
        BY <4>1 DEF WriterInv, TypeOK
      <4>3. QED
        BY <4>1, <4>2 DEF TestQueue, Numbers
    <3>3. QED
      BY <1>2, <3>1, <3>2 DEF TestQueue, WriterInv, TypeOK, Numbers
  <2>4. FirstInFirstOut'
    <3>1. ASSUME NEW i \in 1..Len(queue')
          PROVE  queue'[i] = Request(Taken' + i, submitted'[Taken' + i])
      <4>1. i + 1 \in 1..Len(queue) /\ Taken + (i + 1) = Taken' + i
        BY <2>1, <2>2, Counting
      <4>2. queue[i + 1] = Request(Taken + (i + 1), submitted[Taken + (i + 1)])
        BY <4>1 DEF WriterInv, FirstInFirstOut
      <4>3. QED
        BY <2>1, <4>1, <4>2 DEF TestQueue
    <3>2. current' = Request(Taken', submitted'[Taken'])
      BY <2>1, <2>2, Counting DEF TestQueue, WriterInv, FirstInFirstOut
    <3>3. QED
      BY <2>2, <3>1, <3>2, Counting DEF TestQueue, WriterInv, FirstInFirstOut
  <2>5. EndsEmpty' /\ LastUploadWins'
    BY <1>2 DEF TestQueue, WriterInv, EndsEmpty, LastUploadWins
  <2>6. QED
    BY <2>1, <2>2, <2>3, <2>4, <2>5 DEF TestQueue, WriterInv, Requests
<1>3. QED
  BY <1>1, <1>2 DEF TestQueue

LEMMA SerialiseKeeps ==
  ASSUME WriterInv, Serialise
  PROVE  WriterInv'
<1> USE DEF outside
<1>1. Busy = 1 /\ Busy' = 1 /\ Taken' = Taken /\ Finished' = Finished
  BY DEF Serialise, Busy, Unsettled, Taken, Finished
<1>2. TypeOK' /\ LastUploadWins'
  BY <1>1 DEF Serialise, WriterInv, TypeOK, Numbers, LastUploadWins
<1>3. FirstInFirstOut' /\ EndsEmpty'
  BY <1>1 DEF Serialise, WriterInv, FirstInFirstOut, EndsEmpty
<1>4. QED
  BY <1>1, <1>2, <1>3 DEF Serialise, WriterInv

LEMMA UploadKeeps ==
  ASSUME WriterInv, Upload
  PROVE  WriterInv'
<1>1. /\ current = Request(Taken, submitted[Taken]) /\ 1 <= Taken
      /\ Busy = 1 /\ Busy' = 1 /\ Taken' = Taken
      /\ Finished = Taken - 1 /\ Finished' = Taken
  BY DEF Upload, WriterInv, FirstInFirstOut, Busy, Unsettled, Taken, Finished
<1>2. Taken \in Numbers /\ submitted[Taken] \in Keys
  BY <1>1, Counting, ElementOfSeq DEF Numbers, WriterInv
<1>3. current.number = Taken /\ current.key = submitted[Taken]
  BY <1>1, <1>2, Counting, RequestTyped
<1>4. settled' = 1..Taken /\ settled = 1..(Taken - 1)
  BY <1>1, <1>3, Counting DEF Upload, WriterInv, FirstInFirstOut
<1>5. TypeOK'
  <2>1. bucket' \in [Keys -> 0..Len(submitted)]
    <3>1. bucket \in [Keys -> 0..Len(submitted)] /\ Taken \in 0..Len(submitted)
      BY Counting DEF WriterInv, TypeOK
    <3>2. QED
      BY <1>2, <1>3, <3>1 DEF Upload
  <2>2. failed' \subseteq settled' /\ settled' \subseteq Numbers
    BY <1>2, <1>3, <1>4, Counting DEF Upload, WriterInv, TypeOK, Numbers
  <2>3. QED
    BY <1>1, <2>1, <2>2 DEF Upload, WriterInv, TypeOK, Numbers
<1>6. FirstInFirstOut' /\ EndsEmpty'
  BY <1>1, <1>4, Counting DEF Upload, WriterInv, FirstInFirstOut, EndsEmpty
<1>7. LastUploadWins'
  <2> SUFFICES ASSUME NEW k \in Keys
               PROVE  LET uploaded == {m \in settled' \ failed' : submitted'[m] = k}
                      IN  IF uploaded = {} THEN bucket'[k] = 0
                          ELSE /\ bucket'[k] \in uploaded
                               /\ \A m \in uploaded : m <= bucket'[k]
    BY DEF LastUploadWins
  <2> DEFINE before == {m \in settled \ failed : submitted[m] = k}
             after  == {m \in settled' \ failed' : submitted'[m] = k}
  <2>1. before \subseteq 1..(Taken - 1)
    BY <1>4
  <2>2. CASE bucket' = [bucket EXCEPT ![current.key] = current.number] /\ failed' = failed
    <3>1. Taken \notin failed
      BY <1>4, Counting DEF WriterInv, TypeOK
    <3>2. after = IF k = submitted[Taken] THEN before \cup {Taken} ELSE before
      BY <1>3, <1>4, <2>2, <3>1, Counting DEF Upload
    <3>3. CASE k = submitted[Taken]
      <4>1. bucket'[k] = Taken
        BY <1>3, <2>2, <3>3 DEF WriterInv, TypeOK
      <4>2. QED
        BY <2>1, <3>2, <3>3, <4>1, Counting
    <3>4. CASE k # submitted[Taken]
      <4>1. bucket'[k] = bucket[k]
        BY <1>3, <2>2, <3>4 DEF WriterInv, TypeOK
      <4>2. QED
        BY <3>2, <3>4, <4>1 DEF WriterInv, LastUploadWins
    <3>5. QED
      BY <3>3, <3>4
  <2>3. CASE failed' = failed \cup {current.number} /\ bucket' = bucket
    <3>1. after = before
      BY <1>3, <1>4, <2>3, Counting DEF Upload
    <3>2. QED
      BY <2>3, <3>1 DEF WriterInv, LastUploadWins
  <2>4. QED
    BY <2>2, <2>3 DEF Upload
<1>8. QED
  BY <1>1, <1>5, <1>6, <1>7, Counting DEF Upload, WriterInv

LEMMA SettleKeeps ==
  ASSUME WriterInv, Settle
  PROVE  WriterInv'
<1> USE DEF outside
<1>1. Busy = 1 /\ Busy' = 0 /\ Taken' = Taken /\ Finished' = Finished
  BY DEF Settle, Busy, Unsettled, Taken, Finished
<1>2. TypeOK'
  <2>1. caller' \in [Callers -> {"idle", "notify", "flush", "asleep"}]
    BY DEF Settle, WriterInv, TypeOK
  <2>2. (Len(queue) + Busy = activeTasks)'
    BY <1>1, Counting DEF Settle, WriterInv, TypeOK
  <2>3. QED
    BY <2>1, <2>2 DEF Settle, WriterInv, TypeOK, Numbers
<1>3. FirstInFirstOut' /\ EndsEmpty' /\ LastUploadWins'
  BY <1>1 DEF Settle, WriterInv, FirstInFirstOut, EndsEmpty, LastUploadWins
<1>4. QED
  BY <1>1, <1>2, <1>3 DEF Settle, WriterInv
-----------------------------------------------------------------------------
\* The other steps change neither queue nor bucket.
LEMMA CallersKeep ==
  ASSUME WriterInv, NEW c \in Callers, NotifyWorker(c) \/ BeginFlush(c) \/ TestFlush(c)
  PROVE  WriterInv'
<1> USE DEF outside
<1>1. /\ queue' = queue /\ submitted' = submitted /\ settled' = settled
      /\ current' = current /\ failed' = failed /\ bucket' = bucket
      /\ activeTasks' = activeTasks /\ stop' = stop /\ owner' = owner
      /\ worker' \in {worker, "check"} /\ (worker' # worker => worker = "asleep")
  BY DEF NotifyWorker, BeginFlush, TestFlush, Wake
<1>2. Busy' = Busy /\ Taken' = Taken /\ Finished' = Finished
  BY <1>1 DEF Busy, Unsettled, Taken, Finished
<1>3. caller' \in [Callers -> {"idle", "notify", "flush", "asleep"}]
  BY DEF NotifyWorker, BeginFlush, TestFlush, WriterInv, TypeOK
<1>4. TypeOK'
  BY <1>1, <1>2, <1>3 DEF WriterInv, TypeOK, Numbers
<1>5. FirstInFirstOut' /\ EndsEmpty' /\ LastUploadWins'
  BY <1>1, <1>2 DEF WriterInv, FirstInFirstOut, EndsEmpty, LastUploadWins
<1>6. owed' \in [Callers -> 0..Len(submitted)]
  BY Counting DEF NotifyWorker, BeginFlush, TestFlush, WriterInv
<1>7. flushed' \in 0..Finished
  <2>1. CASE TestFlush(c) /\ NothingLeft
    <3>1. Taken = Len(submitted) /\ Busy = 0
      BY <2>1, Counting, Len(<<>>) = 0 DEF NothingLeft, WriterInv, TypeOK, Busy, Unsettled
    <3>2. Finished = Len(submitted)
      BY <3>1 DEF Finished, Busy, Unsettled
    <3>3. owed[c] \in 0..Finished
      BY <3>2 DEF WriterInv
    <3>4. QED
      BY <2>1, <3>3 DEF TestFlush, WriterInv
  <2>2. CASE ~(TestFlush(c) /\ NothingLeft)
    BY <2>2 DEF NotifyWorker, BeginFlush, TestFlush, WriterInv
  <2>3. QED
    BY <2>1, <2>2
<1>8. QED
  BY <1>1, <1>2, <1>4, <1>5, <1>6, <1>7 DEF WriterInv

LEMMA DestructorKeeps ==
  ASSUME WriterInv, SetStop \/ NotifyStop \/ JoinWorker \/ WakeSpuriously
  PROVE  WriterInv'
<1> USE DEF outside
<1>1. /\ queue' = queue /\ UNCHANGED outside
      /\ current' = current /\ activeTasks' = activeTasks
      /\ worker' \in {worker, "check"} /\ (worker' # worker => worker = "asleep")
  BY DEF SetStop, NotifyStop, JoinWorker, WakeSpuriously, Wake
<1>2. Busy' = Busy /\ Taken' = Taken /\ Finished' = Finished
  BY <1>1 DEF Busy, Unsettled, Taken, Finished
<1>3. caller' \in [Callers -> {"idle", "notify", "flush", "asleep"}]
  BY DEF SetStop, NotifyStop, JoinWorker, WakeSpuriously, WriterInv, TypeOK
<1>4. /\ stop' \in BOOLEAN /\ (stop' <=> owner' # "using") /\ (stop => stop')
      /\ (owner' = "destroyed" => worker' = "exited")
  <2>1. /\ stop \in BOOLEAN /\ (stop <=> owner # "using")
        /\ (owner = "destroyed" => worker = "exited")
    BY DEF WriterInv, TypeOK, EndsEmpty
  <2>2. CASE SetStop
    BY <2>1, <2>2 DEF SetStop
  <2>3. CASE NotifyStop
    BY <2>1, <2>3 DEF NotifyStop
  <2>4. CASE JoinWorker
    BY <2>1, <2>4 DEF JoinWorker
  <2>5. CASE WakeSpuriously
    BY <2>1, <2>5 DEF WakeSpuriously
  <2>6. QED
    BY <2>2, <2>3, <2>4, <2>5
<1>5. TypeOK'
  BY <1>1, <1>2, <1>3, <1>4 DEF WriterInv, TypeOK, Numbers
<1>6. FirstInFirstOut' /\ EndsEmpty' /\ LastUploadWins'
  BY <1>1, <1>2, <1>4 DEF WriterInv, FirstInFirstOut, EndsEmpty, LastUploadWins
<1>7. QED
  BY <1>1, <1>2, <1>5, <1>6 DEF WriterInv
-----------------------------------------------------------------------------
LEMMA NextKeeps == WriterInv /\ [Next]_vars => WriterInv'
<1> SUFFICES ASSUME WriterInv, [Next]_vars PROVE WriterInv'
  OBVIOUS
<1>1. CASE UNCHANGED vars
  <2> USE <1>1 DEF vars, outside
  <2>1. Busy' = Busy /\ Taken' = Taken /\ Finished' = Finished /\ Numbers' = Numbers
    BY DEF Busy, Unsettled, Taken, Finished, Numbers
  <2>2. TypeOK'
    BY <2>1 DEF WriterInv, TypeOK
  <2>3. FirstInFirstOut' /\ EndsEmpty' /\ LastUploadWins'
    BY <2>1 DEF WriterInv, FirstInFirstOut, EndsEmpty, LastUploadWins
  <2>4. QED
    BY <2>1, <2>2, <2>3 DEF WriterInv
<1>2. ASSUME NEW c \in Callers, NEW key \in Keys, Submit(c, key) PROVE WriterInv'
  BY <1>2, SubmitKeeps
<1>3. ASSUME NEW c \in Callers, NotifyWorker(c) \/ BeginFlush(c) \/ TestFlush(c)
      PROVE  WriterInv'
  BY <1>3, CallersKeep
<1>4. CASE WorkerStep \/ Upload
  BY <1>4, TestQueueKeeps, SerialiseKeeps, UploadKeeps, SettleKeeps DEF WorkerStep
<1>5. CASE SetStop \/ NotifyStop \/ JoinWorker \/ WakeSpuriously
  BY <1>5, DestructorKeeps
<1>6. QED
  BY <1>1, <1>2, <1>3, <1>4, <1>5 DEF Next

\* In every state: the types, what active_tasks_ counts, and the order in which
\* writes are settled.
THEOREM WriterCorrect == Spec => []WriterInv
<1>1. QED
  BY InitWriterInv, NextKeeps, PTL DEF Spec

\* active_tasks_ always is what is queued and what the worker is busy with.
THEOREM CounterCorrect == Spec => []TypeOK
<1>1. WriterInv => TypeOK
  BY DEF WriterInv
<1>2. QED
  BY <1>1, WriterCorrect, PTL

\* Flush and the destructor leave no write behind, whoever submitted it.
THEOREM FlushSettles == Spec => []FlushedWritesAreSettled
<1>1. ASSUME WriterInv PROVE FlushedWritesAreSettled
  <2>1. 1..flushed \subseteq settled
    BY <1>1, Counting DEF WriterInv, FirstInFirstOut
  <2>2. CASE owner = "destroyed"
    <3>1. queue = <<>> /\ worker = "exited"
      BY <1>1, <2>2 DEF WriterInv, EndsEmpty
    <3>2. Finished = Len(submitted)
      BY <1>1, <3>1, Counting DEF Finished, Unsettled
    <3>3. QED
      BY <1>1, <2>1, <3>2 DEF FlushedWritesAreSettled, Numbers, WriterInv, FirstInFirstOut
  <2>3. QED
    BY <2>1, <2>2 DEF FlushedWritesAreSettled
<1>2. QED
  BY <1>1, WriterCorrect, PTL

\* An older write of a key never replaces the object of a newer one.
THEOREM UploadsInOrder == Spec => []LastUploadWins
<1>1. WriterInv => LastUploadWins
  BY DEF WriterInv
<1>2. QED
  BY <1>1, WriterCorrect, PTL
=============================================================================
