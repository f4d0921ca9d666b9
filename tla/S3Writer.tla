------------------------------ MODULE S3Writer ------------------------------
(***************************************************************************)
(* The asynchronous S3 writer: callers queue batches with WriteAsync and   *)
(* wait in Flush, one worker thread uploads them, and the destructor stops *)
(* the worker.  The mutex is held inside each action below, never between  *)
(* two; both condition variables are modelled by who sleeps on them, and a *)
(* sleeper tests its condition again whenever it wakes.                    *)
(*                                                                         *)
(* A batch with a column of a type that TransposeBatch does not take ends  *)
(* the process, since nothing catches in the worker.  A failed transfer is *)
(* reported on the error stream and dropped, and one that stalls has no    *)
(* timeout.                                                                *)
(***************************************************************************)
EXTENDS Naturals, Sequences, FiniteSets

CONSTANTS
    Callers,     \* threads that use the writer
    Keys,        \* object names they write
    MaxWrites    \* bound: calls of WriteAsync

ASSUME WriterAssumption == MaxWrites \in Nat

VARIABLES
    queue,       \* queue_: requests not taken by the worker yet
    activeTasks, \* active_tasks_
    stop,        \* stop_
    worker,      \* where the worker thread is
    current,     \* the request it took last
    caller,      \* caller -> where it is
    owner        \* where the thread is that runs the destructor

\* The bucket, and the history of the callers.
VARIABLES
    bucket,      \* key -> number of the write its object is from, 0 if none
    submitted,   \* the keys written, in the order of the queue
    settled,     \* numbers of the writes that were uploaded or failed
    failed,      \* the ones among them that failed
    owed,        \* caller -> writes submitted when its last Flush began
    flushed      \* the largest owed among the Flushes that returned

outside == <<bucket, submitted, settled, failed, owed, flushed>>
vars == <<queue, activeTasks, stop, worker, current, caller, owner, outside>>

Request(number, key) == [number |-> number, key |-> key]

-----------------------------------------------------------------------------
(* Callers *)

Pushed(q, r) == <<r>> \o q                               \* mutant of Enqueued
Enqueued(q, r) == Append(q, r)

\* WriteAsync up to the end of its critical section.
Submit(c, key) ==
    /\ owner = "using"
    /\ caller[c] = "idle"
    /\ Len(submitted) < MaxWrites
    /\ submitted' = Append(submitted, key)
    /\ queue' = Enqueued(queue, Request(Len(submitted'), key))
    /\ activeTasks' = activeTasks + 1
    /\ caller' = [caller EXCEPT ![c] = "notify"]
    /\ UNCHANGED <<stop, worker, current, owner, bucket, settled, failed, owed, flushed>>

NoWake == worker                                              \* mutant of Wake
Wake == IF worker = "asleep" THEN "check" ELSE worker

\* cv_.notify_one at the end of WriteAsync.
NotifyWorker(c) ==
    /\ caller[c] = "notify"
    /\ caller' = [caller EXCEPT ![c] = "idle"]
    /\ worker' = Wake
    /\ UNCHANGED <<queue, activeTasks, stop, current, owner, outside>>

BeginFlush(c) ==
    /\ owner = "using"
    /\ caller[c] = "idle"
    /\ caller' = [caller EXCEPT ![c] = "flush"]
    /\ owed' = [owed EXCEPT ![c] = Len(submitted)]
    /\ UNCHANGED <<queue, activeTasks, stop, worker, current, owner,
                   bucket, submitted, settled, failed, flushed>>

QueueTaken == queue = <<>>                              \* mutant of NothingLeft
NothingLeft == activeTasks = 0 /\ queue = <<>>

\* One test of Flush's condition: it returns, or sleeps on flush_cv_.
TestFlush(c) ==
    /\ caller[c] = "flush"
    /\ \/ /\ NothingLeft
          /\ caller' = [caller EXCEPT ![c] = "idle"]
          /\ flushed' = IF owed[c] > flushed THEN owed[c] ELSE flushed
       \/ /\ ~NothingLeft
          /\ caller' = [caller EXCEPT ![c] = "asleep"]
          /\ UNCHANGED flushed
    /\ UNCHANGED <<queue, activeTasks, stop, worker, current, owner,
                   bucket, submitted, settled, failed, owed>>

-----------------------------------------------------------------------------
(* The worker *)

StopAtOnce == stop                                    \* mutant of MayStop
MayStop == stop /\ queue = <<>>

CopiedQueue == queue                                     \* mutant of Remaining
Remaining == Tail(queue)

\* One test of the worker's condition: it sleeps, ends, or takes a request.
TestQueue ==
    /\ worker = "check"
    /\ \/ /\ ~stop /\ queue = <<>>
          /\ worker' = "asleep"
          /\ UNCHANGED <<queue, current>>
       \/ /\ MayStop
          /\ worker' = "exited"
          /\ UNCHANGED <<queue, current>>
       \/ /\ queue # <<>> /\ ~MayStop
          /\ current' = Head(queue)
          /\ queue' = Remaining
          /\ worker' = "serialise"
    /\ UNCHANGED <<activeTasks, stop, caller, owner, outside>>

\* TransposeBatch builds the file, or throws for what is in the batch.
Serialise ==
    /\ worker = "serialise"
    /\ worker' \in {"transfer", "dead"}
    /\ UNCHANGED <<queue, activeTasks, stop, current, caller, owner, outside>>

\* The end of UploadToS3, whose result is not looked at.
Upload ==
    /\ worker = "transfer"
    /\ worker' = "settle"
    /\ \/ /\ bucket' = [bucket EXCEPT ![current.key] = current.number]
          /\ UNCHANGED failed
       \/ /\ failed' = failed \cup {current.number}
          /\ UNCHANGED bucket
    /\ settled' = settled \cup {current.number}
    /\ UNCHANGED <<queue, activeTasks, stop, current, caller, owner,
                   submitted, owed, flushed>>

\* The end of an iteration; flush_cv_.notify_all when nothing is left.
NotifyUnlessStopped(n, q) == n = 0 /\ q = <<>> /\ stop   \* mutant of FlushersWake
FlushersWake(n, q) == n = 0 /\ q = <<>>

Settle ==
    /\ worker = "settle"
    /\ worker' = "check"
    /\ activeTasks' = activeTasks - 1
    /\ caller' = [c \in Callers |->
           IF caller[c] = "asleep" /\ FlushersWake(activeTasks', queue)
           THEN "flush" ELSE caller[c]]
    /\ UNCHANGED <<queue, stop, current, owner, outside>>

-----------------------------------------------------------------------------
(* The destructor, which nobody may call while another call is running *)

SetStop ==
    /\ owner = "using"
    /\ \A c \in Callers : caller[c] = "idle"
    /\ owner' = "notify"
    /\ stop' = TRUE
    /\ UNCHANGED <<queue, activeTasks, worker, current, caller, outside>>

NotifyStop ==
    /\ owner = "notify"
    /\ owner' = "join"
    /\ worker' = Wake
    /\ UNCHANGED <<queue, activeTasks, stop, current, caller, outside>>

JoinWorker ==
    /\ owner = "join"
    /\ worker = "exited"
    /\ owner' = "destroyed"
    /\ UNCHANGED <<queue, activeTasks, stop, worker, current, caller, outside>>

-----------------------------------------------------------------------------
\* A wait of a condition variable may end for no reason.
WakeSpuriously ==
    \/ /\ worker = "asleep"
       /\ worker' = "check"
       /\ UNCHANGED <<queue, activeTasks, stop, current, caller, owner, outside>>
    \/ \E c \in Callers :
          /\ caller[c] = "asleep"
          /\ caller' = [caller EXCEPT ![c] = "flush"]
          /\ UNCHANGED <<queue, activeTasks, stop, worker, current, owner, outside>>

Init ==
    /\ queue = <<>>
    /\ activeTasks = 0
    /\ stop = FALSE
    /\ worker = "check"
    /\ current = Request(0, CHOOSE k \in Keys : TRUE)
    /\ caller = [c \in Callers |-> "idle"]
    /\ owner = "using"
    /\ bucket = [k \in Keys |-> 0]
    /\ submitted = <<>>
    /\ settled = {} /\ failed = {}
    /\ owed = [c \in Callers |-> 0]
    /\ flushed = 0

WorkerStep == TestQueue \/ Serialise \/ Settle

Next ==
    /\ worker # "dead"
    /\ \/ \E c \in Callers :
             \/ \E key \in Keys : Submit(c, key)
             \/ NotifyWorker(c) \/ BeginFlush(c) \/ TestFlush(c)
       \/ WorkerStep \/ Upload
       \/ SetStop \/ NotifyStop \/ JoinWorker
       \/ WakeSpuriously

Spec == Init /\ [][Next]_vars

Alive(A) == worker # "dead" /\ A

\* Threads that are awake go on; no call need be made, no sleeper is woken by
\* chance, and a transfer need not end.
Fairness ==
    /\ WF_vars(Alive(WorkerStep))
    /\ \A c \in Callers : WF_vars(Alive(NotifyWorker(c))) /\ WF_vars(Alive(TestFlush(c)))
    /\ WF_vars(Alive(NotifyStop)) /\ WF_vars(Alive(JoinWorker))

FairSpec == Spec /\ Fairness

-----------------------------------------------------------------------------
(* Properties *)

Numbers == 1..Len(submitted)
Unsettled == worker \in {"serialise", "transfer", "dead"}
Busy == IF Unsettled \/ worker = "settle" THEN 1 ELSE 0

\* Types, and the counter: active_tasks_ counts what is queued and what the
\* worker has taken and not finished.
TypeOK ==
    /\ Len(queue) + Busy = activeTasks
    /\ \A i \in 1..Len(queue) : queue[i].number \in Numbers
                              /\ queue[i].key = submitted[queue[i].number]
    /\ stop \in BOOLEAN /\ (stop <=> owner # "using")
    /\ worker \in {"check", "asleep", "serialise", "transfer", "settle", "exited", "dead"}
    /\ caller \in [Callers -> {"idle", "notify", "flush", "asleep"}]
    /\ bucket \in [Keys -> 0..Len(submitted)]
    /\ failed \subseteq settled /\ settled \subseteq Numbers

\* When a Flush has returned, every write submitted before it was called,
\* by any thread, has been uploaded or has failed; when the destructor has
\* returned, every write.
FlushedWritesAreSettled ==
    /\ 1..flushed \subseteq settled
    /\ owner = "destroyed" => settled = Numbers

\* The object of a key is the one submitted last among the writes of that
\* key whose upload worked, in every state: uploads keep the queue's order.
LastUploadWins ==
    \A k \in Keys :
        LET uploaded == {n \in settled \ failed : submitted[n] = k}
        IN  IF uploaded = {} THEN bucket[k] = 0
            ELSE bucket[k] \in uploaded /\ \A n \in uploaded : n <= bucket[k]

\* Why these hold: the queue and the request the worker has are the last ones
\* submitted, in order, so that the writes settled are the first ones.
Taken == Len(submitted) - Len(queue)
Finished == IF Unsettled THEN Taken - 1 ELSE Taken

FirstInFirstOut ==
    /\ \A i \in 1..Len(queue) : queue[i] = Request(Taken + i, submitted[Taken + i])
    /\ Busy = 1 => 1 <= Taken /\ current = Request(Taken, submitted[Taken])
    /\ 0 <= Finished /\ settled = 1..Finished

\* The worker ends only after stop_ is set, when nothing can be queued.
EndsEmpty ==
    /\ worker = "exited" => stop /\ queue = <<>>
    /\ owner = "destroyed" => worker = "exited"

WriterInv ==
    /\ TypeOK
    /\ submitted \in Seq(Keys)
    /\ queue \in Seq([number : Nat, key : Keys])
    /\ owed \in [Callers -> 0..Len(submitted)]
    /\ flushed \in 0..Finished
    /\ FirstInFirstOut
    /\ EndsEmpty
    /\ LastUploadWins

\* curl gives up no transfer that stalls: that each of them ends is up to the
\* other side.
TransfersEnd == []<>(worker # "transfer")

\* A Flush returns if transfers end, once the callers stop adding writes
\* (MaxWrites), or a batch ends the process: no wakeup is lost between
\* WriteAsync and the worker, or the worker and Flush.
FlushReturns ==
    TransfersEnd =>
        \A c \in Callers : caller[c] = "flush" ~> caller[c] = "idle" \/ worker = "dead"

\* So does the destructor: a worker asleep, or busy, when stop_ is set ends.
DestructorReturns ==
    TransfersEnd => (owner = "notify" ~> owner = "destroyed" \/ worker = "dead")
=============================================================================
