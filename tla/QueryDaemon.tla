----------------------------- MODULE QueryDaemon -----------------------------
(***************************************************************************)
(* The query daemon of a node: one detached thread per connection, a       *)
(* LocalCache that downloads objects from S3 into a directory and maps     *)
(* them, and one ApexEngine that all threads share.  The cache holds its   *)
(* mutex from the lookup to the mapping, the engine is used without any.   *)
(*                                                                         *)
(* The directory outlives the process (it is a hostPath volume), and the   *)
(* process may be killed at any moment.  A file is so many chunks, written *)
(* one at a time; a chunk that the file system refuses is not missed by    *)
(* the callback that writes it, nor are those that follow it.  What a      *)
(* query counts is abstracted to the file and predicate it evaluates.      *)
(***************************************************************************)
EXTENDS SqlParser, FiniteSets

CONSTANTS
    Clients,      \* connections that may be open at the same time
    Objects,      \* the objects of the bucket
    Predicates,   \* WHERE clauses
    Text,         \* predicate -> its text
    Endings,     \* texts that may stand behind a predicate's own
    Chunks,       \* chunks of a whole file
    Nobody,       \* no client holds the mutex
    MaxRequests,  \* bound: requests of the history
    MaxUploads,   \* bound: uploads of any object
    MaxKills      \* bound: times the daemon is killed

ASSUME DaemonAssumption ==
    /\ Chunks \in Nat \ {0}
    /\ Nobody \notin Clients
    /\ MaxRequests \in Nat /\ MaxUploads \in Nat /\ MaxKills \in Nat

VARIABLES
    bucket,      \* object -> its version in S3, 0 if it is not there
    disk,        \* object -> the file in the cache directory
    mapped,      \* the keys of cache_
    holder,      \* the client that holds the cache's mutex_
    schemas,     \* the keys of the engine's registry
    expression,  \* object -> the predicates set_expression stored: none or one
    pc,          \* client -> where its thread is
    ask,         \* client -> the object and the predicate of its request
    fetched,     \* client -> chunks curl has handed to its callback
    reply        \* client -> the answers it is about to send: none or one

\* History, not part of the code.
VARIABLES
    requests, kills,
    damaged,     \* objects whose download was killed or not written in full
    answered,    \* <<object, version>> of every answer
    rivals       \* client -> predicates asked of its object meanwhile

history == <<requests, kills, damaged, answered, rivals>>
engine == <<schemas, expression>>
vars == <<bucket, disk, mapped, holder, engine, pc, ask, fetched, reply, history>>

Absent == [version |-> 0, chunks |-> 0, exists |-> FALSE]
File(v, n) == [version |-> v, chunks |-> n, exists |-> TRUE]

\* What SqlParser refuses.
Unparsable == {p \in Predicates : Parse(Text[p]) = {}}

Goto(c, place) == pc' = [pc EXCEPT ![c] = place]

\* The answer is an ERROR; a thread that held the mutex gives it back.
Refused(c) == Goto(c, "reply") /\ reply' = [reply EXCEPT ![c] = {}]
-----------------------------------------------------------------------------
(* The world outside *)

Upload(o) ==
    /\ bucket[o] < MaxUploads
    /\ bucket' = [bucket EXCEPT ![o] = @ + 1]
    /\ UNCHANGED <<disk, mapped, holder, engine, pc, ask, fetched, reply, history>>

\* The process dies, by a signal from outside or by its own fault.
Kill ==
    /\ kills < MaxKills
    /\ kills' = kills + 1
    /\ damaged' = damaged \cup {ask[c].object : c \in {d \in Clients : pc[d] = "download"}}
    /\ mapped' = {} /\ schemas' = {}
    /\ expression' = [o \in Objects |-> {}]
    /\ holder' = Nobody
    /\ pc' = [c \in Clients |-> "idle"]
    /\ reply' = [c \in Clients |-> {}]
    /\ rivals' = [c \in Clients |-> {}]
    /\ UNCHANGED <<bucket, disk, ask, fetched, requests, answered>>
-----------------------------------------------------------------------------
(* HandleClient *)

\* A connection's thread has read a request: QUERY o WHERE p.
Request(c, o, p) ==
    LET Others == {d \in Clients \ {c} : pc[d] # "idle" /\ ask[d].object = o}
    IN  /\ pc[c] = "idle"
        /\ requests < MaxRequests
        /\ requests' = requests + 1
        /\ ask' = [ask EXCEPT ![c] = [object |-> o, predicate |-> p]]
        /\ Goto(c, "lookup")
        /\ rivals' = [d \in Clients |->
               IF d = c THEN {ask[e].predicate : e \in Others}
               ELSE IF d \in Others THEN rivals[d] \cup {p} ELSE rivals[d]]
        /\ UNCHANGED <<bucket, disk, mapped, holder, engine, fetched, reply,
                       kills, damaged, answered>>

\* A request without QUERY or WHERE touches neither cache nor engine.
Malformed(c) ==
    /\ pc[c] = "idle"
    /\ requests < MaxRequests
    /\ requests' = requests + 1
    /\ Refused(c)
    /\ UNCHANGED <<bucket, disk, mapped, holder, engine, ask, fetched,
                   kills, damaged, answered, rivals>>

Reply(c) ==
    /\ pc[c] = "reply"
    /\ Goto(c, "idle")
    /\ answered' = answered \cup {<<ask[c].object, a.version>> : a \in reply[c]}
    /\ reply' = [reply EXCEPT ![c] = {}]
    /\ rivals' = [rivals EXCEPT ![c] = {}]
    /\ UNCHANGED <<bucket, disk, mapped, holder, engine, ask, fetched,
                   requests, kills, damaged>>
-----------------------------------------------------------------------------
(* LocalCache::GetOrDownload *)

MutexIgnored == TRUE                                      \* mutant of MutexFree
MutexFree == holder = Nobody

OnlyMapped(o) == o \in mapped                                \* mutant of OnDisk
OnDisk(o) == disk[o].exists

Hit(c) ==
    /\ pc[c] = "lookup" /\ MutexFree
    /\ ask[c].object \in mapped
    /\ Goto(c, "schema")
    /\ UNCHANGED <<bucket, disk, mapped, holder, engine, ask, fetched, reply, history>>

\* The file is there, since an earlier life of the daemon perhaps.
Find(c) ==
    /\ pc[c] = "lookup" /\ MutexFree
    /\ ask[c].object \notin mapped /\ OnDisk(ask[c].object)
    /\ holder' = c
    /\ Goto(c, "map")
    /\ UNCHANGED <<bucket, disk, mapped, engine, ask, fetched, reply, history>>

StartDownload(c) ==
    LET o == ask[c].object
    IN  /\ pc[c] = "lookup" /\ MutexFree
        /\ o \notin mapped /\ ~OnDisk(o)
        /\ holder' = c
        /\ disk' = [disk EXCEPT ![o] = File(bucket[o], 0)]
        /\ fetched' = [fetched EXCEPT ![c] = 0]
        /\ Goto(c, "download")
        /\ UNCHANGED <<bucket, mapped, engine, ask, reply, history>>

\* The file system takes the chunk, or refuses it and every later one.
WriteChunk(c) ==
    LET o == ask[c].object
    IN  /\ pc[c] = "download"
        /\ disk[o].version # 0 /\ fetched[c] < Chunks
        /\ fetched' = [fetched EXCEPT ![c] = @ + 1]
        /\ \/ /\ disk[o].chunks = fetched[c]
              /\ disk' = [disk EXCEPT ![o].chunks = @ + 1]
              /\ UNCHANGED damaged
           \/ /\ damaged' = damaged \cup {o}
              /\ UNCHANGED disk
        /\ UNCHANGED <<bucket, mapped, holder, engine, pc, ask, reply,
                       requests, kills, answered, rivals>>

EndDownload(c) ==
    /\ pc[c] = "download"
    /\ fetched[c] = Chunks
    /\ Goto(c, "map")
    /\ UNCHANGED <<bucket, disk, mapped, holder, engine, ask, fetched, reply, history>>

StillHeld == holder                                        \* mutant of Unlocked
Unlocked == Nobody

\* The transfer breaks off, or the server refuses it: the file is removed.
FailDownload(c) ==
    /\ pc[c] = "download"
    /\ disk' = [disk EXCEPT ![ask[c].object] = Absent]
    /\ damaged' = damaged \ {ask[c].object}
    /\ holder' = Unlocked
    /\ Refused(c)
    /\ UNCHANGED <<bucket, mapped, engine, ask, fetched, requests, kills, answered, rivals>>

\* An empty file cannot be mapped.
Map(c) ==
    /\ pc[c] = "map"
    /\ holder' = Unlocked
    /\ \/ /\ disk[ask[c].object].chunks > 0
          /\ mapped' = mapped \cup {ask[c].object}
          /\ Goto(c, "schema")
          /\ UNCHANGED reply
       \/ /\ disk[ask[c].object].chunks = 0
          /\ Refused(c)
          /\ UNCHANGED mapped
    /\ UNCHANGED <<bucket, disk, engine, ask, fetched, history>>
-----------------------------------------------------------------------------
(* The engine *)

RegisterSchema(c) ==
    /\ pc[c] = "schema"
    /\ schemas' = schemas \cup {ask[c].object}
    /\ \/ ask[c].predicate \notin Unparsable /\ Goto(c, "parsed") /\ UNCHANGED reply
       \/ ask[c].predicate \in Unparsable /\ Refused(c)
    /\ UNCHANGED <<bucket, disk, mapped, holder, expression, ask, fetched, history>>

\* Mutant: the expression is only set when there is none.
SetExpressionOnce(c) ==
    /\ pc[c] = "parsed"
    /\ expression' = [expression EXCEPT ![ask[c].object] =
                          IF @ = {} THEN {ask[c].predicate} ELSE @]
    /\ Goto(c, "execute")
    /\ UNCHANGED <<bucket, disk, mapped, holder, schemas, ask, fetched, reply, history>>

SetExpression(c) ==
    /\ pc[c] = "parsed"
    /\ expression' = [expression EXCEPT ![ask[c].object] = {ask[c].predicate}]
    /\ Goto(c, "execute")
    /\ UNCHANGED <<bucket, disk, mapped, holder, schemas, ask, fetched, reply, history>>

\* The scan of a file that ends early may also kill the process (Kill).
Execute(c) ==
    /\ pc[c] = "execute"
    /\ reply' = [reply EXCEPT ![c] =
           {[version |-> disk[ask[c].object].version,
             whole |-> disk[ask[c].object].chunks = Chunks,
             predicate |-> p] : p \in expression[ask[c].object]}]
    /\ Goto(c, "reply")
    /\ UNCHANGED <<bucket, disk, mapped, holder, engine, ask, fetched, history>>
-----------------------------------------------------------------------------
Init ==
    /\ bucket = [o \in Objects |-> 0]
    /\ disk = [o \in Objects |-> Absent]
    /\ mapped = {} /\ schemas = {} /\ holder = Nobody
    /\ expression = [o \in Objects |-> {}]
    /\ pc = [c \in Clients |-> "idle"]
    /\ ask \in [Clients -> {[object |-> CHOOSE o \in Objects : TRUE,
                             predicate |-> CHOOSE p \in Predicates : TRUE]}]
    /\ fetched = [c \in Clients |-> 0]
    /\ reply = [c \in Clients |-> {}]
    /\ requests = 0 /\ kills = 0
    /\ damaged = {} /\ answered = {}
    /\ rivals = [c \in Clients |-> {}]

GetOrDownload(c) ==
    \/ Hit(c) \/ Find(c) \/ StartDownload(c) \/ WriteChunk(c) \/ EndDownload(c)
    \/ FailDownload(c) \/ Map(c)

HandleClient(c) ==
    \/ GetOrDownload(c) \/ RegisterSchema(c) \/ SetExpression(c) \/ Execute(c)
    \/ Reply(c)

Next ==
    \/ \E o \in Objects : Upload(o)
    \/ Kill
    \/ \E c \in Clients :
          \/ \E o \in Objects, p \in Predicates : Request(c, o, p)
          \/ Malformed(c)
          \/ HandleClient(c)

Spec == Init /\ [][Next]_vars

\* Threads run.  A transfer has no timeout and need not go on.
FairSpec ==
    Spec /\ \A c \in Clients : WF_vars(pc[c] # "download" /\ HandleClient(c))
-----------------------------------------------------------------------------
(* Properties *)

\* The bytes under a mapping never change, nor does the file behind it: no
\* download truncates or removes a file that another thread's query reads.
MappedFilesAreStill ==
    [][\A o \in mapped \cap mapped' : disk'[o] = disk[o]]_vars

\* An answer is computed from a whole file, unless a download of that object
\* was cut off by a kill or not written in full, which nothing detects later.
AnswersFromWholeFiles ==
    \A c \in Clients : \A a \in reply[c] : a.whole \/ ask[c].object \in damaged

\* All answers about an object are about the same version of it, uploads and
\* restarts notwithstanding: the cache neither mixes versions nor refreshes.
OneVersionPerObject ==
    \A x, y \in answered : x[1] = y[1] => x[2] = y[2]

\* The predicate an answer evaluates is the one its request asked for, or one
\* that was asked of the same object while the request was being handled:
\* the shared engine mixes up no more than queries that overlap.
AnswersAConcurrentQuestion ==
    \A c \in Clients : \A a \in reply[c] :
        a.predicate \in {ask[c].predicate} \cup rivals[c]

\* Why these hold.  One thread at a time is between the lookup and the mapping,
\* and works on a file that is not mapped; a mapped file stays.
Working == {"lookup", "download", "map", "schema", "parsed", "execute"}

Typed ==
    /\ disk \in [Objects -> [version : Nat, chunks : Nat, exists : BOOLEAN]]
    /\ bucket \in [Objects -> Nat]
    /\ mapped \subseteq Objects
    /\ DOMAIN expression = Objects
    /\ pc \in [Clients -> Working \cup {"idle", "reply"}]
    /\ DOMAIN ask = Clients /\ ask = [c \in Clients |-> ask[c]]
    /\ \A c \in Clients : pc[c] \in Working => ask[c].object \in Objects
    /\ fetched \in [Clients -> Nat]
    /\ DOMAIN reply = Clients /\ DOMAIN rivals = Clients

MutexHeld ==
    \A c \in Clients : pc[c] \in {"download", "map"} =>
        holder = c /\ ask[c].object \notin mapped /\ disk[ask[c].object].exists

MappedFilesExist ==
    /\ \A o \in mapped : disk[o].exists
    /\ \A c \in Clients : pc[c] \in {"schema", "parsed", "execute"} =>
           ask[c].object \in mapped
    /\ \A c \in Clients : reply[c] # {} =>
           pc[c] = "reply" /\ ask[c].object \in mapped

\* A file is whole, or a download has gone as far as the file has, or what is
\* missing has been noted.
FilesAccountedFor ==
    /\ \A o \in Objects : disk[o].exists =>
           \/ disk[o].chunks = Chunks
           \/ o \in damaged
           \/ \E c \in Clients : pc[c] = "download" /\ ask[c].object = o
    /\ \A c \in Clients : pc[c] = "download" =>
           \/ disk[ask[c].object].chunks = fetched[c]
           \/ ask[c].object \in damaged

\* An answer tells the version of the file that is there, and always will be.
AnswersTellVersions ==
    /\ \A c \in Clients : \A a \in reply[c] : a.version = disk[ask[c].object].version
    /\ \A x \in answered :
           /\ x[1] \in Objects /\ disk[x[1]].exists /\ x[2] = disk[x[1]].version
           /\ \A c \in Clients : pc[c] = "download" => ask[c].object # x[1]

\* Requests of one object that are worked on together know of each other.
RivalsKnown ==
    /\ \A c, d \in Clients :
           c # d /\ pc[c] \in Working /\ pc[d] \in Working
                /\ ask[c].object = ask[d].object => ask[d].predicate \in rivals[c]
    /\ \A c \in Clients : pc[c] = "execute" =>
           expression[ask[c].object] \subseteq {ask[c].predicate} \cup rivals[c]

DaemonInv ==
    /\ Typed
    /\ MutexHeld
    /\ MappedFilesExist
    /\ FilesAccountedFor
    /\ AnswersFromWholeFiles
    /\ AnswersTellVersions
    /\ RivalsKnown
    /\ AnswersAConcurrentQuestion

\* Predicates that the parser reads as the grammar derives them, by one tree or
\* by none, whatever stands behind them.
ReadAsDerived ==
    {p \in Predicates : \A more \in Endings :
                           Parse(Text[p] \o more) = Derived(Text[p] \o more)}

Sentences == {p \in Predicates : Derived(Text[p]) # {}}

\* The engine is only given expressions that the grammar derives, and the
\* parser reads what a request asks exactly as the grammar does: it refuses
\* nothing that is a sentence, accepts nothing else and builds its only tree.
ExpressionsAreSentences ==
    /\ \A o \in Objects : expression[o] \subseteq Sentences
    /\ \A c \in Clients : pc[c] = "schema" => ask[c].predicate \in ReadAsDerived

\* No transfer stalls for ever, which is up to the other side.
TransfersEnd == \A c \in Clients : []<>(pc[c] # "download")

\* Every request is answered or its connection lost, if transfers end: whichever
\* thread fails, and how, no thread waits for the cache for ever once requests
\* stop coming (MaxRequests).  A transfer that stalls keeps the mutex, and every
\* request, for good.
RequestAnswered ==
    TransfersEnd => \A c \in Clients : pc[c] # "idle" ~> pc[c] = "idle"
=============================================================================
