-------------------------- MODULE QueryDaemonProofs --------------------------
(***************************************************************************)
(* Proofs about QueryDaemon for every number of connections, objects,      *)
(* chunks, uploads and kills: what the cache hands out is still, whole and *)
(* of one version, and an answer mixes up no more than requests that       *)
(* overlap.                                                                *)
(***************************************************************************)
EXTENDS QueryDaemon, TLAPS

LEMMA InitDaemonInv == Init => DaemonInv
<1> SUFFICES ASSUME Init PROVE DaemonInv
  OBVIOUS
<1>1. Typed
  BY DEF Init, Typed, Absent, Working
<1>2. MutexHeld /\ MappedFilesExist
  BY DEF Init, MutexHeld, MappedFilesExist
<1>3. FilesAccountedFor /\ AnswersFromWholeFiles /\ AnswersTellVersions
  BY DEF Init, FilesAccountedFor, AnswersFromWholeFiles, AnswersTellVersions, Absent
<1>4. RivalsKnown /\ AnswersAConcurrentQuestion
  BY DEF Init, RivalsKnown, AnswersAConcurrentQuestion, Working
<1>5. QED
  BY <1>1, <1>2, <1>3, <1>4 DEF DaemonInv
-----------------------------------------------------------------------------
(* The world outside *)

LEMMA UploadKeeps ==
  ASSUME DaemonInv, NEW o \in Objects, Upload(o)
  PROVE  DaemonInv'
<1> USE DEF engine, history
<1>1. Typed'
  BY DEF Upload, DaemonInv, Typed
<1>2. MutexHeld' /\ MappedFilesExist'
  BY DEF Upload, DaemonInv, MutexHeld, MappedFilesExist
<1>3. FilesAccountedFor' /\ AnswersFromWholeFiles' /\ AnswersTellVersions'
  BY DEF Upload, DaemonInv, FilesAccountedFor, AnswersFromWholeFiles, AnswersTellVersions
<1>4. RivalsKnown' /\ AnswersAConcurrentQuestion'
  BY DEF Upload, DaemonInv, RivalsKnown, AnswersAConcurrentQuestion
<1>5. QED
  BY <1>1, <1>2, <1>3, <1>4 DEF DaemonInv

LEMMA KillKeeps ==
  ASSUME DaemonInv, Kill
  PROVE  DaemonInv'
<1>1. Typed'
  BY DEF Kill, DaemonInv, Typed, Working
<1>2. MutexHeld' /\ MappedFilesExist'
  BY DEF Kill, MutexHeld, MappedFilesExist
<1>3. FilesAccountedFor'
  <2>1. damaged' = damaged \cup {ask[c].object : c \in {d \in Clients : pc[d] = "download"}}
    BY DEF Kill
  <2>2. disk' = disk /\ \A c \in Clients : pc'[c] = "idle"
    BY DEF Kill
  <2>3. QED
    BY <2>1, <2>2 DEF DaemonInv, FilesAccountedFor
<1>4. AnswersFromWholeFiles' /\ AnswersTellVersions'
  BY DEF Kill, DaemonInv, AnswersFromWholeFiles, AnswersTellVersions
<1>5. RivalsKnown' /\ AnswersAConcurrentQuestion'
  BY DEF Kill, RivalsKnown, AnswersAConcurrentQuestion, Working
<1>6. QED
  BY <1>1, <1>2, <1>3, <1>4, <1>5 DEF DaemonInv
-----------------------------------------------------------------------------
(* HandleClient *)

LEMMA RequestKeeps ==
  ASSUME DaemonInv, NEW c \in Clients, NEW o \in Objects, NEW p \in Predicates,
         Request(c, o, p)
  PROVE  DaemonInv'
<1> USE DEF engine, Goto
<1>1. /\ pc[c] = "idle" /\ pc' = [pc EXCEPT ![c] = "lookup"]
      /\ ask' = [ask EXCEPT ![c] = [object |-> o, predicate |-> p]]
      /\ UNCHANGED <<bucket, disk, mapped, holder, engine, fetched, reply, damaged, answered>>
  BY DEF Request
<1>2. /\ ask'[c].object = o /\ ask'[c].predicate = p /\ pc'[c] = "lookup"
      /\ \A d \in Clients \ {c} : ask'[d] = ask[d] /\ pc'[d] = pc[d]
  BY <1>1 DEF DaemonInv, Typed
<1>3. reply[c] = {}
  BY <1>1 DEF DaemonInv, MappedFilesExist
<1>4. Typed'
  BY <1>1 DEF Request, DaemonInv, Typed, Working
<1>5. MutexHeld' /\ MappedFilesExist'
  BY <1>1, <1>2, <1>3 DEF DaemonInv, MutexHeld, MappedFilesExist
<1>6. FilesAccountedFor' /\ AnswersFromWholeFiles' /\ AnswersTellVersions'
  BY <1>1, <1>2, <1>3 DEF DaemonInv, FilesAccountedFor, AnswersFromWholeFiles,
                          AnswersTellVersions
<1> DEFINE Others == {d \in Clients \ {c} : pc[d] # "idle" /\ ask[d].object = o}
<1>7. /\ rivals'[c] = {ask[e].predicate : e \in Others}
      /\ \A d \in Others : rivals'[d] = rivals[d] \cup {p}
      /\ \A d \in Clients \ {c} : rivals[d] \subseteq rivals'[d]
  BY DEF Request
<1>8. RivalsKnown'
  <2>1. ASSUME NEW x \in Clients, NEW y \in Clients, x # y,
               pc'[x] \in Working, pc'[y] \in Working, ask'[x].object = ask'[y].object
        PROVE  ask'[y].predicate \in rivals'[x]
    <3>1. CASE x = c
      BY <1>2, <1>7, <2>1, <3>1 DEF Working
    <3>2. CASE y = c
      BY <1>2, <1>7, <2>1, <3>2 DEF Working
    <3>3. CASE x # c /\ y # c
      BY <1>2, <1>7, <2>1, <3>3 DEF DaemonInv, RivalsKnown
    <3>4. QED
      BY <3>1, <3>2, <3>3
  <2>2. ASSUME NEW x \in Clients, pc'[x] = "execute"
        PROVE  expression'[ask'[x].object] \subseteq {ask'[x].predicate} \cup rivals'[x]
    BY <1>1, <1>2, <1>7, <2>2 DEF DaemonInv, RivalsKnown
  <2>3. QED
    BY <2>1, <2>2 DEF RivalsKnown
<1>9. AnswersAConcurrentQuestion'
  BY <1>1, <1>2, <1>3, <1>7 DEF DaemonInv, AnswersAConcurrentQuestion
<1>10. QED
  BY <1>4, <1>5, <1>6, <1>8, <1>9 DEF DaemonInv

LEMMA MalformedKeeps ==
  ASSUME DaemonInv, NEW c \in Clients, Malformed(c)
  PROVE  DaemonInv'
<1> USE DEF engine, Goto, Refused
<1>1. /\ pc[c] = "idle" /\ pc' = [pc EXCEPT ![c] = "reply"]
      /\ reply' = [reply EXCEPT ![c] = {}]
      /\ UNCHANGED <<bucket, disk, mapped, holder, engine, ask, fetched, damaged,
                     answered, rivals>>
  BY DEF Malformed
<1>2. /\ pc'[c] = "reply" /\ reply'[c] = {}
      /\ \A d \in Clients \ {c} : pc'[d] = pc[d] /\ reply'[d] = reply[d]
  BY <1>1 DEF DaemonInv, Typed
<1>3. Typed'
  BY <1>1 DEF DaemonInv, Typed, Working
<1>4. MutexHeld' /\ MappedFilesExist'
  BY <1>1, <1>2 DEF DaemonInv, MutexHeld, MappedFilesExist
<1>5. FilesAccountedFor' /\ AnswersFromWholeFiles' /\ AnswersTellVersions'
  BY <1>1, <1>2 DEF DaemonInv, FilesAccountedFor, AnswersFromWholeFiles, AnswersTellVersions
<1>6. RivalsKnown' /\ AnswersAConcurrentQuestion'
  BY <1>1, <1>2 DEF DaemonInv, RivalsKnown, AnswersAConcurrentQuestion, Working
<1>7. QED
  BY <1>3, <1>4, <1>5, <1>6 DEF DaemonInv

LEMMA ReplyKeeps ==
  ASSUME DaemonInv, NEW c \in Clients, Reply(c)
  PROVE  DaemonInv'
<1> USE DEF engine, Goto
<1>1. /\ pc[c] = "reply" /\ pc' = [pc EXCEPT ![c] = "idle"]
      /\ reply' = [reply EXCEPT ![c] = {}] /\ rivals' = [rivals EXCEPT ![c] = {}]
      /\ answered' = answered \cup {<<ask[c].object, a.version>> : a \in reply[c]}
      /\ UNCHANGED <<bucket, disk, mapped, holder, engine, ask, fetched, damaged>>
  BY DEF Reply
<1>2. /\ pc'[c] = "idle" /\ reply'[c] = {}
      /\ \A d \in Clients \ {c} : pc'[d] = pc[d] /\ reply'[d] = reply[d]
                                             /\ rivals'[d] = rivals[d]
  BY <1>1 DEF DaemonInv, Typed
<1>3. Typed'
  BY <1>1 DEF DaemonInv, Typed, Working
<1>4. MutexHeld' /\ MappedFilesExist'
  BY <1>1, <1>2 DEF DaemonInv, MutexHeld, MappedFilesExist
<1>5. FilesAccountedFor' /\ AnswersFromWholeFiles'
  BY <1>1, <1>2 DEF DaemonInv, FilesAccountedFor, AnswersFromWholeFiles
<1>6. AnswersTellVersions'
  <2>1. ASSUME NEW a \in reply[c]
        PROVE  LET x == <<ask[c].object, a.version>>
               IN  /\ x[1] \in Objects /\ disk[x[1]].exists
                   /\ x[2] = disk[x[1]].version
                   /\ \A d \in Clients : pc[d] = "download" => ask[d].object # x[1]
    <3>1. ask[c].object \in mapped
      BY <2>1 DEF DaemonInv, MappedFilesExist
    <3>2. a.version = disk[ask[c].object].version
      BY <2>1 DEF DaemonInv, AnswersTellVersions
    <3>3. disk[ask[c].object].exists /\ ask[c].object \in Objects
      BY <3>1 DEF DaemonInv, MappedFilesExist, Typed
    <3>4. \A d \in Clients : pc[d] = "download" => ask[d].object # ask[c].object
      BY <3>1 DEF DaemonInv, MutexHeld
    <3>5. QED
      BY <3>2, <3>3, <3>4
  <2>2. QED
    BY <1>1, <1>2, <2>1 DEF DaemonInv, AnswersTellVersions
<1>7. RivalsKnown' /\ AnswersAConcurrentQuestion'
  BY <1>1, <1>2 DEF DaemonInv, RivalsKnown, AnswersAConcurrentQuestion, Working
<1>8. QED
  BY <1>3, <1>4, <1>5, <1>6, <1>7 DEF DaemonInv
-----------------------------------------------------------------------------
(* LocalCache::GetOrDownload.  The steps here leave requests and answers as *)
(* they are, except that one may be refused.                                *)

\* What such a step of client c is to the others, and to itself.
Advances(c, place) ==
    /\ pc' = [pc EXCEPT ![c] = place]
    /\ \/ reply' = reply
       \/ reply' = [reply EXCEPT ![c] = {}]
    /\ UNCHANGED <<bucket, engine, ask, requests, kills, answered, rivals>>

LEMMA AdvanceKeepsRivals ==
  ASSUME DaemonInv, NEW c \in Clients, NEW place, Advances(c, place),
         pc[c] \in Working, place # "execute",
         place \in Working \cup {"reply"}
  PROVE  RivalsKnown' /\ AnswersAConcurrentQuestion'
<1> USE DEF engine
<1>1. /\ pc'[c] = place
      /\ \A d \in Clients \ {c} : pc'[d] = pc[d] /\ reply'[d] = reply[d]
      /\ reply'[c] \subseteq reply[c]
  BY DEF Advances, DaemonInv, Typed
<1>2. RivalsKnown'
  BY <1>1 DEF Advances, DaemonInv, RivalsKnown
<1>3. AnswersAConcurrentQuestion'
  BY <1>1 DEF Advances, DaemonInv, AnswersAConcurrentQuestion
<1>4. QED
  BY <1>2, <1>3

LEMMA LookupKeeps ==
  ASSUME DaemonInv, NEW c \in Clients, Hit(c) \/ Find(c)
  PROVE  DaemonInv'
<1> USE DEF engine, history, Goto
<1> DEFINE place == IF Hit(c) THEN "schema" ELSE "map"
<1>1. /\ pc[c] = "lookup" /\ holder = Nobody /\ Advances(c, place)
      /\ UNCHANGED <<disk, mapped, fetched, reply, damaged, answered>>
      /\ Hit(c) => ask[c].object \in mapped /\ holder' = holder
      /\ ~Hit(c) => ask[c].object \notin mapped /\ holder' = c
                      /\ disk[ask[c].object].exists
  <2>1. CASE Hit(c)
    BY <2>1 DEF Hit, MutexFree, Advances
  <2>2. CASE Find(c) /\ ~Hit(c)
    BY <2>2 DEF Find, MutexFree, OnDisk, Advances
  <2>3. QED
    BY <2>1, <2>2
<1>2. /\ pc'[c] = place /\ \A d \in Clients \ {c} : pc'[d] = pc[d]
      /\ ask' = ask /\ \A d \in Clients : pc[d] \notin {"download", "map"}
  BY <1>1, DaemonAssumption DEF Advances, DaemonInv, Typed, MutexHeld
<1>3. Typed'
  BY <1>1 DEF Advances, DaemonInv, Typed, Working
<1>4. MutexHeld' /\ MappedFilesExist'
  BY <1>1, <1>2 DEF DaemonInv, MutexHeld, MappedFilesExist
<1>5. FilesAccountedFor' /\ AnswersFromWholeFiles' /\ AnswersTellVersions'
  BY <1>1, <1>2 DEF DaemonInv, FilesAccountedFor, AnswersFromWholeFiles, AnswersTellVersions
<1>6. QED
  BY <1>1, <1>3, <1>4, <1>5, AdvanceKeepsRivals DEF DaemonInv, Working

LEMMA StartDownloadKeeps ==
  ASSUME DaemonInv, NEW c \in Clients, StartDownload(c)
  PROVE  DaemonInv'
<1> USE DEF engine, history, Goto
<1> DEFINE o == ask[c].object
<1>1. /\ pc[c] = "lookup" /\ holder = Nobody /\ holder' = c /\ Advances(c, "download")
      /\ o \notin mapped /\ ~disk[o].exists
      /\ disk' = [disk EXCEPT ![o] = File(bucket[o], 0)]
      /\ fetched' = [fetched EXCEPT ![c] = 0]
      /\ UNCHANGED <<mapped, reply, damaged, answered>>
  <2>1. Advances(c, "download")
    BY DEF StartDownload, Advances
  <2>2. QED
    BY <2>1 DEF StartDownload, MutexFree, OnDisk
<1>2. /\ pc'[c] = "download" /\ \A d \in Clients \ {c} : pc'[d] = pc[d]
      /\ ask' = ask /\ \A d \in Clients : pc[d] \notin {"download", "map"}
      /\ o \in Objects
  BY <1>1, DaemonAssumption DEF Advances, DaemonInv, Typed, MutexHeld, Working
<1>3. /\ disk'[o].exists /\ disk'[o].chunks = 0 /\ fetched'[c] = 0
      /\ \A x \in Objects \ {o} : disk'[x] = disk[x]
  BY <1>1, <1>2 DEF File, DaemonInv, Typed
<1>4. Typed'
  BY <1>1, <1>2 DEF Advances, DaemonInv, Typed, Working, File
<1>5. MutexHeld' /\ MappedFilesExist'
  BY <1>1, <1>2, <1>3 DEF DaemonInv, MutexHeld, MappedFilesExist, Typed
<1>6. FilesAccountedFor' /\ AnswersFromWholeFiles'
  BY <1>1, <1>2, <1>3 DEF DaemonInv, FilesAccountedFor, AnswersFromWholeFiles
<1>7. AnswersTellVersions'
  BY <1>1, <1>2, <1>3 DEF DaemonInv, AnswersTellVersions, MappedFilesExist, Typed
<1>8. QED
  BY <1>1, <1>4, <1>5, <1>6, <1>7, AdvanceKeepsRivals DEF DaemonInv, Working

\* A thread that downloads is alone with its file.
LEMMA Downloading ==
  ASSUME DaemonInv, NEW c \in Clients, pc[c] \in {"download", "map"}
  PROVE  /\ ask[c].object \in Objects \ mapped /\ holder = c
         /\ disk[ask[c].object].exists
         /\ \A d \in Clients \ {c} : pc[d] \notin {"download", "map"}
  BY DEF DaemonInv, MutexHeld, Typed, Working

LEMMA WriteChunkKeeps ==
  ASSUME DaemonInv, NEW c \in Clients, WriteChunk(c)
  PROVE  DaemonInv'
<1> USE DEF engine
<1> DEFINE o == ask[c].object
<1>1. /\ pc[c] = "download" /\ fetched' = [fetched EXCEPT ![c] = @ + 1]
      /\ UNCHANGED <<bucket, mapped, holder, engine, pc, ask, reply, answered, rivals>>
      /\ o \in Objects \ mapped /\ disk[o].exists
      /\ \A d \in Clients \ {c} : pc[d] \notin {"download", "map"}
  BY Downloading DEF WriteChunk
<1>2. \/ /\ disk[o].chunks = fetched[c] /\ damaged' = damaged
         /\ disk' = [disk EXCEPT ![o].chunks = @ + 1]
      \/ damaged' = damaged \cup {o} /\ disk' = disk
  BY DEF WriteChunk
<1>3. /\ \A x \in Objects \ {o} : disk'[x] = disk[x]
      /\ \A x \in Objects : disk'[x].exists = disk[x].exists
                             /\ disk'[x].version = disk[x].version
      /\ damaged \subseteq damaged' /\ fetched'[c] = fetched[c] + 1
      /\ disk'[o].chunks = fetched'[c] \/ o \in damaged'
  <2>1. fetched'[c] = fetched[c] + 1
    BY <1>1 DEF DaemonInv, Typed
  <2>2. CASE disk' = [disk EXCEPT ![o].chunks = @ + 1]
    <3>1. /\ disk'[o].chunks = disk[o].chunks + 1
          /\ disk'[o].exists = disk[o].exists /\ disk'[o].version = disk[o].version
          /\ \A x \in Objects \ {o} : disk'[x] = disk[x]
      <4>1. /\ DOMAIN disk = Objects /\ o \in Objects
            /\ disk[o] \in [version : Nat, chunks : Nat, exists : BOOLEAN]
        BY <1>1 DEF DaemonInv, Typed
      <4>2. disk'[o] = [disk[o] EXCEPT !.chunks = @ + 1]
        BY <2>2, <4>1
      <4>3. QED
        BY <2>2, <4>1, <4>2
    <3>2. disk[o].chunks = fetched[c] \/ o \in damaged
      BY <1>1 DEF DaemonInv, FilesAccountedFor
    <3>3. damaged \subseteq damaged'
      BY <1>2
    <3>4. disk'[o].chunks = fetched'[c] \/ o \in damaged'
      BY <2>1, <3>1, <3>2, <3>3
    <3>5. QED
      BY <2>1, <3>1, <3>3, <3>4
  <2>3. CASE damaged' = damaged \cup {o} /\ disk' = disk
    BY <2>1, <2>3
  <2>4. QED
    BY <1>2, <2>2, <2>3
<1>4. Typed'
  <2>1. fetched' \in [Clients -> Nat]
    BY <1>1 DEF DaemonInv, Typed
  <2>2. disk' \in [Objects -> [version : Nat, chunks : Nat, exists : BOOLEAN]]
    BY <1>1, <1>2 DEF DaemonInv, Typed
  <2>3. QED
    BY <1>1, <2>1, <2>2 DEF DaemonInv, Typed
<1>5. MutexHeld' /\ MappedFilesExist'
  BY <1>1, <1>3 DEF DaemonInv, MutexHeld, MappedFilesExist, Typed
<1>6. FilesAccountedFor' /\ AnswersFromWholeFiles'
  BY <1>1, <1>3 DEF DaemonInv, FilesAccountedFor, AnswersFromWholeFiles
<1>7. AnswersTellVersions'
  <2>1. ASSUME NEW d \in Clients, NEW a \in reply[d]
        PROVE  a.version = disk'[ask[d].object].version
    <3>1. ask[d].object \in Objects
      BY <2>1 DEF DaemonInv, MappedFilesExist, Typed
    <3>2. QED
      BY <1>3, <2>1, <3>1 DEF DaemonInv, AnswersTellVersions
  <2>2. QED
    BY <1>1, <1>3, <2>1 DEF DaemonInv, AnswersTellVersions
<1>8. RivalsKnown' /\ AnswersAConcurrentQuestion'
  BY <1>1 DEF DaemonInv, RivalsKnown, AnswersAConcurrentQuestion
<1>9. QED
  BY <1>4, <1>5, <1>6, <1>7, <1>8 DEF DaemonInv

LEMMA EndDownloadKeeps ==
  ASSUME DaemonInv, NEW c \in Clients, EndDownload(c)
  PROVE  DaemonInv'
<1> USE DEF engine, history, Goto
<1>1. /\ pc[c] = "download" /\ fetched[c] = Chunks /\ Advances(c, "map")
      /\ UNCHANGED <<disk, mapped, holder, fetched, reply, damaged, answered>>
  BY DEF EndDownload, Advances
<1>2. /\ pc'[c] = "map" /\ \A d \in Clients \ {c} : pc'[d] = pc[d]
      /\ ask' = ask
  BY <1>1 DEF Advances, DaemonInv, Typed
<1>3. Typed'
  BY <1>1 DEF Advances, DaemonInv, Typed, Working
<1>4. MutexHeld' /\ MappedFilesExist'
  BY <1>1, <1>2, Downloading DEF DaemonInv, MutexHeld, MappedFilesExist
<1>5. FilesAccountedFor' /\ AnswersFromWholeFiles' /\ AnswersTellVersions'
  BY <1>1, <1>2 DEF DaemonInv, FilesAccountedFor, AnswersFromWholeFiles, AnswersTellVersions
<1>6. QED
  BY <1>1, <1>3, <1>4, <1>5, AdvanceKeepsRivals DEF DaemonInv, Working

LEMMA FailDownloadKeeps ==
  ASSUME DaemonInv, NEW c \in Clients, FailDownload(c)
  PROVE  DaemonInv'
<1> USE DEF engine, Goto
<1> DEFINE o == ask[c].object
<1>1. /\ pc[c] = "download" /\ Advances(c, "reply")
      /\ disk' = [disk EXCEPT ![o] = Absent] /\ damaged' = damaged \ {o}
      /\ reply' = [reply EXCEPT ![c] = {}]
      /\ UNCHANGED <<mapped, fetched, answered>>
  BY DEF FailDownload, Advances, Refused
<1>2. /\ pc'[c] = "reply" /\ \A d \in Clients \ {c} : pc'[d] = pc[d] /\ reply'[d] = reply[d]
      /\ ask' = ask /\ reply'[c] = {}
      /\ o \in Objects \ mapped
      /\ \A d \in Clients \ {c} : pc[d] \notin {"download", "map"}
  BY <1>1, Downloading DEF Advances, DaemonInv, Typed
<1>3. /\ ~disk'[o].exists /\ \A x \in Objects \ {o} : disk'[x] = disk[x]
  BY <1>1, <1>2 DEF Absent, DaemonInv, Typed
<1>4. Typed'
  BY <1>1, <1>2 DEF Advances, DaemonInv, Typed, Working, Absent
<1>5. MutexHeld'
  BY <1>1, <1>2 DEF MutexHeld
<1>6. MappedFilesExist'
  BY <1>1, <1>2, <1>3 DEF DaemonInv, MappedFilesExist, Typed
<1>7. FilesAccountedFor'
  BY <1>1, <1>2, <1>3 DEF DaemonInv, FilesAccountedFor
<1>8. AnswersFromWholeFiles' /\ AnswersTellVersions'
  <2>1. \A d \in Clients : reply'[d] # {} => reply'[d] = reply[d] /\ ask[d].object \in mapped
    BY <1>2 DEF DaemonInv, MappedFilesExist
  <2>2. \A d \in Clients : reply'[d] # {} => ask[d].object \in Objects \ {o}
    BY <1>2, <2>1 DEF DaemonInv, Typed
  <2>3. \A x \in answered : x[1] \in Objects \ {o}
    BY <1>1 DEF DaemonInv, AnswersTellVersions
  <2>4. AnswersFromWholeFiles'
    BY <1>1, <1>2, <2>1, <2>2 DEF DaemonInv, AnswersFromWholeFiles
  <2>5. AnswersTellVersions'
    BY <1>1, <1>2, <1>3, <2>1, <2>2, <2>3 DEF DaemonInv, AnswersTellVersions
  <2>6. QED
    BY <2>4, <2>5
<1>9. QED
  BY <1>1, <1>4, <1>5, <1>6, <1>7, <1>8, AdvanceKeepsRivals DEF DaemonInv, Working

LEMMA MapKeeps ==
  ASSUME DaemonInv, NEW c \in Clients, Map(c)
  PROVE  DaemonInv'
<1> USE DEF engine, history, Goto, Refused
<1>1. PICK place \in {"schema", "reply"} :
        /\ pc[c] = "map" /\ Advances(c, place)
        /\ place = "schema" => mapped' = mapped \cup {ask[c].object}
        /\ place = "reply" => mapped' = mapped
        /\ UNCHANGED <<disk, fetched, damaged, answered>>
  <2>1. CASE disk[ask[c].object].chunks > 0 /\ pc' = [pc EXCEPT ![c] = "schema"]
    BY <2>1 DEF Map, Advances
  <2>2. CASE disk[ask[c].object].chunks = 0 /\ pc' = [pc EXCEPT ![c] = "reply"]
    BY <2>2 DEF Map, Advances
  <2>3. QED
    BY <2>1, <2>2 DEF Map
<1>2. /\ pc'[c] = place /\ \A d \in Clients \ {c} : pc'[d] = pc[d] /\ reply'[d] = reply[d]
      /\ ask' = ask /\ reply[c] = {} /\ reply'[c] = {}
      /\ ask[c].object \in Objects /\ disk[ask[c].object].exists
      /\ \A d \in Clients \ {c} : pc[d] \notin {"download", "map"}
  BY <1>1, Downloading DEF Advances, DaemonInv, Typed, MappedFilesExist
<1>3. Typed'
  BY <1>1, <1>2 DEF Advances, DaemonInv, Typed, Working
<1>4. MutexHeld' /\ MappedFilesExist'
  BY <1>1, <1>2 DEF DaemonInv, MutexHeld, MappedFilesExist
<1>5. FilesAccountedFor' /\ AnswersFromWholeFiles' /\ AnswersTellVersions'
  BY <1>1, <1>2 DEF DaemonInv, FilesAccountedFor, AnswersFromWholeFiles, AnswersTellVersions
<1>6. QED
  BY <1>1, <1>3, <1>4, <1>5, AdvanceKeepsRivals DEF DaemonInv, Working
-----------------------------------------------------------------------------
(* The engine *)

LEMMA RegisterSchemaKeeps ==
  ASSUME DaemonInv, NEW c \in Clients, RegisterSchema(c)
  PROVE  DaemonInv'
<1> USE DEF history, Goto, Refused
<1>1. PICK place \in {"parsed", "reply"} :
        /\ pc[c] = "schema" /\ pc' = [pc EXCEPT ![c] = place]
        /\ reply' = reply \/ reply' = [reply EXCEPT ![c] = {}]
        /\ UNCHANGED <<bucket, disk, mapped, holder, expression, ask, fetched,
                       damaged, answered, rivals>>
  BY DEF RegisterSchema
<1>2. /\ pc'[c] = place /\ \A d \in Clients \ {c} : pc'[d] = pc[d] /\ reply'[d] = reply[d]
      /\ reply[c] = {} /\ reply'[c] = {}
  BY <1>1 DEF DaemonInv, Typed, MappedFilesExist
<1>3. Typed'
  BY <1>1 DEF DaemonInv, Typed, Working
<1>4. MutexHeld' /\ MappedFilesExist'
  BY <1>1, <1>2 DEF DaemonInv, MutexHeld, MappedFilesExist
<1>5. FilesAccountedFor' /\ AnswersFromWholeFiles' /\ AnswersTellVersions'
  BY <1>1, <1>2 DEF DaemonInv, FilesAccountedFor, AnswersFromWholeFiles, AnswersTellVersions
<1>6. RivalsKnown' /\ AnswersAConcurrentQuestion'
  BY <1>1, <1>2 DEF DaemonInv, RivalsKnown, AnswersAConcurrentQuestion, Working
<1>7. QED
  BY <1>3, <1>4, <1>5, <1>6 DEF DaemonInv

LEMMA SetExpressionKeeps ==
  ASSUME DaemonInv, NEW c \in Clients, SetExpression(c)
  PROVE  DaemonInv'
<1> USE DEF history, Goto
<1>1. /\ pc[c] = "parsed" /\ pc' = [pc EXCEPT ![c] = "execute"]
      /\ expression' = [expression EXCEPT ![ask[c].object] = {ask[c].predicate}]
      /\ UNCHANGED <<bucket, disk, mapped, holder, ask, fetched, reply,
                     damaged, answered, rivals>>
  BY DEF SetExpression
<1>2. /\ pc'[c] = "execute" /\ \A d \in Clients \ {c} : pc'[d] = pc[d]
      /\ ask[c].object \in Objects /\ reply[c] = {}
  BY <1>1 DEF DaemonInv, Typed, Working, MappedFilesExist
<1>3. Typed'
  BY <1>1 DEF DaemonInv, Typed, Working
<1>4. MutexHeld' /\ MappedFilesExist'
  BY <1>1, <1>2 DEF DaemonInv, MutexHeld, MappedFilesExist
<1>5. FilesAccountedFor' /\ AnswersFromWholeFiles' /\ AnswersTellVersions'
  BY <1>1, <1>2 DEF DaemonInv, FilesAccountedFor, AnswersFromWholeFiles, AnswersTellVersions
<1>6. RivalsKnown'
  <2>1. ASSUME NEW d \in Clients, pc'[d] = "execute"
        PROVE  expression'[ask[d].object] \subseteq {ask[d].predicate} \cup rivals[d]
    <3>1. CASE ask[d].object # ask[c].object
      BY <1>1, <1>2, <2>1, <3>1 DEF DaemonInv, RivalsKnown, Typed
    <3>2. CASE ask[d].object = ask[c].object
      <4>1. expression'[ask[d].object] = {ask[c].predicate}
        BY <1>1, <1>2, <3>2 DEF DaemonInv, Typed
      <4>2. ask[c].predicate \in {ask[d].predicate} \cup rivals[d]
        BY <1>1, <1>2, <2>1, <3>2 DEF DaemonInv, RivalsKnown, Working
      <4>3. QED
        BY <4>1, <4>2
    <3>3. QED
      BY <3>1, <3>2
  <2>2. QED
    BY <1>1, <1>2, <2>1 DEF DaemonInv, RivalsKnown, Working
<1>7. AnswersAConcurrentQuestion'
  BY <1>1 DEF DaemonInv, AnswersAConcurrentQuestion
<1>8. QED
  BY <1>3, <1>4, <1>5, <1>6, <1>7 DEF DaemonInv

LEMMA ExecuteKeeps ==
  ASSUME DaemonInv, NEW c \in Clients, Execute(c)
  PROVE  DaemonInv'
<1> USE DEF engine, history, Goto
<1> DEFINE o == ask[c].object
           found == {[version |-> disk[o].version, whole |-> disk[o].chunks = Chunks,
                      predicate |-> p] : p \in expression[o]}
<1>1. /\ pc[c] = "execute" /\ pc' = [pc EXCEPT ![c] = "reply"]
      /\ reply' = [reply EXCEPT ![c] = found]
      /\ UNCHANGED <<bucket, disk, mapped, holder, engine, ask, fetched,
                     damaged, answered, rivals>>
  BY DEF Execute
<1>2. /\ pc'[c] = "reply" /\ reply'[c] = found
      /\ \A d \in Clients \ {c} : pc'[d] = pc[d] /\ reply'[d] = reply[d]
      /\ o \in mapped /\ o \in Objects /\ disk[o].exists
  BY <1>1 DEF DaemonInv, Typed, MappedFilesExist
<1>3. Typed'
  BY <1>1 DEF DaemonInv, Typed, Working
<1>4. MutexHeld' /\ MappedFilesExist'
  BY <1>1, <1>2 DEF DaemonInv, MutexHeld, MappedFilesExist
<1>5. FilesAccountedFor' /\ RivalsKnown'
  BY <1>1, <1>2 DEF DaemonInv, FilesAccountedFor, RivalsKnown, Working
<1>6. \A a \in found :
        /\ a.version = disk[o].version
        /\ a.whole \/ o \in damaged
        /\ a.predicate \in {ask[c].predicate} \cup rivals[c]
  <2>1. disk[o].chunks = Chunks \/ o \in damaged
    BY <1>2 DEF DaemonInv, FilesAccountedFor, MutexHeld
  <2>2. expression[o] \subseteq {ask[c].predicate} \cup rivals[c]
    BY <1>1 DEF DaemonInv, RivalsKnown
  <2>3. SUFFICES ASSUME NEW p \in expression[o]
                 PROVE  LET a == [version |-> disk[o].version,
                                  whole |-> disk[o].chunks = Chunks, predicate |-> p]
                        IN  /\ a.version = disk[o].version
                            /\ a.whole \/ o \in damaged
                            /\ a.predicate \in {ask[c].predicate} \cup rivals[c]
    BY Zenon
  <2> DEFINE a == [version |-> disk[o].version,
                   whole |-> disk[o].chunks = Chunks, predicate |-> p]
  <2>4. a.version = disk[o].version /\ a.predicate = p
    BY SMT
  <2>5. a.whole = (disk[o].chunks = Chunks)
    BY Zenon
  <2>6. QED
    BY <2>1, <2>2, <2>4, <2>5, Zenon
<1>7. AnswersFromWholeFiles' /\ AnswersTellVersions' /\ AnswersAConcurrentQuestion'
  <2>1. AnswersFromWholeFiles'
    BY <1>1, <1>2, <1>6 DEF DaemonInv, AnswersFromWholeFiles
  <2>2. AnswersTellVersions'
    BY <1>1, <1>2, <1>6 DEF DaemonInv, AnswersTellVersions
  <2>3. AnswersAConcurrentQuestion'
    BY <1>1, <1>2, <1>6 DEF DaemonInv, AnswersAConcurrentQuestion
  <2>4. QED
    BY <2>1, <2>2, <2>3
<1>8. QED
  BY <1>3, <1>4, <1>5, <1>7 DEF DaemonInv
-----------------------------------------------------------------------------
LEMMA NextKeeps == DaemonInv /\ [Next]_vars => DaemonInv'
<1> SUFFICES ASSUME DaemonInv, [Next]_vars PROVE DaemonInv'
  OBVIOUS
<1>1. CASE UNCHANGED vars
  <2> USE <1>1 DEF vars, engine, history
  <2>1. Typed' /\ MutexHeld' /\ MappedFilesExist'
    BY DEF DaemonInv, Typed, MutexHeld, MappedFilesExist
  <2>2. FilesAccountedFor' /\ AnswersFromWholeFiles' /\ AnswersTellVersions'
    BY DEF DaemonInv, FilesAccountedFor, AnswersFromWholeFiles, AnswersTellVersions
  <2>3. RivalsKnown' /\ AnswersAConcurrentQuestion'
    BY DEF DaemonInv, RivalsKnown, AnswersAConcurrentQuestion
  <2>4. QED
    BY <2>1, <2>2, <2>3 DEF DaemonInv
<1>2. CASE Kill
  BY <1>2, KillKeeps
<1>3. ASSUME NEW o \in Objects, Upload(o) PROVE DaemonInv'
  BY <1>3, UploadKeeps
<1>4. ASSUME NEW c \in Clients, NEW o \in Objects, NEW p \in Predicates, Request(c, o, p)
      PROVE  DaemonInv'
  BY <1>4, RequestKeeps
<1>5. ASSUME NEW c \in Clients, Malformed(c) PROVE DaemonInv'
  BY <1>5, MalformedKeeps
<1>6. ASSUME NEW c \in Clients, GetOrDownload(c) PROVE DaemonInv'
  BY <1>6, LookupKeeps, StartDownloadKeeps, WriteChunkKeeps, EndDownloadKeeps,
     FailDownloadKeeps, MapKeeps DEF GetOrDownload
<1>7. ASSUME NEW c \in Clients, HandleClient(c) PROVE DaemonInv'
  BY <1>6, <1>7, RegisterSchemaKeeps, SetExpressionKeeps, ExecuteKeeps, ReplyKeeps
     DEF HandleClient
<1>8. QED
  BY <1>1, <1>2, <1>3, <1>4, <1>5, <1>7 DEF Next

\* In every state, whatever is killed or fails: who holds the cache's mutex, what
\* its files lack, and who knows of whom.
THEOREM DaemonCorrect == Spec => []DaemonInv
<1>1. QED
  BY InitDaemonInv, NextKeeps, PTL DEF Spec

\* An answer comes from a whole file, or from one that a kill or a full disk cut.
THEOREM WholeFiles == Spec => []AnswersFromWholeFiles
<1>1. DaemonInv => AnswersFromWholeFiles
  BY DEF DaemonInv
<1>2. QED
  BY <1>1, DaemonCorrect, PTL

\* No two answers about an object are from different versions of it.
THEOREM OneVersion == Spec => []OneVersionPerObject
<1>1. DaemonInv => OneVersionPerObject
  BY DEF DaemonInv, AnswersTellVersions, OneVersionPerObject
<1>2. QED
  BY <1>1, DaemonCorrect, PTL

\* The one expression per object that all threads share is at worst that of a
\* request which overlaps.
THEOREM ConcurrentQuestions == Spec => []AnswersAConcurrentQuestion
<1>1. DaemonInv => AnswersAConcurrentQuestion
  BY DEF DaemonInv
<1>2. QED
  BY <1>1, DaemonCorrect, PTL

\* Only a download changes a file, and what it works on is not mapped.
LEMMA StepLeavesMappedFiles ==
  ASSUME DaemonInv, Next
  PROVE  \A o \in mapped \cap mapped' : disk'[o] = disk[o]
<1> USE DEF history
<1>1. CASE disk' = disk
  BY <1>1
<1>2. ASSUME NEW c \in Clients, StartDownload(c)
      PROVE  \A o \in mapped \cap mapped' : disk'[o] = disk[o]
  BY <1>2 DEF StartDownload, DaemonInv, Typed
<1>3. ASSUME NEW c \in Clients, WriteChunk(c) \/ FailDownload(c)
      PROVE  \A o \in mapped \cap mapped' : disk'[o] = disk[o]
  <2>1. pc[c] = "download"
    BY <1>3 DEF WriteChunk, FailDownload
  <2>2. ask[c].object \notin mapped
    BY <2>1, Downloading
  <2>3. \A o \in Objects \ {ask[c].object} : disk'[o] = disk[o]
    BY <1>3 DEF WriteChunk, FailDownload, DaemonInv, Typed
  <2>4. QED
    BY <2>2, <2>3 DEF DaemonInv, Typed
<1>4. ASSUME NEW c \in Clients, ~StartDownload(c), ~WriteChunk(c), ~FailDownload(c),
             HandleClient(c)
      PROVE  disk' = disk
  BY <1>4 DEF HandleClient, GetOrDownload, Hit, Find, EndDownload, Map,
              RegisterSchema, SetExpression, Execute, Reply
<1>5. (\E o \in Objects : Upload(o)) \/ Kill => disk' = disk
  BY DEF Upload, Kill
<1>6. ASSUME NEW c \in Clients,
             (\E o \in Objects, p \in Predicates : Request(c, o, p)) \/ Malformed(c)
      PROVE  disk' = disk
  BY <1>6 DEF Request, Malformed
<1>7. QED
  BY <1>1, <1>2, <1>3, <1>4, <1>5, <1>6 DEF Next

\* No query's file is truncated, overwritten or removed under it.
THEOREM FilesStayStill == Spec => MappedFilesAreStill
<1>1. DaemonInv /\ [Next]_vars
        => [\A o \in mapped \cap mapped' : disk'[o] = disk[o]]_vars
  BY StepLeavesMappedFiles
<1>2. QED
  BY <1>1, DaemonCorrect, PTL DEF Spec, MappedFilesAreStill
=============================================================================
