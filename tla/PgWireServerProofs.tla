------------------------- MODULE PgWireServerProofs --------------------------
(***************************************************************************)
(* Proofs about the wire server for every number of clients, messages and  *)
(* restarts: clients that wait for their answers do not end the process,   *)
(* and a session answers one statement at most after Stop.                 *)
(***************************************************************************)
EXTENDS PgWireServer, TLAPS

\* The planner and the coordinator take every sound question.
LEMMA SoundAnswered ==
  ASSUME SoundAreRead, NEW s \in SoundStatements
  PROVE  "dies" \notin Outcomes(s)
<1> DEFINE q == Sent[s].asked
<1> DEFINE M == [k \in DOMAIN q.where |-> Meant(q.where[k])]
<1> DEFINE Q == Meaning(q).query
<1>1. s \in Statements /\ SoundQuestion(q) /\ PlainQuestion(q) /\ Len(q.tables) = 1
  BY DEF SoundStatements, SoundQuestion
<1>2. /\ q.fn \in Aggregates \cup {"count"}
      /\ q.column \in Seq(STRING)
      /\ q.where \in Seq([column : Seq(STRING), op : STRING, value : Seq(STRING)])
  <2>1. q # NoQuestion
    BY <1>1 DEF SoundQuestion
  <2>2. QED
    BY <1>1, <2>1, SentAssumption
<1>3. Parsed[s] = Meaning(q)
  BY <1>1 DEF SoundStatements, SoundAreRead, Parsed
<1>4. Meaning(q).kind = "single" /\ Q.preds = M /\ Q.agg.fn = q.fn
      /\ Q.agg.column = Unqualified(q.column, Sides)
  BY <1>1 DEF Meaning
<1>5. Q.agg.fn # "none"
  BY <1>2, <1>4 DEF Aggregates
<1>6. ASSUME NEW k \in DOMAIN M
      PROVE  /\ M[k].is_string \in BOOLEAN
             /\ M[k].column \in IF M[k].is_string THEN TextColumns ELSE NumberColumns
  <2>1. M[k].column = q.where[k].column /\ M[k].is_string = (q.where[k].value[1] = Quote)
    BY DEF Meant
  <2>2. QED
    BY <1>1, <2>1 DEF SoundQuestion
<1>7. Masks(M) # {} /\ ~RegistersRunOut(M)
  BY <1>1 DEF SoundQuestion
<1>8. Q.agg.column # <<>> => Q.agg.column \in NumberColumns
  BY <1>1, <1>4 DEF SoundQuestion, Unqualified
<1> HIDE DEF M, Q, q
<1>9. ~PlanThrows(Q)
  BY <1>4, <1>6, <1>7, <1>8 DEF PlanThrows, Schema
<1>10. ~Miscast(Q.preds)
  BY <1>4, <1>6, ColumnsAssumption DEF Miscast
<1>11. "dies" \notin SingleOutcomes(Q)
  BY <1>5, <1>9, <1>10 DEF SingleOutcomes
<1>12. QED
  BY <1>3, <1>4, <1>11 DEF Outcomes, Q
-----------------------------------------------------------------------------
(* The owner and the accept thread *)

\* A step that sends and receives nothing and lets no session execute.
LEMMA ClientsFrame ==
  ASSUME ServiceInv,
         UNCHANGED <<unread, gone, broken, rash, unsound, mute, ready, doing, dead>>,
         owner = "destroyed" => owner' = "destroyed",
         \A c \in Clients : session'[c] \in {session[c], "hello", "closed", "recv", "test"}
  PROVE  WaitingClients' /\ ExecutesSent' /\ SoundSurvive'
<1>1. ASSUME NEW c \in Clients \ rash PROVE Waits(c)'
  BY DEF ServiceInv, WaitingClients, Waits, Quiet
<1>2. WaitingClients'
  BY <1>1 DEF WaitingClients
<1>3. ExecutesSent'
  BY DEF ServiceInv, ExecutesSent
<1>4. SoundSurvive'
  BY DEF ServiceInv, SoundSurvive, OrderlyUseSurvives
<1>5. QED
  BY <1>2, <1>3, <1>4

LEMMA OwnerKeeps ==
  ASSUME ServiceInv, ~dead,
         Start \/ Stop \/ OwnerStep \/ Destroy \/ TestRunning \/ Accept \/ AcceptFails
            \/ \E t \in Tables : Turn(t)
  PROVE  ServiceInv'
<1> USE DEF server, network
<1>1. CASE Start \/ Stop \/ JoinAcceptor \/ Destroy \/ TestRunning \/ AcceptFails
             \/ \E t \in Tables : Turn(t)
  <2>1. UNCHANGED <<unread, gone, broken, rash, unsound, mute, ready, doing, dead, session>>
    BY <1>1 DEF Start, Stop, JoinAcceptor, Destroy, TestRunning, AcceptFails, Turn
  <2>2. owner # "destroyed" \/ owner' = owner
    BY <1>1 DEF Start, Stop, JoinAcceptor, Destroy, TestRunning, AcceptFails, Turn
  <2>3. WaitingClients' /\ ExecutesSent' /\ SoundSurvive'
    BY <2>1, <2>2, ClientsFrame
  <2>4. ServiceTyped' /\ RunsWhileOn'
    <3>1. CASE Start
      BY <2>1, <3>1 DEF Start, ServiceInv, ServiceTyped, RunsWhileOn
    <3>2. CASE Stop
      <4>1. late' \in [Clients -> Nat]
        BY <3>2 DEF Stop
      <4>2. QED
        BY <2>1, <3>2, <4>1 DEF Stop, ServiceInv, ServiceTyped, RunsWhileOn
    <3>3. CASE JoinAcceptor \/ Destroy
      BY <2>1, <3>3 DEF JoinAcceptor, Destroy, ServiceInv, ServiceTyped, RunsWhileOn
    <3>4. CASE TestRunning \/ AcceptFails \/ \E t \in Tables : Turn(t)
      BY <2>1, <3>4 DEF TestRunning, AcceptFails, Turn, ServiceInv, ServiceTyped, RunsWhileOn
    <3>5. QED
      BY <1>1, <3>1, <3>2, <3>3, <3>4
  <2>5. AnswersLeft'
    <3>1. CASE Stop
      <4>1. late' = [c \in Clients |-> 0]
        BY <3>1 DEF Stop
      <4>2. QED
        BY <4>1 DEF AnswersLeft
    <3>2. CASE Start \/ Destroy
      BY <3>2 DEF Start, Destroy, AnswersLeft
    <3>3. CASE JoinAcceptor \/ TestRunning \/ AcceptFails \/ \E t \in Tables : Turn(t)
      BY <2>1, <3>3 DEF JoinAcceptor, TestRunning, AcceptFails, Turn, ServiceInv,
                        AnswersLeft, MayAnswer
    <3>4. QED
      BY <1>1, <3>1, <3>2, <3>3
  <2>6. QED
    BY <2>3, <2>4, <2>5 DEF ServiceInv
<1>2. CASE CloseListener \/ Accept
  <2>1. UNCHANGED <<unread, gone, broken, rash, unsound, mute, ready, doing, dead, running, late>>
    BY <1>2 DEF CloseListener, Accept
  <2>2. /\ session' \in [Clients -> {"none", "waiting", "hello", "retry", "test", "recv",
                                  "execute", "closed"}]
        /\ \A c \in Clients : session'[c] \in {session[c], "hello", "closed"}
        /\ backlog' \in Seq(Clients)
    <3>1. CASE CloseListener
      BY <3>1 DEF CloseListener, ServiceInv, ServiceTyped
    <3>2. CASE Accept
      BY <3>2 DEF Accept, ServiceInv, ServiceTyped
    <3>3. QED
      BY <1>2, <3>1, <3>2
  <2>3. \/ owner' = owner
        \/ owner = "stopping" /\ owner' = "joining"
    BY <1>2 DEF CloseListener, Accept
  <2>4. WaitingClients' /\ ExecutesSent' /\ SoundSurvive'
    BY <2>1, <2>2, <2>3, ClientsFrame
  <2>5. ServiceTyped' /\ RunsWhileOn'
    BY <2>1, <2>2, <2>3 DEF ServiceInv, ServiceTyped, RunsWhileOn
  <2>6. AnswersLeft'
    <3>1. ASSUME NEW c \in Clients, owner' \in {"stopping", "joining", "stopped"}
          PROVE  late'[c] <= IF MayAnswer(c)' THEN 0 ELSE 1
      <4>1. late[c] \in Nat /\ late[c] <= IF MayAnswer(c) THEN 0 ELSE 1
        BY <2>3, <3>1 DEF ServiceInv, ServiceTyped, AnswersLeft
      <4>2. MayAnswer(c)' => MayAnswer(c)
        BY <2>2 DEF MayAnswer
      <4>3. QED
        BY <2>1, <4>1, <4>2
    <3>2. QED
      BY <3>1 DEF AnswersLeft
  <2>7. QED
    BY <2>4, <2>5, <2>6 DEF ServiceInv
<1>3. QED
  BY <1>1, <1>2 DEF OwnerStep
-----------------------------------------------------------------------------
(* A client and its session *)

\* What a step of client c, or of its session, leaves alone.
Others(c) ==
    /\ rash \subseteq rash' /\ rash' \subseteq rash \cup {c}
    /\ \A d \in Clients \ {c} :
          /\ session'[d] = session[d] /\ unread'[d] = unread[d] /\ ready'[d] = ready[d]
          /\ doing'[d] = doing[d] /\ late'[d] = late[d]
          /\ d \in gone' <=> d \in gone
          /\ d \in broken' <=> d \in broken
          /\ d \in mute' <=> d \in mute

LEMMA OneClientKeeps ==
  ASSUME ServiceInv, NEW c \in Clients, Others(c), ServiceTyped', SoundSurvive',
         UNCHANGED <<owner, running>>, unsound => unsound',
         c \notin rash' => Waits(c)',
         session'[c] = "execute" =>
            doing'[c] \in Statements /\ (unsound' \/ doing'[c] \in SoundStatements),
         owner \in {"stopping", "joining", "stopped"} =>
            late'[c] <= IF MayAnswer(c)' THEN 0 ELSE 1
  PROVE  ServiceInv'
<1>1. RunsWhileOn'
  BY DEF ServiceInv, RunsWhileOn
<1>2. ExecutesSent'
  BY DEF ServiceInv, ExecutesSent, Others
<1>3. WaitingClients'
  <2>1. ASSUME NEW d \in Clients \ rash', d # c PROVE Waits(d)'
    BY <2>1 DEF ServiceInv, WaitingClients, Waits, Quiet, Others
  <2>2. QED
    BY <2>1 DEF WaitingClients
<1>4. AnswersLeft'
  BY DEF ServiceInv, AnswersLeft, MayAnswer, Others
<1>5. QED
  BY <1>1, <1>2, <1>3, <1>4 DEF ServiceInv

LEMMA ClientKeeps ==
  ASSUME ServiceInv, ~dead, NEW c \in Clients, ClientStep(c)
  PROVE  ServiceInv'
<1> USE DEF server, network
<1>w. c \notin rash => Waits(c)
  BY DEF ServiceInv, WaitingClients
<1>a. owner \in {"stopping", "joining", "stopped"} =>
         late[c] <= IF MayAnswer(c) THEN 0 ELSE 1
  BY DEF ServiceInv, AnswersLeft
<1>e. session[c] = "execute" =>
         doing[c] \in Statements /\ (unsound \/ doing[c] \in SoundStatements)
  BY DEF ServiceInv, ExecutesSent
<1>1. CASE Connect(c)
  <2>1. /\ session[c] = "none" /\ session' = [session EXCEPT ![c] = "waiting"]
        /\ backlog' = Append(backlog, c) /\ ready' = [ready EXCEPT ![c] = TRUE]
        /\ UNCHANGED <<owner, running, doing, broken, dead, unread, gone, late, rash,
                       unsound, mute>>
    BY <1>1 DEF Connect
  <2>2. ServiceTyped' /\ Others(c) /\ SoundSurvive'
    BY <2>1 DEF ServiceInv, ServiceTyped, Others, SoundSurvive, OrderlyUseSurvives
  <2>3. session'[c] = "waiting"
    BY <2>1 DEF ServiceInv, ServiceTyped
  <2>4. c \notin rash' => Waits(c)'
    BY <1>w, <2>1, <2>3 DEF Waits, Quiet
  <2>5. QED
    BY <1>a, <2>1, <2>2, <2>3, <2>4, OneClientKeeps DEF MayAnswer
<1>2. CASE SendMessage(c)
  <2>1. /\ session[c] \notin {"none", "closed"} /\ c \notin gone
        /\ unread' = [unread EXCEPT ![c] = unread[c] + 1]
        /\ ready' = [ready EXCEPT ![c] = FALSE]
        /\ rash' = IF ready[c] THEN rash ELSE rash \cup {c}
        /\ UNCHANGED <<owner, running, session, doing, broken, dead, backlog, gone, late,
                       unsound, mute>>
    BY <1>2 DEF SendMessage
  <2>2. ServiceTyped' /\ Others(c) /\ SoundSurvive'
    BY <2>1 DEF ServiceInv, ServiceTyped, Others, SoundSurvive, OrderlyUseSurvives
  <2>3. unread'[c] = unread[c] + 1 /\ ready'[c] = FALSE
    BY <2>1 DEF ServiceInv, ServiceTyped
  <2>4. c \notin rash' => Waits(c)'
    BY <1>w, <2>1, <2>3 DEF Waits, Quiet
  <2>5. QED
    BY <1>a, <1>e, <2>1, <2>2, <2>4, OneClientKeeps DEF MayAnswer
<1>3. CASE HangUp(c)
  <2>1. /\ gone' = gone \cup {c}
        /\ broken' \in {broken} \cup
                IF ready[c] \/ c \in rash \cup mute THEN {broken \cup {c}} ELSE {}
        /\ UNCHANGED <<owner, running, session, doing, dead, backlog, unread, ready, late,
                       rash, unsound, mute>>
        /\ session[c] # "none"
    BY <1>3 DEF HangUp
  <2>2. ServiceTyped' /\ Others(c) /\ SoundSurvive'
    BY <2>1 DEF ServiceInv, ServiceTyped, Others, SoundSurvive, OrderlyUseSurvives
  <2>3. c \notin rash' => Waits(c)'
    BY <1>w, <2>1 DEF Waits, Quiet
  <2>4. QED
    BY <1>a, <1>e, <2>1, <2>2, <2>3, OneClientKeeps DEF MayAnswer
<1>4. QED
  BY <1>1, <1>2, <1>3 DEF ClientStep

\* A client that waits had the one message with the server which it receives.
LEMMA ReadsOne ==
  ASSUME ServiceInv, NEW c \in Clients, Reads(c)
  PROVE  /\ unread' \in [Clients -> Nat] /\ unread'[c] = unread[c] - 1 /\ unread[c] > 0
         /\ \A d \in Clients \ {c} : unread'[d] = unread[d]
         /\ c \notin rash => unread'[c] = 0
         /\ ~Quiet(c)
         /\ UNCHANGED <<backlog, gone>>
<1>1. /\ unread[c] > 0 /\ unread[c] \in Nat /\ unread' = [unread EXCEPT ![c] = unread[c] - 1]
      /\ UNCHANGED <<backlog, gone>>
  BY DEF Reads, ServiceInv, ServiceTyped
<1>2. c \notin rash => unread[c] <= 1
  BY DEF ServiceInv, WaitingClients, Waits
<1>3. QED
  BY <1>1, <1>2 DEF ServiceInv, ServiceTyped, Quiet

\* No answer to it goes to a connection that has been reset.
LEMMA SendsAlive ==
  ASSUME ServiceInv, ~dead, NEW c \in Clients, ~Quiet(c), SendTo(c),
         UNCHANGED <<owner, rash>>, unsound => unsound'
  PROVE  /\ c \notin rash => c \notin broken \cup mute
         /\ broken' = IF c \in gone THEN broken \cup {c} ELSE broken
         /\ dead' \in BOOLEAN /\ SoundSurvive'
<1>1. c \notin rash => c \notin broken \cup mute
  BY DEF ServiceInv, WaitingClients, Waits
<1>2. /\ broken' = IF c \in gone THEN broken \cup {c} ELSE broken
      /\ dead' \in BOOLEAN /\ (dead' => c \in broken)
  BY DEF SendTo
<1>3. SoundSurvive'
  BY <1>1, <1>2 DEF SoundSurvive, OrderlyUseSurvives
<1>4. QED
  BY <1>1, <1>2, <1>3

LEMMA CountsTyped ==
  ASSUME ServiceInv, NEW c \in Clients, Counts(c)
  PROVE  /\ late' \in [Clients -> Nat]
         /\ late'[c] = IF running THEN late[c] ELSE late[c] + 1
         /\ \A d \in Clients \ {c} : late'[d] = late[d]
  BY DEF ServiceInv, ServiceTyped, Counts

LEMMA SessionKeeps ==
  ASSUME ServiceInv, ~dead, NEW c \in Clients, SessionStep(c)
  PROVE  ServiceInv'
<1> USE DEF server
<1>w. c \notin rash => Waits(c)
  BY DEF ServiceInv, WaitingClients
<1>a. /\ late[c] \in Nat
      /\ owner \in {"stopping", "joining", "stopped"} =>
            late[c] <= IF MayAnswer(c) THEN 0 ELSE 1
  BY DEF ServiceInv, ServiceTyped, AnswersLeft
<1>e. session[c] = "execute" =>
         doing[c] \in Statements /\ (unsound \/ doing[c] \in SoundStatements)
  BY DEF ServiceInv, ExecutesSent
<1>r. running \in BOOLEAN /\ (running <=> owner = "on")
  BY DEF ServiceInv, ServiceTyped, RunsWhileOn
<1>1. ASSUME NEW next \in {"test", "retry"}, Reads(c), SendTo(c),
             session[c] \in {"hello", "retry"},
             session' = [session EXCEPT ![c] = next],
             ready' = [ready EXCEPT ![c] = unread'[c] = 0],
             UNCHANGED <<server, doing, late, rash, unsound, mute>>
      PROVE  ServiceInv'
  <2>1. /\ unread' \in [Clients -> Nat] /\ (c \notin rash => unread'[c] = 0) /\ ~Quiet(c)
        /\ \A d \in Clients \ {c} : unread'[d] = unread[d]
        /\ UNCHANGED <<backlog, gone>>
    BY <1>1, ReadsOne
  <2>2. /\ c \notin rash => c \notin broken \cup mute
        /\ broken' = IF c \in gone THEN broken \cup {c} ELSE broken
        /\ dead' \in BOOLEAN /\ SoundSurvive'
    BY <1>1, <2>1, SendsAlive
  <2>3. ready' \in [Clients -> BOOLEAN] /\ \A d \in Clients \ {c} : ready'[d] = ready[d]
    BY <1>1 DEF ServiceInv, ServiceTyped
  <2>4. session'[c] = next
    BY <1>1 DEF ServiceInv, ServiceTyped
  <2>5. ServiceTyped'
    BY <1>1, <2>1, <2>2, <2>3 DEF ServiceInv, ServiceTyped
  <2>6. Others(c)
    BY <1>1, <2>1, <2>2, <2>3 DEF ServiceInv, ServiceTyped, Others
  <2>7. c \notin rash' => Waits(c)'
    BY <1>1, <2>1, <2>2, <2>4 DEF Waits, Quiet
  <2>8. QED
    BY <1>1, <1>a, <2>2, <2>4, <2>5, <2>6, <2>7, OneClientKeeps DEF MayAnswer
<1>2. CASE Greet(c)
  BY <1>1, <1>2 DEF Greet
<1>3. CASE RefuseSsl(c)
  BY <1>1, <1>3 DEF RefuseSsl
<1>4. CASE Test(c)
  <2>1. /\ session[c] = "test"
        /\ UNCHANGED <<owner, running, doing, broken, dead, backlog, unread, gone, ready, late,
                       rash, unsound, mute>>
    BY <1>4 DEF Test, network
  <2>2. /\ session'[c] \in {"recv", "closed"}
        /\ owner # "destroyed" /\ ~running => session'[c] = "closed"
        /\ session' \in [Clients -> {"none", "waiting", "hello", "retry", "test", "recv",
                                     "execute", "closed"}]
        /\ \A d \in Clients \ {c} : session'[d] = session[d]
    BY <1>4 DEF Test, ServiceInv, ServiceTyped
  <2>3. ServiceTyped' /\ Others(c) /\ SoundSurvive'
    BY <2>1, <2>2 DEF ServiceInv, ServiceTyped, Others, SoundSurvive, OrderlyUseSurvives
  <2>4. c \notin rash' => Waits(c)'
    BY <1>w, <2>1, <2>2 DEF Waits, Quiet
  <2>5. QED
    BY <1>a, <1>r, <2>1, <2>2, <2>3, <2>4, OneClientKeeps DEF MayAnswer
<1>5. ASSUME NEW s \in Statements, Receive(c, s) PROVE ServiceInv'
  <2>1. /\ session[c] = "recv" /\ session' = [session EXCEPT ![c] = "execute"]
        /\ doing' = [doing EXCEPT ![c] = s]
        /\ unsound' = (unsound \/ s \notin SoundStatements)
        /\ UNCHANGED <<owner, running, broken, dead, ready, late, rash, mute>>
    BY <1>5 DEF Receive
  <2>2. /\ unread' \in [Clients -> Nat] /\ (c \notin rash => unread'[c] = 0) /\ ~Quiet(c)
        /\ \A d \in Clients \ {c} : unread'[d] = unread[d]
        /\ UNCHANGED <<backlog, gone>>
    BY <1>5, ReadsOne DEF Receive
  <2>3. session'[c] = "execute" /\ doing'[c] = s
    BY <2>1 DEF ServiceInv, ServiceTyped
  <2>4. ServiceTyped' /\ Others(c) /\ SoundSurvive'
    BY <2>1, <2>2 DEF ServiceInv, ServiceTyped, Others, SoundSurvive, OrderlyUseSurvives
  <2>5. c \notin rash' => Waits(c)'
    BY <1>w, <2>1, <2>2, <2>3 DEF Waits, Quiet
  <2>6. QED
    BY <1>a, <2>1, <2>3, <2>4, <2>5, OneClientKeeps DEF MayAnswer
<1>6. CASE Ignore(c)
  <2>1. /\ session[c] = "recv" /\ session' = [session EXCEPT ![c] = "test"]
        /\ mute' = mute \cup {c}
        /\ UNCHANGED <<owner, running, doing, broken, dead, ready, late, rash, unsound>>
    BY <1>6 DEF Ignore
  <2>2. /\ unread' \in [Clients -> Nat] /\ (c \notin rash => unread'[c] = 0) /\ ~Quiet(c)
        /\ \A d \in Clients \ {c} : unread'[d] = unread[d]
        /\ UNCHANGED <<backlog, gone>>
    BY <1>6, ReadsOne DEF Ignore
  <2>3. session'[c] = "test"
    BY <2>1 DEF ServiceInv, ServiceTyped
  <2>4. ServiceTyped' /\ Others(c) /\ SoundSurvive'
    BY <2>1, <2>2 DEF ServiceInv, ServiceTyped, Others, SoundSurvive, OrderlyUseSurvives
  <2>5. c \notin rash' => Waits(c)'
    BY <1>w, <2>1, <2>2, <2>3 DEF Waits, Quiet
  <2>6. QED
    BY <1>a, <2>1, <2>3, <2>4, <2>5, OneClientKeeps DEF MayAnswer
<1>7. CASE EndSession(c)
  <2>1. /\ session[c] \in {"hello", "retry", "recv"}
        /\ session' = [session EXCEPT ![c] = "closed"]
        /\ UNCHANGED <<owner, running, doing, broken, dead, backlog, unread, gone, ready, late,
                       rash, unsound, mute>>
    BY <1>7 DEF EndSession, network
  <2>2. session'[c] = "closed"
    BY <2>1 DEF ServiceInv, ServiceTyped
  <2>3. ServiceTyped' /\ Others(c) /\ SoundSurvive'
    BY <2>1 DEF ServiceInv, ServiceTyped, Others, SoundSurvive, OrderlyUseSurvives
  <2>4. c \notin rash' => Waits(c)'
    BY <1>w, <2>1, <2>2 DEF Waits, Quiet
  <2>5. QED
    BY <1>a, <2>1, <2>2, <2>3, <2>4, OneClientKeeps DEF MayAnswer
<1>8. CASE Refuse(c) \/ Answer(c)
  <2>1. /\ session[c] = "execute" /\ SendTo(c) /\ Counts(c)
        /\ session' = [session EXCEPT ![c] = "test"] /\ doing' = [doing EXCEPT ![c] = Nothing]
        /\ UNCHANGED <<owner, running, backlog, unread, gone, rash, unsound>>
    BY <1>8 DEF Refuse, Answer, Ends, network
  <2>2. \/ mute' = mute \cup {c} /\ ready' = ready
        \/ mute' = mute /\ ready' = [ready EXCEPT ![c] = unread[c] = 0]
    BY <1>8 DEF Refuse, Answer
  <2>3. session'[c] = "test"
    BY <2>1 DEF ServiceInv, ServiceTyped
  <2>4. /\ c \notin rash => c \notin broken \cup mute
        /\ broken' = IF c \in gone THEN broken \cup {c} ELSE broken
        /\ dead' \in BOOLEAN /\ SoundSurvive'
    BY <2>1, SendsAlive DEF Quiet
  <2>5. ready' \in [Clients -> BOOLEAN] /\ \A d \in Clients \ {c} : ready'[d] = ready[d]
    BY <2>2 DEF ServiceInv, ServiceTyped
  <2>6. /\ late' \in [Clients -> Nat] /\ \A d \in Clients \ {c} : late'[d] = late[d]
        /\ owner # "on" => late'[c] = late[c] + 1
    BY <1>r, <2>1, CountsTyped
  <2>7. ServiceTyped'
    BY <2>1, <2>4, <2>5, <2>6 DEF ServiceInv, ServiceTyped
  <2>8. Others(c)
    BY <2>1, <2>2, <2>4, <2>5, <2>6 DEF ServiceInv, ServiceTyped, Others
  <2>9. c \notin rash' => Waits(c)'
    <3>1. c \notin rash => ready[c] = FALSE /\ unread[c] = 0
      BY <1>w, <2>1 DEF Waits, Quiet, ServiceInv, ServiceTyped
    <3>2. QED
      BY <2>1, <2>2, <2>3, <2>4, <3>1 DEF Waits, Quiet
  <2>10. QED
    BY <1>a, <2>1, <2>3, <2>4, <2>6, <2>7, <2>8, <2>9, OneClientKeeps DEF MayAnswer
<1>9. CASE Die(c)
  <2>1. /\ session[c] = "execute" /\ dead' = TRUE
        /\ "dies" \in Outcomes(doing[c]) \/ owner = "destroyed"
        /\ UNCHANGED <<owner, running, session, doing, broken, backlog, unread, gone, ready, late,
                       rash, unsound, mute>>
    BY <1>9 DEF Die, network
  <2>2. SoundSurvive'
    BY <1>e, <2>1, SoundAnswered DEF SoundSurvive, OrderlyUseSurvives
  <2>3. ServiceTyped' /\ Others(c)
    BY <2>1 DEF ServiceInv, ServiceTyped, Others
  <2>4. c \notin rash' => Waits(c)'
    BY <1>w, <2>1 DEF Waits, Quiet
  <2>5. QED
    BY <1>a, <1>e, <2>1, <2>2, <2>3, <2>4, OneClientKeeps DEF MayAnswer
<1>10. QED
  BY <1>2, <1>3, <1>4, <1>5, <1>6, <1>7, <1>8, <1>9 DEF SessionStep

LEMMA InitService == Init => ServiceInv
<1> SUFFICES ASSUME Init PROVE ServiceInv
  OBVIOUS
<1>1. ServiceTyped
  <2>1. /\ session = [c \in Clients |-> "none"] /\ doing = [c \in Clients |-> Nothing]
        /\ backlog = <<>> /\ owner = "off"
        /\ running = FALSE /\ dead = FALSE /\ unsound = FALSE
    BY DEF Init
  <2>2. /\ unread = [c \in Clients |-> 0] /\ late = [c \in Clients |-> 0]
        /\ ready = [c \in Clients |-> FALSE]
    BY DEF Init
  <2>3. ready \in [Clients -> BOOLEAN]
    BY <2>2
  <2>4. backlog \in Seq(Clients)
    BY <2>1
  <2>5. unread \in [Clients -> Nat] /\ late \in [Clients -> Nat]
    BY <2>2
  <2>6. QED
    BY <2>1, <2>3, <2>4, <2>5 DEF ServiceTyped
<1>2. RunsWhileOn /\ ExecutesSent /\ AnswersLeft
  BY DEF Init, RunsWhileOn, ExecutesSent, AnswersLeft
<1>3. WaitingClients
  BY DEF Init, WaitingClients, Waits, Quiet
<1>4. SoundSurvive
  BY DEF Init, SoundSurvive, OrderlyUseSurvives
<1>5. QED
  BY <1>1, <1>2, <1>3, <1>4 DEF ServiceInv

LEMMA NextService == ServiceInv /\ [Next]_vars => ServiceInv'
<1> SUFFICES ASSUME ServiceInv, [Next]_vars PROVE ServiceInv'
  OBVIOUS
<1>1. CASE UNCHANGED vars
  BY <1>1 DEF vars, server, network, ServiceInv, ServiceTyped, RunsWhileOn, ExecutesSent,
     WaitingClients, Waits, Quiet, AnswersLeft, MayAnswer, SoundSurvive, OrderlyUseSurvives
<1>2. CASE Next
  BY <1>2, OwnerKeeps, ClientKeeps, SessionKeeps DEF Next
<1>3. QED
  BY <1>1, <1>2

\* The invariant that both properties below rest on.
THEOREM ServiceCorrect == Spec => []ServiceInv
  BY InitService, NextService, PTL DEF Spec

\* Clients that wait for their answers and ask one table what the planner takes
\* never end the process, for any number of them, whenever they hang up, rows
\* arrive or the server stops and starts again, provided that their statements
\* are read as they are meant, which is a matter of the statements' text.  Nobody
\* may ask for a join: what that does to the process is module ShuffleJoin's.
THEOREM OrderlyClientsSurvive == SoundAreRead /\ Spec => []OrderlyUseSurvives
<1> SUFFICES ASSUME SoundAreRead PROVE Spec => []OrderlyUseSurvives
  OBVIOUS
<1>1. ServiceInv => OrderlyUseSurvives
  BY DEF ServiceInv, SoundSurvive
<1>2. QED
  BY <1>1, ServiceCorrect, PTL

\* After Stop every session answers one more statement at most, for any number
\* of sessions and of stops.
THEOREM SessionsStop == Spec => []OneAnswerAfterStop
<1>1. ServiceInv => OneAnswerAfterStop
  <2> SUFFICES ASSUME ServiceInv, NEW c \in Clients,
                      owner \in {"stopping", "joining", "stopped"}
               PROVE  late[c] <= 1
    BY DEF OneAnswerAfterStop
  <2>1. late[c] \in Nat /\ late[c] <= IF MayAnswer(c) THEN 0 ELSE 1
    BY DEF ServiceInv, ServiceTyped, AnswersLeft
  <2>2. QED
    BY <2>1
<1>2. QED
  BY <1>1, ServiceCorrect, PTL
=============================================================================
