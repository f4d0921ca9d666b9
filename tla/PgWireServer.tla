---------------------------- MODULE PgWireServer ----------------------------
(***************************************************************************)
(* The wire server: its owner starts, stops and destroys it, one thread    *)
(* accepts connections, and every connection has a detached thread that    *)
(* greets the client and then answers its statements one after the other.  *)
(* Nothing is caught and no signal is handled: an exception in a session   *)
(* or a write to a connection that was reset ends the process.             *)
(***************************************************************************)
EXTENDS WireSql

CONSTANTS
    Clients,
    Statements,      \* names of the statements clients send
    Sent,            \* statement -> [text, asked]: what is sent, what is meant
    NoQuestion,      \* asked, where nothing in particular is meant
    Wheres,          \* conditions a statement may have in the place of its own
    Tables,          \* registered tables: texts
    MaxSent,         \* bound: client -> messages it sends
    MaxStarts        \* bound: calls of Start

ASSUME BoundsAssumption == MaxSent \in [Clients -> Nat] /\ MaxStarts \in Nat
ASSUME ColumnsAssumption == NumberColumns \cap TextColumns = {}
ASSUME SentAssumption ==
    \A s \in Statements :
        LET q == Sent[s].asked
        IN  q # NoQuestion =>
              /\ q \in [fn     : Aggregates \cup {"count"},
                        column : Seq(STRING),
                        tables : Seq(Seq(STRING)),
                        on     : Seq(Seq(STRING)),
                        where  : Seq([column : Seq(STRING), op : STRING, value : Seq(STRING)])]
              /\ Len(q.tables) \in {1, 2}

VARIABLES
    owner,           \* where the thread that owns the server is
    running,         \* running_
    listening,       \* server_fd_ is an open listening socket
    acceptor,        \* where the accept thread is
    backlog,         \* connections waiting to be accepted
    session,         \* client -> where its detached thread is
    doing,           \* client -> the statement its session executes
    unread,          \* client -> messages sent and not received yet
    gone,            \* clients that have hung up
    broken,          \* clients whose connection has been reset
    filled,          \* tables in which a query finds rows
    dead,            \* the process has ended
    starts           \* calls of Start so far, for the bound

\* What the clients know and what the properties need.
VARIABLES
    sent,            \* client -> messages sent so far, for the bound
    ready,           \* client -> it has seen the answer to all it sent
    late,            \* client -> answers since the last Stop
    rash,            \* clients that sent a message before they were ready
    unsound,         \* some client asked for a join or what the planner does not take
    mute             \* clients that sent a message that is owed no ReadyForQuery

server == <<owner, running, listening, starts>>
network == <<backlog, unread, gone, sent>>
vars == <<server, acceptor, session, doing, broken, filled, dead, network,
          ready, late, rash, unsound, mute>>

Nothing == "nothing"
-----------------------------------------------------------------------------
(* What a statement can do                                                 *)

Schema == NumberColumns \cup TextColumns

\* Comparisons from which the planner makes a mask of rows: a text that is
\* compared by order makes none.
MakesMask(p) == p.is_string => p.op = "="

\* The compiled scan has a register for every column, comparison and mask, and
\* frees none.  While it compares it needs four more.
MaxRegisters == 14
Registers(p) == IF ~MakesMask(p) THEN 1 ELSE IF p.is_string THEN 5 ELSE 2
Peak(p) == IF ~MakesMask(p) THEN 1 ELSE IF p.is_string THEN 8 ELSE 6

RegistersOf(preds) == FoldLeft(LAMBDA n, p : n + Registers(p), 0, preds)
Masks(preds) == {k \in DOMAIN preds : MakesMask(preds[k])}

\* MicroOpCompiler::Compile throws; the masks are combined after the comparisons.
RegistersRunOut(preds) ==
    \/ \E k \in DOMAIN preds :
          RegistersOf(SubSeq(preds, 1, k - 1)) + Peak(preds[k]) > MaxRegisters
    \/ RegistersOf(preds) + Cardinality(Masks(preds)) - 1 > MaxRegisters

\* Mutant: every compared column needs its "_kim" column.
PlanThrowsKim(q) ==
    \/ Masks(q.preds) = {}
    \/ \E k \in DOMAIN q.preds : q.preds[k].column \notin TextColumns
    \/ q.agg.column # <<>> /\ q.agg.column \notin Schema
    \/ RegistersRunOut(q.preds)

\* QueryPlanner::Plan throws without a mask, for a column it does not find, and
\* when the registers run out; a text column has a second, "_kim" column, a
\* number column has none.
PlanThrows(q) ==
    \/ Masks(q.preds) = {}
    \/ \E k \in DOMAIN q.preds :
          q.preds[k].column \notin IF q.preds[k].is_string THEN TextColumns ELSE Schema
    \/ q.agg.column # <<>> /\ q.agg.column \notin Schema
    \/ RegistersRunOut(q.preds)

\* A column is cast to the type of the value it is compared with, unchecked.
Miscast(preds) ==
    \E k \in DOMAIN preds :
        preds[k].column \in IF preds[k].is_string THEN NumberColumns ELSE TextColumns

\* A table that is not registered, or in which the server finds no rows, is
\* answered with zeros before anything is planned.
SingleOutcomes(q) ==
    IF q.table \notin Tables THEN {"reply"}
    ELSE IF q.agg.fn = "none" THEN {"reply", "dies"}
    ELSE IF q.table \notin filled THEN {"reply"}
    ELSE IF PlanThrows(q) THEN {"dies"}
    ELSE IF Miscast(q.preds) THEN {"reply", "dies"} ELSE {"reply"}

\* A join works on nodes that it shares, without a lock, with the joins of other
\* sessions and with whoever ingests: whether it ends the process depends on
\* them, and on its columns (module ShuffleJoin says when it does not).
JoinOutcomes(q) == {"reply", "dies"}

Parsed == [s \in Statements |-> Parse(Sent[s].text)]

Outcomes(s) ==
    LET parsed == Parsed[s]
    IN  CASE parsed.kind = "error" -> {"error"}
          [] parsed.kind = "throws" -> {"dies"}
          [] parsed.kind = "single" -> SingleOutcomes(parsed.query)
          [] parsed.kind = "join" -> JoinOutcomes(parsed.query)

\* Questions to one table that the planner takes: about columns there are, of the
\* right types, with a comparison that makes a mask, and few enough of them.
SoundQuestion(q) ==
    /\ q # NoQuestion
    /\ PlainQuestion(q)
    /\ Len(q.tables) = 1
    /\ \A k \in DOMAIN q.where :
          q.where[k].column \in
              IF q.where[k].value[1] = Quote THEN TextColumns ELSE NumberColumns
    /\ q.column = <<>> \/ Unqualified(q.column, Sides) \in NumberColumns
    /\ LET comparisons == [k \in DOMAIN q.where |-> Meant(q.where[k])]
       IN  Masks(comparisons) # {} /\ ~RegistersRunOut(comparisons)

SoundStatements == {s \in Statements : SoundQuestion(Sent[s].asked)}
-----------------------------------------------------------------------------
Init ==
    /\ owner = "off"
    /\ running = FALSE
    /\ listening = FALSE
    /\ acceptor = "none"
    /\ backlog = <<>>
    /\ session = [c \in Clients |-> "none"]
    /\ doing = [c \in Clients |-> Nothing]
    /\ unread = [c \in Clients |-> 0]
    /\ gone = {}
    /\ broken = {}
    /\ filled = {}
    /\ dead = FALSE
    /\ starts = 0
    /\ sent = [c \in Clients |-> 0]
    /\ ready = [c \in Clients |-> FALSE]
    /\ late = [c \in Clients |-> 0]
    /\ rash = {}
    /\ unsound = FALSE
    /\ mute = {}

(* The owner *)

Start ==
    /\ owner \in {"off", "stopped"}
    /\ starts < MaxStarts
    /\ starts' = starts + 1
    /\ owner' = "on"
    /\ listening' = TRUE
    /\ running' = TRUE
    /\ acceptor' = "test"
    /\ UNCHANGED <<session, doing, broken, filled, dead, network, ready, late,
                   rash, unsound, mute>>

\* running_.exchange(false)
Stop ==
    /\ owner = "on"
    /\ owner' = "stopping"
    /\ running' = FALSE
    /\ late' = [c \in Clients |-> 0]
    /\ UNCHANGED <<listening, starts, acceptor, session, doing, broken, filled,
                   dead, network, ready, rash, unsound, mute>>

\* Connections nobody accepted are refused with the socket.
Closed(c) == \E i \in DOMAIN backlog : backlog[i] = c

\* Mutant: the listening socket is closed without being shut down, which wakes
\* nobody.
CloseOnly ==
    /\ owner = "stopping"
    /\ owner' = "joining"
    /\ backlog' = <<>>
    /\ session' = [c \in Clients |-> IF Closed(c) THEN "closed" ELSE session[c]]
    /\ UNCHANGED <<running, listening, starts, acceptor, doing, broken, filled,
                   dead, unread, gone, sent, ready, late, rash, unsound, mute>>

CloseListener ==
    /\ owner = "stopping"
    /\ owner' = "joining"
    /\ listening' = FALSE
    /\ backlog' = <<>>
    /\ session' = [c \in Clients |-> IF Closed(c) THEN "closed" ELSE session[c]]
    /\ UNCHANGED <<running, starts, acceptor, doing, broken, filled,
                   dead, unread, gone, sent, ready, late, rash, unsound, mute>>

JoinAcceptor ==
    /\ owner = "joining"
    /\ acceptor = "exited"
    /\ owner' = "stopped"
    /\ acceptor' = "none"
    /\ UNCHANGED <<running, listening, starts, session, doing, broken, filled, dead,
                   network, ready, late, rash, unsound, mute>>

\* The destructor of a server that runs stops it first.
Destroy ==
    /\ owner \in {"off", "stopped"}
    /\ owner' = "destroyed"
    /\ UNCHANGED <<running, listening, starts, acceptor, session, doing, broken,
                   filled, dead, network, ready, late, rash, unsound, mute>>

(* The accept thread *)

TestRunning ==
    /\ acceptor = "test"
    /\ acceptor' = IF running THEN "accept" ELSE "exited"
    /\ UNCHANGED <<server, session, doing, broken, filled, dead, network, ready,
                   late, rash, unsound, mute>>

Accept ==
    /\ acceptor = "accept"
    /\ backlog # <<>>
    /\ acceptor' = "test"
    /\ session' = [session EXCEPT ![Head(backlog)] = "hello"]
    /\ backlog' = Tail(backlog)
    /\ UNCHANGED <<server, doing, broken, filled, dead, unread, gone, sent, ready,
                   late, rash, unsound, mute>>

\* Mutant: any failure of accept ends the thread.
FailureEnds ==
    /\ acceptor = "accept"
    /\ acceptor' = "exited"
    /\ UNCHANGED <<server, session, doing, broken, filled, dead, network, ready,
                   late, rash, unsound, mute>>

\* accept fails on a socket that is shut down or closed, and may fail on an open
\* one (a connection aborted, no descriptor left).
AcceptFails ==
    /\ acceptor = "accept"
    /\ acceptor' = IF running THEN "test" ELSE "exited"
    /\ UNCHANGED <<server, session, doing, broken, filled, dead, network, ready,
                   late, rash, unsound, mute>>

(* The clients *)

Connect(c) ==
    /\ session[c] = "none"
    /\ listening
    /\ session' = [session EXCEPT ![c] = "waiting"]
    /\ backlog' = Append(backlog, c)
    /\ ready' = [ready EXCEPT ![c] = TRUE]
    /\ UNCHANGED <<server, acceptor, doing, broken, filled, dead, unread, gone,
                   sent, late, rash, unsound, mute>>

SendMessage(c) ==
    /\ session[c] \notin {"none", "closed"}
    /\ c \notin gone
    /\ sent[c] < MaxSent[c]
    /\ sent' = [sent EXCEPT ![c] = @ + 1]
    /\ unread' = [unread EXCEPT ![c] = @ + 1]
    /\ ready' = [ready EXCEPT ![c] = FALSE]
    /\ rash' = IF ready[c] THEN rash ELSE rash \cup {c}
    /\ UNCHANGED <<server, acceptor, session, doing, broken, filled, dead, backlog,
                   gone, late, unsound, mute>>

\* Answers on their way to a client that hangs up come back as a reset.  There
\* are none if the client has read all answers before it sent its last message
\* and has none for that.
HangUp(c) ==
    /\ session[c] # "none"
    /\ c \notin gone
    /\ gone' = gone \cup {c}
    /\ broken' \in {broken} \cup
                   IF ready[c] \/ c \in rash \cup mute THEN {broken \cup {c}} ELSE {}
    /\ UNCHANGED <<server, acceptor, session, doing, filled, dead, backlog, unread,
                   sent, ready, late, rash, unsound, mute>>

\* Rows arrive in a table, or the last of them leave the places where the
\* server looks.
Turn(t) ==
    /\ filled' = IF t \in filled THEN filled \ {t} ELSE filled \cup {t}
    /\ UNCHANGED <<server, acceptor, session, doing, broken, dead, network, ready,
                   late, rash, unsound, mute>>

(* A session *)

\* send: to a client that has hung up it succeeds once, and provokes a reset;
\* on a connection that was reset it raises SIGPIPE, unless the reset still
\* had to be reported.
SendTo(c) ==
    /\ broken' = IF c \in gone THEN broken \cup {c} ELSE broken
    /\ dead' \in IF c \in broken THEN BOOLEAN ELSE {FALSE}

Reads(c) ==
    /\ unread[c] > 0
    /\ unread' = [unread EXCEPT ![c] = @ - 1]
    /\ UNCHANGED <<backlog, gone, sent>>

\* AuthenticationOk, three parameters, ReadyForQuery.  After an SSLRequest any
\* message is taken for the startup message.
Greet(c) ==
    /\ session[c] \in {"hello", "retry"}
    /\ Reads(c)
    /\ SendTo(c)
    /\ session' = [session EXCEPT ![c] = "test"]
    /\ ready' = [ready EXCEPT ![c] = unread'[c] = 0]
    /\ UNCHANGED <<server, acceptor, doing, filled, late, rash, unsound, mute>>

RefuseSsl(c) ==
    /\ session[c] = "hello"
    /\ Reads(c)
    /\ SendTo(c)
    /\ session' = [session EXCEPT ![c] = "retry"]
    /\ ready' = [ready EXCEPT ![c] = unread'[c] = 0]
    /\ UNCHANGED <<server, acceptor, doing, filled, late, rash, unsound, mute>>

\* Mutant: a session does not look whether the server still runs.
NoTest(c) ==
    /\ session[c] = "test"
    /\ session' = [session EXCEPT ![c] = "recv"]
    /\ UNCHANGED <<server, acceptor, doing, broken, filled, dead, network, ready,
                   late, rash, unsound, mute>>

\* while (running_): of a server that was destroyed, whatever is there now.
Test(c) ==
    /\ session[c] = "test"
    /\ \E on \in IF owner = "destroyed" THEN BOOLEAN ELSE {running} :
          session' = [session EXCEPT ![c] = IF on THEN "recv" ELSE "closed"]
    /\ UNCHANGED <<server, acceptor, doing, broken, filled, dead, network, ready,
                   late, rash, unsound, mute>>

Receive(c, s) ==
    /\ session[c] = "recv"
    /\ Reads(c)
    /\ session' = [session EXCEPT ![c] = "execute"]
    /\ doing' = [doing EXCEPT ![c] = s]
    /\ unsound' = (unsound \/ s \notin SoundStatements)
    /\ UNCHANGED <<server, acceptor, broken, filled, dead, ready, late, rash, mute>>

\* A message of a type the server does not know.
Ignore(c) ==
    /\ session[c] = "recv"
    /\ Reads(c)
    /\ session' = [session EXCEPT ![c] = "test"]
    /\ mute' = mute \cup {c}
    /\ UNCHANGED <<server, acceptor, doing, broken, filled, dead, ready, late, rash,
                   unsound>>

\* A Terminate, the end of the stream, an error, or fewer bytes than asked for:
\* a message that comes in pieces ends the session too.
EndSession(c) ==
    /\ session[c] \in {"hello", "retry", "recv"}
    /\ unread[c] > 0 \/ c \in gone
    /\ session' = [session EXCEPT ![c] = "closed"]
    /\ UNCHANGED <<server, acceptor, doing, broken, filled, dead, network, ready,
                   late, rash, unsound, mute>>

Ends(c) ==
    /\ session' = [session EXCEPT ![c] = "test"]
    /\ doing' = [doing EXCEPT ![c] = Nothing]

Counts(c) == late' = IF running THEN late ELSE [late EXCEPT ![c] = @ + 1]

\* A syntax error is not followed by a ReadyForQuery.
Refuse(c) ==
    /\ session[c] = "execute"
    /\ "error" \in Outcomes(doing[c])
    /\ Ends(c)
    /\ SendTo(c)
    /\ mute' = mute \cup {c}
    /\ Counts(c)
    /\ UNCHANGED <<server, acceptor, filled, network, ready, rash, unsound>>

Answer(c) ==
    /\ session[c] = "execute"
    /\ "reply" \in Outcomes(doing[c])
    /\ Ends(c)
    /\ SendTo(c)
    /\ ready' = [ready EXCEPT ![c] = unread[c] = 0]
    /\ Counts(c)
    /\ UNCHANGED <<server, acceptor, filled, network, rash, unsound, mute>>

\* An exception leaves the thread, or coordinator_ is read from a server that
\* was destroyed.
Die(c) ==
    /\ session[c] = "execute"
    /\ "dies" \in Outcomes(doing[c]) \/ owner = "destroyed"
    /\ dead' = TRUE
    /\ UNCHANGED <<server, acceptor, session, doing, broken, filled, network, ready,
                   late, rash, unsound, mute>>

SessionStep(c) ==
    \/ Greet(c)
    \/ RefuseSsl(c)
    \/ Test(c)
    \/ \E s \in Statements : Receive(c, s)
    \/ Ignore(c)
    \/ EndSession(c)
    \/ Refuse(c)
    \/ Answer(c)
    \/ Die(c)

ClientStep(c) == Connect(c) \/ SendMessage(c) \/ HangUp(c)

OwnerStep == CloseListener \/ JoinAcceptor

Next ==
    /\ ~dead
    /\ \/ Start
       \/ Stop
       \/ OwnerStep
       \/ Destroy
       \/ TestRunning
       \/ Accept
       \/ AcceptFails
       \/ \E c \in Clients : ClientStep(c) \/ SessionStep(c)
       \/ \E t \in Tables : Turn(t)

Spec == Init /\ [][Next]_vars
-----------------------------------------------------------------------------
Alive(A) == ~dead /\ A

\* The threads go on; shutting the socket down and joining follow the exchange;
\* accept does not fail for ever while connections wait.
FairSpec ==
    /\ Spec
    /\ WF_vars(Alive(OwnerStep))
    /\ WF_vars(Alive(TestRunning))
    /\ WF_vars(Alive(AcceptFails /\ ~listening))
    /\ SF_vars(Alive(Accept))
    /\ \A c \in Clients : WF_vars(Alive(SessionStep(c)))

IsRead(q) == PlainQuestion(q) => Parse(Write(q)) = Meaning(q)

\* Statements that are read as they are meant, under whatever conditions.
ReadAsMeant ==
    {s \in Statements : LET q == Sent[s].asked
                        IN  \/ q = NoQuestion
                            \/ \A w \in Wheres \cup {q.where} : IsRead([q EXCEPT !.where = w])}

\* Sound questions are among them.
SoundAreRead ==
    \A s \in SoundStatements : Parse(Sent[s].text) = Meaning(Sent[s].asked)

\* What a session executes is what its client meant: the table or the join with
\* its columns, the aggregate, and every comparison on the side it belongs to,
\* for questions that keep to what is plain.
ExecutesWhatIsMeant ==
    \A c \in Clients : doing[c] # Nothing => doing[c] \in ReadAsMeant

\* The process is only ended by a client that did not wait for its answers, by
\* a join or a statement outside what the planner takes, or by destroying the
\* server: whenever clients hang up, rows arrive and the server stops or starts
\* again.
OrderlyUseSurvives ==
    dead => rash # {} \/ unsound \/ owner = "destroyed"

\* Sessions are not joined by Stop.  Until the server is started again, each of
\* them answers one more statement at most.
OneAnswerAfterStop ==
    owner \in {"stopping", "joining", "stopped"} => \A c \in Clients : late[c] <= 1

\* Why these two hold (their inductive strengthening).
ServiceTyped ==
    /\ owner \in {"off", "on", "stopping", "joining", "stopped", "destroyed"}
    /\ running \in BOOLEAN /\ dead \in BOOLEAN /\ unsound \in BOOLEAN
    /\ backlog \in Seq(Clients)
    /\ session \in [Clients -> {"none", "waiting", "hello", "retry", "test", "recv",
                                "execute", "closed"}]
    /\ doing \in [Clients -> Statements \cup {Nothing}]
    /\ unread \in [Clients -> Nat] /\ late \in [Clients -> Nat]
    /\ ready \in [Clients -> BOOLEAN]

\* The server runs from Start to Stop.
RunsWhileOn == running <=> owner = "on"

\* A session executes what its client sent.
ExecutesSent ==
    \A c \in Clients : session[c] = "execute" =>
        doing[c] \in Statements /\ (unsound \/ doing[c] \in SoundStatements)

\* No message of client c is with the server.
Quiet(c) == unread[c] = 0 /\ session[c] # "execute"

\* A client that waits for its answers has one message with the server at most,
\* none when it has got the answer or will get none, and none after the
\* connection was reset: nothing will be sent on it.
Waits(c) ==
    /\ unread[c] <= 1 /\ (session[c] = "execute" => unread[c] = 0)
    /\ ready[c] \/ c \in broken \cup mute => Quiet(c)
    /\ c \in mute => ~ready[c]
    /\ session[c] = "none" => unread[c] = 0 /\ c \notin mute
    /\ c \in broken => c \in gone

WaitingClients == \A c \in Clients \ rash : Waits(c)

SoundSurvive == SoundAreRead => OrderlyUseSurvives

\* A session that is past the test of running_ may answer once more.
MayAnswer(c) == session[c] \in {"recv", "execute"}
AnswersLeft ==
    owner \in {"stopping", "joining", "stopped"} =>
        \A c \in Clients : late[c] <= IF MayAnswer(c) THEN 0 ELSE 1

ServiceInv ==
    /\ ServiceTyped
    /\ RunsWhileOn
    /\ ExecutesSent
    /\ WaitingClients
    /\ AnswersLeft
    /\ SoundSurvive

\* Stop returns, wherever the accept thread is and whoever is connected.
StopReturns == owner = "stopping" ~> owner = "stopped" \/ dead

\* Who has connected and sent a message is answered, or its connection ends,
\* even if the server stops before it was accepted.
AnsweredOrCutOff ==
    \A c \in Clients :
        unread[c] > 0 ~> ready[c] \/ session[c] = "closed" \/ c \in mute \/ dead
=============================================================================
