----------------------------- MODULE TestClient -----------------------------
(***************************************************************************)
(* src/Gamnet/Test: the load test that plays many clients of a server.  A  *)
(* timer posts tasks to a ThreadPool, each task connects one session, and  *)
(* a session sends the messages of execute_order one after the other, the  *)
(* next one whenever anything it has a handler for arrives.                *)
(*                                                                         *)
(* The server answers in order, may send notifications in between, and may *)
(* close a connection; it is what the sessions of src/example/server do.   *)
(***************************************************************************)
EXTENDS Naturals, Sequences, FiniteSets

CONSTANTS
    Sessions,       \* the session pool
    session_count,  \* of <test session_count=.. loop_count=..>
    loop_count,
    Tests,          \* Len(execute_order), "__connect__" included
    MaxNotices      \* bound of the model: notifications to one session

VARIABLES
    timer,          \* execute_timer: "armed", "looping", "off"
    i,              \* the variable of that loop
    execute_count,
    report,         \* log_timer: "armed", or "finished" when it has logged that
    tasks,          \* tasks posted and not run
    state,          \* of each session: "idle", "connecting", "connected",
                    \* "finished", "failed", "closed"
    test_seq,
    sent, answered, \* messages sent by a session; answers it has read
    noticed,        \* notifications it has read
    inbox,          \* what the server sent it and it has not read
    counted         \* TestExecuteInfo::execute_count of each test

testVars == <<timer, i, execute_count, report, tasks, state, test_seq, sent, answered,
              noticed, inbox, counted>>

loopVars == <<timer, i, execute_count, report>>

Init ==
    /\ timer = "armed"
    /\ i = 0
    /\ execute_count = 0
    /\ report = "armed"
    /\ tasks = 0
    /\ state = [s \in Sessions |-> "idle"]
    /\ test_seq = [s \in Sessions |-> 0]
    /\ sent = [s \in Sessions |-> 0]
    /\ answered = [s \in Sessions |-> 0]
    /\ noticed = [s \in Sessions |-> 0]
    /\ inbox = [s \in Sessions |-> <<>>]
    /\ counted = [n \in 1 .. Tests |-> 0]

InUse == Cardinality({s \in Sessions : state[s] # "idle"})

InboxCount(s, kind) == Len(SelectSeq(inbox[s], LAMBDA m : m = kind))

-----------------------------------------------------------------------------
(***************************************************************************)
(* Starting sessions.                                                      *)
(***************************************************************************)

Expire ==
    /\ timer = "armed"
    /\ timer' = "looping"
    /\ i' = 0
    /\ UNCHANGED <<execute_count, report, tasks, state, test_seq, sent, answered,
                   noticed, inbox, counted>>

(* One round of the loop: it ends when enough sessions are in use or have  *)
(* ever been started; the sessions of tasks that still wait for a thread   *)
(* are not in use.  After it the timer is resumed or left off.             *)
Post ==
    /\ timer = "looping"
    /\ IF i < session_count /\ InUse < session_count
       THEN /\ tasks' = tasks + 1
            /\ execute_count' = execute_count + 1
            /\ i' = IF execute_count' >= loop_count THEN session_count ELSE i + 1
            /\ UNCHANGED timer
       ELSE /\ timer' = IF execute_count < loop_count THEN "armed" ELSE "off"
            /\ UNCHANGED <<tasks, execute_count, i>>
    /\ UNCHANGED <<report, state, test_seq, sent, answered, noticed, inbox, counted>>

(* Every three seconds: the report, and the timer is resumed until enough  *)
(* sessions were started.                                                  *)
Report ==
    /\ report = "armed"
    /\ execute_count >= loop_count
    /\ report' = "finished"
    /\ UNCHANGED <<timer, i, execute_count, tasks, state, test_seq, sent,
                   answered, noticed, inbox, counted>>

(* A task: without a free session it gives up, though it was counted.      *)
RunTask ==
    /\ tasks > 0
    /\ tasks' = tasks - 1
    /\ IF \A s \in Sessions : state[s] # "idle"
       THEN UNCHANGED <<state, test_seq>>
       ELSE \E s \in Sessions :
                /\ state[s] = "idle"
                /\ state' = [state EXCEPT ![s] = "connecting"]
                /\ test_seq' = [test_seq EXCEPT ![s] = 0]
    /\ UNCHANGED <<loopVars, sent, answered, noticed, inbox, counted>>

-----------------------------------------------------------------------------
(***************************************************************************)
(* One session.                                                            *)
(***************************************************************************)

\* The send handler of the test number seq, and its count.
SendTest(s, seq) ==
    /\ sent' = [sent EXCEPT ![s] = @ + 1]
    /\ counted' = [counted EXCEPT ![seq + 1] = @ + 1]

OnConnect(s) ==
    /\ state[s] = "connecting"
    /\ state' = [state EXCEPT ![s] = "connected"]
    /\ SendTest(s, test_seq[s])
    /\ UNCHANGED <<loopVars, tasks, test_seq, answered, noticed, inbox>>

\* A mutant: two messages read together move the session on once.
OnRecvMsgBoth(s) ==
    /\ state[s] = "connected"
    /\ Len(inbox[s]) > 1
    /\ inbox' = [inbox EXCEPT ![s] = <<>>]
    /\ answered' = [answered EXCEPT ![s] = @ + InboxCount(s, "answer")]
    /\ noticed' = [noticed EXCEPT ![s] = @ + InboxCount(s, "notice")]
    /\ test_seq' = [test_seq EXCEPT ![s] = @ + 1]
    /\ IF test_seq'[s] >= Tests
       THEN /\ state' = [state EXCEPT ![s] = "finished"]
            /\ UNCHANGED <<sent, counted>>
       ELSE SendTest(s, test_seq'[s]) /\ UNCHANGED state
    /\ UNCHANGED <<loopVars, tasks>>

(* OnRecvMsg: any message with a handler, an answer or not, moves the      *)
(* session on to the next test, and after the last one closes it.          *)
OnRecvMsg(s) ==
    /\ state[s] = "connected"
    /\ inbox[s] # <<>>
    /\ inbox' = [inbox EXCEPT ![s] = Tail(@)]
    /\ IF Head(inbox[s]) = "answer"
       THEN answered' = [answered EXCEPT ![s] = @ + 1] /\ UNCHANGED noticed
       ELSE noticed' = [noticed EXCEPT ![s] = @ + 1] /\ UNCHANGED answered
    /\ test_seq' = [test_seq EXCEPT ![s] = @ + 1]
    /\ IF test_seq'[s] >= Tests
       THEN /\ state' = [state EXCEPT ![s] = "finished"]
            /\ UNCHANGED <<sent, counted>>
       ELSE SendTest(s, test_seq'[s]) /\ UNCHANGED state
    /\ UNCHANGED <<loopVars, tasks>>

(* OnClose, which replaces that of Tcp::LinkManager: the base class is     *)
(* called, nothing takes the session off its link, each of the two keeps   *)
(* the other, and neither goes back to its pool.                           *)
OnClose(s) ==
    /\ state[s] \in {"finished", "failed"}
    /\ state' = [state EXCEPT ![s] = "closed"]
    /\ inbox' = [inbox EXCEPT ![s] = <<>>]
    /\ UNCHANGED <<loopVars, tasks, test_seq, sent, answered, noticed, counted>>

-----------------------------------------------------------------------------
(***************************************************************************)
(* The server and the network.                                             *)
(***************************************************************************)

Answer(s) ==
    /\ state[s] = "connected"
    /\ answered[s] + InboxCount(s, "answer") < sent[s]
    /\ inbox' = [inbox EXCEPT ![s] = Append(@, "answer")]
    /\ UNCHANGED <<loopVars, tasks, state, test_seq, sent, answered, noticed,
                   counted>>

Notify(s) ==
    /\ state[s] = "connected"
    /\ noticed[s] + InboxCount(s, "notice") < MaxNotices
    /\ inbox' = [inbox EXCEPT ![s] = Append(@, "notice")]
    /\ UNCHANGED <<loopVars, tasks, state, test_seq, sent, answered, noticed,
                   counted>>

Fail(s) ==
    /\ state[s] \in {"connecting", "connected"}
    /\ state' = [state EXCEPT ![s] = "failed"]
    /\ UNCHANGED <<loopVars, tasks, test_seq, sent, answered, noticed, inbox,
                   counted>>

Progress(s) == OnConnect(s) \/ OnRecvMsg(s) \/ OnClose(s) \/ Answer(s)

Next ==
    \/ Expire \/ Post \/ Report \/ RunTask
    \/ \E s \in Sessions : Progress(s) \/ Notify(s) \/ Fail(s)

\* The timers expire, the threads of the pool run, and the server answers
\* what it has received; it need not notify nor fail.
Fairness ==
    /\ WF_testVars(Expire \/ Post)
    /\ WF_testVars(Report)
    /\ WF_testVars(RunTask)
    /\ \A s \in Sessions : WF_testVars(Progress(s))

FairSpec == Init /\ [][Next]_testVars /\ Fairness

-----------------------------------------------------------------------------

\* A session is one message ahead of what it has read: it sends a test only
\* for an answer or a notification, and each at most once.
OneAhead ==
    \A s \in Sessions :
        /\ state[s] = "connected" =>
               /\ sent[s] = answered[s] + noticed[s] + 1
               /\ sent[s] = test_seq[s] + 1
        /\ state[s] = "finished" =>
               sent[s] = Tests /\ answered[s] + noticed[s] = Tests

\* No more sessions are started than loop_count, and every one counted is
\* waiting for a thread, was connected, or found the session pool empty.
StartsBounded ==
    /\ execute_count <= loop_count
    /\ InUse + tasks <= execute_count

\* The counts of the report are the messages sent: as many of each test as
\* there are sessions that came so far.
CountsAgree ==
    \A n \in 1 .. Tests :
        counted[n] = Cardinality({s \in Sessions : sent[s] >= n})

\* LinkManager.h:140: the load test ends, and its log says "test finished"
\* once loop_count sessions were started.
TestEnds == <>(report = "finished")
=============================================================================
