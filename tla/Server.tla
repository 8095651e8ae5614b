------------------------------- MODULE Server -------------------------------
(***************************************************************************)
(* onebase_server/server_main.cpp, server/protocol.h and the clients of    *)
(* onebase_client/client_main.cpp: one main thread that accepts, a worker  *)
(* thread for each connection, a signal that ends it all.  What a query    *)
(* does to the database is in Database; here it yields an answer, a result *)
(* or an error.  The sockets are the operating system's: two byte streams  *)
(* that deliver whole messages in order, except that a peer may vanish in  *)
(* the middle of one.                                                      *)
(***************************************************************************)
EXTENDS Integers, Sequences, FiniteSets

CONSTANTS
  Clients,
  MaxRequests    \* MaxRequests[c] bounds the requests of client c

ASSUME ServerAssumption == IsFiniteSet(Clients) /\ MaxRequests \in [Clients -> Nat]

VARIABLES
  running,     \* g_running
  listening,   \* is g_listen_fd open?
  handler,     \* the signal handler: not called, between its steps, returned
  main,        \* where the main thread is
  backlog,     \* connections the kernel has made that accept has not returned
  workers,     \* the clients of the vector of threads, in its order
  worker,      \* worker[c]: where the thread of client c is
  inbox,       \* inbox[c]: messages sent to the server and not read
  outbox,      \* outbox[c]: answers sent to the client and not read, by request
  client,      \* client[c]: the client's own state
  sent, got    \* the requests a client has sent, the answers it has read

serverVars == <<running, listening, handler, main, backlog, workers, worker>>
clientVars == <<client, sent, got>>
vars == <<serverVars, clientVars, inbox, outbox>>

\* A request is numbered, so that its answer can be told apart.
Query(n) == [type |-> "QUERY", n |-> n]
Other(n) == [type |-> "other", n |-> n]
Terminate == [type |-> "TERMINATE", n |-> 0]
Cut == [type |-> "cut", n |-> 0]     \* the message ends before its length says

\* socket, bind, listen; the instance is made before.
Init ==
  /\ running = TRUE /\ listening = TRUE /\ handler = "ready"
  /\ main = "check" /\ backlog = <<>> /\ workers = <<>>
  /\ worker = [c \in Clients |-> "none"]
  /\ inbox = [c \in Clients |-> <<>>] /\ outbox = [c \in Clients |-> <<>>]
  /\ client = [c \in Clients |-> "new"]
  /\ sent = [c \in Clients |-> 0] /\ got = [c \in Clients |-> 0]

\* Has the server's end of the connection been closed, by the worker or, for
\* a connection nobody accepted, by closing the listening socket?
Hungup(c) ==
  \/ worker[c] = "done"
  \/ worker[c] = "none" /\ ~listening /\ \A i \in 1 .. Len(backlog) : backlog[i] # c

Gone(c) == client[c] = "gone"

-----------------------------------------------------------------------------
(* The main thread.  It is the thread Linux gives a process's signals to,  *)
(* and takes no step while it is inside the handler.                       *)

MainRuns == handler # "stored"

Check ==
  /\ MainRuns /\ main = "check"
  /\ main' = IF running THEN "accept" ELSE "join"
  /\ UNCHANGED <<running, listening, handler, backlog, workers, worker,
                 clientVars, inbox, outbox>>

Accept ==
  LET c == Head(backlog) IN
  /\ MainRuns /\ main = "accept" /\ listening /\ backlog # <<>>
  /\ backlog' = Tail(backlog)
  /\ workers' = Append(workers, c)
  /\ worker' = [worker EXCEPT ![c] = "check"]
  /\ main' = "check"
  /\ UNCHANGED <<running, listening, handler, clientVars, inbox, outbox>>

\* accept returns an error.  While g_running is set it is tried again.
AcceptFails ==
  /\ MainRuns /\ main = "accept"
  /\ main' = IF running THEN "check" ELSE "join"
  /\ UNCHANGED <<running, listening, handler, backlog, workers, worker,
                 clientVars, inbox, outbox>>

\* Mutant: the threads are not waited for.
JoinNone ==
  /\ MainRuns /\ main = "join"
  /\ main' = "stopped" /\ workers' = <<>>
  /\ UNCHANGED <<running, listening, handler, backlog, worker, clientVars,
                 inbox, outbox>>

\* Wait for the threads one after the other.  After the last one main
\* returns, and the instance is destroyed.
Join ==
  /\ MainRuns /\ main = "join"
  /\ workers # <<>> => worker[Head(workers)] = "done"
  /\ main' = IF workers = <<>> THEN "stopped" ELSE "join"
  /\ workers' = IF workers = <<>> THEN <<>> ELSE Tail(workers)
  /\ UNCHANGED <<running, listening, handler, backlog, worker, clientVars,
                 inbox, outbox>>

\* SignalHandler, on SIGINT or SIGTERM.
Signal ==
  /\ handler = "ready" /\ main # "stopped"
  /\ running' = FALSE /\ handler' = "stored"
  /\ UNCHANGED <<listening, main, backlog, workers, worker, clientVars, inbox, outbox>>

\* Mutant: the listening socket stays open.
SignalKeepsSocket ==
  /\ handler = "stored"
  /\ handler' = "returned"
  /\ UNCHANGED <<running, listening, main, backlog, workers, worker, clientVars,
                 inbox, outbox>>

SignalCloses ==
  /\ handler = "stored"
  /\ listening' = FALSE /\ backlog' = <<>> /\ handler' = "returned"
  /\ UNCHANGED <<running, main, workers, worker, clientVars, inbox, outbox>>

-----------------------------------------------------------------------------
(* HandleClient.                                                           *)

WorkerStep(c, from, to) ==
  /\ worker[c] = from
  /\ worker' = [worker EXCEPT ![c] = to]
  /\ UNCHANGED <<running, listening, handler, main, backlog, workers, clientVars>>

CheckRunning(c) ==
  /\ WorkerStep(c, "check", IF running THEN "recv" ELSE "close")
  /\ UNCHANGED <<inbox, outbox>>

\* A whole message has arrived.
RecvMessage(c) ==
  /\ inbox[c] # <<>>
  /\ WorkerStep(c, "recv", CASE Head(inbox[c]).type = "QUERY" -> "query"
                             [] Head(inbox[c]).type = "other" -> "refuse"
                             [] OTHER -> "close")
  /\ inbox' = IF Head(inbox[c]).type \in {"QUERY", "other"}
              THEN inbox ELSE [inbox EXCEPT ![c] = Tail(@)]
  /\ UNCHANGED outbox

\* Nothing more will arrive: ReadExact returns false.
RecvFails(c) ==
  /\ inbox[c] = <<>> /\ Gone(c)
  /\ WorkerStep(c, "recv", "close")
  /\ UNCHANGED <<inbox, outbox>>

\* SendMessage, RESULT or ERROR.  Writing to a client that is gone fails, and
\* the failure is noticed by the next read.
Answer(c) ==
  /\ inbox' = [inbox EXCEPT ![c] = Tail(@)]
  /\ outbox' = IF Gone(c) THEN outbox
               ELSE [outbox EXCEPT ![c] = Append(@, Head(inbox[c]).n)]

\* Mutant: an exception ends the query without an answer.
HandleQuerySilent(c) ==
  /\ WorkerStep(c, "query", "check")
  /\ \/ Answer(c)
     \/ inbox' = [inbox EXCEPT ![c] = Tail(@)] /\ UNCHANGED outbox

\* Mutant: the break after the QUERY case is missing.
HandleQueryFallsThrough(c) ==
  /\ WorkerStep(c, "query", "check")
  /\ inbox' = [inbox EXCEPT ![c] = Tail(@)]
  /\ outbox' = IF Gone(c) THEN outbox
               ELSE [outbox EXCEPT ![c] = @ \o
                       <<Head(inbox[c]).n, Head(inbox[c]).n>>]

\* Bind, optimize, execute and format into a RESULT; whatever throws becomes
\* an ERROR.
HandleQuery(c) ==
  /\ WorkerStep(c, "query", "check")
  /\ Answer(c)

\* A message type the server does not know.
Refuse(c) ==
  /\ WorkerStep(c, "refuse", "check")
  /\ Answer(c)

Close(c) ==
  /\ WorkerStep(c, "close", "done")
  /\ UNCHANGED <<inbox, outbox>>

-----------------------------------------------------------------------------
(* The clients: the shell of client_main.cpp waits for each answer, others *)
(* may send requests ahead.                                                *)

Connect(c) ==
  /\ client[c] = "new" /\ listening
  /\ client' = [client EXCEPT ![c] = "open"]
  /\ backlog' = Append(backlog, c)
  /\ UNCHANGED <<running, listening, handler, main, workers, worker, sent, got,
                 inbox, outbox>>

ConnectFails(c) ==
  /\ client[c] = "new" /\ ~listening
  /\ client' = [client EXCEPT ![c] = "gone"]
  /\ UNCHANGED <<serverVars, sent, got, inbox, outbox>>

Send(c, message) ==
  /\ client[c] = "open" /\ ~Hungup(c) /\ sent[c] < MaxRequests[c]
  /\ sent' = [sent EXCEPT ![c] = @ + 1]
  /\ inbox' = [inbox EXCEPT ![c] = Append(@, message)]
  /\ UNCHANGED <<serverVars, client, got, outbox>>

SendQuery(c) == Send(c, Query(sent[c] + 1))

SendOther(c) == Send(c, Other(sent[c] + 1))

ReadAnswer(c) ==
  /\ client[c] = "open" /\ outbox[c] # <<>>
  /\ outbox' = [outbox EXCEPT ![c] = Tail(@)]
  /\ got' = [got EXCEPT ![c] = @ + 1]
  /\ UNCHANGED <<serverVars, client, sent, inbox>>

\* "Connection lost."
SeesHangup(c) ==
  /\ client[c] = "open" /\ outbox[c] = <<>> /\ Hungup(c)
  /\ client' = [client EXCEPT ![c] = "gone"]
  /\ UNCHANGED <<serverVars, sent, got, inbox, outbox>>

\* \q, the end of its input, or its death, perhaps in the middle of a message.
Leave(c) ==
  /\ client[c] = "open"
  /\ client' = [client EXCEPT ![c] = "gone"]
  /\ \E rest \in {<<>>, <<Terminate>>, <<Cut>>} :
       inbox' = [inbox EXCEPT ![c] = @ \o rest]
  /\ outbox' = [outbox EXCEPT ![c] = <<>>]
  /\ UNCHANGED <<serverVars, sent, got>>

-----------------------------------------------------------------------------
MainNext == Check \/ Accept \/ AcceptFails \/ Join

WorkerNext(c) ==
  CheckRunning(c) \/ RecvMessage(c) \/ RecvFails(c) \/ HandleQuery(c) \/ Refuse(c) \/ Close(c)

ClientNext(c) ==
  Connect(c) \/ ConnectFails(c) \/ SendQuery(c) \/ SendOther(c) \/ ReadAnswer(c)
    \/ SeesHangup(c) \/ Leave(c)

Next ==
  \/ MainNext
  \/ Signal
  \/ SignalCloses
  \/ \E c \in Clients : WorkerNext(c) \/ ClientNext(c)

\* Threads that can run do run: the server's steps, and accept does not fail
\* for ever while connections are waiting.  Nothing is assumed of clients.
Fairness ==
  /\ WF_vars(Check) /\ WF_vars(Join) /\ WF_vars(SignalCloses)
  /\ WF_vars(AcceptFails /\ ~listening) /\ SF_vars(Accept)
  /\ \A c \in Clients : WF_vars(WorkerNext(c))

Spec == Init /\ [][Next]_vars /\ Fairness

-----------------------------------------------------------------------------
\* The answers that wait for a client answer its requests one for one and in
\* order, whatever kind of request they were and whether they succeeded, and
\* nothing is answered twice: those read, those waiting, the one in hand and
\* those unread are together all the client has sent.
AnswersInOrder ==
  \A c \in Clients : ~Gone(c) =>
    /\ \A i \in 1 .. Len(outbox[c]) : outbox[c][i] = got[c] + i
    /\ got[c] + Len(outbox[c]) + Len(inbox[c]) = sent[c]

\* The instance, which main destroys when it returns, is never used after:
\* by then every thread has ended and every connection is closed.
InstanceOutlivesWorkers ==
  main = "stopped" =>
    /\ ~listening
    /\ \A c \in Clients : worker[c] \in {"none", "done"}
    /\ \A c \in Clients : client[c] = "open" => Hungup(c)

\* Every request that reaches the server is answered, or its client is told
\* by a closed connection: nobody waits for ever.
NobodyWaitsForEver ==
  \A c \in Clients :
    (client[c] = "open" /\ got[c] + Len(outbox[c]) < sent[c]) ~>
      (Hungup(c) \/ Gone(c) \/ got[c] + Len(outbox[c]) = sent[c])

\* Once signalled, the server stops as soon as its clients let it: a worker
\* that waits in read is not woken by the signal.
ShutdownCompletes ==
  (~running /\ []<>(\A c \in Clients : client[c] # "open" \/ Hungup(c)))
    ~> main = "stopped"
=============================================================================
