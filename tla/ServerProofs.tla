---------------------------- MODULE ServerProofs ----------------------------
(***************************************************************************)
(* The server for any number of clients and requests: answers come one for *)
(* one and in order, and the instance outlives every thread that uses it.  *)
(***************************************************************************)
EXTENDS Server, SequenceTheorems, TLAPS

Messages == [type : {"QUERY", "other", "TERMINATE", "cut"}, n : Nat]

\* The types of the variables.
TypeOK ==
  /\ running \in BOOLEAN /\ listening \in BOOLEAN
  /\ handler \in {"ready", "stored", "returned"}
  /\ main \in {"check", "accept", "join", "stopped"}
  /\ backlog \in Seq(Clients) /\ workers \in Seq(Clients)
  /\ worker \in [Clients -> {"none", "check", "recv", "query", "refuse", "close", "done"}]
  /\ inbox \in [Clients -> Seq(Messages)]
  /\ outbox \in [Clients -> Seq(Nat)]
  /\ client \in [Clients -> {"new", "open", "gone"}]
  /\ sent \in [Clients -> Nat] /\ got \in [Clients -> Nat]

\* A worker that has recognised a request still finds it at the front.
InHand == \A c \in Clients : worker[c] \in {"query", "refuse"} => inbox[c] # <<>>

-----------------------------------------------------------------------------
(* The two streams of a connection, as values: what the client has sent,   *)
(* s, is what it has read, g, what waits in out, and what waits in in.     *)

Channel(in, out, g, s) ==
  /\ \A i \in 1 .. Len(out) : out[i] = g + i
  /\ g + Len(out) + Len(in) = s
  /\ \A i \in 1 .. Len(in) :
       in[i].n = g + Len(out) + i /\ in[i].type \in {"QUERY", "other"}

\* The server takes the first request and answers it.
LEMMA AnswerChannel ==
  ASSUME NEW in \in Seq(Messages), in # <<>>, NEW out \in Seq(Nat),
         NEW g \in Nat, NEW s \in Nat, Channel(in, out, g, s)
  PROVE  Channel(Tail(in), Append(out, Head(in).n), g, s)
  <1> DEFINE t == Tail(in)
             a == Append(out, Head(in).n)
  <1>1. /\ Len(in) \in Nat \ {0} /\ Len(out) \in Nat /\ Head(in) = in[1]
        /\ 1 \in 1 .. Len(in) /\ Head(in).n = g + Len(out) + 1
    <2>1. Len(in) \in Nat \ {0} /\ Len(out) \in Nat /\ Head(in) = in[1]
      OBVIOUS
    <2>2. 1 \in 1 .. Len(in)
      BY <2>1
    <2>3. QED
      BY <2>1, <2>2 DEF Channel
  <1>2. Len(t) = Len(in) - 1 /\ \A i \in 1 .. Len(t) : t[i] = in[i + 1]
    BY HeadTailProperties
  <1>3. /\ Len(a) = Len(out) + 1 /\ a[Len(out) + 1] = g + Len(out) + 1
        /\ \A i \in 1 .. Len(out) : a[i] = out[i]
    BY <1>1
  <1> HIDE DEF a, t
  <1>4. ASSUME NEW i \in 1 .. Len(a) PROVE a[i] = g + i
    <2>1. i \in 1 .. Len(out) \/ i = Len(out) + 1
      BY <1>1, <1>3
    <2>2. QED
      BY <2>1, <1>1, <1>3 DEF Channel
  <1>5. g + Len(a) + Len(t) = s
    <2>1. /\ Len(in) \in Nat /\ Len(out) \in Nat
          /\ Len(a) = Len(out) + 1 /\ Len(t) = Len(in) - 1
      BY <1>1, <1>2, <1>3
    <2>2. g + Len(out) + Len(in) = s
      BY DEF Channel
    <2>3. QED
      BY <2>1, <2>2, SMTT(60)
  <1>6. ASSUME NEW i \in 1 .. Len(t)
        PROVE  t[i].n = g + Len(a) + i /\ t[i].type \in {"QUERY", "other"}
    <2>1. i + 1 \in 1 .. Len(in) /\ t[i] = in[i + 1] /\ i \in Nat
      BY <1>1, <1>2
    <2>2. in[i + 1].n = g + Len(out) + (i + 1) /\ in[i + 1].type \in {"QUERY", "other"}
      BY <2>1 DEF Channel
    <2>3. QED
      BY <2>1, <2>2, <1>1, <1>3
  <1>7. QED
    BY <1>4, <1>5, <1>6 DEF Channel, a, t

\* The client sends its next request.
LEMMA SendChannel ==
  ASSUME NEW in \in Seq(Messages), NEW out \in Seq(Nat), NEW g \in Nat, NEW s \in Nat,
         NEW m \in Messages, m.n = s + 1, m.type \in {"QUERY", "other"},
         Channel(in, out, g, s)
  PROVE  Channel(Append(in, m), out, g, s + 1)
  <1> DEFINE a == Append(in, m)
  <1>1. /\ Len(in) \in Nat /\ Len(out) \in Nat
        /\ Len(a) = Len(in) + 1 /\ a[Len(in) + 1] = m
        /\ \A i \in 1 .. Len(in) : a[i] = in[i]
    OBVIOUS
  <1> HIDE DEF a
  <1>2. g + Len(out) + Len(in) = s
    BY DEF Channel
  <1>3. ASSUME NEW i \in 1 .. Len(a)
        PROVE  a[i].n = g + Len(out) + i /\ a[i].type \in {"QUERY", "other"}
    <2>1. i \in 1 .. Len(in) \/ i = Len(in) + 1
      BY <1>1
    <2>2. CASE i \in 1 .. Len(in)
      BY <2>2, <1>1 DEF Channel
    <2>3. CASE i = Len(in) + 1
      <3>1. a[i] = m
        BY <2>3, <1>1
      <3>2. g + Len(out) + i = s + 1
        BY <2>3, <1>1, <1>2, SMTT(60)
      <3>3. QED
        BY <3>1, <3>2
    <2>4. QED
      BY <2>1, <2>2, <2>3
  <1>4. g + Len(out) + Len(a) = s + 1
    <2>1. Len(a) = Len(in) + 1 /\ Len(in) \in Nat /\ Len(out) \in Nat
      BY <1>1
    <2>2. QED
      BY <2>1, <1>2, SMTT(60)
  <1>5. QED
    BY <1>3, <1>4 DEF Channel, a

\* The client reads the first answer.
LEMMA ReadChannel ==
  ASSUME NEW in \in Seq(Messages), NEW out \in Seq(Nat), out # <<>>,
         NEW g \in Nat, NEW s \in Nat, Channel(in, out, g, s)
  PROVE  Channel(in, Tail(out), g + 1, s)
  <1> DEFINE t == Tail(out)
  <1>1. /\ Len(in) \in Nat /\ Len(out) \in Nat \ {0} /\ Len(t) = Len(out) - 1
        /\ \A i \in 1 .. Len(t) : t[i] = out[i + 1]
    BY HeadTailProperties
  <1> HIDE DEF t
  <1>2. ASSUME NEW i \in 1 .. Len(t) PROVE t[i] = g + 1 + i
    <2>1. i + 1 \in 1 .. Len(out) /\ t[i] = out[i + 1] /\ i \in Nat
      BY <1>1
    <2>2. out[i + 1] = g + (i + 1)
      BY <2>1 DEF Channel
    <2>3. QED
      BY <2>1, <2>2
  <1>3. g + 1 + Len(t) = g + Len(out)
    BY <1>1
  <1>4. QED
    BY <1>2, <1>3 DEF Channel, t

-----------------------------------------------------------------------------
(* The inductive invariant of the streams.                                 *)

Streams == \A c \in Clients : ~Gone(c) => Channel(inbox[c], outbox[c], got[c], sent[c])

AInv == TypeOK /\ InHand /\ Streams

LEMMA AInit == Init => AInv
  <1> SUFFICES ASSUME Init PROVE AInv
    OBVIOUS
  <1>1. TypeOK
    BY DEF Init, TypeOK
  <1>2. InHand
    BY DEF Init, InHand
  <1>3. Channel(<<>>, <<>>, 0, 0)
    BY DEF Channel
  <1>4. Streams
    BY <1>3 DEF Init, Streams
  <1>5. QED
    BY <1>1, <1>2, <1>4 DEF AInv

\* A step that leaves the streams of everybody but c alone, and does right
\* by c's.
LEMMA StreamsOfOne ==
  ASSUME AInv, NEW c \in Clients,
         \A d \in Clients : d # c =>
           /\ inbox'[d] = inbox[d] /\ outbox'[d] = outbox[d] /\ client'[d] = client[d]
           /\ got'[d] = got[d] /\ sent'[d] = sent[d] /\ worker'[d] = worker[d],
         client'[c] # "gone" => Channel(inbox'[c], outbox'[c], got'[c], sent'[c]),
         worker'[c] \in {"query", "refuse"} => inbox'[c] # <<>>
  PROVE  InHand' /\ Streams'
  BY DEF AInv, InHand, Streams, Gone

LEMMA TailType ==
  ASSUME NEW S, NEW q \in Seq(S), q # <<>>
  PROVE  Tail(q) \in Seq(S) /\ Head(q) \in S
  BY HeadTailProperties

\* What a client leaves behind is a message, whole or cut, or nothing.
LEMMA LeaveRest ==
  ASSUME NEW c \in Clients, Leave(c)
  PROVE  \E rest \in Seq(Messages) : inbox' = [inbox EXCEPT ![c] = inbox[c] \o rest]
  <1>1. Terminate \in Messages /\ Cut \in Messages
    BY DEF Terminate, Cut, Messages
  <1>2. ASSUME NEW m \in Messages PROVE <<m>> \in Seq(Messages)
    OBVIOUS
  <1>3. <<>> \in Seq(Messages) /\ <<Terminate>> \in Seq(Messages) /\ <<Cut>> \in Seq(Messages)
    BY <1>1, <1>2, EmptySeq
  <1>4. PICK rest \in {<<>>, <<Terminate>>, <<Cut>>} :
          inbox' = [inbox EXCEPT ![c] = inbox[c] \o rest]
    BY DEF Leave
  <1>5. QED
    BY <1>3, <1>4

LEMMA TypeStep == AInv /\ [Next]_vars => TypeOK'
  <1> SUFFICES ASSUME AInv, [Next]_vars PROVE TypeOK'
    OBVIOUS
  <1> USE DEF AInv
  <1>1. CASE Check \/ AcceptFails \/ Signal
    BY <1>1 DEF Check, AcceptFails, Signal, clientVars, TypeOK
  <1>2. CASE SignalCloses
    <2>1. backlog' \in Seq(Clients)
      <3>1. backlog' = <<>>
        BY <1>2 DEF SignalCloses
      <3>2. QED
        BY <3>1, EmptySeq
    <2>2. QED
      BY <1>2, <2>1 DEF SignalCloses, clientVars, TypeOK
  <1>3. CASE Accept
    <2>1. /\ Tail(backlog) \in Seq(Clients) /\ Head(backlog) \in Clients
      BY <1>3, TailType DEF Accept, TypeOK
    <2>2. QED
      BY <1>3, <2>1 DEF Accept, clientVars, TypeOK
  <1>4. CASE Join
    <2>1. workers # <<>> => Tail(workers) \in Seq(Clients)
      BY TailType DEF TypeOK
    <2>2. workers' \in Seq(Clients)
      BY <1>4, <2>1 DEF Join, TypeOK
    <2>3. QED
      BY <1>4, <2>2 DEF Join, clientVars, TypeOK
  <1>5. ASSUME NEW c \in Clients, CheckRunning(c) \/ RecvFails(c) \/ Close(c) PROVE TypeOK'
    BY <1>5 DEF CheckRunning, RecvFails, Close, WorkerStep, clientVars, TypeOK
  <1>6. ASSUME NEW c \in Clients, RecvMessage(c) PROVE TypeOK'
    <2>1. Tail(inbox[c]) \in Seq(Messages)
      BY <1>6, TailType DEF RecvMessage, TypeOK
    <2>2. inbox' \in [Clients -> Seq(Messages)]
      BY <1>6, <2>1 DEF RecvMessage, TypeOK
    <2>3. worker' \in [Clients -> {"none", "check", "recv", "query", "refuse", "close", "done"}]
      BY <1>6 DEF RecvMessage, WorkerStep, TypeOK
    <2>4. QED
      BY <1>6, <2>2, <2>3 DEF RecvMessage, WorkerStep, clientVars, TypeOK
  <1>7. ASSUME NEW c \in Clients, HandleQuery(c) \/ Refuse(c) PROVE TypeOK'
    <2>1. inbox[c] # <<>> /\ Answer(c)
      BY <1>7 DEF HandleQuery, Refuse, WorkerStep, InHand
    <2>2. Tail(inbox[c]) \in Seq(Messages) /\ Head(inbox[c]) \in Messages
      BY <2>1, TailType DEF TypeOK
    <2>3. Head(inbox[c]).n \in Nat
      BY <2>2 DEF Messages
    <2>4. inbox' \in [Clients -> Seq(Messages)] /\ outbox' \in [Clients -> Seq(Nat)]
      BY <2>1, <2>2, <2>3 DEF Answer, TypeOK
    <2>5. QED
      BY <1>7, <2>4 DEF HandleQuery, Refuse, WorkerStep, clientVars, TypeOK
  <1>8. ASSUME NEW c \in Clients, Connect(c) \/ ConnectFails(c) \/ SeesHangup(c) PROVE TypeOK'
    <2>1. backlog' \in Seq(Clients)
      <3>1. Append(backlog, c) \in Seq(Clients)
        BY DEF TypeOK
      <3>2. backlog' = backlog \/ backlog' = Append(backlog, c)
        BY <1>8 DEF Connect, ConnectFails, SeesHangup, serverVars
      <3>3. QED
        BY <3>1, <3>2 DEF TypeOK
    <2>2. client' \in [Clients -> {"new", "open", "gone"}]
      BY <1>8 DEF Connect, ConnectFails, SeesHangup, TypeOK
    <2>3. QED
      BY <1>8, <2>1, <2>2 DEF Connect, ConnectFails, SeesHangup, serverVars, TypeOK
  <1>9. ASSUME NEW c \in Clients, SendQuery(c) \/ SendOther(c) PROVE TypeOK'
    <2>1. Query(sent[c] + 1) \in Messages /\ Other(sent[c] + 1) \in Messages
      BY DEF Query, Other, Messages, TypeOK
    <2>2. PICK m \in Messages : Send(c, m)
      BY <1>9, <2>1 DEF SendQuery, SendOther
    <2>3. QED
      BY <2>2 DEF Send, serverVars, TypeOK
  <1>10. ASSUME NEW c \in Clients, ReadAnswer(c) PROVE TypeOK'
    <2>1. Tail(outbox[c]) \in Seq(Nat)
      BY <1>10, TailType DEF ReadAnswer, TypeOK
    <2>2. QED
      BY <1>10, <2>1 DEF ReadAnswer, serverVars, TypeOK
  <1>11. ASSUME NEW c \in Clients, Leave(c) PROVE TypeOK'
    <2>2. PICK rest \in Seq(Messages) : inbox' = [inbox EXCEPT ![c] = inbox[c] \o rest]
      BY <1>11, LeaveRest
    <2>3. inbox[c] \o rest \in Seq(Messages)
      BY DEF TypeOK
    <2>4. inbox' \in [Clients -> Seq(Messages)]
      BY <2>2, <2>3 DEF TypeOK
    <2>5. outbox' \in [Clients -> Seq(Nat)]
      <3>1. <<>> \in Seq(Nat)
        BY EmptySeq
      <3>2. QED
        BY <1>11, <3>1 DEF Leave, TypeOK
    <2>6. client' \in [Clients -> {"new", "open", "gone"}]
      BY <1>11 DEF Leave, TypeOK
    <2>7. QED
      BY <1>11, <2>4, <2>5, <2>6 DEF Leave, serverVars, TypeOK
  <1>12. CASE UNCHANGED vars
    BY <1>12 DEF vars, serverVars, clientVars, TypeOK
  <1>13. QED
    BY <1>1, <1>2, <1>3, <1>4, <1>5, <1>6, <1>7, <1>8, <1>9, <1>10, <1>11, <1>12
    DEF Next, MainNext, WorkerNext, ClientNext

LEMMA StreamsStep == AInv /\ [Next]_vars => InHand' /\ Streams'
  <1> SUFFICES ASSUME AInv, [Next]_vars PROVE InHand' /\ Streams'
    OBVIOUS
  <1> USE DEF AInv
  <1>1. ASSUME inbox' = inbox, outbox' = outbox, client' = client, got' = got, sent' = sent,
               \A c \in Clients : worker'[c] = worker[c] \/ worker'[c] \notin {"query", "refuse"}
        PROVE  InHand' /\ Streams'
    BY <1>1 DEF InHand, Streams, Gone
  <1>2. CASE Check \/ AcceptFails \/ Signal \/ SignalCloses \/ Join
    BY <1>1, <1>2 DEF Check, AcceptFails, Signal, SignalCloses, Join, clientVars
  <1>3. CASE Accept
    BY <1>1, <1>3 DEF Accept, clientVars, TypeOK
  <1>4. ASSUME NEW c \in Clients, CheckRunning(c) \/ RecvFails(c) \/ Close(c)
        PROVE  InHand' /\ Streams'
    BY <1>1, <1>4 DEF CheckRunning, RecvFails, Close, WorkerStep, clientVars, TypeOK
  <1>5. ASSUME NEW c \in Clients, RecvMessage(c) PROVE InHand' /\ Streams'
    <2>1. /\ inbox[c] # <<>> /\ outbox' = outbox /\ client' = client /\ got' = got /\ sent' = sent
          /\ \A d \in Clients : d # c => worker'[d] = worker[d] /\ inbox'[d] = inbox[d]
      BY <1>5 DEF RecvMessage, WorkerStep, clientVars, TypeOK
    <2>2. CASE Head(inbox[c]).type \in {"QUERY", "other"}
      <3>1. inbox' = inbox
        BY <1>5, <2>2 DEF RecvMessage
      <3>2. QED
        BY <2>1, <3>1 DEF InHand, Streams, Gone
    <2>3. CASE Head(inbox[c]).type \notin {"QUERY", "other"}
      <3>1. worker'[c] = "close"
        BY <1>5, <2>3 DEF RecvMessage, WorkerStep, TypeOK
      <3>2. client[c] = "gone"
        <4>1. inbox[c] \in Seq(Messages) /\ Head(inbox[c]) = inbox[c][1]
          BY DEF TypeOK
        <4>2. 1 \in 1 .. Len(inbox[c])
          BY <4>1, <2>1
        <4>3. QED
          BY <4>1, <4>2, <2>3 DEF Streams, Channel, Gone
      <3>3. QED
        BY <2>1, <3>1, <3>2, StreamsOfOne
    <2>4. QED
      BY <2>2, <2>3
  <1>6. ASSUME NEW c \in Clients, HandleQuery(c) \/ Refuse(c) PROVE InHand' /\ Streams'
    <2>1. /\ inbox[c] # <<>> /\ Answer(c) /\ client' = client /\ got' = got /\ sent' = sent
          /\ worker' = [worker EXCEPT ![c] = "check"]
      BY <1>6 DEF HandleQuery, Refuse, WorkerStep, clientVars, InHand
    <2>2. client[c] # "gone" =>
            /\ inbox'[c] = Tail(inbox[c])
            /\ outbox'[c] = Append(outbox[c], Head(inbox[c]).n)
      BY <2>1 DEF Answer, Gone, TypeOK
    <2>3. \A d \in Clients : d # c =>
            /\ inbox'[d] = inbox[d] /\ outbox'[d] = outbox[d] /\ worker'[d] = worker[d]
      BY <2>1 DEF Answer, TypeOK
    <2>4. client[c] # "gone" =>
            Channel(Tail(inbox[c]), Append(outbox[c], Head(inbox[c]).n), got[c], sent[c])
      BY <2>1, AnswerChannel DEF Streams, Gone, TypeOK
    <2>5. worker'[c] = "check"
      BY <2>1 DEF TypeOK
    <2>6. QED
      BY <2>1, <2>2, <2>3, <2>4, <2>5, StreamsOfOne
  <1>7. ASSUME NEW c \in Clients, Connect(c) \/ ConnectFails(c) \/ SeesHangup(c)
        PROVE  InHand' /\ Streams'
    <2>1. /\ inbox' = inbox /\ outbox' = outbox /\ got' = got /\ sent' = sent /\ worker' = worker
          /\ client[c] # "gone"
          /\ \A d \in Clients : d # c => client'[d] = client[d]
      BY <1>7 DEF Connect, ConnectFails, SeesHangup, serverVars, TypeOK
    <2>2. QED
      BY <2>1 DEF InHand, Streams, Gone
  <1>8. ASSUME NEW c \in Clients, SendQuery(c) \/ SendOther(c) PROVE InHand' /\ Streams'
    <2>1. PICK m \in Messages : Send(c, m) /\ m.n = sent[c] + 1 /\ m.type \in {"QUERY", "other"}
      <3>1. sent[c] + 1 \in Nat
        BY DEF TypeOK
      <3>2. /\ Query(sent[c] + 1) \in Messages /\ Other(sent[c] + 1) \in Messages
            /\ Query(sent[c] + 1).n = sent[c] + 1 /\ Other(sent[c] + 1).n = sent[c] + 1
            /\ Query(sent[c] + 1).type = "QUERY" /\ Other(sent[c] + 1).type = "other"
        BY <3>1 DEF Query, Other, Messages
      <3>3. QED
        BY <1>8, <3>2 DEF SendQuery, SendOther
    <2>2. /\ client[c] = "open" /\ outbox' = outbox /\ client' = client /\ got' = got
          /\ worker' = worker /\ inbox'[c] = Append(inbox[c], m) /\ sent'[c] = sent[c] + 1
          /\ \A d \in Clients : d # c => inbox'[d] = inbox[d] /\ sent'[d] = sent[d]
      BY <2>1 DEF Send, serverVars, TypeOK
    <2>3. Channel(Append(inbox[c], m), outbox[c], got[c], sent[c] + 1)
      BY <2>1, <2>2, SendChannel DEF Streams, Gone, TypeOK
    <2>4. Append(inbox[c], m) # <<>>
      <3>1. inbox[c] \in Seq(Messages)
        BY DEF TypeOK
      <3>2. QED
        BY <3>1, AppendProperties
    <2>5. QED
      BY <2>2, <2>3, <2>4, StreamsOfOne
  <1>9. ASSUME NEW c \in Clients, ReadAnswer(c) PROVE InHand' /\ Streams'
    <2>1. /\ client[c] = "open" /\ outbox[c] # <<>> /\ inbox' = inbox /\ client' = client
          /\ sent' = sent /\ worker' = worker
          /\ outbox'[c] = Tail(outbox[c]) /\ got'[c] = got[c] + 1
          /\ \A d \in Clients : d # c => outbox'[d] = outbox[d] /\ got'[d] = got[d]
      BY <1>9 DEF ReadAnswer, serverVars, TypeOK
    <2>2. Channel(inbox[c], Tail(outbox[c]), got[c] + 1, sent[c])
      BY <2>1, ReadChannel DEF Streams, Gone, TypeOK
    <2>3. QED
      BY <2>1, <2>2, StreamsOfOne DEF InHand
  <1>10. ASSUME NEW c \in Clients, Leave(c) PROVE InHand' /\ Streams'
    <2>2. PICK rest \in Seq(Messages) : inbox' = [inbox EXCEPT ![c] = inbox[c] \o rest]
      BY <1>10, LeaveRest
    <2>3. inbox[c] # <<>> => inbox[c] \o rest # <<>>
      BY ConcatEqualIffEmpty DEF TypeOK
    <2>4. /\ client'[c] = "gone" /\ got' = got /\ sent' = sent /\ worker' = worker
          /\ inbox'[c] = inbox[c] \o rest
          /\ \A d \in Clients : d # c => /\ outbox'[d] = outbox[d] /\ inbox'[d] = inbox[d]
                                         /\ client'[d] = client[d]
      BY <1>10, <2>2 DEF Leave, serverVars, TypeOK
    <2>5. QED
      BY <2>3, <2>4, StreamsOfOne DEF InHand
  <1>11. CASE UNCHANGED vars
    BY <1>1, <1>11 DEF vars, serverVars, clientVars
  <1>12. QED
    BY <1>2, <1>3, <1>4, <1>5, <1>6, <1>7, <1>8, <1>9, <1>10, <1>11
    DEF Next, MainNext, WorkerNext, ClientNext

LEMMA AInvariant == Spec => []AInv
  <1>1. AInv /\ [Next]_vars => AInv'
    BY TypeStep, StreamsStep DEF AInv
  <1>2. QED
    BY AInit, <1>1, PTL DEF Spec

\* Whatever the clients send and whenever they leave, the answers that wait
\* for a client are those to its oldest requests, in the order of the requests,
\* and nothing is answered twice or dropped.
THEOREM AnswersComeInOrder == Spec => []AnswersInOrder
  <1>1. AInv => AnswersInOrder
    BY DEF AInv, Streams, Channel, AnswersInOrder
  <1>2. QED
    BY AInvariant, <1>1, PTL

-----------------------------------------------------------------------------
(* Shutting down.                                                          *)

\* Every thread that has not ended is in the vector that main joins.
ThreadsAreKept ==
  \A c \in Clients :
    worker[c] \in {"none", "done"} \/ \E i \in 1 .. Len(workers) : workers[i] = c

\* What main knows when it leaves its loop: the handler has returned, so the
\* socket is closed and nobody is waiting to be accepted.
DInv ==
  /\ TypeOK
  /\ running <=> handler = "ready"
  /\ ~listening <=> handler = "returned"
  /\ ~listening => backlog = <<>>
  /\ main \in {"join", "stopped"} => handler = "returned"
  /\ main = "stopped" => workers = <<>>
  /\ ThreadsAreKept

LEMMA DStep == DInv /\ TypeOK' /\ [Next]_vars => DInv'
  <1> SUFFICES ASSUME DInv, TypeOK', [Next]_vars PROVE DInv'
    OBVIOUS
  <1>1. CASE Check \/ AcceptFails
    <2>1. /\ running' = running /\ listening' = listening /\ handler' = handler
          /\ backlog' = backlog /\ workers' = workers /\ worker' = worker
          /\ handler # "stored" /\ main' # "stopped"
          /\ main' = "join" => ~running
      BY <1>1 DEF Check, AcceptFails, MainRuns
    <2>2. main' = "join" => handler = "returned"
      BY <2>1 DEF DInv, TypeOK
    <2>3. QED
      BY <2>1, <2>2 DEF DInv, ThreadsAreKept
  <1>2. CASE Signal \/ SignalCloses
    BY <1>2 DEF Signal, SignalCloses, clientVars, TypeOK, DInv, ThreadsAreKept
  <1>3. CASE Accept
    <2> DEFINE c == Head(backlog)
    <2>1. /\ backlog # <<>> /\ listening /\ workers' = Append(workers, c) /\ main' = "check"
          /\ worker' = [worker EXCEPT ![c] = "check"]
          /\ running' = running /\ listening' = listening /\ handler' = handler
      BY <1>3 DEF Accept
    <2>2. workers \in Seq(Clients) /\ c \in Clients
      BY <2>1, TailType DEF DInv, TypeOK
    <2>3. /\ Len(workers') = Len(workers) + 1 /\ workers'[Len(workers) + 1] = c
          /\ \A i \in 1 .. Len(workers) : workers'[i] = workers[i]
          /\ Len(workers) + 1 \in 1 .. Len(workers')
          /\ \A i \in 1 .. Len(workers) : i \in 1 .. Len(workers')
      BY <2>1, <2>2
    <2> HIDE DEF c
    <2>4. ThreadsAreKept'
      <3> SUFFICES ASSUME NEW d \in Clients, worker'[d] \notin {"none", "done"}
                   PROVE  \E i \in 1 .. Len(workers') : workers'[i] = d
        BY DEF ThreadsAreKept
      <3>1. CASE d = c
        BY <2>3, <3>1
      <3>2. CASE d # c
        <4>1. worker'[d] = worker[d]
          BY <2>1, <3>2 DEF DInv, TypeOK
        <4>2. PICK i \in 1 .. Len(workers) : workers[i] = d
          BY <4>1 DEF DInv, ThreadsAreKept
        <4>3. QED
          BY <2>3, <4>2
      <3>3. QED
        BY <3>1, <3>2
    <2>5. QED
      BY <2>1, <2>4 DEF DInv
  <1>4. CASE Join
    <2>1. /\ main = "join" /\ running' = running /\ listening' = listening
          /\ handler' = handler /\ backlog' = backlog /\ worker' = worker
      BY <1>4 DEF Join
    <2>2. CASE workers = <<>>
      <3>1. workers' = <<>>
        BY <1>4, <2>2 DEF Join
      <3>2. QED
        BY <2>1, <2>2, <3>1 DEF DInv, ThreadsAreKept
    <2>3. CASE workers # <<>>
      <3>1. main' = "join" /\ workers' = Tail(workers) /\ worker[Head(workers)] = "done"
        BY <1>4, <2>3 DEF Join
      <3>2. workers \in Seq(Clients)
        BY DEF DInv, TypeOK
      <3>3. /\ Len(workers) \in Nat \ {0} /\ Len(workers') = Len(workers) - 1
            /\ \A i \in 1 .. Len(workers') : workers'[i] = workers[i + 1]
            /\ Head(workers) = workers[1]
        BY <2>3, <3>1, <3>2, HeadTailProperties
      <3>4. ASSUME NEW c \in Clients, worker[c] \notin {"none", "done"}
            PROVE  \E i \in 1 .. Len(workers') : workers'[i] = c
        <4>1. PICK i \in 1 .. Len(workers) : workers[i] = c
          BY <3>4 DEF DInv, ThreadsAreKept
        <4>2. i # 1
          BY <3>1, <3>3, <3>4, <4>1
        <4>3. i - 1 \in 1 .. Len(workers') /\ (i - 1) + 1 = i
          BY <3>3, <4>2
        <4>4. workers'[i - 1] = workers[(i - 1) + 1]
          BY <3>3, <4>3
        <4>5. QED
          BY <4>1, <4>3, <4>4
      <3>5. ThreadsAreKept'
        BY <2>1, <3>4 DEF ThreadsAreKept
      <3>6. QED
        BY <2>1, <3>1, <3>5 DEF DInv
    <2>4. QED
      BY <2>2, <2>3
  <1>5. ASSUME NEW c \in Clients, WorkerNext(c) PROVE DInv'
    <2>1. /\ running' = running /\ listening' = listening /\ handler' = handler
          /\ main' = main /\ backlog' = backlog /\ workers' = workers
          /\ worker[c] \notin {"none", "done"}
          /\ \A d \in Clients : d # c => worker'[d] = worker[d]
      BY <1>5 DEF WorkerNext, CheckRunning, RecvMessage, RecvFails, HandleQuery, Refuse,
                  Close, WorkerStep, DInv, TypeOK
    <2>2. QED
      BY <2>1 DEF DInv, ThreadsAreKept
  <1>6. ASSUME NEW c \in Clients, ClientNext(c) PROVE DInv'
    <2>1. /\ running' = running /\ listening' = listening /\ handler' = handler
          /\ main' = main /\ workers' = workers /\ worker' = worker
          /\ backlog' = backlog \/ listening
      BY <1>6 DEF ClientNext, Connect, ConnectFails, SendQuery, SendOther, Send, ReadAnswer,
                  SeesHangup, Leave, serverVars
    <2>2. QED
      BY <2>1 DEF DInv, ThreadsAreKept
  <1>7. CASE UNCHANGED vars
    BY <1>7 DEF vars, serverVars, DInv, ThreadsAreKept
  <1>8. QED
    BY <1>1, <1>2, <1>3, <1>4, <1>5, <1>6, <1>7 DEF Next, MainNext

\* The instance is destroyed only after every thread has ended, and by then
\* nobody is left with an open connection.
THEOREM InstanceIsSafe == Spec => []InstanceOutlivesWorkers
  <1>1. Init => DInv
    <2> SUFFICES ASSUME Init PROVE DInv
      OBVIOUS
    <2>1. TypeOK
      BY AInit DEF AInv
    <2>2. QED
      BY <2>1 DEF Init, DInv, ThreadsAreKept
  <1>2. AInv /\ AInv' /\ DInv /\ [Next]_vars => DInv'
    BY DStep DEF AInv
  <1>3. DInv => InstanceOutlivesWorkers
    BY DEF DInv, TypeOK, ThreadsAreKept, InstanceOutlivesWorkers, Hungup
  <1>4. QED
    BY AInvariant, <1>1, <1>2, <1>3, PTL DEF Spec
=============================================================================
