------------------------ MODULE ThreadedParserProofs ------------------------
(***************************************************************************)
(* Theorems about ThreadedParser, for any bodies, any number of calls at   *)
(* once, and a worker that ends at any moment.                             *)
(*                                                                         *)
(* The argument is the order of message ids: those answered, those in the  *)
(* outbox and those in the inbox form one ascending sequence.              *)
(***************************************************************************)
EXTENDS ThreadedParser, TLAPS

Messages(queue) == {queue[k] : k \in 1..Len(queue)}

Ascending(queue) ==
  \A k, l \in 1..Len(queue) : k < l => queue[k].msgId < queue[l].msgId

\* Requests carry the body of their call, replies what it parses to, and both
\* belong to calls that wait.
QueuesFaithful ==
  /\ \A msg \in Messages(inbox) : msg.msgId \in msgRequests /\ msg.body = calls[msg.msgId]
  /\ \A reply \in Messages(outbox) :
       reply.msgId \in msgRequests /\ reply.parsed = Parse[calls[reply.msgId]]

QueuesInOrder ==
  /\ Ascending(inbox) /\ Ascending(outbox)
  /\ \A msg \in Messages(inbox), reply \in Messages(outbox) : reply.msgId < msg.msgId
  /\ \A i \in 1..Len(calls) : answers[i] # NoResult =>
       \A msg \in Messages(inbox) \cup Messages(outbox) : i < msg.msgId

ParserOK == TypeOK /\ WaitersAreOpenCalls /\ QueuesFaithful /\ QueuesInOrder /\ OpenCallsAreUnderWay

USE ParserAssumption

\* The ports' operations, for queues of any elements: what is appended comes last,
\* what is taken comes first, and the rest keeps its order.
LEMMA AppendIsLast ==
  ASSUME NEW S, NEW queue \in Seq(S), NEW e \in S
  PROVE  /\ Append(queue, e) \in Seq(S)
         /\ Len(Append(queue, e)) = Len(queue) + 1
         /\ \A k \in 1..Len(queue) : Append(queue, e)[k] = queue[k]
         /\ Append(queue, e)[Len(queue) + 1] = e
  OBVIOUS

\* A queue without its first entry.
LEMMA TailIsRest ==
  ASSUME NEW S, NEW queue \in Seq(S), queue # <<>>
  PROVE  /\ Tail(queue) \in Seq(S)
         /\ Len(Tail(queue)) = Len(queue) - 1
         /\ Head(queue) = queue[1] /\ Head(queue) \in S /\ 1 \in 1..Len(queue)
         /\ \A k \in 1..(Len(queue) - 1) : Tail(queue)[k] = queue[k + 1] /\ k + 1 \in 1..Len(queue)
  OBVIOUS

\* The messages of a queue with one more.
LEMMA MessagesOfAppend ==
  ASSUME NEW S, NEW queue \in Seq(S), NEW e \in S
  PROVE  Messages(Append(queue, e)) = Messages(queue) \cup {e}
  BY AppendIsLast DEF Messages

\* The messages of a queue and its first.
LEMMA MessagesOfTail ==
  ASSUME NEW S, NEW queue \in Seq(S), queue # <<>>
  PROVE  Messages(queue) = Messages(Tail(queue)) \cup {Head(queue)}
<1>1. Messages(Tail(queue)) \cup {Head(queue)} \subseteq Messages(queue)
  BY TailIsRest DEF Messages
<1>2. ASSUME NEW k \in 1..Len(queue), k # 1
      PROVE  queue[k] \in Messages(Tail(queue))
  <2>1. k - 1 \in 1..Len(Tail(queue)) /\ Tail(queue)[k - 1] = queue[k]
    BY <1>2, TailIsRest
  <2> QED
    BY <2>1 DEF Messages
<1>3. queue[1] = Head(queue)
  BY TailIsRest
<1> QED
  BY <1>1, <1>2, <1>3 DEF Messages

\* The messages of a queue have its type.
LEMMA MessagesAreTyped ==
  ASSUME NEW S, NEW queue \in Seq(S)
  PROVE  Messages(queue) \subseteq S
  BY DEF Messages

\* A queue stays in order when the least is taken or a greater is added.
LEMMA AppendKeepsOrder ==
  ASSUME NEW S, NEW queue \in Seq(S), NEW e \in S, Ascending(queue),
         \A msg \in Messages(queue) : msg.msgId < e.msgId
  PROVE  Ascending(Append(queue, e))
<1> SUFFICES ASSUME NEW k \in 1..Len(Append(queue, e)), NEW l \in 1..Len(Append(queue, e)), k < l
             PROVE  Append(queue, e)[k].msgId < Append(queue, e)[l].msgId
  BY DEF Ascending
<1>1. k \in 1..Len(queue) /\ Append(queue, e)[k] = queue[k] /\ queue[k] \in Messages(queue)
  BY AppendIsLast DEF Messages
<1>2. CASE l \in 1..Len(queue)
  BY <1>1, <1>2, AppendIsLast DEF Ascending
<1>3. CASE l = Len(queue) + 1
  BY <1>1, <1>3, AppendIsLast
<1> QED
  BY <1>2, <1>3, AppendIsLast

\* A queue stays in order when its first is taken.
LEMMA TailKeepsOrder ==
  ASSUME NEW S, NEW queue \in Seq(S), queue # <<>>, Ascending(queue)
  PROVE  /\ Ascending(Tail(queue))
         /\ \A msg \in Messages(Tail(queue)) : Head(queue).msgId < msg.msgId
<1>1. \A k \in 1..Len(Tail(queue)) :
        Tail(queue)[k] = queue[k + 1] /\ k + 1 \in 1..Len(queue) /\ 1 < k + 1 /\ k \in Nat
  BY TailIsRest
<1>2. Ascending(Tail(queue))
  BY <1>1, \A k, l \in Nat : k < l => k + 1 < l + 1 DEF Ascending
<1>3. \A k \in 1..Len(Tail(queue)) : queue[1].msgId < Tail(queue)[k].msgId
  BY <1>1, TailIsRest DEF Ascending
<1> QED
  BY <1>2, <1>3, TailIsRest DEF Messages

\* A call has a message under way if one on the port has its number.
LEMMA QueuedIsMessage ==
  ASSUME NEW i, NEW queue
  PROVE  IsQueued(i, queue) <=> \E msg \in Messages(queue) : msg.msgId = i
  BY DEF IsQueued, Messages

\* Every message on a port has a number and, of a reply, a result.
LEMMA PortsAreTyped ==
  ASSUME TypeOK
  PROVE  /\ \A msg \in Messages(inbox) : msg.msgId \in Nat /\ msg.body \in Bodies
         /\ \A reply \in Messages(outbox) : reply.msgId \in Nat /\ reply.parsed # NoResult
<1>1. Messages(inbox) \subseteq Request /\ Messages(outbox) \subseteq Reply
  BY MessagesAreTyped DEF TypeOK
<1> QED
  BY <1>1 DEF Request, Reply

\* The invariant holds at first.
LEMMA InitOK == Init => ParserOK
  BY DEF Init, ParserOK, TypeOK, WaitersAreOpenCalls, QueuesFaithful, QueuesInOrder,
         Ascending, Messages, OpenCallsAreUnderWay

\* A call appends its body, its open answer and, while the worker lives, its
\* request, under an id above all others.
LEMMA PostRequestOK ==
  ASSUME ParserOK, NEW body \in Bodies, PostRequest(body)
  PROVE  ParserOK'
<1> DEFINE id  == Len(calls) + 1
           req == [msgId |-> id, body |-> body]
<1>0. TypeOK /\ msgRequests \subseteq 1..Len(calls) /\ Len(calls) \in Nat
  BY DEF ParserOK, TypeOK
<1>1. /\ calls' \in Seq(Bodies) /\ Len(calls') = id /\ calls'[id] = body
      /\ \A i \in 1..Len(calls) : calls'[i] = calls[i]
  BY AppendIsLast DEF PostRequest, ParserOK, TypeOK
<1>2. /\ answers' \in Seq(Results \cup {NoResult}) /\ Len(answers') = id
      /\ answers'[id] = NoResult
      /\ \A i \in 1..Len(calls) : answers'[i] = answers[i]
  BY AppendIsLast DEF PostRequest, ParserOK, TypeOK
<1>3. msgRequests' = msgRequests \cup {id} /\ outbox' = outbox /\ worker' = worker
  BY DEF PostRequest
<1>4. req \in Request /\ req.msgId = id /\ req.body = body /\ inbox \in Seq(Request)
  BY <1>0 DEF Request, TypeOK
<1>5. \/ worker = "exited" /\ inbox' = inbox
      \/ inbox' = Append(inbox, req)
  BY DEF PostRequest
<1>6. /\ Messages(inbox') \subseteq Messages(inbox) \cup {req}
      /\ Messages(inbox) \subseteq Messages(inbox')
      /\ worker # "exited" => req \in Messages(inbox')
      /\ inbox' \in Seq(Request)
  <2> HIDE DEF req
  <2>1. Append(inbox, req) \in Seq(Request) /\ Messages(Append(inbox, req)) = Messages(inbox) \cup {req}
    BY <1>4, MessagesOfAppend, AppendIsLast
  <2>2. CASE worker = "exited" /\ inbox' = inbox
    BY <2>2, <1>4
  <2>3. CASE inbox' = Append(inbox, req)
    BY <2>1, <2>3
  <2> QED
    BY <2>2, <2>3, <1>5
<1>7. /\ \A msg \in Messages(inbox) : msg.msgId \in 1..Len(calls)
      /\ \A reply \in Messages(outbox) : reply.msgId \in 1..Len(calls)
  BY <1>0 DEF ParserOK, QueuesFaithful
<1> HIDE DEF req
<1>8. TypeOK'
  <2>1. ASSUME NEW i \in msgRequests'
        PROVE  i \in 1..Len(calls')
    <3>1. i \in 1..Len(calls) \/ i = Len(calls) + 1
      BY <1>0, <1>3
    <3> QED
      BY <3>1, <1>0, <1>1
  <2> QED
    BY <1>0, <1>1, <1>2, <1>3, <1>6, <2>1 DEF TypeOK
<1>9. WaitersAreOpenCalls'
  <2> SUFFICES ASSUME NEW i \in 1..Len(calls')
               PROVE  i \in msgRequests' <=> answers'[i] = NoResult
    BY DEF WaitersAreOpenCalls
  <2>1. CASE i = id
    BY <2>1, <1>2, <1>3
  <2>2. CASE i \in 1..Len(calls) /\ i # id
    BY <2>2, <1>2, <1>3 DEF ParserOK, WaitersAreOpenCalls
  <2> QED
    BY <2>1, <2>2, <1>0, <1>1
<1>10. QueuesFaithful'
  <2>1. ASSUME NEW msg \in Messages(inbox')
        PROVE  msg.msgId \in msgRequests' /\ msg.body = calls'[msg.msgId]
    <3>1. CASE msg = req
      BY <3>1, <1>1, <1>3, <1>4
    <3>2. CASE msg \in Messages(inbox)
      BY <3>2, <1>1, <1>3, <1>7 DEF ParserOK, QueuesFaithful
    <3> QED
      BY <3>1, <3>2, <1>6
  <2>2. ASSUME NEW reply \in Messages(outbox)
        PROVE  reply.msgId \in msgRequests' /\ reply.parsed = Parse[calls'[reply.msgId]]
    BY <1>1, <1>3, <1>7 DEF ParserOK, QueuesFaithful
  <2> QED
    BY <2>1, <2>2, <1>3 DEF QueuesFaithful
<1>11. QueuesInOrder'
  <2>1. Ascending(inbox')
    <3>1. \A msg \in Messages(inbox) : msg.msgId < req.msgId
      BY <1>0, <1>4, <1>7
    <3> QED
      BY <3>1, <1>4, <1>5, AppendKeepsOrder DEF ParserOK, QueuesInOrder
  <2>2. ASSUME NEW msg \in Messages(inbox'), NEW reply \in Messages(outbox)
        PROVE  reply.msgId < msg.msgId
    <3>1. reply.msgId < req.msgId
      BY <1>0, <1>4, <1>7
    <3> QED
      BY <3>1, <1>6 DEF ParserOK, QueuesInOrder
  <2>3. ASSUME NEW i \in 1..Len(calls'), answers'[i] # NoResult,
               NEW msg \in Messages(inbox') \cup Messages(outbox)
        PROVE  i < msg.msgId
    <3>1. i \in 1..Len(calls) /\ answers[i] # NoResult
      BY <2>3, <1>0, <1>1, <1>2
    <3>2. i < req.msgId
      BY <3>1, <1>0, <1>4
    <3> QED
      BY <3>1, <3>2, <1>6 DEF ParserOK, QueuesInOrder
  <2> QED
    BY <2>1, <2>2, <2>3, <1>3 DEF ParserOK, QueuesInOrder
<1>12. OpenCallsAreUnderWay'
  <2> SUFFICES ASSUME worker' = "running", NEW i \in msgRequests', Parse[calls'[i]] # NoResult
               PROVE  IsQueued(i, inbox') \/ IsQueued(i, outbox')
    BY DEF OpenCallsAreUnderWay
  <2>1. CASE i = id
    BY <2>1, <1>3, <1>4, <1>6, QueuedIsMessage
  <2>2. CASE i \in msgRequests
    <3>1. IsQueued(i, inbox) \/ IsQueued(i, outbox)
      BY <2>2, <1>0, <1>1, <1>3 DEF ParserOK, OpenCallsAreUnderWay
    <3> QED
      BY <3>1, <1>3, <1>6, QueuedIsMessage
  <2> QED
    BY <2>1, <2>2, <1>3
<1> QED
  BY <1>8, <1>9, <1>10, <1>11, <1>12 DEF ParserOK

\* The worker takes the lowest id of the inbox and at most appends it to the outbox.
LEMMA HandleWorkerMsgOK ==
  ASSUME ParserOK, HandleWorkerMsg
  PROVE  ParserOK'
<1> DEFINE msg   == Head(inbox)
           reply == [msgId |-> msg.msgId, parsed |-> Parse[msg.body]]
<1>0. TypeOK /\ inbox \in Seq(Request) /\ outbox \in Seq(Reply) /\ inbox # <<>>
  BY DEF ParserOK, TypeOK, HandleWorkerMsg
<1>1. /\ inbox' \in Seq(Request) /\ msg \in Request
      /\ Messages(inbox) = Messages(inbox') \cup {msg}
      /\ Ascending(inbox') /\ \A m \in Messages(inbox') : msg.msgId < m.msgId
  BY <1>0, TailIsRest, MessagesOfTail, TailKeepsOrder DEF HandleWorkerMsg, ParserOK, QueuesInOrder
<1>2. calls' = calls /\ answers' = answers /\ msgRequests' = msgRequests /\ worker' = worker
  BY DEF HandleWorkerMsg, main
<1>3. Parse[msg.body] # NoResult => reply \in Reply
  <2>1. msg.msgId \in Nat \ {0} /\ msg.body \in Bodies
    BY <1>1 DEF Request
  <2> QED
    BY <2>1 DEF Reply, Results
<1>4. reply.msgId = msg.msgId /\ reply.parsed = Parse[msg.body]
  OBVIOUS
<1>5. /\ Parse[msg.body] = NoResult => outbox' = outbox
      /\ Parse[msg.body] # NoResult => outbox' = Append(outbox, reply)
  BY DEF HandleWorkerMsg
<1> HIDE DEF reply, msg
<1>6. /\ outbox' \in Seq(Reply)
      /\ Messages(outbox') \subseteq Messages(outbox) \cup {reply}
      /\ Messages(outbox) \subseteq Messages(outbox')
      /\ Parse[msg.body] # NoResult => reply \in Messages(outbox')
  <2>1. CASE Parse[msg.body] = NoResult
    BY <2>1, <1>0, <1>5
  <2>2. CASE Parse[msg.body] # NoResult
    <3>1. /\ Append(outbox, reply) \in Seq(Reply)
          /\ Messages(Append(outbox, reply)) = Messages(outbox) \cup {reply}
      BY <2>2, <1>0, <1>3, AppendIsLast, MessagesOfAppend
    <3> QED
      BY <3>1, <2>2, <1>5
  <2> QED
    BY <2>1, <2>2
<1>7. /\ msg.msgId \in msgRequests /\ msg.body = calls[msg.msgId]
      /\ \A r \in Messages(outbox) : r.msgId < msg.msgId
      /\ \A i \in 1..Len(calls) : answers[i] # NoResult => i < msg.msgId
  BY <1>1 DEF ParserOK, QueuesFaithful, QueuesInOrder
<1>8. TypeOK'
  BY <1>0, <1>1, <1>2, <1>6 DEF TypeOK
<1>9. WaitersAreOpenCalls'
  BY <1>2 DEF ParserOK, WaitersAreOpenCalls
<1>10. QueuesFaithful'
  BY <1>1, <1>2, <1>4, <1>6, <1>7 DEF ParserOK, QueuesFaithful
<1>11. QueuesInOrder'
  <2>1. Ascending(outbox')
    BY <1>0, <1>3, <1>4, <1>5, <1>7, AppendKeepsOrder DEF ParserOK, QueuesInOrder
  <2>2. \A m \in Messages(inbox'), r \in Messages(outbox') : r.msgId < m.msgId
    BY <1>1, <1>4, <1>6 DEF ParserOK, QueuesInOrder
  <2>3. \A i \in 1..Len(calls) : answers[i] # NoResult =>
          \A m \in Messages(inbox') \cup Messages(outbox') : i < m.msgId
    BY <1>1, <1>4, <1>6, <1>7 DEF ParserOK, QueuesInOrder
  <2> QED
    BY <2>1, <2>2, <2>3, <1>1, <1>2 DEF QueuesInOrder
<1>12. OpenCallsAreUnderWay'
  <2> SUFFICES ASSUME worker = "running", NEW i \in msgRequests, Parse[calls[i]] # NoResult
               PROVE  IsQueued(i, inbox') \/ IsQueued(i, outbox')
    BY <1>2 DEF OpenCallsAreUnderWay
  <2>1. IsQueued(i, inbox) \/ IsQueued(i, outbox)
    BY DEF ParserOK, OpenCallsAreUnderWay
  <2>2. CASE i = msg.msgId
    BY <2>2, <1>4, <1>6, <1>7, QueuedIsMessage
  <2>3. CASE i # msg.msgId
    BY <2>1, <2>3, <1>1, <1>6, QueuedIsMessage
  <2> QED
    BY <2>2, <2>3
<1> QED
  BY <1>8, <1>9, <1>10, <1>11, <1>12 DEF ParserOK

\* What a delivered reply is: it has a waiter, it is the parse of its call's body,
\* and every call after it is still open.
LEMMA ReplyDelivered ==
  ASSUME ParserOK, OnMessage, NEW id, id = Head(outbox).msgId
  PROVE  /\ id \in msgRequests /\ id \in 1..Len(calls)
         /\ Parse[calls[id]] # NoResult
         /\ answers' = [answers EXCEPT ![id] = Parse[calls[id]]]
         /\ msgRequests' = msgRequests \ {id}
         /\ \A j \in 1..Len(calls) : answers[j] # NoResult => j < id
<1>0. TypeOK /\ outbox \in Seq(Reply) /\ outbox # <<>>
  BY DEF ParserOK, TypeOK, OnMessage
<1>1. Head(outbox) \in Messages(outbox)
  BY <1>0, MessagesOfTail
<1>2. id \in msgRequests /\ Head(outbox).parsed = Parse[calls[id]] /\ Head(outbox).parsed # NoResult
  BY <1>0, <1>1, PortsAreTyped DEF ParserOK, QueuesFaithful
<1>3. \A j \in 1..Len(calls) : answers[j] # NoResult => j < id
  BY <1>1 DEF ParserOK, QueuesInOrder
<1>4. /\ answers' = [answers EXCEPT ![id] = Parse[calls[id]]]
      /\ msgRequests' = msgRequests \ {id}
  BY <1>2 DEF OnMessage
<1>5. id \in 1..Len(calls)
  BY <1>0, <1>2 DEF TypeOK
<1> QED
  BY <1>2, <1>3, <1>4, <1>5

\* An answer of the worker keeps the invariant.
LEMMA OnMessageOK ==
  ASSUME ParserOK, OnMessage
  PROVE  ParserOK'
<1> DEFINE id == Head(outbox).msgId
<1>0. TypeOK /\ outbox \in Seq(Reply) /\ outbox # <<>>
  BY DEF ParserOK, TypeOK, OnMessage
<1>1. /\ id \in msgRequests /\ id \in 1..Len(calls)
      /\ answers' = [answers EXCEPT ![id] = Parse[calls[id]]]
      /\ msgRequests' = msgRequests \ {id}
      /\ Parse[calls[id]] # NoResult
  BY ReplyDelivered
<1>2. /\ outbox' \in Seq(Reply) /\ Head(outbox) \in Messages(outbox)
      /\ Messages(outbox) = Messages(outbox') \cup {Head(outbox)}
      /\ Ascending(outbox') /\ \A reply \in Messages(outbox') : id < reply.msgId
  BY <1>0, TailIsRest, MessagesOfTail, TailKeepsOrder DEF OnMessage, ParserOK, QueuesInOrder
<1>3. calls' = calls /\ inbox' = inbox /\ worker' = worker
  BY DEF OnMessage
<1>4. Parse[calls[id]] \in Results /\ answers \in Seq(Results \cup {NoResult}) /\ Len(answers) = Len(calls)
  BY <1>0, <1>1 DEF Results, TypeOK
<1> HIDE DEF id
<1>5. /\ answers' \in Seq(Results \cup {NoResult}) /\ Len(answers') = Len(calls)
      /\ answers'[id] = Parse[calls[id]]
      /\ \A i \in 1..Len(calls) : i # id => answers'[i] = answers[i]
  BY <1>1, <1>4
<1>6. TypeOK'
  BY <1>0, <1>1, <1>2, <1>3, <1>5 DEF TypeOK
<1>7. WaitersAreOpenCalls'
  BY <1>1, <1>3, <1>5 DEF ParserOK, WaitersAreOpenCalls
<1>8. id \in Nat /\ \A msg \in Messages(inbox) : id < msg.msgId
  <2>1. \A msg \in Messages(inbox) : Head(outbox).msgId < msg.msgId
    BY <1>2 DEF ParserOK, QueuesInOrder
  <2> QED
    BY <2>1, <1>1 DEF id
<1>9. QueuesFaithful'
  <2>1. \A msg \in Messages(inbox) : msg.msgId # id
    BY <1>8
  <2>2. \A reply \in Messages(outbox') : reply.msgId # id
    BY <1>2, <1>8
  <2> QED
    BY <2>1, <2>2, <1>1, <1>2, <1>3 DEF ParserOK, QueuesFaithful
<1>10. QueuesInOrder'
  <2>1. \A msg \in Messages(inbox), reply \in Messages(outbox') : reply.msgId < msg.msgId
    BY <1>2 DEF ParserOK, QueuesInOrder
  <2>2. \A i \in 1..Len(calls) : answers'[i] # NoResult =>
          \A msg \in Messages(inbox) \cup Messages(outbox') : i < msg.msgId
    BY <1>2, <1>5, <1>8 DEF ParserOK, QueuesInOrder
  <2> QED
    BY <2>1, <2>2, <1>2, <1>3 DEF ParserOK, QueuesInOrder
<1>11. OpenCallsAreUnderWay'
  <2> SUFFICES ASSUME worker = "running", NEW i \in msgRequests, i # id, Parse[calls[i]] # NoResult
               PROVE  IsQueued(i, inbox') \/ IsQueued(i, outbox')
    BY <1>1, <1>3 DEF OpenCallsAreUnderWay
  <2>1. IsQueued(i, inbox) \/ IsQueued(i, outbox)
    BY DEF ParserOK, OpenCallsAreUnderWay
  <2>2. Head(outbox).msgId = id
    BY DEF id
  <2> QED
    BY <2>1, <2>2, <1>2, <1>3, QueuedIsMessage
<1> QED
  BY <1>6, <1>7, <1>9, <1>10, <1>11 DEF ParserOK

\* What the main thread keeps is not touched when the worker is told to end or ends;
\* its replies stay in the port, its requests may be gone.
LEMMA WorkerEndsOK ==
  ASSUME ParserOK, Close \/ WorkerExits \/ UNCHANGED vars
  PROVE  ParserOK'
<1>1. calls' = calls /\ answers' = answers /\ msgRequests' = msgRequests /\ outbox' = outbox
  BY DEF Close, WorkerExits, vars, main, ports
<1>2. inbox' \in {inbox, <<>>} /\ worker' \in {"running", "terminating", "exited"}
  BY DEF ParserOK, TypeOK, Close, WorkerExits, vars, ports
<1>3. worker' = "running" => worker = "running" /\ inbox' = inbox
  BY DEF Close, WorkerExits, vars, ports
<1>4. inbox' \in Seq(Request) /\ Ascending(inbox') /\ Messages(inbox') \subseteq Messages(inbox)
  <2>1. CASE inbox' = inbox
    BY <2>1 DEF ParserOK, TypeOK, QueuesInOrder
  <2>2. CASE inbox' = <<>>
    BY <2>2 DEF Ascending, Messages
  <2> QED
    BY <2>1, <2>2, <1>2
<1>5. TypeOK'
  BY <1>1, <1>2, <1>4 DEF ParserOK, TypeOK
<1>6. WaitersAreOpenCalls'
  BY <1>1 DEF ParserOK, WaitersAreOpenCalls
<1>7. QueuesFaithful'
  BY <1>1, <1>4 DEF ParserOK, QueuesFaithful
<1>8. QueuesInOrder'
  BY <1>1, <1>4 DEF ParserOK, QueuesInOrder
<1>9. OpenCallsAreUnderWay'
  BY <1>1, <1>3 DEF ParserOK, OpenCallsAreUnderWay
<1> QED
  BY <1>5, <1>6, <1>7, <1>8, <1>9 DEF ParserOK

\* Every step keeps the invariant.
LEMMA StepOK == ParserOK /\ [Next]_vars => ParserOK'
  BY PostRequestOK, HandleWorkerMsgOK, OnMessageOK, WorkerEndsOK DEF Next

\* ParserOK is an invariant.
LEMMA AlwaysOK == Spec => []ParserOK
  BY InitOK, StepOK, PTL DEF Spec

\* Every reachable state is well typed: replies carry a result, the map holds ids of
\* calls (the fields of threaded-parser.ts and the two ports).
THEOREM TypeCorrect == Spec => []TypeOK
  BY AlwaysOK, PTL DEF ParserOK

\* The map of waiters holds exactly the calls that have not returned.
THEOREM WaitersAreTheOpenCalls == Spec => []WaitersAreOpenCalls
  BY AlwaysOK, PTL DEF ParserOK

\* While the worker runs, only a body that cannot be parsed makes a call wait
\* without a request or reply under way.
THEOREM OpenCallsStayUnderWay == Spec => []OpenCallsAreUnderWay
  BY AlwaysOK, PTL DEF ParserOK

\* The main thread never receives a reply without a waiter.
THEOREM EveryReplyIsExpected == Spec => []RepliesAreExpected
<1>1. ParserOK => RepliesAreExpected
  <2> SUFFICES ASSUME ParserOK PROVE RepliesAreExpected
    OBVIOUS
  <2>1. \A k \in 1..Len(outbox) : outbox[k] \in Messages(outbox)
    BY DEF Messages
  <2>2. \A k \in 1..Len(outbox) : outbox[k].msgId \in msgRequests /\ outbox[k].msgId \in Nat
    BY <2>1, PortsAreTyped DEF ParserOK, QueuesFaithful
  <2>3. ASSUME NEW k \in 1..Len(outbox), NEW l \in 1..Len(outbox), outbox[l].msgId = outbox[k].msgId
        PROVE  k = l
    <3>1. ~(k < l) /\ ~(l < k)
      BY <2>2, <2>3 DEF ParserOK, QueuesInOrder, Ascending
    <3> QED
      BY <3>1
  <2> QED
    BY <2>2, <2>3 DEF RepliesAreExpected
<1> QED
  BY <1>1, AlwaysOK, PTL

\* The worker and its ports implement the parser that answers each call in order
\* with the parse of its own body: only calls and delivered replies are visible.
THEOREM ParserImplementsRequests == Spec => ImplementsParser
<1>1. Init => Requests!Init
  BY DEF Init, Requests!Init
<1>2. ASSUME ParserOK, [Next]_vars
      PROVE  [Requests!Next]_<<calls, answers>>
  <2>1. ASSUME NEW body \in Bodies, PostRequest(body)
        PROVE  Requests!Call(body)
    BY <2>1 DEF PostRequest, Requests!Call
  <2>2. ASSUME OnMessage
        PROVE  \E i \in 1..Len(calls) : Requests!Return(i)
    <3> DEFINE id == Head(outbox).msgId
    <3>1. /\ id \in 1..Len(calls) /\ Parse[calls[id]] # NoResult
          /\ answers' = [answers EXCEPT ![id] = Parse[calls[id]]]
          /\ \A j \in 1..Len(calls) : answers[j] # NoResult => j < id
      BY <1>2, <2>2, ReplyDelivered
    <3>2. calls' = calls
      BY <2>2 DEF OnMessage
    <3> HIDE DEF id
    <3>3. Requests!Return(id)
      BY <3>1, <3>2 DEF Requests!Return
    <3> QED
      BY <3>1, <3>3
  <2>3. ASSUME HandleWorkerMsg \/ Close \/ WorkerExits \/ UNCHANGED vars
        PROVE  UNCHANGED <<calls, answers>>
    BY <2>3 DEF HandleWorkerMsg, Close, WorkerExits, vars, main
  <2> QED
    BY <1>2, <2>1, <2>2, <2>3 DEF Next, Requests!Next
<1> QED
  BY <1>1, <1>2, AlwaysOK, PTL DEF Spec, ImplementsParser, Requests!Spec
==============================================================================
