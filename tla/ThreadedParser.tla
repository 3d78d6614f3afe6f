--------------------------- MODULE ThreadedParser ---------------------------
(***************************************************************************)
(* The worker thread that parses messages for the event stream handler:    *)
(* ThreadedParser (threaded-parser.ts) in the main thread, and             *)
(* threaded-parser-worker.ts behind a port in each direction. The handler  *)
(* awaits one call at a time; the class admits any number and so does the  *)
(* model.                                                                  *)
(***************************************************************************)
EXTENDS Naturals, Sequences, FiniteSets

CONSTANTS
  Bodies,     \* messages that may be passed to the parser
  Parse,      \* what each body parses to; NoResult if parsing throws
  NoResult,
  MaxCalls    \* bound: calls of the parser

ASSUME ParserAssumption ==
  /\ NoResult \notin Bodies
  /\ MaxCalls \in Nat

VARIABLES
  calls,        \* the body of each call, in the order of the calls
  answers,      \* what each call returned; NoResult while it is awaited
  msgRequests,  \* keys of the map of waiters; the i-th call has msgId i
  inbox,        \* requests posted to the worker
  outbox,       \* replies posted to the main thread
  worker        \* "running", "terminating" or "exited"

main  == <<calls, answers, msgRequests>>
ports == <<inbox, outbox>>
vars  == <<main, ports, worker>>

Results == {Parse[body] : body \in Bodies}
Request == [msgId : Nat \ {0}, body : Bodies]
Reply   == [msgId : Nat \ {0}, parsed : Results \ {NoResult}]
------------------------------------------------------------------------------
Init ==
  /\ calls = <<>> /\ answers = <<>>
  /\ msgRequests = {}
  /\ inbox = <<>> /\ outbox = <<>>
  /\ worker = "running"

\* parseNakamotoBlock and parseStackerDbChunk, up to their await. Posting to a
\* worker that has exited does nothing.
PostRequest(body) ==
  LET msgId == Len(calls) + 1 IN
  /\ Len(calls) < MaxCalls
  /\ calls' = Append(calls, body)
  /\ answers' = Append(answers, NoResult)
  /\ msgRequests' = msgRequests \cup {msgId}
  /\ inbox' = IF worker = "exited" THEN inbox
              ELSE Append(inbox, [msgId |-> msgId, body |-> body])
  /\ UNCHANGED <<outbox, worker>>

\* Mutants: a body that cannot be parsed is replied to as well; it stays at the
\* head; one that was parsed is replied to twice.
HandleWorkerMsgReplyingAlways ==
  /\ worker # "exited"
  /\ inbox # <<>>
  /\ LET msg == Head(inbox) IN
       outbox' = Append(outbox, [msgId |-> msg.msgId, parsed |-> Parse[msg.body]])
  /\ inbox' = Tail(inbox)
  /\ UNCHANGED <<main, worker>>

HandleWorkerMsgAgain ==
  /\ worker # "exited"
  /\ inbox # <<>>
  /\ LET msg == Head(inbox) IN
       IF Parse[msg.body] = NoResult THEN UNCHANGED ports
       ELSE /\ outbox' = Append(outbox, [msgId |-> msg.msgId, parsed |-> Parse[msg.body]])
            /\ inbox' = Tail(inbox)
  /\ UNCHANGED <<main, worker>>

HandleWorkerMsgTwice ==
  /\ worker # "exited"
  /\ inbox # <<>>
  /\ LET msg   == Head(inbox)
         reply == [msgId |-> msg.msgId, parsed |-> Parse[msg.body]]
     IN  outbox' = IF Parse[msg.body] = NoResult THEN outbox ELSE outbox \o <<reply, reply>>
  /\ inbox' = Tail(inbox)
  /\ UNCHANGED <<main, worker>>

\* The worker's listener: the reply is posted, or the error is only logged. A
\* worker that is being terminated may still get to it.
HandleWorkerMsg ==
  /\ worker # "exited"
  /\ inbox # <<>>
  /\ LET msg == Head(inbox) IN
       outbox' = IF Parse[msg.body] = NoResult THEN outbox
                 ELSE Append(outbox, [msgId |-> msg.msgId, parsed |-> Parse[msg.body]])
  /\ inbox' = Tail(inbox)
  /\ UNCHANGED <<main, worker>>

\* Mutant: the reply goes to the oldest waiter, whatever its id.
OnMessageInOrder ==
  /\ outbox # <<>>
  /\ msgRequests # {}
  /\ LET oldest == CHOOSE i \in msgRequests : \A j \in msgRequests : i <= j IN
       /\ answers' = [answers EXCEPT ![oldest] = Head(outbox).parsed]
       /\ msgRequests' = msgRequests \ {oldest}
  /\ outbox' = Tail(outbox)
  /\ UNCHANGED <<calls, inbox, worker>>

\* Mutant: the waiter stays in the map.
OnMessageKeepingWaiter ==
  /\ outbox # <<>>
  /\ LET reply == Head(outbox) IN
       answers' = IF reply.msgId \in msgRequests
                  THEN [answers EXCEPT ![reply.msgId] = reply.parsed] ELSE answers
  /\ outbox' = Tail(outbox)
  /\ UNCHANGED <<calls, msgRequests, inbox, worker>>

\* The main thread's 'message' listener: a reply without a waiter is only logged.
OnMessage ==
  /\ outbox # <<>>
  /\ LET reply == Head(outbox) IN
       \/ /\ reply.msgId \in msgRequests
          /\ answers' = [answers EXCEPT ![reply.msgId] = reply.parsed]
          /\ msgRequests' = msgRequests \ {reply.msgId}
       \/ /\ reply.msgId \notin msgRequests
          /\ UNCHANGED <<answers, msgRequests>>
  /\ outbox' = Tail(outbox)
  /\ UNCHANGED <<calls, inbox, worker>>

\* close(), by EventStreamHandler.stop().
Close ==
  /\ worker = "running"
  /\ worker' = "terminating"
  /\ UNCHANGED <<main, ports>>

\* terminate() takes effect, or an error nobody catches ends the worker, which the
\* 'error' listener only logs. Replies already posted are still delivered.
WorkerExits ==
  /\ worker # "exited"
  /\ worker' = "exited"
  /\ inbox' = <<>>
  /\ UNCHANGED <<main, outbox>>

Next ==
  \/ \E body \in Bodies : PostRequest(body)
  \/ HandleWorkerMsg
  \/ OnMessage
  \/ Close
  \/ WorkerExits

Spec == Init /\ [][Next]_vars

\* Both threads run their event loops.
Fairness == WF_vars(HandleWorkerMsg) /\ WF_vars(OnMessage)

FairSpec == Spec /\ Fairness
------------------------------------------------------------------------------
TypeOK ==
  /\ calls \in Seq(Bodies)
  /\ answers \in Seq(Results \cup {NoResult})
  /\ Len(answers) = Len(calls)
  /\ msgRequests \subseteq 1..Len(calls)
  /\ inbox \in Seq(Request) /\ outbox \in Seq(Reply)
  /\ worker \in {"running", "terminating", "exited"}

\* A call waits in the map exactly as long as it has not returned: whatever the
\* worker skips, answers or takes with it, no waiter is forgotten and none is kept.
WaitersAreOpenCalls ==
  \A i \in 1..Len(calls) : i \in msgRequests <=> answers[i] = NoResult

IsQueued(i, queue) == \E k \in 1..Len(queue) : queue[k].msgId = i

\* While the worker runs, a call that waits for a body that can be parsed has its
\* request or its reply under way, so that nothing but a body that cannot be
\* parsed can make the handler wait for ever.
OpenCallsAreUnderWay ==
  worker = "running" =>
    \A i \in msgRequests : Parse[calls[i]] # NoResult => IsQueued(i, inbox) \/ IsQueued(i, outbox)

\* "Received unexpected message from worker" is never logged: each reply under way
\* has a waiter, and no other reply is for the same one.
RepliesAreExpected ==
  \A k \in 1..Len(outbox) :
    /\ outbox[k].msgId \in msgRequests
    /\ \A l \in 1..Len(outbox) : outbox[l].msgId = outbox[k].msgId => k = l

\* A call whose body can be parsed returns, unless the worker has been told to
\* end or has failed.
ParsableCallsReturn ==
  \A i \in 1..MaxCalls :
    (i \in msgRequests /\ Parse[calls[i]] # NoResult)
      ~> (i \notin msgRequests \/ worker # "running")

Requests == INSTANCE ParserRequests

\* Calls get the parse of their own bodies, in the order of the calls.
ImplementsParser == Requests!Spec
==============================================================================
