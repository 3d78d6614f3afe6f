--------------------------- MODULE ParserRequests ---------------------------
(***************************************************************************)
(* What the parser promises the event stream handler: a call of            *)
(* parseNakamotoBlock or parseStackerDbChunk is answered at most once, by  *)
(* what its own message parses to, and never after a later call. A message *)
(* that cannot be parsed is never answered.                                *)
(***************************************************************************)
EXTENDS Naturals, Sequences

CONSTANTS
  Bodies,     \* messages that may be passed to the parser
  Parse,      \* what each body parses to; NoResult if it cannot be parsed
  NoResult

VARIABLES
  calls,      \* the body of each call, in the order of the calls
  answers     \* what each call returned; NoResult while it is awaited

Init == calls = <<>> /\ answers = <<>>

Call(body) ==
  /\ calls' = Append(calls, body)
  /\ answers' = Append(answers, NoResult)

\* The i-th call returns.
Return(i) ==
  /\ Parse[calls[i]] # NoResult
  /\ \A j \in i..Len(calls) : answers[j] = NoResult
  /\ answers' = [answers EXCEPT ![i] = Parse[calls[i]]]
  /\ UNCHANGED calls

Next ==
  \/ \E body \in Bodies : Call(body)
  \/ \E i \in 1..Len(calls) : Return(i)

Spec == Init /\ [][Next]_<<calls, answers>>
==============================================================================
