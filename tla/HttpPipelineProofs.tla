------------------------- MODULE HttpPipelineProofs -------------------------
(***************************************************************************)
(* Proofs about HttpPipeline, for every set of hooks and every request.    *)
(***************************************************************************)
EXTENDS HttpPipeline, TLAPS

\* The layers, from the outermost in.
LEMMA Order ==
  ASSUME depth \in 0 .. 7, NEW way
  PROVE  /\ At("requestID", way) <=> depth = 1 /\ flow = way
         /\ At("devCORS", way) <=> depth = 2 /\ flow = way
         /\ At("requestLogger", way) <=> depth = 3 /\ flow = way
         /\ At("panicRecovery", way) <=> depth = 4 /\ flow = way
         /\ At("mux", way) <=> depth = 5 /\ flow = way
         /\ At("auth", way) <=> depth = 6 /\ flow = way
         /\ At("handler", way) <=> depth = 7 /\ flow = way
         /\ Logging <=> depth > 3
BY DEF At, Chain, Logging

Preflight == request.method = "OPTIONS" /\ config.env # "prod"

Given == IF request.id = "none" THEN "generated" ELSE request.id

\* A request on its way down has no answer, and has been let past every layer above.
Down == flow = "call" => /\ depth > 0
                         /\ sent = 0 /\ wrapped = 200 /\ log = <<>> /\ stream = "whole"
                         /\ depth > 2 => ~Preflight
                         /\ depth > 5 => request.route # "unknown"
                         /\ depth > 6 => Entitled

\* A panic gets no further than panicRecovery.
Panicking == flow = "panic" => depth \in 4 .. 6 /\ sent = 0 /\ log = <<>> /\ ~Preflight

\* On its way up it has an answer, of which statusWriter has kept the status.
Up == flow = "return" =>
  /\ sent # 0 /\ depth < 7
  /\ depth > 2 => sent = wrapped /\ log = <<>> /\ ~Preflight
  /\ depth < 2 => log = IF Preflight THEN <<>> ELSE <<[status |-> sent, id |-> header]>>
  /\ depth = 2 => ~Preflight /\ log = <<[status |-> sent, id |-> header]>>

Identified == depth # 1 \/ flow # "call" => id = Given /\ header = Given

IInv == TypeOK /\ Down /\ Panicking /\ Up /\ Identified

\* Each route has its own way to be authorised.
LEMMA Kinds ==
  /\ API \cap Open = {} /\ API \cap Hooks = {} /\ Open \cap Hooks = {}
  /\ "unknown" \notin API \cup Open \cup Hooks
BY HooksAssumption DEF API, Open

\* Every route has a handler, and every handler an answer.
LEMMA Answered ==
  ASSUME request \in Requests, request.route # "unknown", stream \in {"whole", "read"}
  PROVE  Answers \subseteq Statuses \ {0}
<1>1. /\ request.route \in {"ready", "health", "echo", "onboard-org"} \cup Hooks
      /\ request.body \in {"broken", "malformed", "invalid", "valid"}
  BY DEF Requests, API, Open
<1>2. \A statuses : Decoded(statuses) \in {{400}, {422}, statuses}
  BY <1>1 DEF Decoded
<1>3. HandleEcho \subseteq Statuses /\ HandleOnboardOrg \subseteq Statuses
  BY <1>2 DEF HandleEcho, HandleOnboardOrg, Statuses
<1>4. HandleReady \subseteq Statuses /\ HandleHealth \subseteq Statuses /\ HandleHook \subseteq Statuses
  BY DEF HandleReady, HandleHealth, HandleHook, Statuses
<1>5. Answers \in {HandleReady, HandleHealth, HandleEcho, HandleOnboardOrg, HandleHook}
  BY <1>1 DEF Answers
<1>6. 0 \notin Statuses
  BY DEF Statuses
<1> QED
  BY <1>3, <1>4, <1>5, <1>6

\* The invariant holds initially.
LEMMA InitIInv == Init => IInv
BY DEF Init, IInv, TypeOK, Statuses, IDs, Down, Panicking, Up, Identified, Given, Preflight, Entitled

\* A step of nobody keeps it.
LEMMA StutterStep == IInv /\ UNCHANGED vars => IInv'
<1> SUFFICES ASSUME IInv, UNCHANGED vars PROVE IInv'
  OBVIOUS
<1>1. UNCHANGED <<Preflight, Given, Entitled>>
  BY DEF vars, Preflight, Given, Entitled
<1>2. TypeOK'
  BY DEF IInv, TypeOK, vars
<1>3. Down' /\ Panicking' /\ Up' /\ Identified'
  BY <1>1 DEF IInv, Down, Panicking, Up, Identified, vars
<1> QED
  BY <1>2, <1>3 DEF IInv

\* Each layer's moves keep it.
LEMMA InductiveStep == IInv /\ [Next]_vars => IInv'
<1> SUFFICES ASSUME IInv, [Next]_vars PROVE IInv'
  OBVIOUS
<1> USE Order DEF IInv, TypeOK, Down, Panicking, Up, Identified, given, answer, Statuses, IDs
<1>1. CASE RequestID
  BY <1>1 DEF RequestID, CallNext, Given, Preflight, Requests
<1>2. CASE DevCORS
  BY <1>2 DEF DevCORS, Pass, CallNext, Answer, WriteHeader, Return, Preflight, Given
<1>3. CASE RequestLogger
  BY <1>3 DEF RequestLogger, CallNext, Preflight, Given
<1>4. CASE PanicRecovery
  BY <1>4 DEF PanicRecovery, Pass, CallNext, Preflight, Given
<1>5. CASE Mux
  BY <1>5 DEF Mux, Pass, CallNext, Answer, WriteHeader, Return, Preflight, Given
<1>6. CASE NoAuth
  BY <1>6, Kinds DEF NoAuth, Pass, CallNext, Preflight, Given, Entitled
<1>7. CASE APIKeyAuth
  BY <1>7, Kinds DEF APIKeyAuth, Pass, CallNext, Answer, WriteHeader, Return, Preflight,
                     Given, Entitled, Configs
<1>8. CASE WebhookAuth
  BY <1>8, Kinds DEF WebhookAuth, Pass, CallNext, Answer, WriteHeader, Return, Preflight,
                     Given, Entitled, Acceptable
<1>9. CASE Handle
  <2>1. PICK code \in Statuses \ {0} : Answer(code)
    BY <1>9, Answered DEF Handle
  <2> QED
    BY <1>9, <2>1 DEF Handle, Answer, WriteHeader, Return, Preflight, Given
<1>10. CASE Panic
  BY <1>10 DEF Panic, Return, Preflight, Given
<1>11. CASE Log
  <2>1. /\ depth = 3 /\ flow = "return" /\ depth' = 2 /\ flow' = "return"
        /\ UNCHANGED <<given, stream, id, answer>>
    BY <1>11 DEF Log, Return
  <2>2. log' = <<[status |-> sent, id |-> header]>>
    BY <1>11, <2>1 DEF Log
  <2>3. log' \in Seq([status : Statuses, id : IDs])
    BY <2>1, <2>2
  <2> QED
    BY <2>1, <2>2, <2>3 DEF Preflight, Given
<1>12. CASE Recover
  BY <1>12 DEF Recover, Answer, WriteHeader, Return, Preflight, Given
<1>13. CASE Unwind
  BY <1>13 DEF Unwind, Return, Preflight, Given
<1>14. CASE Done \/ UNCHANGED vars
  BY <1>14, StutterStep DEF Done
<1> QED
  BY <1>1, <1>2, <1>3, <1>4, <1>5, <1>6, <1>7, <1>8, <1>9, <1>10, <1>11, <1>12, <1>13,
     <1>14 DEF Next

\* What each layer has let through, and what is answered and logged, all the way.
THEOREM Invariance == Spec => []IInv
BY InitIInv, InductiveStep, PTL DEF Spec

\* Type correctness.
THEOREM TypeCorrect == Spec => []TypeOK
BY Invariance, PTL DEF IInv

\* No handler runs for a request that is not entitled to it.
THEOREM Guarded == Spec => []HandlersGuarded
<1>1. IInv => HandlersGuarded
  BY Order DEF IInv, TypeOK, Down, HandlersGuarded
<1> QED
  BY <1>1, Invariance, PTL

\* Every request is answered, and logged as it was answered.
THEOREM Logged == Spec => []LoggedAsAnswered
<1>1. IInv => LoggedAsAnswered
  BY DEF IInv, TypeOK, Down, Panicking, Up, Identified, Given, Preflight, LoggedAsAnswered
<1> QED
  BY <1>1, Invariance, PTL

\* Whichever layers have read the body, the handler can.
THEOREM Whole == Spec => []BodyWhole
<1>1. IInv => BodyWhole
  BY Order DEF IInv, TypeOK, Down, BodyWhole
<1> QED
  BY <1>1, Invariance, PTL
=============================================================================
