---------------------------- MODULE HttpPipeline ----------------------------
(***************************************************************************)
(* One request on its way through the handlers NewServer wraps around each *)
(* other (internal/httpapi): down from layer to layer, each calling the    *)
(* next, and back up when a layer answers or its handler panics.  Requests *)
(* share nothing but the configuration, so one is enough.                  *)
(*                                                                         *)
(* "none" stands for the empty string, and headers that no layer on the    *)
(* route reads are left out.  A secret is named by its hook, an ID by      *)
(* where it comes from; a body is its class.                               *)
(* What the onboard-org handler does between its reading of the body and   *)
(* its answer is Enqueue's matter, and left out.                           *)
(***************************************************************************)
EXTENDS Naturals, Sequences

CONSTANTS Hooks    \* the routes under /hooks

API == {"echo", "onboard-org"}

Open == {"ready", "health"}

ASSUME HooksAssumption ==
  Hooks \cap (API \cup Open \cup {"none", "unknown", "altered"}) = {}

Configs == [env     : {"prod", "dev"},  \* ENV
            apiKey  : {"none", "key"},  \* API_KEY
            secrets : SUBSET Hooks]     \* the HOOK_SECRET_* that are set

Requests ==
  {q \in [route     : Hooks \cup API \cup Open \cup {"unknown"},
          method    : {"own", "other", "OPTIONS"},
          id        : {"none", "given"},                   \* X-Request-ID
          key       : {"none", "key", "wrong"},            \* X-API-Key
          stamp     : {"none", "garbled", "old", "new"},   \* HB-Timestamp
          signature : Hooks \cup {"none", "altered"},      \* HB-Signature: whose secret
          body      : {"broken", "malformed", "invalid", "valid"}] :
     /\ q.route \notin API => q.key = "none"
     /\ q.route \notin Hooks => q.stamp = "none" /\ q.signature = "none"}

VARIABLES config,
          request,
          depth,    \* the layer the request is at
          flow,     \* "call" on its way down, "return" or "panic" on its way up
          stream,   \* its body: "whole", or "read"
          id,       \* the request ID in its context
          header,   \* X-Request-ID of the answer
          sent,     \* the status of the answer, 0 before it
          wrapped,  \* statusWriter.status
          log       \* what requestLogger has logged

vars == <<config, request, depth, flow, stream, id, header, sent, wrapped, log>>
given == <<config, request>>
answer == <<header, sent, wrapped>>

Statuses == {200, 202, 204, 400, 401, 404, 405, 422, 500, 501, 502, 503}

IDs == {"none", "given", "generated"}

TypeOK ==
  /\ config \in Configs
  /\ request \in Requests
  /\ depth \in 0 .. 7
  /\ flow \in {"call", "return", "panic"}
  /\ stream \in {"whole", "read"}
  /\ id \in IDs
  /\ header \in IDs
  /\ sent \in Statuses \cup {0}
  /\ wrapped \in Statuses
  /\ log \in Seq([status : Statuses, id : IDs])

Init ==
  /\ config \in Configs
  /\ request \in Requests
  /\ depth = 1
  /\ flow = "call"
  /\ stream = "whole"
  /\ id = "none"
  /\ header = "none"
  /\ sent = 0
  /\ wrapped = 200
  /\ log = <<>>

\* (mutant of Chain) Recovery outside the logger.
ChainRecoversFirst == <<"requestID", "devCORS", "panicRecovery", "requestLogger",
                        "mux", "auth", "handler">>

\* Outermost first.  In prod there is no devCORS, and some routes have no auth:
\* there the request passes straight through.
Chain == <<"requestID", "devCORS", "requestLogger", "panicRecovery",
           "mux", "auth", "handler">>

At(layer, way) == depth > 0 /\ Chain[depth] = layer /\ flow = way

CallNext == depth' = depth + 1 /\ flow' = "call"

Return(way) == depth' = depth - 1 /\ flow' = way

\* The ResponseWriter of every layer below requestLogger is its statusWriter.
Logging == \E i \in 1 .. depth - 1 : Chain[i] = "requestLogger"

\* WriteHeader: of several, the first is sent and the last recorded.
WriteHeader(code) ==
  /\ sent' = IF sent = 0 THEN code ELSE sent
  /\ wrapped' = IF Logging THEN code ELSE wrapped
  /\ UNCHANGED header

Answer(code) == WriteHeader(code) /\ Return("return")

Pass == CallNext /\ UNCHANGED answer

------------------------------------------------------------------------------
(* On the way down.                                                        *)

RequestID ==
  /\ At("requestID", "call")
  /\ id' = IF request.id = "none" THEN "generated" ELSE request.id
  /\ header' = id'
  /\ CallNext
  /\ UNCHANGED <<given, stream, sent, wrapped, log>>

DevCORS ==
  /\ At("devCORS", "call")
  /\ IF config.env # "prod" /\ request.method = "OPTIONS" THEN Answer(204) ELSE Pass
  /\ UNCHANGED <<given, stream, id, log>>

\* (mutant of RequestLogger) A statusWriter without a status to begin with.
RequestLoggerZero ==
  /\ At("requestLogger", "call")
  /\ wrapped' = 0
  /\ CallNext
  /\ UNCHANGED <<given, stream, id, header, sent, log>>

RequestLogger ==
  /\ At("requestLogger", "call")
  /\ wrapped' = 200
  /\ CallNext
  /\ UNCHANGED <<given, stream, id, header, sent, log>>

PanicRecovery ==
  /\ At("panicRecovery", "call")
  /\ Pass
  /\ UNCHANGED <<given, stream, id, log>>

Mux ==
  /\ At("mux", "call")
  /\ \/ request.route = "unknown" /\ Answer(404)
     \/ request.route # "unknown" /\ request.method # "own" /\ Answer(405)
     \/ request.route # "unknown" /\ request.method = "own" /\ Pass
  /\ UNCHANGED <<given, stream, id, log>>

NoAuth ==
  /\ At("auth", "call")
  /\ request.route \in Open
  /\ Pass
  /\ UNCHANGED <<given, stream, id, log>>

\* (mutant of APIKeyAuth) An empty key is compared like any other.
APIKeyAuthUnset ==
  /\ At("auth", "call")
  /\ request.route \in API
  /\ IF request.key # config.apiKey THEN Answer(401) ELSE Pass
  /\ UNCHANGED <<given, stream, id, log>>

APIKeyAuth ==
  /\ At("auth", "call")
  /\ request.route \in API
  /\ IF config.apiKey = "none" \/ request.key # config.apiKey THEN Answer(401) ELSE Pass
  /\ UNCHANGED <<given, stream, id, log>>

\* Before the body is touched: a secret, both headers, a timestamp not too old.
Acceptable ==
  /\ request.route \in config.secrets
  /\ request.signature # "none"
  /\ request.stamp = "new"

\* (mutant of WebhookAuth) The body is read and not put back.
WebhookAuthConsumes ==
  /\ At("auth", "call")
  /\ request.route \in Hooks
  /\ stream' = IF Acceptable THEN "read" ELSE stream
  /\ \/ ~Acceptable /\ Answer(401)
     \/ Acceptable /\ request.body = "broken" /\ Answer(400)
     \/ /\ Acceptable /\ request.body # "broken"
        /\ IF request.signature # request.route THEN Answer(401) ELSE Pass
  /\ UNCHANGED <<given, id, log>>

\* The body that was read is replaced by a copy, unless reading it failed.
WebhookAuth ==
  /\ At("auth", "call")
  /\ request.route \in Hooks
  /\ stream' = IF Acceptable /\ request.body = "broken" THEN "read" ELSE stream
  /\ \/ ~Acceptable /\ Answer(401)
     \/ Acceptable /\ request.body = "broken" /\ Answer(400)
     \/ /\ Acceptable /\ request.body # "broken"
        /\ IF request.signature # request.route THEN Answer(401) ELSE Pass
  /\ UNCHANGED <<given, id, log>>

------------------------------------------------------------------------------
(* The handlers.                                                           *)

\* decodeValid, and what its caller makes of it.
Decoded(statuses) == CASE stream = "read" \/ request.body \in {"broken", "malformed"} -> {400}
                       [] stream = "whole" /\ request.body = "invalid" -> {422}
                       [] stream = "whole" /\ request.body = "valid" -> statuses

HandleReady == {200, 503}

HandleHealth == {200}

HandleEcho == Decoded({200})

HandleOnboardOrg == Decoded({202, 500, 502, 503})

HandleHook == {501}

Answers == CASE request.route = "ready" -> HandleReady
             [] request.route = "health" -> HandleHealth
             [] request.route = "echo" -> HandleEcho
             [] request.route = "onboard-org" -> HandleOnboardOrg
             [] request.route \in Hooks -> HandleHook

Handle ==
  /\ At("handler", "call")
  /\ stream' = IF request.route \in API THEN "read" ELSE stream
  /\ \E code \in Answers : Answer(code)
  /\ UNCHANGED <<given, id, log>>

\* A panic in what a handler calls, before its answer.
Panic ==
  /\ At("handler", "call")
  /\ request.route \notin Hooks
  /\ stream' \in {stream, "read"}
  /\ Return("panic")
  /\ UNCHANGED <<given, id, answer, log>>

------------------------------------------------------------------------------
(* On the way up.                                                          *)

Log ==
  /\ At("requestLogger", "return")
  /\ log' = Append(log, [status |-> wrapped, id |-> id])
  /\ Return("return")
  /\ UNCHANGED <<given, stream, id, answer>>

Recover ==
  /\ At("panicRecovery", "panic")
  /\ Answer(500)
  /\ UNCHANGED <<given, stream, id, log>>

\* Layers that do nothing after the call of the next, nor on a panic.
Unwind ==
  /\ depth > 0
  /\ flow # "call"
  /\ ~At("requestLogger", "return") /\ ~At("panicRecovery", "panic")
  /\ Return(flow)
  /\ UNCHANGED <<given, stream, id, answer, log>>

\* net/http has the request back.
Done == depth = 0 /\ UNCHANGED vars

Next == \/ RequestID \/ DevCORS \/ RequestLogger \/ PanicRecovery \/ Mux
        \/ NoAuth \/ APIKeyAuth \/ WebhookAuth \/ Handle \/ Panic
        \/ Log \/ Recover \/ Unwind \/ Done

Spec == Init /\ [][Next]_vars

------------------------------------------------------------------------------
\* Whether a request may reach its handler: the key, or a signature that was made
\* with the secret of that very hook, over this body and a timestamp that is not
\* too old (one ahead of the clock will do, middleware.go:175).
Entitled ==
  /\ request.route \in API => request.key = "key" /\ config.apiKey = "key"
  /\ request.route \in Hooks => /\ request.route \in config.secrets
                                /\ request.signature = request.route
                                /\ request.stamp = "new"

\* No handler runs for a request that is not entitled to it, whichever keys and
\* secrets the environment leaves unset (middleware.go:118-134, 154-201).
HandlersGuarded == At("handler", "call") => Entitled

\* Whatever becomes of a request (refused, served, its handler panicked), it is
\* answered, and the log has one line for it, with the status that was sent and the
\* ID the answer carries, the caller's own if it gave one; only a preflight that
\* devCORS answers is not logged (server.go:15-17, middleware.go:51-91).
LoggedAsAnswered ==
  depth = 0 =>
    /\ flow = "return" /\ sent # 0
    /\ header = IF request.id = "none" THEN "generated" ELSE request.id
    /\ log = IF request.method = "OPTIONS" /\ config.env # "prod"
             THEN <<>> ELSE <<[status |-> sent, id |-> header]>>

\* The layers leave the whole body to the handler, the one that had to read it for
\* the signature too (middleware.go:155-156).
BodyWhole == At("handler", "call") => stream = "whole"
=============================================================================
