--------------------------- MODULE WebhookServer ---------------------------
(***************************************************************************)
(* Webhooks: the way of a request through the HTTP server (pkg/server) and *)
(* the webhook adapters (pkg/adapter/generic/webhook_adapter.go) to the    *)
(* goroutine that reads the adapter's events.  A request passes the rate   *)
(* limiter, the server's authentication and the adapter's handler, each a  *)
(* step that interleaves with other requests, with the limiter's cleanup,  *)
(* with the reader and with the orchestrator starting and stopping         *)
(* adapters.                                                               *)
(*                                                                         *)
(* A path is the sequence of its segments.  Addresses are model values.    *)
(* Time is continuous in the code and comes in steps of any fineness here: *)
(* Grain steps restore one token of a limiter.                             *)
(* Two sources with one path make the mux panic; module Orchestrator has   *)
(* that case, here paths are distinct.                                     *)
(***************************************************************************)
EXTENDS Naturals, Sequences, FiniteSets

CONSTANTS
    Requests,       \* the requests that clients send
    Kinds,          \* what a request may look like
    Sources,        \* the sources with a webhook
    Config,         \* Config[s]: the webhook section of source s
    Environments,   \* settings of the server's environment variables
    Longer,         \* pairs of addresses: the second is the first, ":" and more
    Capacity,       \* buffer of an adapter's events channel (100)
    MaxTokens,      \* WEBHOOK_RATE_LIMIT (100)
    RefillSeconds,  \* the time in which MaxTokens are meant to be spent (60)
    Grain,          \* steps of the clock in which a limiter regains a token
    EntryTTL,       \* idle time after which a limiter is removed, in steps
    MaxTime,        \* bound: steps that pass
    None

ASSUME KindsAssumption ==
    \A k \in Kinds : /\ k.cred \in {"token", "wrong", "missing"}
                     /\ k.body \in {"json", "empty", "malformed", "oversize"}
                     /\ \E s \in Sources : Config[s].path = k.path
ASSUME ConfigAssumption ==
    /\ \A s \in Sources : Config[s].auth \in {"none", "bearer", "basic", "other"}
    /\ \A s, t \in Sources : s # t => Config[s].path # Config[t].path
ASSUME EnvironmentsAssumption ==
    \A e \in Environments : e.disabled \in BOOLEAN /\ e.token \in BOOLEAN
ASSUME NoneAssumption == None \notin Nat
ASSUME BoundAssumption ==
    /\ Capacity \in Nat \ {0} /\ MaxTokens \in Nat \ {0}
    /\ RefillSeconds \in Nat \ {0} /\ MaxTime \in Nat

\* NewPerKeyRateLimiter: the rate per second, truncated, and at least one.
MaxPerSec == IF MaxTokens \div RefillSeconds < 1 THEN 1
             ELSE MaxTokens \div RefillSeconds

\* The steps of the clock in a second, in which an empty limiter gets full.
Second == MaxPerSec * Grain

\* The TTL of an entry is an hour.
ASSUME TimeAssumption ==
    Grain \in Nat \ {0} /\ EntryTTL \in Nat /\ EntryTTL >= Second

VARIABLES
    env,        \* the environment the process was started with
    auth,       \* s.auth, the WebhookAuth
    limiters,   \* rl.limiters: key -> [level, seen]; a token is Grain of level
    now,        \* the clock
    adapter,    \* adapter[s]: "new", "started" or "stopped"
    events,     \* events[s]: the contents of the adapter's channel
    taken,      \* taken[s]: what processEvents has read from it
    kind,       \* kind[r]: the request r, None before it is sent
    stage,      \* stage[r]: where r is
    code,       \* code[r]: the status r was answered with
    metrics,    \* webhookMetrics: <<endpoint label, status>> -> count
    dropped,    \* webhookDropped: per source
    admitted    \* history: [req, key, at] for what the limiter let pass

server == <<env, auth>>
adapters == <<adapter, events, taken>>
requests == <<kind, stage, code>>
counters == <<metrics, dropped>>
vars == <<env, auth, limiters, now, adapter, events, taken, kind, stage, code,
          metrics, dropped, admitted>>

-----------------------------------------------------------------------------
(* The server's configuration. *)

(* NewWebhookAuth: WEBHOOK_AUTH_DISABLED returns before the other settings *)
(* are read, the trusted proxies included.                                 *)
NewWebhookAuth(e) ==
    IF e.disabled
    THEN [authDisabled |-> TRUE, token |-> FALSE, allowedIPs |-> {}, proxies |-> {}]
    ELSE [authDisabled |-> FALSE, token |-> e.token, allowedIPs |-> e.allowedIPs,
          proxies |-> e.proxies]

(* getClientIP: proxy headers count only if a trusted proxy sent them. *)
GetClientIP(k) ==
    CASE k.remote \in auth.proxies /\ k.xff # None -> k.xff
      [] k.remote \in auth.proxies /\ k.xff = None /\ k.xri # None -> k.xri
      [] OTHER -> k.remote

(* getEndpointFromPath: the last segment that is not empty. *)
Endpoint(path) ==
    LET segments == SelectSeq(path, LAMBDA seg : seg # "")
    IN  IF segments = <<>> THEN "unknown" ELSE segments[Len(segments)]

(* RateLimitMiddleware: paths of several segments are limited by endpoint, *)
(* the others by client.                                                   *)
Key(k) == IF Len(k.path) >= 2 THEN <<"endpoint", Endpoint(k.path)>>
          ELSE <<"ip", GetClientIP(k)>>

(* The list of addresses: equal, or extended by ":" and more. *)
Allowed(addr, ips) == \E ip \in ips : addr = ip \/ <<ip, addr>> \in Longer

(* Authenticate: every configured check must succeed, and one must be      *)
(* configured.                                                             *)
AnyCheck(k) ==
    \/ auth.authDisabled
    \/ auth.token /\ k.cred = "token"
    \/ Allowed(GetClientIP(k), auth.allowedIPs)

Authenticate(k) ==
    \/ auth.authDisabled
    \/ /\ auth.token \/ auth.allowedIPs # {}
       /\ auth.token => k.cred = "token"
       /\ auth.allowedIPs # {} => Allowed(GetClientIP(k), auth.allowedIPs)

Init ==
    /\ env \in Environments
    /\ auth = NewWebhookAuth(env)
    /\ limiters = <<>> /\ now = 0
    /\ adapter = [s \in Sources |-> "new"]
    /\ events = [s \in Sources |-> <<>>] /\ taken = [s \in Sources |-> <<>>]
    /\ kind = [r \in Requests |-> None]
    /\ stage = [r \in Requests |-> "unsent"]
    /\ code = [r \in Requests |-> None]
    /\ metrics = <<>> /\ dropped = [s \in Sources |-> 0]
    /\ admitted = {}

-----------------------------------------------------------------------------
(* The adapters. *)

(* WebhookAdapter.Validate *)
Valid(c) == c.path # <<>> /\ (c.auth # "none" => c.secret)

(* Start: the handler is registered on the server's mux. *)
StartAdapter(s) ==
    /\ adapter[s] = "new" /\ Valid(Config[s])
    /\ adapter' = [adapter EXCEPT ![s] = "started"]
    /\ UNCHANGED <<server, limiters, now, events, taken, requests, counters, admitted>>

(* Stop closes the channel; its contents stay, and so does the route. *)
StopAdapter(s) ==
    /\ adapter[s] = "started"
    /\ adapter' = [adapter EXCEPT ![s] = "stopped"]
    /\ UNCHANGED <<server, limiters, now, events, taken, requests, counters, admitted>>

(* processEvents of the orchestrator: range over the channel, which yields *)
(* what a closed channel still holds.                                      *)
ReadEvent(s) ==
    /\ events[s] # <<>>
    /\ taken' = [taken EXCEPT ![s] = Append(@, Head(events[s]))]
    /\ events' = [events EXCEPT ![s] = Tail(@)]
    /\ UNCHANGED <<server, limiters, now, adapter, requests, counters, admitted>>

-----------------------------------------------------------------------------
(* Requests. *)

(* The source whose handler the mux finds for a path. *)
Route(path) == CHOOSE s \in Sources : Config[s].path = path

(* The answer to r, counted under the label of the part that gives it. *)
Answer(r, status, label) ==
    LET new == <<label, status>>
        count == IF new \in DOMAIN metrics THEN metrics[new] ELSE 0
    IN
    /\ code' = [code EXCEPT ![r] = status]
    /\ stage' = [stage EXCEPT ![r] = "done"]
    /\ metrics' = [x \in DOMAIN metrics \cup {new} |-> IF x = new THEN count + 1 ELSE metrics[x]]

(* The limiter of a key as Allow finds or makes it. *)
StaleLimiter(key) ==
    IF key \in DOMAIN limiters THEN limiters[key]
    ELSE [level |-> Second, seen |-> now]

Limiter(key) ==
    IF key \in DOMAIN limiters THEN [limiters[key] EXCEPT !.seen = now]
    ELSE [level |-> Second, seen |-> now]

(* A request arrives on a registered path. *)
Arrive(r, k) ==
    /\ stage[r] = "unsent" /\ adapter[Route(k.path)] # "new"
    /\ kind' = [kind EXCEPT ![r] = k]

(* The request is allowed and the limiter pays a token. *)
Allow(r, k) ==
    LET key == Key(k) IN
    /\ Arrive(r, k)
    /\ Limiter(key).level >= Grain
    /\ limiters' = [x \in DOMAIN limiters \cup {key} |->
                      IF x = key THEN [Limiter(key) EXCEPT !.level = @ - Grain]
                      ELSE limiters[x]]
    /\ stage' = [stage EXCEPT ![r] = "auth"]
    /\ admitted' = admitted \cup {[req |-> r, key |-> key, at |-> now]}
    /\ UNCHANGED <<server, now, adapters, code, counters>>

(* 429; the limiter has seen the request all the same. *)
TooManyRequests(r, k) ==
    LET key == Key(k) IN
    /\ Arrive(r, k)
    /\ Limiter(key).level < Grain
    /\ limiters' = [limiters EXCEPT ![key] = Limiter(key)]
    /\ Answer(r, 429, Endpoint(k.path))
    /\ UNCHANGED <<server, now, adapters, dropped, admitted>>

(* RequireAuth *)
RequireAuth(r) ==
    /\ stage[r] = "auth" /\ Authenticate(kind[r])
    /\ stage' = [stage EXCEPT ![r] = "handle"]
    /\ UNCHANGED <<server, limiters, now, adapters, kind, code, counters, admitted>>

Unauthorized(r) ==
    /\ stage[r] = "auth" /\ ~Authenticate(kind[r])
    /\ Answer(r, 401, Endpoint(kind[r].path))
    /\ UNCHANGED <<server, limiters, now, adapters, kind, dropped, admitted>>

(* loadSecret returns an error for every secret. *)
LoadSecret(c) == None

(* The comparison with the secret's token, or with its user and password;  *)
(* other types of authentication are refused.                              *)
Verify(c, k, secret) == c.auth \in {"bearer", "basic"} /\ k.cred = secret

(* WebhookAdapter.authenticate *)
AdapterAuthenticate(c, k) ==
    \/ c.auth = "none"
    \/ /\ c.secret
       /\ LoadSecret(c) # None
       /\ Verify(c, k, LoadSecret(c))

(* The status of a request that the handler refuses before it sends: the   *)
(* decoder returns io.EOF for an empty body only.                          *)
Refusal(s, k) ==
    CASE ~AdapterAuthenticate(Config[s], k) -> 401
      [] AdapterAuthenticate(Config[s], k) /\ k.body = "empty" -> 413
      [] AdapterAuthenticate(Config[s], k) /\ k.body \in {"malformed", "oversize"} -> 400
      [] OTHER -> None

Refuse(r) ==
    LET s == Route(kind[r].path) IN
    /\ stage[r] = "handle" /\ Refusal(s, kind[r]) # None
    /\ Answer(r, Refusal(s, kind[r]), s)
    /\ UNCHANGED <<server, limiters, now, adapters, kind, dropped, admitted>>

SendFull(r) ==
    LET s == Route(kind[r].path) IN
    /\ stage[r] = "handle" /\ Refusal(s, kind[r]) = None
    /\ adapter[s] = "started"
    /\ events' = IF Len(events[s]) < Capacity
                 THEN [events EXCEPT ![s] = Append(@, r)] ELSE events
    /\ Answer(r, 200, s)
    /\ UNCHANGED <<server, limiters, now, adapter, taken, kind, dropped, admitted>>

(* The event enters the channel. *)
Send(r) ==
    LET s == Route(kind[r].path) IN
    /\ stage[r] = "handle" /\ Refusal(s, kind[r]) = None
    /\ adapter[s] = "started" /\ Len(events[s]) < Capacity
    /\ events' = [events EXCEPT ![s] = Append(@, r)]
    /\ Answer(r, 200, s)
    /\ UNCHANGED <<server, limiters, now, adapter, taken, kind, dropped, admitted>>

(* The buffer is full: 503. *)
BufferFull(r) ==
    LET s == Route(kind[r].path) IN
    /\ stage[r] = "handle" /\ Refusal(s, kind[r]) = None
    /\ adapter[s] = "started" /\ Len(events[s]) = Capacity
    /\ Answer(r, 503, s)
    /\ dropped' = [dropped EXCEPT ![s] = @ + 1]
    /\ UNCHANGED <<server, limiters, now, adapters, kind, admitted>>

(* The channel is closed: the send panics, net/http recovers and drops the *)
(* connection without an answer.                                           *)
SendPanics(r) ==
    LET s == Route(kind[r].path) IN
    /\ stage[r] = "handle" /\ Refusal(s, kind[r]) = None
    /\ adapter[s] = "stopped"
    /\ stage' = [stage EXCEPT ![r] = "aborted"]
    /\ UNCHANGED <<server, limiters, now, adapters, kind, code, counters, admitted>>

Handle(r) ==
    \/ RequireAuth(r) \/ Unauthorized(r)
    \/ Refuse(r) \/ Send(r) \/ BufferFull(r) \/ SendPanics(r)

-----------------------------------------------------------------------------
(* Time. *)

(* Time passes: a limiter that is not full regains a part of a token. *)
Tick ==
    /\ now < MaxTime
    /\ now' = now + 1
    /\ limiters' = [k \in DOMAIN limiters |->
                      [limiters[k] EXCEPT !.level = IF @ < Second THEN @ + 1 ELSE @]]
    /\ UNCHANGED <<server, adapters, requests, counters, admitted>>

(* cleanup removes the limiters that were idle for longer than the TTL. *)
Cleanup ==
    LET idle == {k \in DOMAIN limiters : now - limiters[k].seen > EntryTTL} IN
    /\ idle # {}
    /\ limiters' = [k \in DOMAIN limiters \ idle |-> limiters[k]]
    /\ UNCHANGED <<server, now, adapters, requests, counters, admitted>>

Next ==
    \/ Tick \/ Cleanup
    \/ \E s \in Sources : StartAdapter(s) \/ StopAdapter(s) \/ ReadEvent(s)
    \/ \E r \in Requests : \/ Handle(r)
                           \/ \E k \in Kinds : Allow(r, k) \/ TooManyRequests(r, k)

Spec == Init /\ [][Next]_vars

-----------------------------------------------------------------------------

Stages == {"unsent", "auth", "handle", "done", "aborted"}
Codes == {200, 400, 401, 413, 429, 503}

TypeOK ==
    /\ env \in Environments /\ auth = NewWebhookAuth(env)
    /\ now \in 0 .. MaxTime
    /\ \A k \in DOMAIN limiters : /\ limiters[k].level \in 0 .. Second
                                  /\ limiters[k].seen \in 0 .. now
    /\ adapter \in [Sources -> {"new", "started", "stopped"}]
    /\ events \in [Sources -> Seq(Requests)] /\ taken \in [Sources -> Seq(Requests)]
    /\ kind \in [Requests -> Kinds \cup {None}]
    /\ stage \in [Requests -> Stages]
    /\ code \in [Requests -> Codes \cup {None}]
    /\ dropped \in [Sources -> Nat]

(* In no stretch of time, from the passing of one request to that of       *)
(* another, are more requests of their key let pass than a full limiter    *)
(* holds and the time between them restores: removing an idle limiter      *)
(* (cleanup) and making a new, full one (Allow) never gives a client or an *)
(* endpoint more than its share.                                           *)
Passed(key, t, u) == {c \in admitted : c.key = key /\ t <= c.at /\ c.at <= u}

RateHeld ==
    \A a, b \in admitted : a.key = b.key /\ a.at <= b.at =>
        Grain * Cardinality(Passed(a.key, a.at, b.at)) <= Second + (b.at - a.at)

(* An event of an adapter stems from a request that met every check that   *)
(* the process's environment asks for: the right token, and an address on  *)
(* the list, which is the peer's own unless a trusted proxy names another  *)
(* (WebhookAuth.Authenticate).  With nothing configured there is no event. *)
Origin(k) ==
    {k.remote} \cup (IF k.remote \in env.proxies THEN {k.xff, k.xri} \ {None} ELSE {})
Permitted(k) ==
    \/ env.disabled
    \/ /\ env.token \/ env.allowedIPs # {}
       /\ env.token => k.cred = "token"
       /\ env.allowedIPs # {} => \E addr \in Origin(k) : Allowed(addr, env.allowedIPs)
Accepted(s) == {r \in Requests : \E i \in DOMAIN (taken[s] \o events[s]) :
                                     (taken[s] \o events[s])[i] = r}
Authorised == \A s \in Sources : \A r \in Accepted(s) : Permitted(kind[r])

(* The answers given so far, and the entry of webhookMetrics for each: the *)
(* label is the endpoint if the limiter or RequireAuth answered, and the   *)
(* source if the adapter did.                                              *)
Answered == {r \in Requests : code[r] # None}
Entry(r) ==
    <<IF code[r] = 429 \/ ~Authenticate(kind[r]) THEN Endpoint(kind[r].path)
      ELSE Route(kind[r].path), code[r]>>

(* The answer tells what became of the event: 200 if and only if it is in  *)
(* the channel or was read from it, once, and for the source of the path;  *)
(* 503 if and only if it is counted as dropped; and webhookMetrics counts  *)
(* every answer once under its label and status, and nothing else.         *)
AnswersTrue ==
    /\ \A r \in Requests : \A s \in Sources :
          LET all == taken[s] \o events[s] IN
          Cardinality({i \in DOMAIN all : all[i] = r}) =
              IF code[r] = 200 /\ kind[r].path = Config[s].path THEN 1 ELSE 0
    /\ \A s \in Sources :
          dropped[s] = Cardinality({r \in Requests : /\ code[r] = 503
                                                     /\ kind[r].path = Config[s].path})
    /\ metrics = [x \in {Entry(r) : r \in Answered} |->
                     Cardinality({r \in Answered : Entry(r) = x})]

(* With authentication configured for a source, the right credentials are  *)
(* not refused (webhook_adapter.go:299, authenticate).                     *)
CredentialsAccepted ==
    \A r \in Requests :
        (code[r] = 401 /\ Permitted(kind[r])) =>
            LET c == Config[Route(kind[r].path)]
            IN  c.auth \notin {"bearer", "basic"} \/ kind[r].cred # "token"

(* In RefillSeconds seconds at most MaxTokens requests of a key pass       *)
(* (ratelimit_wrapper.go:63: the intended rate is not exceeded).           *)
IntendedRate ==
    \A a \in admitted :
        Cardinality(Passed(a.key, a.at, a.at + RefillSeconds * Second - 1)) <= MaxTokens
=============================================================================
