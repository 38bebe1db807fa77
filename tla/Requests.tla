----------------------------- MODULE Requests ------------------------------
(***************************************************************************)
(* Outgoing requests: the limiter and its adaptive form, the robots.txt    *)
(* manager (internal/ratelimit), the HTTP client with its batches          *)
(* (internal/http) and the retrier with the error types it goes by         *)
(* (internal/errors), under concurrent callers of one context.             *)
(*                                                                         *)
(* Time is counted in ticks, and only where the limiter compares it.  The  *)
(* rate limiters of golang.org/x/time give a token some time or return the *)
(* error of the context.  A request is answered, fails or times out: the   *)
(* client sets a limit of its own.                                         *)
(***************************************************************************)
EXTENDS Naturals, Sequences, FiniteSets

CONSTANTS
  Goroutines,     \* the callers
  Domains,
  Teams,          \* what the callers do: functions from Goroutines to Roles
  Delay,          \* domainDelay, in ticks
  MaxRetries,     \* of RetryConfig, and InitialDelay and MaxDelay
  InitialDelay, MaxDelay,
  RetryableTypes,
  Concurrency,    \* of GetBatch
  windowSize, minRate, maxRate,  \* of the adaptive limiter
  Paths,          \* paths of one domain, and what its server may answer when
  Files,          \* asked for robots.txt: sequences of directives
  MaxFetches      \* how many background fetches of it may be under way

Roles == {"crawl", "retry", "batch", "main", "adapt", "robots"}

ASSUME TeamsAssumption == Teams \subseteq [Goroutines -> Roles]
ASSUME NumbersAssumption ==
  /\ {Delay, MaxRetries, InitialDelay, MaxDelay, MaxFetches} \subseteq Nat
  /\ {Concurrency, windowSize, minRate, maxRate} \subseteq Nat \ {0}
  /\ minRate <= maxRate

-----------------------------------------------------------------------------
(***************************************************************************)
(* errors.go: the types of errors, and which are worth another attempt.    *)
(***************************************************************************)
ErrorTypes == {"unknown", "network", "timeout", "rate_limit", "auth", "not_found",
               "server_error", "client_error", "parse", "cancelled"}

IsRetryable(type) == type \in {"network", "timeout", "rate_limit", "server_error"}

\* What a request comes to: a response, complete or cut off in its body, or
\* the failure that the transport reports.
Statuses == {200, 401, 403, 404, 410, 429, 500, 503}
Response(failure, status, html, whole) ==
  [failure |-> failure, status |-> status, html |-> html, whole |-> whole]
Responses == {Response("none", status, html, whole) :
                status \in Statuses, html \in BOOLEAN, whole \in BOOLEAN}
Failed(failure) == Response(failure, 0, FALSE, FALSE)
Failures == {"canceled", "deadline", "refused", "other"}

Categorize(failure) ==
  CASE failure = "canceled" -> "cancelled"
    [] failure = "deadline" -> "timeout"
    [] failure = "refused"  -> "network"
    [] failure = "other"    -> "unknown"

CategorizeHTTPStatus(status) ==
  CASE status \in {401, 403} -> "auth"
    [] status = 404 -> "not_found"
    [] status = 429 -> "rate_limit"
    [] status >= 500 -> "server_error"
    [] status \in 400..499 \ {401, 403, 404, 429} -> "client_error"
    [] OTHER -> "none"

(***************************************************************************)
(* fast_client.go: the error of Get.  No request can be created for an     *)
(* invalid address.  Only a server error is returned as one; any other     *)
(* status is noted in the result of a call that succeeds, and the body is  *)
(* read only if it is HTML.                                                *)
(***************************************************************************)
GetError(answer) ==
  CASE answer.failure = "invalid" -> "parse"
    [] answer.failure \in Failures -> Categorize(answer.failure)
    [] answer.failure = "none" ->
         CASE CategorizeHTTPStatus(answer.status) = "server_error" -> "server_error"
           [] answer.html /\ ~answer.whole /\ answer.status < 500 -> "network"
           [] OTHER -> "none"

\* retry.go: the configured types, and the types that are retryable anyway.
shouldRetry(type) == type \in RetryableTypes \/ IsRetryable(type)

\* The delay doubles up to its maximum.
nextDelay(d) == IF 2 * d > MaxDelay THEN MaxDelay ELSE 2 * d

-----------------------------------------------------------------------------
(***************************************************************************)
(* robots.go: a file is a sequence of directives [key, value].  The value  *)
(* of a user-agent line says whether it means this crawler ("*" or its     *)
(* name), that of a rule is the set of paths its pattern matches.          *)
(***************************************************************************)
Directives == [key : {"user-agent"}, value : BOOLEAN]
         \cup [key : {"allow", "disallow", "crawl-delay", "sitemap"}, value : SUBSET Paths]

ASSUME DomainsAssumption == Domains # {}
ASSUME FilesAssumption == Files # {} /\ Files \subseteq Seq(Directives)

Schemes == {"https", "http"}
AllowAll == [allow |-> {}, disallow |-> {}]

\* Mutant: the group of a user-agent line goes on for those that follow.
ParseLineSticky(state, line) ==
  CASE line.key = "user-agent" -> [state EXCEPT !.matching = @ \/ line.value]
    [] line.key = "allow" /\ state.matching ->
         [state EXCEPT !.allow = @ \cup {line.value}]
    [] line.key = "disallow" /\ state.matching ->
         [state EXCEPT !.disallow = @ \cup {line.value}]
    [] OTHER -> state

ParseLine(state, line) ==
  CASE line.key = "user-agent" -> [state EXCEPT !.matching = line.value]
    [] line.key = "allow" /\ state.matching ->
         [state EXCEPT !.allow = @ \cup {line.value}]
    [] line.key = "disallow" /\ state.matching ->
         [state EXCEPT !.disallow = @ \cup {line.value}]
    [] OTHER -> state

\* What has been made of a file up to each of its lines.
ParseLines(file) ==
  LET parsed[i \in 0..Len(file)] ==
        IF i = 0 THEN [matching |-> FALSE, allow |-> {}, disallow |-> {}]
                 ELSE ParseLine(parsed[i - 1], file[i])
  IN parsed

ParseRobots(file) ==
  LET end == ParseLines(file)[Len(file)]
  IN [allow |-> end.allow, disallow |-> end.disallow]

\* An allow rule wins over every disallow rule.
RulesAllow(rules, path) ==
  \/ \E pattern \in rules.allow : path \in pattern
  \/ \A pattern \in rules.disallow : path \notin pattern

-----------------------------------------------------------------------------
VARIABLES
  role,          \* what each caller does: chosen once
  cancelled,     \* the context of all callers is
  stage,         \* where each caller stands
  domain,        \* the domain it waits for
  sleep,         \* the ticks its timer still runs in WaitDomain
  since,         \* ticks since lastRequest of a domain, at most Delay; Delay if none
  attempts,      \* result.Attempts of its call of Do
  delay,         \* delay of Do
  err,           \* lastErr of Do, then the error that the call returned
  errorCount, successCount, currentRate,  \* of the adaptive limiter
  limit,         \* the rate of the global limiter
  robotsTxt,     \* what the server serves as robots.txt
  rules,         \* the manager's rules for its domain; {} if it has none
  fetching,      \* the background fetches, by the scheme they are trying
  own,           \* history: ticks since a caller's own last stamp of a domain
  seen,          \* history: the errors of the attempts of a call of Do
  source,        \* history: the file that rules were parsed from
  recorded       \* history: what the adaptive limiter was told last

limiterVars == <<domain, sleep, since, own>>
clientVars == <<attempts, delay, err, seen>>
adaptiveVars == <<errorCount, successCount, currentRate, limit, recorded>>
robotsVars == <<robotsTxt, rules, fetching, source>>
requestsVars == <<role, cancelled, stage, limiterVars, clientVars, adaptiveVars, robotsVars>>

RequestsInit ==
  /\ role \in Teams
  /\ cancelled = FALSE
  /\ stage = [c \in Goroutines |-> CASE role[c] = "batch" -> "acquire"
                               [] role[c] = "main"  -> "waiting"
                               [] OTHER             -> "idle"]
  /\ domain = [c \in Goroutines |-> CHOOSE d \in Domains : TRUE]
  /\ sleep = [c \in Goroutines |-> 0]
  /\ since = [d \in Domains |-> Delay]
  /\ attempts = [c \in Goroutines |-> 0]
  /\ delay = [c \in Goroutines |-> InitialDelay]
  /\ err = [c \in Goroutines |-> "none"]
  /\ errorCount = 0 /\ successCount = 0
  /\ currentRate = maxRate /\ limit = maxRate /\ recorded = "none"
  /\ robotsTxt = CHOOSE file \in Files : TRUE
  /\ rules = {} /\ source = <<>>
  /\ fetching = [scheme \in Schemes |-> 0]
  /\ own = [c \in Goroutines |-> [d \in Domains |-> Delay]]
  /\ seen = [c \in Goroutines |-> <<>>]

Enter(c, place) == stage' = [stage EXCEPT ![c] = place]
Return(c, e) == Enter(c, "idle") /\ err' = [err EXCEPT ![c] = e]

-----------------------------------------------------------------------------
(***************************************************************************)
(* The limiter.                                                            *)
(***************************************************************************)
Tick ==
  /\ \/ \E c \in Goroutines : sleep[c] > 0
     \/ \E d \in Domains : since[d] < Delay \/ \E c \in Goroutines : own[c][d] < Delay
  /\ LET Older(n) == IF n < Delay THEN n + 1 ELSE n
     IN /\ since' = [d \in Domains |-> Older(since[d])]
        /\ own' = [c \in Goroutines |-> [d \in Domains |-> Older(own[c][d])]]
  /\ sleep' = [c \in Goroutines |-> IF sleep[c] > 0 THEN sleep[c] - 1 ELSE 0]
  /\ UNCHANGED <<role, cancelled, stage, domain, clientVars, adaptiveVars, robotsVars>>

\* The worker's loop: it looks at its context before each item.
CallWaitDomain(c) ==
  /\ role[c] = "crawl" /\ stage[c] = "idle" /\ ~cancelled
  /\ \E d \in Domains : domain' = [domain EXCEPT ![c] = d]
  /\ Enter(c, "global")
  /\ UNCHANGED <<role, cancelled, sleep, since, own, clientVars, adaptiveVars, robotsVars>>

\* limiter.Wait, of the global limiter and of the domain's.  The worker drops
\* its item when WaitDomain fails.
TakeToken(c, place, next) ==
  /\ stage[c] = place
  /\ Enter(c, next) \/ (cancelled /\ Enter(c, "idle"))
  /\ UNCHANGED <<role, cancelled, limiterVars, clientVars, adaptiveVars, robotsVars>>

WaitGlobal(c) == TakeToken(c, "global", "look")
WaitDomainLimiter(c) == TakeToken(c, "token", "request")

\* lastRequest[domain] = time.Now()
StampRequest(c) ==
  /\ since' = [since EXCEPT ![domain[c]] = 0]
  /\ own' = [own EXCEPT ![c][domain[c]] = 0]
  /\ Enter(c, "token")

\* Under l.mu: either the delay has passed, or l.mu is left to sleep the rest.
CheckDelay(c) ==
  /\ stage[c] = "look"
  /\ IF since[domain[c]] < Delay
       THEN /\ sleep' = [sleep EXCEPT ![c] = Delay - since[domain[c]]]
            /\ Enter(c, "sleep")
            /\ UNCHANGED <<since, own>>
       ELSE StampRequest(c) /\ UNCHANGED sleep
  /\ UNCHANGED <<role, cancelled, domain, clientVars, adaptiveVars, robotsVars>>

\* Mutant: only a caller that need not sleep is entered in lastRequest.
GoUnstamped(c) ==
  /\ stage[c] = "sleep"
  /\ sleep[c] = 0
  /\ own' = [own EXCEPT ![c][domain[c]] = 0]
  /\ Enter(c, "token")
  /\ UNCHANGED <<role, cancelled, domain, since, sleep, clientVars, adaptiveVars, robotsVars>>

\* After its sleep a caller locks l.mu and does not look again.
AfterSleep(c) ==
  /\ stage[c] = "sleep"
  /\ \/ /\ sleep[c] = 0
        /\ StampRequest(c)
        /\ UNCHANGED sleep
     \/ /\ cancelled
        /\ sleep' = [sleep EXCEPT ![c] = 0]
        /\ Enter(c, "idle")
        /\ UNCHANGED <<since, own>>
  /\ UNCHANGED <<role, cancelled, domain, clientVars, adaptiveVars, robotsVars>>

-----------------------------------------------------------------------------
(***************************************************************************)
(* The client and the retrier.                                             *)
(***************************************************************************)

\* What the caller makes of the answer: a crawl worker and GetBatch take it,
\* GetBatch also gives its place back, and Do looks at its error.
Answered(c, answer) ==
  /\ IF role[c] = "retry"
       THEN /\ err' = [err EXCEPT ![c] = GetError(answer)]
            /\ seen' = [seen EXCEPT ![c] = Append(@, GetError(answer))]
            /\ Enter(c, IF GetError(answer) = "none" THEN "idle" ELSE "failed")
       ELSE Enter(c, "idle") /\ UNCHANGED <<err, seen>>

\* The address is invalid in every attempt of a call or in none; otherwise a
\* request of a cancelled context does not leave.
Send(c) ==
  /\ stage[c] = "request"
  /\ \/ /\ attempts[c] > 1 => err[c] = "parse"
        /\ Answered(c, Failed("invalid"))
     \/ /\ attempts[c] > 1 => err[c] # "parse"
        /\ IF cancelled THEN Answered(c, Failed("canceled"))
                        ELSE Enter(c, "sent") /\ UNCHANGED <<err, seen>>
  /\ UNCHANGED <<role, cancelled, limiterVars, attempts, delay, adaptiveVars, robotsVars>>

Answer(c) ==
  /\ stage[c] = "sent"
  /\ \/ \E answer \in Responses : Answered(c, answer)
     \/ \E failure \in Failures : /\ failure = "canceled" => cancelled
                                  /\ Answered(c, Failed(failure))
  /\ UNCHANGED <<role, cancelled, limiterVars, attempts, delay, adaptiveVars, robotsVars>>

\* GetWithRetry: Do with Get, its first attempt.
CallDo(c) ==
  /\ role[c] = "retry" /\ stage[c] = "idle" /\ ~cancelled
  /\ attempts' = [attempts EXCEPT ![c] = 1]
  /\ delay' = [delay EXCEPT ![c] = InitialDelay]
  /\ seen' = [seen EXCEPT ![c] = <<>>]
  /\ Enter(c, "request")
  /\ UNCHANGED <<role, cancelled, limiterVars, err, adaptiveVars, robotsVars>>

\* Mutant: the attempts are counted from zero.
MayRetryOnceMore(c) == attempts[c] <= MaxRetries + 1 /\ shouldRetry(err[c])

\* An attempt has failed: first the context, then the attempts left, then the
\* type of the error.
MayRetry(c) == attempts[c] <= MaxRetries /\ shouldRetry(err[c])

AttemptFailed(c) ==
  /\ stage[c] = "failed"
  /\ CASE cancelled                  -> Return(c, "cancelled")
       [] ~cancelled /\ MayRetry(c)  -> Enter(c, "backoff") /\ UNCHANGED err
       [] ~cancelled /\ ~MayRetry(c) -> Return(c, err[c])
  /\ UNCHANGED <<role, cancelled, limiterVars, attempts, delay, seen, adaptiveVars, robotsVars>>

\* The delay is over, or the context is cancelled; if both are, select takes
\* either of them.
Backoff(c) ==
  /\ stage[c] = "backoff"
  /\ \/ /\ attempts' = [attempts EXCEPT ![c] = @ + 1]
        /\ delay' = [delay EXCEPT ![c] = nextDelay(@)]
        /\ Enter(c, "request")
        /\ UNCHANGED err
     \/ /\ cancelled
        /\ Return(c, "cancelled")
        /\ UNCHANGED <<attempts, delay>>
  /\ UNCHANGED <<role, cancelled, limiterVars, seen, adaptiveVars, robotsVars>>

\* GetBatch: one goroutine for each address, Concurrency of them at work; the
\* caller waits for all.  The place in the semaphore is held until Get returns.
Batch == {c \in Goroutines : role[c] = "batch"}
\* Mutant: a goroutine keeps its place when Get returns.
EverInFlight == {c \in Batch : stage[c] # "acquire"}

InFlight == {c \in Batch : stage[c] \in {"request", "sent"}}

AcquirePlace(c) ==
  /\ stage[c] = "acquire"
  /\ Cardinality(InFlight) < Concurrency
  /\ Enter(c, "request")
  /\ UNCHANGED <<role, cancelled, limiterVars, clientVars, adaptiveVars, robotsVars>>

BatchDone(c) ==
  /\ stage[c] = "waiting"
  /\ \A b \in Batch : stage[b] = "idle"
  /\ Enter(c, "idle")
  /\ UNCHANGED <<role, cancelled, limiterVars, clientVars, adaptiveVars, robotsVars>>

-----------------------------------------------------------------------------
(***************************************************************************)
(* The adaptive limiter: when the window is full, more than a tenth of     *)
(* errors slows down and less than a hundredth speeds up.                  *)
(***************************************************************************)
\* Mutant: the minimum is not looked at.
SlowerUnbounded(rate) == (8 * rate) \div 10

Slower(rate) == IF (8 * rate) \div 10 < minRate THEN minRate ELSE (8 * rate) \div 10
Faster(rate) == IF (11 * rate) \div 10 > maxRate THEN maxRate ELSE (11 * rate) \div 10
Adjusted(errors, total) ==
  CASE 10 * errors > total  -> Slower(currentRate)
    [] 100 * errors < total -> Faster(currentRate)
    [] OTHER                -> currentRate

\* Mutant: the new rate is not given to the limiter.
AdjustUnset(errors, successes) ==
  LET total == errors + successes
      full == total >= windowSize
  IN /\ currentRate' = IF full THEN Adjusted(errors, total) ELSE currentRate
     /\ errorCount' = IF full THEN 0 ELSE errors
     /\ successCount' = IF full THEN 0 ELSE successes
     /\ UNCHANGED limit

checkAndAdjust(errors, successes) ==
  LET total == errors + successes
      full == total >= windowSize
  IN /\ currentRate' = IF full THEN Adjusted(errors, total) ELSE currentRate
     /\ limit' = IF full THEN currentRate' ELSE limit
     /\ errorCount' = IF full THEN 0 ELSE errors
     /\ successCount' = IF full THEN 0 ELSE successes

Record(c, errors, successes) ==
  /\ role[c] = "adapt"
  /\ checkAndAdjust(errorCount + errors, successCount + successes)
  /\ recorded' = IF errors = 1 THEN "error" ELSE "success"
  /\ UNCHANGED <<role, cancelled, stage, limiterVars, clientVars, robotsVars>>

RecordSuccess(c) == Record(c, 0, 1)
RecordError(c) == Record(c, 1, 0)

-----------------------------------------------------------------------------
(***************************************************************************)
(* The robots manager.                                                     *)
(***************************************************************************)

\* Without rules, or with rules older than an hour, a fetch is started in the
\* background.  Without rules everything is allowed meanwhile.
IsAllowed(c) ==
  /\ role[c] = "robots"
  /\ fetching["https"] + fetching["http"] < MaxFetches
  /\ fetching' = [fetching EXCEPT !["https"] = @ + 1]
  /\ UNCHANGED <<role, cancelled, stage, limiterVars, clientVars, adaptiveVars,
                 robotsTxt, rules, source>>

\* One answer: the file, or a status that means there is none.
FetchAnswered(scheme) ==
  /\ fetching[scheme] > 0
  /\ fetching' = [fetching EXCEPT ![scheme] = @ - 1]
  /\ \/ rules' = {ParseRobots(robotsTxt)} /\ source' = robotsTxt
     \/ rules' = {AllowAll} /\ source' = <<>>
  /\ UNCHANGED <<role, cancelled, stage, limiterVars, clientVars, adaptiveVars, robotsTxt>>

\* https fails: http is tried; that fails too, or the body is cut off: the
\* rules stay as they are.
FetchFailed(scheme) ==
  /\ fetching[scheme] > 0
  /\ fetching' = [s \in Schemes |->
                    IF s = scheme THEN fetching[s] - 1
                    ELSE IF s = "http" THEN fetching[s] + 1 ELSE fetching[s]]
  /\ UNCHANGED <<role, cancelled, stage, limiterVars, clientVars, adaptiveVars,
                 robotsTxt, rules, source>>

BodyCut(scheme) ==
  /\ fetching[scheme] > 0
  /\ fetching' = [fetching EXCEPT ![scheme] = @ - 1]
  /\ UNCHANGED <<role, cancelled, stage, limiterVars, clientVars, adaptiveVars,
                 robotsTxt, rules, source>>

\* The server's file is replaced by another.
NewFile ==
  /\ \E c \in Goroutines : role[c] = "robots"
  /\ robotsTxt' \in Files
  /\ UNCHANGED <<role, cancelled, stage, limiterVars, clientVars, adaptiveVars,
                 rules, fetching, source>>

-----------------------------------------------------------------------------
Cancel ==
  /\ ~cancelled
  /\ cancelled' = TRUE
  /\ UNCHANGED <<role, stage, limiterVars, clientVars, adaptiveVars, robotsVars>>

Step(c) == \/ WaitGlobal(c) \/ CheckDelay(c) \/ AfterSleep(c) \/ WaitDomainLimiter(c)
           \/ Send(c) \/ Answer(c) \/ AttemptFailed(c) \/ Backoff(c)
           \/ AcquirePlace(c) \/ BatchDone(c)

RequestsNext == \/ Tick \/ Cancel \/ NewFile
        \/ \E c \in Goroutines :
             \/ CallWaitDomain(c) \/ CallDo(c) \/ Step(c)
             \/ RecordSuccess(c) \/ RecordError(c) \/ IsAllowed(c)
        \/ \E scheme \in Schemes :
             FetchAnswered(scheme) \/ FetchFailed(scheme) \/ BodyCut(scheme)

\* Time passes, every goroutine goes on, the rate limiters hand out tokens,
\* and a request is answered within the client's time limit.
RequestsFairness == WF_requestsVars(Tick) /\ \A c \in Goroutines : WF_requestsVars(Step(c))

RequestsSpec == RequestsInit /\ [][RequestsNext]_requestsVars /\ RequestsFairness
-----------------------------------------------------------------------------
(***************************************************************************)
(* Properties.                                                             *)
(***************************************************************************)
Places == {"idle", "global", "look", "sleep", "token", "request", "sent",
           "failed", "backoff", "acquire", "waiting"}

RequestsTypeOK ==
  /\ role \in Teams
  /\ cancelled \in BOOLEAN
  /\ stage \in [Goroutines -> Places]
  /\ domain \in [Goroutines -> Domains]
  /\ sleep \in [Goroutines -> 0..Delay]
  /\ since \in [Domains -> 0..Delay]
  /\ attempts \in [Goroutines -> 0..(MaxRetries + 1)]
  /\ delay \in [Goroutines -> Nat]
  /\ err \in [Goroutines -> ErrorTypes \cup {"none"}]
  /\ errorCount + successCount \in 0..(windowSize - 1)
  /\ {currentRate, limit} \subseteq minRate..maxRate
  /\ fetching \in [Schemes -> 0..MaxFetches]

\* A caller's own requests to a domain are entered in lastRequest at least
\* Delay apart, however many others use the domain and sleep at the same time.
Stamps(c, d) == domain[c] = d /\ stage[c] \in {"look", "sleep"} /\ stage'[c] = "token"
OwnPace ==
  [][ \A c \in Goroutines, d \in Domains : Stamps(c, d) => own[c][d] = Delay ]_requestsVars

\* SetDomainDelay "sets the minimum delay between requests to the same domain"
\* (limiter.go:84): whoever makes it, a request is not entered sooner than
\* Delay after the last one of its domain.
DomainPace ==
  [][ \A c \in Goroutines, d \in Domains : Stamps(c, d) => since[d] = Delay ]_requestsVars

\* GetWithRetry makes another attempt only after an error that is worth it,
\* and not more than MaxRetries; it fails with the error of its last attempt
\* when no attempt is left or that error is final, or because its context is
\* cancelled; and it succeeds when an attempt does.
RetriesJustified ==
  [][ \A c \in Goroutines : role[c] = "retry" /\ stage[c] # "idle" /\ stage'[c] = "idle" =>
        LET n == Len(seen'[c])
            last == seen'[c][n]
        IN /\ n \in 1..(MaxRetries + 1)
           /\ \A i \in 1..(n - 1) : shouldRetry(seen'[c][i])
           /\ \/ /\ err'[c] = last
                 /\ (last = "none" \/ n = MaxRetries + 1 \/ ~shouldRetry(last))
              \/ cancelled /\ err'[c] = "cancelled" ]_requestsVars

\* Every call returns: of WaitDomain with a request behind it, of Do, and of
\* GetBatch, whatever the servers answer and whenever the context is cancelled.
CallsReturn == \A c \in Goroutines : stage[c] # "idle" ~> stage[c] = "idle"

\* The adaptive limiter follows the servers: with nothing but errors the rate
\* in force comes down to the minimum, with nothing but successes it comes up
\* to the maximum, whatever was recorded before.
AdaptsToServer ==
  /\ <>[](recorded = "error") /\ []<>(errorCount = 0) /\ []<>(errorCount = 1)
     => <>[](limit = minRate)
  /\ <>[](recorded = "success") /\ []<>(successCount = 0) /\ []<>(successCount = 1)
     => <>[](limit = maxRate)

\* Read as robots.txt is meant: a rule belongs to the nearest user-agent line
\* above it.
Applies(file, i) == \E g \in 1..(i - 1) :
  /\ file[g].key = "user-agent" /\ file[g].value
  /\ \A k \in (g + 1)..(i - 1) : file[k].key # "user-agent"
Permitted(file, path) ==
  LET Hit(key) == \E i \in DOMAIN file :
                    file[i].key = key /\ Applies(file, i) /\ path \in file[i].value
  IN Hit("allow") \/ ~Hit("disallow")

\* The rules in force always mean what the file they came from says, whatever
\* fetches race and fail.
RobotsObeyed ==
  \A r \in rules, path \in Paths : RulesAllow(r, path) <=> Permitted(source, path)
=============================================================================
