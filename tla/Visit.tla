------------------------------- MODULE Visit -------------------------------
(***************************************************************************)
(* One use of a browser page by internal/browser: a visit of an address    *)
(* (VisitWithOptions), a visit of a hash route (VisitHashRouteWithOptions),*)
(* an analysis of a page's own requests (AnalyzeAJAX) or a scroll to its   *)
(* end (HandleInfiniteScroll), next to the page itself, which goes on      *)
(* loading, sending requests and rendering their answers, and next to the  *)
(* goroutines of the hijack router, one for each held request.             *)
(*                                                                         *)
(* The page is not the visitor's: it renders again, goes to another         *)
(* document, hangs in a script or a dialog, or is gone, because the context*)
(* is cancelled or the pool recycled the browser under another visitor.    *)
(* A call on a page that is gone fails, and after Navigate and WaitLoad no *)
(* error is looked at any more.  A call on a page that hangs does not come *)
(* back: the pages run on the caller's context, which has no deadline.     *)
(* All calls that one extractor makes on the page are one step.            *)
(***************************************************************************)
EXTENDS Frameworks

CONSTANTS
  Reqs,         \* the XHR and fetch requests the page may send
  Jobs,         \* the uses of the page: [op, fast, spa, soft]
  Sites,        \* the documents: [now, after, via, volatile, next], see SiteOK
  MaxCaptured,  \* maxRequests of the in-page interceptor (500 in the code)
  MaxScrolls,   \* the argument maxScrolls of HandleInfiniteScroll
  MaxHeight     \* how far the page can grow when it is scrolled

\* now: the features the loaded document has; after: those it gains when a
\* request is answered; via: the client that sends the request; volatile: what
\* comes and goes when the page renders again; next: the documents it may go
\* to by itself.
SiteOK(s) ==
  /\ s.now \subseteq Features /\ s.after \in [Reqs -> SUBSET Features]
  /\ s.via \in [Reqs -> Clients]
  /\ s.volatile \subseteq Features /\ s.next \subseteq SUBSET Features

Ops == {"visit", "hash", "analyze", "scroll"}

ASSUME JobsAssumption ==
  Jobs \subseteq [op : Ops, fast : BOOLEAN, spa : BOOLEAN, soft : BOOLEAN]
ASSUME SitesAssumption == \A s \in Sites : SiteOK(s)
ASSUME BoundsAssumption == {MaxCaptured, MaxScrolls, MaxHeight} \subseteq Nat \ {0}

VARIABLES
  job, site,    \* what is done with which document: chosen once
  where,        \* where the visitor stands
  h,            \* the handler whose turn it is in a loop over handlers
  timeUp,       \* the timer of the current wait has fired
  checks,       \* the conditions of WaitForContent that this round found true
  result,       \* the PageResult, by field
  err,          \* its Error, or the error that VisitWithOptions returns
  page,         \* the tab
  router,       \* requests are hijacked
  doc,          \* the features of the document in it
  monitored,    \* the counter of InjectNetworkMonitor exists in the document
  hooked,       \* so does the interceptor of InjectAJAXInterceptor
  ring,         \* and its __ajaxCapture.requests
  observer,     \* the observer of MonitorDynamicContent
  live,         \* the requests of the document that are unanswered
  st,           \* how far the router has let each request
  captured,     \* xhrRequests, guarded by xhrMu
  scroll,       \* HandleInfiniteScroll's currentHeight, lastHeight, scrollCount
  kept,         \* history: what the extraction began with and is still there
  early,        \* history: what was pending when WaitForContent began, of
                \* clients that could be asked ever since
  late          \* history: WaitForContent gave up

chosen == <<job, site>>
visitor == <<where, h, timeUp, checks, result, err, late>>
history == <<kept, early>>
document == <<doc, monitored, hooked, ring, observer, live>>
tab == <<page, router, document>>
requests == <<st, captured>>
visitVars == <<chosen, visitor, history, tab, requests, scroll>>

Fields == {"framework", "auth", "links", "scripts", "forms", "sockets",
           "routes", "frameworkLinks", "endpoints", "ajaxForms", "xhr",
           "soft", "hash", "shadow", "dynamic"}

Checks == {"loading", "content", "text"}

-----------------------------------------------------------------------------
\* The visitor makes a call on the page, and it comes back: with a value, or
\* with what the caller makes of its error.
At(place) == where = place /\ page # "stuck"
Answers == page \in {"blank", "loading", "loaded"}
Eval(value, onError) == IF Answers THEN value ELSE onError

Pending == {site.via[r] : r \in live}

\* spaHandler is created: its steps are taken.
HasSPAHandler == job.spa \/ ~job.fast

Proceed(place) == where' = place /\ timeUp' = FALSE
Set(field, value) == result' = [result EXCEPT ![field] = value]

\* Where a visit goes on behind the parts that its options leave out.
AfterSoft == IF job.fast THEN "shadow" ELSE "hash"
AfterAJAX == IF ~HasSPAHandler THEN "copy"
             ELSE IF job.soft \/ job.spa THEN "soft" ELSE AfterSoft

\* One extractor: the call, the field of its answer, and where it goes on.
Extract(place, field, value, next) ==
  /\ At(place)
  /\ Set(field, Eval(value, {}))
  /\ Proceed(next)
  /\ UNCHANGED <<chosen, h, checks, err, late, history, tab, requests, scroll>>

NoObserver == [on |-> FALSE, initial |-> {}, new |-> {}]

VisitInit ==
  /\ job \in Jobs
  /\ site \in Sites
  /\ where = CASE job.op \in {"visit", "hash"} -> "open"
            [] job.op = "analyze"           -> "inject"
            [] job.op = "scroll"            -> "scroll"
  /\ page = IF where = "open" THEN "none" ELSE "loaded"
  /\ doc = IF where = "open" THEN {} ELSE site.now
  /\ h = 1
  /\ timeUp = FALSE
  /\ checks = {}
  /\ result = [f \in Fields |-> {}]
  /\ err = "none"
  /\ router = FALSE
  /\ monitored = FALSE
  /\ hooked = FALSE
  /\ ring = <<>>
  /\ observer = NoObserver
  /\ live = {}
  /\ st = [r \in Reqs |-> "idle"]
  /\ captured = {}
  /\ scroll = [height |-> 1, last |-> 0, count |-> 0]
  /\ kept = {}
  /\ early = {}
  /\ late = FALSE

-----------------------------------------------------------------------------
(***************************************************************************)
(* The page, the network and time.                                         *)
(***************************************************************************)
Shows == page \in {"loading", "loaded"}

\* The document becomes d: the observer is told of the anchors added.
Become(d) ==
  /\ doc' = d
  /\ observer' = IF observer.on
                   THEN [observer EXCEPT !.new = @ \cup (extractAllLinks(d \ doc) \ observer.initial)]
                   ELSE observer
  /\ kept' = kept \cap d
  /\ early' = {r \in early : site.via[r] \in KnownIn(d)}

\* Another document: what was put into the old one is gone with it, and its
\* requests are not answered any more.
Replaced(d) ==
  /\ doc' = d
  /\ monitored' = FALSE
  /\ hooked' = FALSE
  /\ ring' = <<>>
  /\ observer' = NoObserver
  /\ live' = {}
  /\ kept' = {}
  /\ early' = {}

LoadPage ==
  /\ page = "loading"
  /\ page' = "loaded"
  /\ UNCHANGED <<chosen, visitor, history, document, router, requests, scroll>>

\* maxRequests: the oldest captured request makes room.
captureRequest(q, r) ==
  LET all == Append(q, r)
  IN IF Len(all) > MaxCaptured THEN Tail(all) ELSE all

Issue(r) ==
  /\ Shows
  /\ st[r] = "idle"
  /\ site.via[r] \in {"raw"} \cup KnownIn(doc)
  /\ st' = [st EXCEPT ![r] = IF router THEN "held" ELSE "sent"]
  /\ live' = live \cup {r}
  /\ ring' = IF hooked THEN captureRequest(ring, r) ELSE ring
  /\ UNCHANGED <<chosen, visitor, history, page, router, doc, monitored, hooked, observer,
                 captured, scroll>>

\* The callback of the router, in a goroutine of each held request: first
\* the record, under xhrMu, then the request goes on.
HijackRecord(r) ==
  /\ st[r] = "held"
  /\ st' = [st EXCEPT ![r] = "noted"]
  /\ captured' = captured \cup {r}
  /\ UNCHANGED <<chosen, visitor, history, tab, scroll>>

\* Mutant: the request goes on before it is recorded.
ContinueFirst(r) ==
  /\ st[r] \in {"held", "noted"}
  /\ st' = [st EXCEPT ![r] = "sent"]
  /\ UNCHANGED <<chosen, visitor, history, tab, captured, scroll>>

HijackContinue(r) ==
  /\ st[r] = "noted"
  /\ st' = [st EXCEPT ![r] = "sent"]
  /\ UNCHANGED <<chosen, visitor, history, tab, captured, scroll>>

\* The answer arrives and the application renders it; its loading indicator
\* goes with the last answer.
Answer(r) ==
  /\ Shows
  /\ r \in live /\ st[r] = "sent"
  /\ live' = live \ {r}
  /\ Become((doc \cup site.after[r]) \ (IF live' = {} THEN {"loading"} ELSE {}))
  /\ UNCHANGED <<chosen, visitor, page, router, monitored, hooked, ring, requests, scroll>>

\* The application renders again: what is volatile may come and go.
Rerender ==
  /\ Shows
  /\ \E S \in SUBSET site.volatile : Become((doc \ site.volatile) \cup S)
  /\ UNCHANGED <<chosen, visitor, page, router, monitored, hooked, ring, live, requests, scroll>>

\* The page goes to another document by itself: calls fail until it is there.
GoElsewhere ==
  /\ Shows
  /\ page' = "leaving"
  /\ \E d \in site.next : Replaced(d)
  /\ UNCHANGED <<chosen, visitor, router, requests, scroll>>

Arrive ==
  /\ page = "leaving"
  /\ page' = "loading"
  /\ UNCHANGED <<chosen, visitor, history, document, router, requests, scroll>>

\* A script that does not end, a dialog, a server that does not answer.
Hang ==
  /\ Answers
  /\ page' = "stuck"
  /\ UNCHANGED <<chosen, visitor, history, document, router, requests, scroll>>

PageGone ==
  /\ page \notin {"none", "gone"}
  /\ page' = "gone"
  /\ kept' = {}
  /\ early' = {}
  /\ UNCHANGED <<chosen, visitor, document, router, requests, scroll>>

\* The waits that have a time limit.
Waits == {"ready", "check", "checkContent", "checkText", "checkIdle",
          "waitAjax", "waitAgain"}

TimePasses ==
  /\ where \in Waits
  /\ timeUp' = TRUE
  /\ UNCHANGED <<chosen, where, h, checks, result, err, late, history, tab, requests, scroll>>

Environment ==
  \/ LoadPage \/ Rerender \/ GoElsewhere \/ Arrive \/ Hang \/ PageGone \/ TimePasses
  \/ \E r \in Reqs : Issue(r) \/ HijackRecord(r) \/ HijackContinue(r) \/ Answer(r)

-----------------------------------------------------------------------------
(***************************************************************************)
(* Opening the page, up to the load event.                                 *)
(***************************************************************************)

\* The tab is a new one on about:blank.  Without a tab there is no result.
OpenPage ==
  /\ where = "open"
  /\ \/ /\ page' = "blank"
        /\ Proceed(IF job.op = "hash" THEN "navigate" ELSE "prepare")
        /\ UNCHANGED err
     \/ /\ err' = "open"
        /\ Proceed("done")
        /\ UNCHANGED page
  /\ UNCHANGED <<chosen, h, checks, result, late, history, document, router, requests, scroll>>

\* The scripts of the SPA handler run in the document of about:blank.
Prepare ==
  /\ At("prepare")
  /\ monitored' = Eval(HasSPAHandler, FALSE)
  /\ Proceed("hijack")
  /\ UNCHANGED <<chosen, h, checks, result, err, late, history,
                 page, router, doc, hooked, ring, observer, live, requests, scroll>>

HijackRequests ==
  /\ At("hijack")
  /\ router' \in (IF Answers THEN BOOLEAN ELSE {FALSE})
  /\ Proceed("navigate")
  /\ UNCHANGED <<chosen, h, checks, result, err, late, history, page, document, requests, scroll>>

\* No time limit but the caller's context, here and in WaitLoad.
Navigate ==
  /\ At("navigate")
  /\ IF Answers
       THEN /\ page' = "loading"
            /\ Replaced(site.now)
            /\ Proceed("load")
            /\ UNCHANGED err
       ELSE /\ err' = "navigate"
            /\ Proceed("done")
            /\ UNCHANGED <<page, document, history>>
  /\ UNCHANGED <<chosen, h, checks, result, late, router, requests, scroll>>

WaitLoad ==
  /\ At("load")
  /\ \/ /\ page = "loaded"
        /\ Proceed(IF job.op = "visit" /\ ~job.fast THEN "detect" ELSE "settle")
        /\ UNCHANGED err
     \/ /\ ~Answers
        /\ err' = "load"
        /\ Proceed("done")
  /\ UNCHANGED <<chosen, h, checks, result, late, history, tab, requests, scroll>>

-----------------------------------------------------------------------------
(***************************************************************************)
(* Waiting for the application.                                            *)
(***************************************************************************)

\* A page that does not answer is detected by the fallback handler alone.
DetectFrameworks ==
  /\ At("detect")
  /\ LET found == Eval(Detect(doc), Detect({}))
     IN /\ Set("framework", found.frameworks)
        /\ Proceed(IF found.isSPA THEN "ready" ELSE "settle")
  /\ UNCHANGED <<chosen, h, checks, err, late, history, tab, requests, scroll>>

\* One handler after the other: detected again, then waited for, ten seconds
\* at most by a timer of the page.
FrameworkReady ==
  /\ At("ready")
  /\ \/ ~Eval(Detects(handlers[h], doc), Detects(handlers[h], {}))
     \/ Eval(WaitForReady(handlers[h], doc, Pending), TRUE)
     \/ timeUp
  /\ IF h < Len(handlers)
       THEN h' = h + 1 /\ Proceed("ready") /\ UNCHANGED early
       ELSE /\ h' = 1
            /\ Proceed("check")
            /\ early' = Eval({r \in live : site.via[r] \in KnownIn(doc)}, {})
  /\ UNCHANGED <<chosen, checks, result, err, late, kept, tab, requests, scroll>>

\* Mutant: the loop of WaitForContent without its deadline.
CheckForever ==
  /\ At("check")
  /\ checks' = IF Eval(checkLoadingGone(doc), TRUE) THEN {"loading"} ELSE {}
  /\ where' = "checkContent"
  /\ UNCHANGED <<chosen, h, timeUp, result, err, late, history, tab, requests, scroll>>

\* The head of the loop of WaitForContent, and its first question.
CheckLoading ==
  /\ \/ /\ where = "check" /\ timeUp
        /\ late' = TRUE
        /\ Proceed("auth")
        /\ UNCHANGED checks
     \/ /\ At("check") /\ ~timeUp
        /\ checks' = IF Eval(checkLoadingGone(doc), TRUE) THEN {"loading"} ELSE {}
        /\ where' = "checkContent"
        /\ UNCHANGED <<timeUp, late>>
  /\ UNCHANGED <<chosen, h, result, err, history, tab, requests, scroll>>

\* One more question of a round, each a call of its own on the page.
Ask(place, name, holds, next) ==
  /\ At(place)
  /\ checks' = IF Eval(holds, FALSE) THEN checks \cup {name} ELSE checks
  /\ where' = next
  /\ UNCHANGED <<chosen, h, timeUp, result, err, late, history, tab, requests, scroll>>

CheckContent == Ask("checkContent", "content", checkContentReady(doc), "checkText")
CheckText == Ask("checkText", "text", checkMinContent(doc), "checkIdle")

\* The last question, taken for a yes when it fails, and the end of a round.
CheckIdle ==
  /\ At("checkIdle")
  /\ IF checks = Checks /\ Eval(checkNetworkIdle(doc, monitored, Pending), TRUE)
       THEN Proceed("auth")
       ELSE where' = "check" /\ UNCHANGED timeUp
  /\ UNCHANGED <<chosen, h, checks, result, err, late, history, tab, requests, scroll>>

\* The fixed sleeps of the other modes; a full visit of a hash route has a
\* script of the page do the waiting.
Settle ==
  /\ IF job.op = "hash" /\ ~job.fast THEN At("settle") ELSE where = "settle"
  /\ Proceed("collect")
  /\ UNCHANGED <<chosen, h, checks, result, err, late, history, tab, requests, scroll>>

AuthRedirect == Extract("auth", "auth", HandleAuthRedirect(doc), "collect")

-----------------------------------------------------------------------------
(***************************************************************************)
(* Reading the page.                                                       *)
(***************************************************************************)

\* The final address and the HTML.
Collect ==
  /\ At("collect")
  /\ kept' = Eval(doc, {})
  /\ Proceed("title")
  /\ UNCHANGED <<chosen, h, checks, result, err, late, early, tab, requests, scroll>>

\* page.Element looks for the title until there is one: no time limit either.
Title ==
  /\ At("title")
  /\ ~Answers \/ "title" \in doc
  /\ Proceed("links")
  /\ UNCHANGED <<chosen, h, checks, result, err, late, history, tab, requests, scroll>>

Links == Extract("links", "links", extractLinks(doc),
                 IF job.op = "hash" THEN "forms" ELSE "scripts")
ScriptSources == Extract("scripts", "scripts", extractScripts(doc), "forms")
Forms == Extract("forms", "forms", extractForms(doc), "sockets")
WebSockets == Extract("sockets", "sockets", extractWebSockets(doc),
                      IF job.op = "hash" THEN "done"
                      ELSE IF job.fast THEN AfterAJAX ELSE "routes")

\* A loop over the handlers: the detected ones are asked, and an answer that
\* is an error is skipped.
AskHandlers(place, field, answer, next) ==
  /\ At(place)
  /\ LET n == handlers[h]
     IN Set(field, result[field] \cup
                     (IF Eval(Detects(n, doc), Detects(n, {})) THEN Eval(answer, Threw).found
                                                               ELSE {}))
  /\ IF h < Len(handlers) THEN h' = h + 1 /\ Proceed(place)
                          ELSE h' = 1 /\ Proceed(next)
  /\ UNCHANGED <<chosen, checks, err, late, history, tab, requests, scroll>>

ExtractAllRoutes == AskHandlers("routes", "routes", ExtractRoutes(handlers[h], doc), "frameworkLinks")
ExtractAllLinks ==
  AskHandlers("frameworkLinks", "frameworkLinks", ExtractLinks(handlers[h], doc), "inject")

InjectAJAXInterceptor ==
  /\ At("inject")
  /\ hooked' = Eval(TRUE, hooked)
  /\ Proceed(IF job.op = "analyze" THEN "waitAjax" ELSE "endpoints")
  /\ UNCHANGED <<chosen, h, checks, result, err, late, history,
                 page, router, doc, monitored, ring, observer, live, requests, scroll>>

AJAXEndpoints == Extract("endpoints", "endpoints", ExtractAJAXEndpoints(doc), "ajaxForms")
AJAXForms == Extract("ajaxForms", "ajaxForms", ExtractAJAXForms(doc),
                     IF job.op = "analyze" THEN "monitor" ELSE "captured")

\* A visit adds them to the requests of its result, an analysis returns them.
CapturedRequests ==
  Extract("captured", "xhr", {ring[i] : i \in DOMAIN ring},
          IF job.op = "analyze" THEN "endpoints" ELSE AfterAJAX)

SoftError == Extract("soft", "soft", IsSoftError(doc), AfterSoft)
ContentHash == Extract("hash", "hash", GetContentHash(doc), "shadow")
ShadowDOM == Extract("shadow", "shadow", ExtractShadowDOMContent(doc), "copy")

\* Under xhrMu; what the router recorded replaces what was there.
CopyXHR ==
  /\ where = "copy"
  /\ Set("xhr", captured)
  /\ Proceed("done")
  /\ UNCHANGED <<chosen, h, checks, err, late, history, tab, requests, scroll>>

-----------------------------------------------------------------------------
(***************************************************************************)
(* AnalyzeAJAX.                                                            *)
(***************************************************************************)

\* Polls what is pending until nothing is, or for the given time.
WaitForAJAX ==
  /\ At("waitAjax") \/ At("waitAgain")
  /\ timeUp \/ Eval(NothingPending(doc, Pending), TRUE)
  /\ Proceed(IF where = "waitAjax" THEN "trigger" ELSE "captured")
  /\ UNCHANGED <<chosen, h, checks, result, err, late, history, tab, requests, scroll>>

\* The elements to click are asked for with one selector list that is not
\* CSS: the script ends before its first click, and the error is discarded.
TriggerAJAXEvents ==
  /\ At("trigger")
  /\ LET clicked == Script({"[ng-click]", "[@click]"}, doc \cap {"ngClick", "dataUrl"})
     IN Proceed(IF clicked.found = {} THEN "waitAgain" ELSE "trigger")
  /\ UNCHANGED <<chosen, h, checks, result, err, late, history, tab, requests, scroll>>

\* The anchors of now, and those that an observer is told of for some time.
MonitorStart ==
  /\ At("monitor")
  /\ observer' = Eval([on |-> TRUE, initial |-> extractAllLinks(doc), new |-> {}], observer)
  /\ Proceed("monitored")
  /\ UNCHANGED <<chosen, h, checks, result, err, late, history,
                 page, router, doc, monitored, hooked, ring, live, requests, scroll>>

MonitorEnd == Extract("monitored", "dynamic", observer.new, "done")

(***************************************************************************)
(* HandleInfiniteScroll: the page may grow with every scroll; two equal    *)
(* heights in a row, or maxScrolls, end it.                                *)
(***************************************************************************)
ScrollStart == Extract("scroll", "links", extractAllLinks(doc), "scrolling")

Scroll ==
  /\ At("scrolling")
  /\ IF Answers /\ scroll.count < MaxScrolls
       THEN \E grown \in {scroll.height, scroll.height + 1}, new \in SUBSET {"href"} :
              /\ grown <= MaxHeight
              /\ Become(doc \cup new)
              /\ Set("links", result.links \cup extractAllLinks(doc'))
              /\ IF scroll.height = scroll.last
                   THEN Proceed("done") /\ scroll' = [scroll EXCEPT !.height = grown]
                   ELSE /\ Proceed("scrolling")
                        /\ scroll' = [height |-> grown, last |-> scroll.height,
                                      count |-> scroll.count + 1]
       ELSE Proceed("done") /\ UNCHANGED <<result, doc, observer, history, scroll>>
  /\ UNCHANGED <<chosen, h, checks, err, late, page, router, monitored, hooked, ring, live, requests>>

-----------------------------------------------------------------------------
Visitor ==
  \/ OpenPage \/ Prepare \/ HijackRequests \/ Navigate \/ WaitLoad
  \/ DetectFrameworks \/ FrameworkReady
  \/ CheckLoading \/ CheckContent \/ CheckText \/ CheckIdle
  \/ Settle \/ AuthRedirect \/ Collect \/ Title
  \/ Links \/ ScriptSources \/ Forms \/ WebSockets
  \/ ExtractAllRoutes \/ ExtractAllLinks
  \/ InjectAJAXInterceptor \/ AJAXEndpoints \/ AJAXForms \/ CapturedRequests
  \/ SoftError \/ ContentHash \/ ShadowDOM \/ CopyXHR
  \/ WaitForAJAX \/ TriggerAJAXEvents \/ MonitorStart \/ MonitorEnd
  \/ ScrollStart \/ Scroll

VisitNext == where # "done" /\ (Visitor \/ Environment)

\* The visitor runs when it can, and a timer that is set fires.  Nothing is
\* assumed of the page: it need not load, answer, come back or die.
VisitFairness == WF_visitVars(where # "done" /\ Visitor) /\ WF_visitVars(where # "done" /\ TimePasses)

VisitSpec == VisitInit /\ [][VisitNext]_visitVars /\ VisitFairness
-----------------------------------------------------------------------------
(***************************************************************************)
(* Properties.                                                             *)
(***************************************************************************)

EndsWell == where # "done" /\ where' = "done" /\ err' = "none"

\* What a link extractor has to find, and who has to find it.  The attributes
\* "to", "atClick" and "eventClick" are missing: the scripts that look for
\* them throw.  The others are in the page's own text, so no framework need
\* be detected for them.
InEveryMode == Anchors \cup {"ngHref", "uiSref", "routerLink", "ngClick", "emberView",
                             "whenScript", "stateScript"}
InFullMode == InEveryMode \cup {"onclick", "dataPath", "dataUrl", "pathScript",
                                "area", "form", "iframe", "refresh", "base",
                                "comment", "shadow"}
\* Route tables in memory, and scripts that only their framework's handler
\* reads: found when the application that owns them stayed as well.
OwnedTables == (IF Application(kept) THEN {"ngRoute", "uiState"} ELSE {})
                 \cup (IF "ng" \in kept THEN {"angularRouter", "lazyScript"} ELSE {})
                 \cup (IF "vueApp" \in kept THEN {"vueRouter", "nuxtData"} ELSE {})
                 \cup (IF {"ember", "emberBooted"} \subseteq kept
                         THEN {"emberRouter", "emberScript"} ELSE {})
                 \cup (IF "react" \in kept THEN {"nextData"} ELSE {})
Full == job.op = "visit" /\ ~job.fast
Expected == IF Full THEN InFullMode \cup OwnedTables ELSE InEveryMode
Reported == UNION {result'[f] : f \in {"links", "routes", "frameworkLinks", "shadow"}}

\* A visit that returns without an error reports every address that was in the
\* document when it began to read it and stayed there to the end, whatever
\* frameworks the page mixes and whatever else of it came and went.
ShownIsReported ==
  [][ EndsWell /\ job.op \in {"visit", "hash"} => kept \cap Expected \subseteq Reported ]_visitVars

\* Every request that the router let through before the copy is in the
\* result: no server has been asked for something the visit does not report.
XHRsReported ==
  [][ EndsWell /\ job.op = "visit" /\ router
        => {r \in Reqs : st[r] = "sent"} \subseteq result'["xhr"] ]_visitVars

\* The page of a full visit is not read before its data is there: unless the
\* wait gave up, whatever $.ajax or $http had asked for when WaitForContent
\* began is answered by then, if jQuery or AngularJS stayed in the document.
\* What the page fetches by itself is not waited for.
DataAwaited ==
  [][ where = "collect" /\ where' = "title" /\ Full /\ ~late => early \cap live = {} ]_visitVars

\* The calls without a time limit: any call on a page that hangs, the wait for
\* the load event, and the one for a title.
Unbounded == \/ page = "stuck"
             \/ where = "load" /\ page = "loading"
             \/ where = "title" /\ Answers /\ "title" \notin doc

\* A visit ends, unless it comes upon a page that hangs, never loads or never
\* has a title, and the caller's context is not cancelled: every other wait of
\* it has a limit.
VisitEnds == <>(where = "done") \/ []<>Unbounded
=============================================================================
