----------------------------- MODULE Frameworks -----------------------------
(***************************************************************************)
(* What the crawler can read off a page in the browser: the link, form,    *)
(* script and socket extractors of internal/browser and the framework      *)
(* handlers of internal/framework, as operators on a document.             *)
(*                                                                         *)
(* A document is a set of features, and each feature stands for one        *)
(* element, script or in-memory table that carries one address of its own. *)
(* An extractor returns the features whose address it reports: sets, for   *)
(* every extractor drops the addresses it has seen.  A script that throws  *)
(* reports nothing: rod returns the exception as an error and every caller *)
(* discards it.                                                            *)
(***************************************************************************)
EXTENDS Naturals, Sequences

(***************************************************************************)
(* Features.  Globals says which framework's objects the window holds;     *)
(* Anchors are <a href>; Routers are route tables in memory; Scripts are   *)
(* route definitions in inline script text; Attributes are the navigation  *)
(* attributes of the frameworks; Plain are addresses outside <a>; State    *)
(* are the features that waiting looks at.  A "form" and a "login" form    *)
(* have an action, an "ajaxForm" is submitted by a handler; a "lazyScript" *)
(* and an "emberScript" give their routes without a leading slash.         *)
(***************************************************************************)
Globals == {"angular1", "ng", "react", "vue", "ember", "jquery"}
Anchors == {"href", "hash", "external", "mailto"}
Routers == {"ngRoute", "uiState", "angularRouter", "vueRouter", "emberRouter",
            "nextData", "nuxtData"}
Scripts == {"whenScript", "stateScript", "pathScript", "lazyScript",
            "jsxScript", "emberScript", "apiScript", "socketScript", "srcScript"}
Attributes == {"ngHref", "uiSref", "ngClick", "routerLink", "eventClick", "to",
               "atClick", "dataPath", "dataUrl", "onclick",
               "emberView", "emberAction"}
Plain == {"area", "form", "ajaxForm", "iframe", "refresh", "base", "comment",
          "shadow"}
State == {"ngApp", "appRoot", "root", "vueApp", "emberBooted", "loading", "main",
          "text", "title", "errorText", "login"}
Features == Globals \cup Anchors \cup Routers \cup Scripts \cup Attributes
              \cup Plain \cup State

Inline == Scripts \ {"srcScript"}

\* How a page sends a request: with $.ajax, with $http, or with fetch or an
\* XMLHttpRequest of its own.  jQuery and AngularJS count their own requests
\* only; pending is the set of clients with an unanswered request.
Clients == {"ajax", "http", "raw"}
Application(d) == {"angular1", "ngApp"} \subseteq d  \* AngularJS has started
KnownIn(d) == (IF "jquery" \in d THEN {"ajax"} ELSE {})
                \cup (IF Application(d) THEN {"http"} ELSE {})

\* The result of a script: what it returned, or the error it threw.
Found(S) == [ok |-> TRUE, found |-> S]
Threw == [ok |-> FALSE, found |-> {}]

(***************************************************************************)
(* Three of the scripts ask the document for selectors that are not CSS:   *)
(* an attribute name cannot start with "@", and "(click)" is no selector.  *)
(* querySelectorAll throws a SyntaxError for them, and with it the script  *)
(* that asked, whatever it had collected so far.                           *)
(***************************************************************************)
NotCSS == {"(click)", "[@click]"}
Script(selectors, S) == IF selectors \cap NotCSS = {} THEN Found(S) ELSE Threw

-----------------------------------------------------------------------------
(***************************************************************************)
(* browser.go: extractors of every visit.                                  *)
(***************************************************************************)

\* $route and $state are asked only in a started AngularJS application; the
\* handlers in attributes, the hash links and the script texts are read in
\* every document.
extractAngularRoutes(d) ==
  (IF Application(d) THEN d \cap {"ngRoute", "uiState"} ELSE {})
    \cup (d \cap {"ngClick", "hash", "whenScript", "stateScript"})

extractLinks(d) ==
  (d \cap (Anchors \cup {"ngHref", "uiSref", "routerLink", "emberView"}))
    \cup extractAngularRoutes(d)

extractScripts(d) == d \cap {"srcScript"}

extractForms(d) == d \cap {"form", "ajaxForm", "login"}

\* Only the text of the scripts is searched, for the first ws:// or wss://.
extractWebSockets(d) == d \cap {"socketScript"}

-----------------------------------------------------------------------------
(***************************************************************************)
(* spa.go: what the SPA handler reads.  The shadow roots are reached only  *)
(* by the last one.                                                        *)
(***************************************************************************)
checkLoadingGone(d) == "loading" \notin d
checkContentReady(d) == "main" \in d
checkMinContent(d) == "text" \in d

\* Mutant: AngularJS is not asked what is pending.
IdleByMonitor(d, monitored, pending) ==
  pending \cap (IF monitored THEN Clients ELSE KnownIn(d) \ {"http"}) = {}

\* monitored: the counter of InjectNetworkMonitor exists in this document.
\* Without it the requests a page sends by itself are not seen.
checkNetworkIdle(d, monitored, pending) ==
  pending \cap (IF monitored THEN Clients ELSE KnownIn(d)) = {}

HandleAuthRedirect(d) == d \cap {"login"}

IsSoftError(d) == d \cap {"errorText"}

\* The text of the body and the headings, anchors, images and forms of it.
GetContentHash(d) == d \cap (Anchors \cup {"text", "main", "form", "errorText"})

ExtractShadowDOMContent(d) == d \cap {"shadow"}

extractAllLinks(d) == d \cap (Anchors \cup {"emberView"})

-----------------------------------------------------------------------------
(***************************************************************************)
(* ajax.go: endpoints and forms that are submitted by script.              *)
(***************************************************************************)
ExtractAJAXEndpoints(d) == d \cap {"apiScript", "dataUrl"}
ExtractAJAXForms(d) == d \cap {"ajaxForm"}

\* What WaitForAJAX asks jQuery and AngularJS; no axios has the counter that
\* it looks for.
NothingPending(d, pending) == pending \cap KnownIn(d) = {}

-----------------------------------------------------------------------------
(***************************************************************************)
(* angularjs.go                                                            *)
(***************************************************************************)
AngularJSDetect(d) == "angular1" \in d

AngularJSReady(d, pending) == Application(d) /\ "http" \notin pending

AngularJSRoutes(d) ==
  Found(IF Application(d)
          THEN d \cap {"ngRoute", "uiState", "whenScript", "stateScript"}
          ELSE {})

AngularJSLinks(d) == Script({"[ui-sref]", "[ng-click]"},
                            d \cap {"hash", "ngHref", "uiSref", "ngClick"})

(***************************************************************************)
(* angular.go: Angular 2 and later.                                        *)
(***************************************************************************)
AngularDetect(d) == d \cap {"ng", "appRoot"} # {}

\* With the globals of its development build Angular is asked whether it is
\* stable, and its zone knows of every request; without them a rendered root
\* element is enough.
AngularReady(d, pending) == IF "ng" \in d THEN pending = {} ELSE "appRoot" \in d

AngularRoutes(d) ==
  Found((IF "ng" \in d THEN d \cap {"angularRouter"} ELSE {})
          \cup (d \cap {"pathScript", "lazyScript"}))

AngularLinks(d) == Script({"[routerLink]", "a[href]", "(click)"},
                          d \cap {"routerLink", "href", "hash", "emberView", "eventClick"})

(***************************************************************************)
(* react.go                                                                *)
(***************************************************************************)
ReactDetect(d) == "react" \in d

ReactReady(d, pending) == "root" \in d /\ "loading" \notin d

ReactRoutes(d) == Found(d \cap {"dataPath", "jsxScript", "pathScript",
                                "lazyScript", "nextData"})

ReactLinks(d) == Script({"a[href]", "a[data-next]"},
                        d \cap {"href", "hash", "emberView"})

(***************************************************************************)
(* vue.go                                                                  *)
(***************************************************************************)
\* Mutant: only the global is looked for, not the mounted application.
VueGlobalOnly(d) == "vue" \in d

VueDetect(d) == d \cap {"vue", "vueApp"} # {}

VueReady(d, pending) == "vueApp" \in d

VueRoutes(d) == Found((IF "vueApp" \in d THEN d \cap {"vueRouter"} ELSE {})
                        \cup (d \cap {"pathScript", "nuxtData"}))

VueLinks(d) == Script({"a[href]", "[to]", "[@click]"},
                      d \cap {"href", "hash", "emberView", "to", "atClick"})

(***************************************************************************)
(* ember.go: rendered views and actions tell it as well as its globals do. *)
(***************************************************************************)
EmberDetect(d) == d \cap {"ember", "emberView", "emberAction"} # {}

EmberReady(d, pending) == "ember" \in d /\ d \cap {"emberView", "emberRouter"} # {}

\* The router is looked up in the container of the first namespace, which
\* only a booted application has: without it the script throws.
EmberRoutes(d) ==
  IF "ember" \in d /\ "emberBooted" \notin d
    THEN Threw
    ELSE Found((IF "ember" \in d THEN d \cap {"emberRouter"} ELSE {})
                 \cup (d \cap {"emberScript"}))

EmberLinks(d) == Script({"a.ember-view[href]", "[data-ember-action]"},
                        d \cap {"emberView", "emberAction"})

(***************************************************************************)
(* generic.go: the handler of every page.                                  *)
(***************************************************************************)
GenericDetect(d) == TRUE

GenericReady(d, pending) == TRUE

GenericRoutes(d) == Found(d \cap ({"hash", "onclick", "dataPath", "dataUrl"}
                                    \cup (Inline \ {"lazyScript", "emberScript", "socketScript"})))

GenericLinks(d) ==
  Script({"a[href]", "area[href]", "form", "iframe[src]", "meta", "base[href]"},
         d \cap ({"href", "hash", "external", "emberView", "login"}
                   \cup (Plain \ {"ajaxForm", "shadow"})))

-----------------------------------------------------------------------------
(***************************************************************************)
(* framework.go: the handlers, in the order of NewDetector, and the        *)
(* dispatch on them.                                                       *)
(***************************************************************************)
handlers == <<"angularjs", "angular", "react", "vue", "ember", "unknown">>

Detects(h, d) ==
  CASE h = "angularjs" -> AngularJSDetect(d)
    [] h = "angular"   -> AngularDetect(d)
    [] h = "react"     -> ReactDetect(d)
    [] h = "vue"       -> VueDetect(d)
    [] h = "ember"     -> EmberDetect(d)
    [] h = "unknown"   -> GenericDetect(d)

WaitForReady(h, d, pending) ==
  CASE h = "angularjs" -> AngularJSReady(d, pending)
    [] h = "angular"   -> AngularReady(d, pending)
    [] h = "react"     -> ReactReady(d, pending)
    [] h = "vue"       -> VueReady(d, pending)
    [] h = "ember"     -> EmberReady(d, pending)
    [] h = "unknown"   -> GenericReady(d, pending)

ExtractRoutes(h, d) ==
  CASE h = "angularjs" -> AngularJSRoutes(d)
    [] h = "angular"   -> AngularRoutes(d)
    [] h = "react"     -> ReactRoutes(d)
    [] h = "vue"       -> VueRoutes(d)
    [] h = "ember"     -> EmberRoutes(d)
    [] h = "unknown"   -> GenericRoutes(d)

ExtractLinks(h, d) ==
  CASE h = "angularjs" -> AngularJSLinks(d)
    [] h = "angular"   -> AngularLinks(d)
    [] h = "react"     -> ReactLinks(d)
    [] h = "vue"       -> VueLinks(d)
    [] h = "ember"     -> EmberLinks(d)
    [] h = "unknown"   -> GenericLinks(d)

\* The primary framework is the first one detected: the fallback handler is
\* always detected, so a page without any framework is an application too.
Detect(d) == LET S == {i \in DOMAIN handlers : Detects(handlers[i], d)}
             IN [frameworks |-> {handlers[i] : i \in S},
                 primary    |-> handlers[CHOOSE i \in S : \A j \in S : i <= j],
                 isSPA      |-> S # {}]
=============================================================================
