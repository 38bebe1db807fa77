------------------------------ MODULE MCVisit ------------------------------
(***************************************************************************)
(* Visit on documents of every framework, some of two at once, with one    *)
(* or two requests whose answers bring new addresses.                      *)
(***************************************************************************)
EXTENDS Visit

CONSTANTS r1, r2

Job(op, fast, spa, soft) == [op |-> op, fast |-> fast, spa |-> spa, soft |-> soft]

\* The options of the crawler (full above depth 2, fast below), of Visit, and
\* the other uses.
MCJobs == {Job("visit", FALSE, TRUE, TRUE), Job("visit", TRUE, FALSE, FALSE),
           Job("visit", FALSE, FALSE, FALSE), Job("visit", TRUE, TRUE, FALSE),
           Job("hash", FALSE, FALSE, FALSE),
           Job("analyze", FALSE, FALSE, FALSE), Job("scroll", FALSE, FALSE, FALSE)}

\* r1 and r2 are sent by the clients named; a document without that client
\* does not send the request.
Site(now, first, client1, second, client2, volatile, next) ==
  [now |-> now, after |-> [r \in Reqs |-> IF r = r1 THEN first ELSE second],
   via |-> [r \in Reqs |-> IF r = r1 THEN client1 ELSE client2],
   volatile |-> volatile, next |-> next]

Ready == {"title", "main", "text"}

MCSites == {
  \* AngularJS; its data brings links, more route tables are in scripts, and a
  \* view of it comes and goes.
  Site(Ready \cup {"angular1", "ngApp", "loading", "ngRoute", "uiSref", "whenScript", "ngClick"},
       {"ngHref", "hash"}, "http", {"comment"}, "raw", {"uiSref"}, {}),
  \* Angular and a Vue widget: both handlers' link scripts throw; a redirect.
  Site(Ready \cup {"ng", "appRoot", "angularRouter", "lazyScript", "vueApp", "vueRouter",
                   "eventClick", "to", "href"},
       {"routerLink", "atClick", "area"}, "raw", {}, "http", {}, {{"title", "href", "login"}}),
  \* React and jQuery, rendered only by its data; its spinner comes back.
  Site({"react", "jquery", "title", "loading", "nextData", "jsxScript"},
       {"root", "main", "text", "href", "form"}, "ajax", {"shadow", "login"}, "raw", {"loading"}, {}),
  \* Ember, which may or may not have booted.
  Site(Ready \cup {"ember", "emberRouter", "emberScript"}, {"emberView", "emberAction"}, "raw", {}, "http",
       {"emberBooted"}, {}),
  \* No framework, no title before the first answer, an error page.
  Site({"href", "external", "mailto", "onclick", "dataPath", "dataUrl", "iframe", "base",
        "refresh", "errorText", "socketScript", "srcScript", "apiScript", "ajaxForm"},
       {"title"}, "raw", {}, "http", {}, {})
  }
=============================================================================
