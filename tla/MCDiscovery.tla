----------------------------- MODULE MCDiscovery -----------------------------
(* For Discovery: a pool of path workers, other modules that work alone     *)
(* (paramDiscov is one more like fingerprint) and sitemap indexes that list  *)
(* each other.  The pool of JavaScript workers is the same code on another   *)
(* list.                                                                     *)
EXTENDS Discovery, TLC

CONSTANTS w1, w2

MCCrew  == "pathBruter" :> {w1, w2}
MCTasks == "pathBruter" :> <<"/admin", "/api", "/old">>
MCIndex == "index" :> <<"other", "pages">> @@ "other" :> <<"index", "deep">>
           @@ "pages" :> <<>> @@ "deep" :> <<"pages">>
MCRoots == <<"index">>
MCRobotsMaps == <<"deep">>
MCYield == "/admin" :> {"admin"} @@ "/api" :> {"api"} @@ "/old" :> {"old"}
           @@ "robots" :> {"admin"} @@ "app.js.map" :> {"route"}
           @@ "fingerprint" :> {"nginx"}
           @@ "index" :> {} @@ "other" :> {} @@ "pages" :> {"page"} @@ "deep" :> {}
==============================================================================
