------------------------------ MODULE MCFindings ------------------------------
(* For Findings: two paths with one probe at a time; the root page with an   *)
(* AJAX endpoint, a form and a background discovery, and two pages with the  *)
(* same content, one of which repeats a request of the root page.            *)
EXTENDS Findings, TLC

MCHash     == "/" :> "none" @@ "/a" :> "h" @@ "/b" :> "h"
MCRequests == "/" :> {"GET /items"} @@ "/a" :> {"GET /items"} @@ "/b" :> {"GET /items"}
MCAjax     == "/" :> {"ajax"} @@ "/a" :> {} @@ "/b" :> {}
MCParsed   == "/" :> {"login"} @@ "/a" :> {"login"} @@ "/b" :> {}
===============================================================================
