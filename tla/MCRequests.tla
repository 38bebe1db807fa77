---------------------------- MODULE MCRequests -----------------------------
(***************************************************************************)
(* Requests with teams of three callers: two crawl workers at two domains, *)
(* a retrying call, a batch of two with one place, the adaptive limiter,   *)
(* and the robots manager.  In the teams without a batch "main" is a       *)
(* GetBatch of no addresses.                                               *)
(***************************************************************************)
EXTENDS Requests, TLC

CONSTANTS c1, c2, c3

Team(a, b, c) == (c1 :> a) @@ (c2 :> b) @@ (c3 :> c)

MCTeams == {Team("crawl", "crawl", "main"), Team("retry", "main", "main"),
            Team("batch", "batch", "main"), Team("adapt", "main", "main"),
            Team("robots", "main", "main")}

MCTypes == {"network", "timeout", "rate_limit", "server_error"}

Line(key, value) == [key |-> key, value |-> value]

\* Files of two groups, of one for others and one for this crawler, and of
\* rules before any group.
MCFiles == {
  << Line("user-agent", TRUE), Line("disallow", {"p", "q"}), Line("allow", {"q"}),
     Line("user-agent", FALSE), Line("disallow", {"p", "q", "r"}) >>,
  << Line("disallow", {"q"}), Line("user-agent", FALSE), Line("allow", {"p"}),
     Line("user-agent", TRUE), Line("disallow", {"p"}), Line("sitemap", {}) >> }
=============================================================================
