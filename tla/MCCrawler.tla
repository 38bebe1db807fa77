------------------------------ MODULE MCCrawler ------------------------------
(* A small site for Crawler, with a dynamic link, a cycle, a page that two  *)
(* others link to, a URL with a UI-state fragment and a URL whose normal    *)
(* form is another page's URL.                                              *)
EXTENDS Crawler, TLC

CONSTANTS w1, w2, scout, home, a, b, tab

MCLinks   == home :> {a} @@ a :> {home} @@ b :> {a} @@ tab :> {}
MCDynamic == home :> {b} @@ a :> {} @@ b :> {} @@ tab :> {}
MCNorm    == home :> home @@ a :> a @@ b :> home @@ tab :> home
==============================================================================
