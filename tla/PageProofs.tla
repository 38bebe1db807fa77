----------------------------- MODULE PageProofs -----------------------------
(***************************************************************************)
(* What a page brings, for every instance.                                 *)
(*                                                                         *)
(* WebSocket, for every number of goroutines, addresses and messages: a    *)
(* record holds what the goroutines working for it have heard, and nothing *)
(* that anybody else did; it loses none of it until it is full.            *)
(*                                                                         *)
(* Visit, for every document, every set of requests and every bound: a     *)
(* visit that succeeds reports what was there and stayed, the requests that*)
(* went out through its router, and what it waited for.                    *)
(***************************************************************************)
EXTENDS WebSocket, Visit, CountingProofs

Before == {"idle", "register", "lookup"}
Working == {"dial", "loop", "read", "record",
            "dialToSend", "recordSent", "awaitReply", "recordReply"}

\* A goroutine gets its record once, and then keeps it.
Bound ==
  \A c \in Conns : /\ pc[c] \in Before => info[c] = None
                   /\ pc[c] \in Working => info[c] \in Conns

\* A record belongs to the address of all that work for it or find it.
SameAddress ==
  /\ \A c \in Conns : info[c] # None => url[info[c]] = url[c]
  /\ \A u \in URLs : endpoints[u] # None => url[endpoints[u]] = u

\* The first half of RecordsOwn; the second follows from SameAddress.
OwnMessages ==
  \A r \in Conns :
    /\ Len(messages[r]) <= maxMsgs
    /\ \A i \in DOMAIN messages[r] : info[messages[r][i]] = r

\* The second half of MessagesKept.  Nobody hears anything for no record.
Complete ==
  /\ \A c \in Conns : info[c] = None => heard[c] = 0
  /\ \A r \in Conns : Len(messages[r]) = Least(maxMsgs, Total(Conns, HeardFor(r)))

IInv == TypeOK /\ Bound /\ SameAddress /\ OwnMessages /\ Complete

-----------------------------------------------------------------------------
LEMMA HeardForType ==
  ASSUME TypeOK, NEW r
  PROVE  HeardFor(r) \in [Conns -> Nat]
  <1>1. \A c \in Conns : heard[c] \in Nat
    BY MaxMsgsAssumption DEF TypeOK
  <1>2. QED
    BY <1>1 DEF HeardFor

\* Nothing changes for the records as long as all terms of the sums stay.
LEMMA CompleteStays ==
  ASSUME Complete, messages' = messages, heard' = heard,
         \A c \in Conns : info'[c] # info[c] => info[c] = None /\ info'[c] # None
  PROVE  Complete'
  <1>1. \A c \in Conns : info'[c] = None => heard'[c] = 0
    BY DEF Complete
  <1>2. ASSUME NEW r \in Conns
        PROVE  Len(messages'[r]) = Least(maxMsgs, Total(Conns, HeardFor(r)'))
    <2>1. \A c \in Conns : HeardFor(r)'[c] = HeardFor(r)[c]
      BY NoneAssumption DEF HeardFor, Complete
    <2>2. Total(Conns, HeardFor(r)') = Total(Conns, HeardFor(r))
      BY <2>1, TotalSame
    <2>3. QED
      BY <2>2 DEF Complete
  <1>3. QED
    BY <1>1, <1>2 DEF Complete

LEMMA InitIInv == Init => IInv
  <1> SUFFICES ASSUME Init PROVE IInv
    OBVIOUS
  <1>1. TypeOK
    <2>1. /\ pc \in [Conns -> Places] /\ url \in [Conns -> URLs]
          /\ info \in [Conns -> Conns \cup {None}]
          /\ endpoints \in [URLs -> Conns \cup {None}]
      BY PlansAssumption DEF Init, Places
    <2>2. messages \in [Conns -> Seq(Conns)]
      BY DEF Init
    <2>3. cancelled \in BOOLEAN /\ expired \in [Conns -> BOOLEAN]
      BY DEF Init
    <2>4. heard \in [Conns -> 0..maxMsgs]
      BY MaxMsgsAssumption DEF Init
    <2>5. QED
      BY <2>1, <2>2, <2>3, <2>4 DEF TypeOK
  <1>2. Bound
    BY DEF Init, Bound, Before, Working
  <1>3. SameAddress
    BY DEF Init, SameAddress
  <1>4. OwnMessages
    BY MaxMsgsAssumption DEF Init, OwnMessages
  <1>5. Complete
    <2>1. ASSUME NEW r \in Conns
          PROVE  Len(messages[r]) = Least(maxMsgs, Total(Conns, HeardFor(r)))
      <3>1. \A c \in Conns : HeardFor(r)[c] = 0
        BY DEF Init, HeardFor
      <3>2. Total(Conns, HeardFor(r)) = 0
        BY <3>1, TotalZero
      <3>3. Len(messages[r]) = 0
        BY DEF Init
      <3>4. QED
        BY <3>2, <3>3, MaxMsgsAssumption DEF Least
    <2>2. QED
      BY <2>1 DEF Init, Complete
  <1>6. QED
    BY <1>1, <1>2, <1>3, <1>4, <1>5 DEF IInv

\* A step of one goroutine that leaves all records alone, and moves neither
\* into the work for one nor out of the calls that have none.
LEMMA Moves ==
  ASSUME IInv, NEW c \in Conns, NEW place \in Places,
         Goto(c, place),
         place \in Before => pc[c] \in Before,
         place \in Working => pc[c] \in Working,
         UNCHANGED <<url, info, endpoints, messages, cancelled, heard>>,
         expired' \in [Conns -> BOOLEAN]
  PROVE  IInv'
  <1> USE DEF IInv
  <1>1. /\ pc' \in [Conns -> Places] /\ pc'[c] = place
        /\ \A d \in Conns : d # c => pc'[d] = pc[d]
    BY DEF Goto, TypeOK
  <1>2. TypeOK'
    BY <1>1 DEF TypeOK
  <1>3. Bound'
    BY <1>1 DEF Bound
  <1>4. SameAddress' /\ OwnMessages'
    BY DEF SameAddress, OwnMessages
  <1>5. Complete'
    BY CompleteStays
  <1>6. QED
    BY <1>2, <1>3, <1>4, <1>5

\* A goroutine that has no record gets one of its address.
LEMMA Binds ==
  ASSUME IInv, NEW c \in Conns, NEW r \in Conns, NEW place \in Working,
         pc[c] \in Before,
         url[r] = url[c],
         Goto(c, place),
         info' = [info EXCEPT ![c] = r],
         UNCHANGED <<url, messages, cancelled, expired, heard>>,
         endpoints' \in {endpoints, [endpoints EXCEPT ![url[c]] = r]}
  PROVE  IInv'
  <1> USE DEF IInv
  <1>1. /\ pc' \in [Conns -> Places] /\ pc'[c] = place
        /\ \A d \in Conns : d # c => pc'[d] = pc[d]
    BY DEF Goto, TypeOK, Places, Working
  <1>2. /\ info' \in [Conns -> Conns \cup {None}] /\ info'[c] = r
        /\ \A d \in Conns : d # c => info'[d] = info[d]
    BY DEF TypeOK
  <1>3. url[c] \in URLs /\ endpoints' \in [URLs -> Conns \cup {None}]
    <2>1. url[c] \in URLs /\ endpoints \in [URLs -> Conns \cup {None}]
      BY DEF TypeOK
    <2>2. CASE endpoints' = endpoints
      BY <2>1, <2>2
    <2>3. CASE endpoints' = [endpoints EXCEPT ![url[c]] = r]
      BY <2>1, <2>3
    <2>4. QED
      BY <2>2, <2>3
  <1>4. TypeOK'
    <2>1. /\ url' \in [Conns -> URLs] /\ messages' \in [Conns -> Seq(Conns)]
          /\ cancelled' \in BOOLEAN /\ expired' \in [Conns -> BOOLEAN]
          /\ heard' \in [Conns -> 0..maxMsgs]
      BY DEF TypeOK
    <2>2. QED
      BY <1>1, <1>2, <1>3, <2>1 DEF TypeOK
  <1>5. Bound'
    BY <1>1, <1>2 DEF Bound, Before, Working
  <1>6. SameAddress'
    <2>1. \A d \in Conns : info'[d] # None => url[info'[d]] = url[d]
      BY <1>2 DEF SameAddress
    <2>2. \A u \in URLs : endpoints'[u] # None => url[endpoints'[u]] = u
      <3>1. CASE endpoints' = endpoints
        BY <3>1 DEF SameAddress
      <3>2. CASE endpoints' = [endpoints EXCEPT ![url[c]] = r]
        BY <1>3, <3>2 DEF SameAddress, TypeOK
      <3>3. QED
        BY <3>1, <3>2
    <2>3. QED
      BY <2>1, <2>2 DEF SameAddress
  <1>7. OwnMessages'
    <2>1. info[c] = None
      BY DEF Bound
    <2>2. SUFFICES ASSUME NEW s \in Conns, NEW i \in DOMAIN messages[s]
                   PROVE  info'[messages[s][i]] = s
      BY DEF OwnMessages
    <2>3. messages[s][i] \in Conns /\ info[messages[s][i]] = s
      BY DEF OwnMessages, TypeOK
    <2>4. messages[s][i] # c
      BY <2>1, <2>3, NoneAssumption
    <2>5. QED
      BY <1>2, <2>3, <2>4
  <1>8. Complete'
    <2>1. info[c] = None /\ r # None
      BY NoneAssumption DEF Bound
    <2>2. QED
      BY <1>2, <2>1, CompleteStays
  <1>9. QED
    BY <1>4, <1>5, <1>6, <1>7, <1>8

\* One message for a goroutine's own record.
LEMMA Records ==
  ASSUME IInv, NEW c \in Conns, NEW place \in Working, NEW next \in Working \cup {"done"},
         Record(c, place, next)
  PROVE  IInv'
  <1> USE DEF IInv
  <1> DEFINE r == info[c]
  <1>1. /\ pc' \in [Conns -> Places] /\ pc'[c] = next /\ pc[c] = place
        /\ \A d \in Conns : d # c => pc'[d] = pc[d]
    BY DEF Record, Goto, TypeOK, Places, Working
  <1>2. r \in Conns /\ messages[r] \in Seq(Conns) /\ maxMsgs \in Nat
    BY <1>1, MaxMsgsAssumption DEF Bound, TypeOK
  <1>3. heard' \in [Conns -> 0..maxMsgs]
    BY <1>2 DEF Record, Keep, TypeOK
  <1>4. /\ messages' \in [Conns -> Seq(Conns)]
        /\ \A s \in Conns : s # r => messages'[s] = messages[s]
        /\ messages'[r] \in {messages[r], Append(messages[r], c)}
        /\ Len(messages'[r]) <= maxMsgs
    <2>1. CASE Len(messages[r]) < maxMsgs
      BY <1>2, <2>1 DEF Record, Keep, TypeOK
    <2>2. CASE ~(Len(messages[r]) < maxMsgs)
      BY <1>2, <2>2 DEF Record, Keep, TypeOK, OwnMessages
    <2>3. QED
      BY <2>1, <2>2
  <1>5. TypeOK'
    BY <1>1, <1>3, <1>4 DEF Record, TypeOK
  <1>6. Bound' /\ SameAddress'
    BY <1>1 DEF Record, Bound, SameAddress, Before, Working
  <1>7. OwnMessages'
    <2>1. info' = info
      BY DEF Record
    <2>2. \A i \in DOMAIN messages'[r] : info[messages'[r][i]] = r
      <3>1. CASE messages'[r] = messages[r]
        BY <1>2, <3>1 DEF OwnMessages
      <3>2. CASE messages'[r] = Append(messages[r], c)
        <4>1. SUFFICES ASSUME NEW i \in DOMAIN Append(messages[r], c)
                       PROVE  info[Append(messages[r], c)[i]] = r
          BY <3>2
        <4>2. \/ i \in DOMAIN messages[r] /\ Append(messages[r], c)[i] = messages[r][i]
              \/ Append(messages[r], c)[i] = c
          BY <1>2
        <4>3. QED
          BY <1>2, <4>2 DEF OwnMessages
      <3>3. QED
        BY <1>4, <3>1, <3>2
    <2>3. QED
      BY <1>2, <1>4, <2>1, <2>2 DEF OwnMessages
  <1>8. Complete'
    <2>1. info' = info /\ \A d \in Conns : d # c => heard'[d] = heard[d]
      BY <1>2 DEF Record, Keep, TypeOK
    <2>2. \A d \in Conns : info'[d] = None => heard'[d] = 0
      BY <1>2, <2>1, NoneAssumption DEF Complete
    <2>3. ASSUME NEW s \in Conns, s # r
          PROVE  Len(messages'[s]) = Least(maxMsgs, Total(Conns, HeardFor(s)'))
      <3>1. \A d \in Conns : HeardFor(s)'[d] = HeardFor(s)[d]
        BY <2>1, <2>3 DEF HeardFor
      <3>2. Total(Conns, HeardFor(s)') = Total(Conns, HeardFor(s))
        BY <3>1, TotalSame
      <3>3. QED
        BY <1>4, <2>3, <3>2 DEF Complete
    <2>4. ASSUME NEW s \in Conns, s = r
          PROVE  Len(messages'[s]) = Least(maxMsgs, Total(Conns, HeardFor(s)'))
      <3> DEFINE f == HeardFor(s)
                 g == HeardFor(s)'
      <3>1. /\ f \in [Conns -> Nat] /\ g \in [Conns -> Nat]
            /\ f[c] = heard[c] /\ g[c] = heard'[c]
            /\ \A d \in Conns : d # c => g[d] = f[d]
        <4>1. f \in [Conns -> Nat]
          BY HeardForType
        <4>2. \A d \in Conns : heard'[d] \in Nat
          BY <1>2, <1>3
        <4>3. QED
          BY <2>1, <2>4, <4>1, <4>2 DEF HeardFor
      <3> HIDE DEF f, g
      <3>2. /\ Total(Conns, g) = Total(Conns, f) - f[c] + g[c]
            /\ Total(Conns, f) \in Nat /\ Total(Conns, g) \in Nat
        BY <3>1, ConnsAssumption, TotalUpdate
      <3>3. f[c] <= Total(Conns, f)
        BY <3>1, ConnsAssumption, TermAtMost
      <3>4. /\ heard[c] \in 0..maxMsgs /\ Len(messages[s]) \in Nat
            /\ heard'[c] = IF heard[c] < maxMsgs THEN heard[c] + 1 ELSE heard[c]
        BY <1>2, <2>4 DEF Record, Keep, TypeOK
      <3>5. Len(messages'[s]) = IF Len(messages[s]) < maxMsgs THEN Len(messages[s]) + 1
                                                             ELSE Len(messages[s])
        BY <1>2, <2>4 DEF Record, Keep, TypeOK
      <3>6. Len(messages[s]) = Least(maxMsgs, Total(Conns, f))
        BY DEF Complete, f
      <3>7. Len(messages'[s]) = Least(maxMsgs, Total(Conns, g))
        BY <1>2, <3>1, <3>2, <3>3, <3>4, <3>5, <3>6 DEF Least
      <3>8. QED
        BY <3>7 DEF g
    <2>5. QED
      BY <2>2, <2>3, <2>4 DEF Complete
  <1>9. QED
    BY <1>5, <1>6, <1>7, <1>8

-----------------------------------------------------------------------------
LEMMA StepIInv == IInv /\ [Next]_vars => IInv'
  <1> SUFFICES ASSUME IInv, [Next]_vars PROVE IInv'
    OBVIOUS
  <1> USE DEF Before, Working, Places
  <1>t. expired \in [Conns -> BOOLEAN] /\ \A c \in Conns : url[c] \in URLs
    BY DEF IInv, TypeOK
  <1>1. ASSUME NEW c \in Conns, Connect(c) PROVE IInv'
    BY <1>1, <1>t, Moves DEF Connect
  <1>2. ASSUME NEW c \in Conns, SendMessage(c) PROVE IInv'
    BY <1>2, <1>t, Moves DEF SendMessage
  <1>3. ASSUME NEW c \in Conns, Register(c) PROVE IInv'
    BY <1>3, Binds DEF Register
  <1>4. ASSUME NEW c \in Conns, LookUp(c) PROVE IInv'
    <2>1. CASE endpoints[url[c]] = None
      BY <1>4, <1>t, <2>1, Moves DEF LookUp
    <2>2. CASE endpoints[url[c]] # None
      <3>1. endpoints[url[c]] \in Conns /\ url[endpoints[url[c]]] = url[c]
        BY <1>t, <2>2 DEF IInv, TypeOK, SameAddress
      <3>2. QED
        BY <1>4, <2>2, <3>1, Binds DEF LookUp
    <2>3. QED
      BY <2>1, <2>2
  <1>5. ASSUME NEW c \in Conns, Dial(c) PROVE IInv'
    BY <1>5, <1>t, Moves DEF Dial
  <1>6. ASSUME NEW c \in Conns, CheckTimeout(c) PROVE IInv'
    <2>1. expired' \in [Conns -> BOOLEAN]
      BY <1>6, <1>t DEF CheckTimeout, Leave
    <2>2. QED
      BY <1>6, <2>1, Moves DEF CheckTimeout, Leave
  <1>7. ASSUME NEW c \in Conns, ReadMessage(c) PROVE IInv'
    <2>1. expired' \in [Conns -> BOOLEAN]
      BY <1>7, <1>t DEF ReadMessage, Leave
    <2>2. QED
      BY <1>7, <2>1, Moves DEF ReadMessage, Leave
  <1>8. ASSUME NEW c \in Conns, DialToSend(c) PROVE IInv'
    BY <1>8, <1>t, Moves DEF DialToSend
  <1>9. ASSUME NEW c \in Conns, AwaitReply(c) PROVE IInv'
    BY <1>9, <1>t, Moves DEF AwaitReply
  <1>10. ASSUME NEW c \in Conns, RecordMessage(c) \/ RecordSent(c) \/ RecordReply(c)
         PROVE  IInv'
    BY <1>10, Records DEF RecordMessage, RecordSent, RecordReply
  <1>11. ASSUME NEW c \in Conns, Expire(c) PROVE IInv'
    <2>1. expired' \in [Conns -> BOOLEAN]
      BY <1>11, <1>t DEF Expire
    <2>2. QED
      BY <1>11, <2>1 DEF Expire, IInv, TypeOK, Bound, SameAddress, OwnMessages, Complete, HeardFor
  <1>12. CASE Clear
    BY <1>12 DEF Clear, IInv, TypeOK, Bound, SameAddress, OwnMessages, Complete, HeardFor
  <1>13. CASE Cancel
    BY <1>13 DEF Cancel, IInv, TypeOK, Bound, SameAddress, OwnMessages, Complete, HeardFor
  <1>14. CASE UNCHANGED vars
    BY <1>14 DEF vars, IInv, TypeOK, Bound, SameAddress, OwnMessages, Complete, HeardFor
  <1>15. QED
    BY <1>1, <1>2, <1>3, <1>4, <1>5, <1>6, <1>7, <1>8, <1>9, <1>10, <1>11, <1>12, <1>13, <1>14
       DEF Next, Step

\* Every variable keeps its type.
THEOREM TypeCorrect == Spec => []TypeOK
  <1>1. IInv => TypeOK
    BY DEF IInv
  <1>2. QED
    BY <1>1, InitIInv, StepIInv, PTL DEF Spec

\* However many calls share an address and replace each other's records, no
\* record grows beyond maxMsgs or takes a message that was heard for another,
\* and what is reported of an address was said there.
THEOREM Owned == Spec => []RecordsOwn
  <1>1. IInv => RecordsOwn
    <2> SUFFICES ASSUME IInv PROVE RecordsOwn
      OBVIOUS
    <2>1. ASSUME NEW u \in URLs, NEW i \in DOMAIN GetEndpoints(u)
          PROVE  url[GetEndpoints(u)[i]] = u
      <3>1. endpoints[u] \in Conns
        BY <2>1 DEF GetEndpoints, IInv, TypeOK
      <3> DEFINE r == endpoints[u]
                 c == messages[r][i]
      <3>2. GetEndpoints(u) = messages[r] /\ url[r] = u
        BY <3>1, NoneAssumption DEF GetEndpoints, IInv, SameAddress
      <3>3. i \in DOMAIN messages[r] /\ c \in Conns
        BY <2>1, <3>1, <3>2 DEF IInv, TypeOK
      <3>4. info[c] = r
        BY <3>1, <3>3 DEF IInv, OwnMessages
      <3>5. url[r] = url[c]
        BY <3>1, <3>3, <3>4, NoneAssumption DEF IInv, SameAddress
      <3>6. QED
        BY <3>2, <3>5
    <2>2. QED
      BY <2>1 DEF RecordsOwn, IInv, OwnMessages
  <1>2. QED
    BY <1>1, InitIInv, StepIInv, PTL DEF Spec

\* Up to maxMsgs a record has every message that was heard for it, also when
\* another one has taken its place.
THEOREM MessagesKeptAlways == Spec => []MessagesKept
  <1>1. IInv => Complete
    BY DEF IInv
  <1>2. RecordsOwn /\ Complete => MessagesKept
    BY DEF MessagesKept, Complete
  <1>3. QED
    BY <1>1, <1>2, InitIInv, StepIInv, Owned, PTL DEF Spec

-----------------------------------------------------------------------------
(***************************************************************************)
(* Visit.                                                                  *)
(***************************************************************************)

Reading == job.op \in {"visit", "hash"}

\* Where a visitor can stand, by what it does.
Opening == {"open", "prepare", "hijack", "navigate"}
Waiting == {"detect", "ready", "check", "checkContent", "checkText", "checkIdle", "auth"}
PastFrameworkLinks == {"inject", "endpoints", "ajaxForms", "captured", "soft", "hash",
                       "shadow", "copy"}
PastRoutes == {"frameworkLinks"} \cup PastFrameworkLinks
PastLinks  == {"scripts", "forms", "sockets", "routes"} \cup PastRoutes
PastCollect == {"title", "links"} \cup PastLinks
PlaceOK ==
  \/ where = "done"
  \/ job.op = "visit" /\ where \in Opening \cup {"load", "settle", "collect"} \cup PastCollect
       /\ (where \in PastRoutes \cup {"routes"} => ~job.fast \/ where \in {"soft", "shadow", "copy"})
  \/ Full /\ where \in Waiting
  \/ job.op = "hash" /\ where \in {"open", "navigate", "load", "settle", "collect", "title",
                                   "links", "forms", "sockets"}
  \/ job.op = "analyze" /\ where \in {"inject", "waitAjax", "trigger", "waitAgain", "captured",
                                      "endpoints", "ajaxForms", "monitor", "monitored"}
  \/ job.op = "scroll" /\ where \in {"scroll", "scrolling"}

\* No request is sent before Navigate.
VisitTyped ==
  /\ job \in Jobs /\ site \in Sites
  /\ PlaceOK
  /\ h \in 1 .. 6 /\ (h # 1 => where \in {"ready", "routes", "frameworkLinks"})
  /\ DOMAIN result = Fields
  /\ st \in [Reqs -> {"idle", "held", "noted", "sent"}]
  /\ where = "open" => page = "none"
  /\ where \in Opening => page \in {"none", "blank", "stuck", "gone"} /\ \A r \in Reqs : st[r] = "idle"

\* The router notes a request before it lets it go.
Noted == job.op = "visit" /\ router =>
           \A r \in Reqs : st[r] \in {"noted", "sent"} => r \in captured

\* What a handler's route script finds in a document, and what it can be
\* relied on to find when more is added: Ember's may begin to throw.
RoutesOf(n, d) == IF Detects(n, d) THEN ExtractRoutes(n, d).found ELSE {}
RoutesDue(n, d) ==
  IF n = "ember" /\ ~({"ember", "emberBooted"} \subseteq d) THEN {} ELSE RoutesOf(n, d)
InLinks(d) == InEveryMode \cup (IF Application(d) THEN {"ngRoute", "uiState"} ELSE {})
InFrameworkLinks == {"area", "form", "iframe", "refresh", "base", "comment"}

\* There is a page that answers, or will when it no longer hangs.
Alive == page \in {"blank", "loading", "loaded", "stuck"}

\* What has been kept is still in the document, and as far as it has been asked
\* for it is in the result.
Read ==
  /\ kept \subseteq doc /\ (kept # {} => Alive)
  /\ Reading =>
       /\ where \in PastLinks => kept \cap InLinks(kept) \subseteq result["links"]
       /\ Full =>
            /\ where = "routes" =>
                 \A i \in 1 .. (h - 1) : RoutesDue(handlers[i], kept) \subseteq result["routes"]
            /\ where \in PastRoutes =>
                 \A i \in 1 .. 6 : RoutesDue(handlers[i], kept) \subseteq result["routes"]
            /\ where \in PastFrameworkLinks =>
                 kept \cap InFrameworkLinks \subseteq result["frameworkLinks"]
            /\ where = "copy" => kept \cap {"shadow"} \subseteq result["shadow"]

\* When the wait ends without giving up, all that was pending before it began
\* is answered.
Waited ==
  /\ early \subseteq Reqs /\ live \subseteq Reqs /\ \A r \in early \cup live : st[r] # "idle"
  /\ \A r \in early : site.via[r] \in KnownIn(doc)
  /\ early # {} => Alive
  /\ where \in Opening \cup {"load", "detect", "ready", "settle"} => early = {}
  /\ where \in {"auth", "collect"} /\ ~late => early \cap live = {}

VisitIInv == VisitTyped /\ Noted /\ Read /\ Waited

-----------------------------------------------------------------------------
\* NewDetector registers six handlers.
LEMMA SixHandlers == Len(handlers) = 6
  BY DEF handlers

\* A visit begins with no page and nothing read.
LEMMA VisitInitIInv == VisitInit => VisitIInv
  <1> SUFFICES ASSUME VisitInit PROVE VisitIInv
    OBVIOUS
  <1> USE JobsAssumption DEF VisitInit, Ops
  <1>1. where \in {"open", "inject", "scroll"} /\ job.op \in Ops
    OBVIOUS
  <1>2. VisitTyped
    <2>1. PlaceOK
      <3>1. CASE job.op \in {"visit", "hash"}
        BY <3>1 DEF PlaceOK, Opening, PastRoutes, PastFrameworkLinks
      <3>2. CASE job.op \in {"analyze", "scroll"}
        BY <3>2 DEF PlaceOK
      <3>3. QED
        BY <1>1, <3>1, <3>2
    <2>2. where = "open" => page = "none"
      OBVIOUS
    <2>3. QED
      BY <1>1, <2>1, <2>2 DEF VisitTyped, Opening
  <1>3. Noted /\ Read
    BY DEF Noted, Read, PastLinks, PastRoutes, PastFrameworkLinks, Reading
  <1>4. Waited
    BY DEF Waited
  <1>5. QED
    BY <1>2, <1>3, <1>4 DEF VisitIInv

\* What the environment leaves alone, and what it does to the document.
LEMMA EnvironmentFrame ==
  ASSUME Environment
  PROVE  /\ UNCHANGED <<job, site, where, h, result, err, late, router>>
         /\ kept' \subseteq kept /\ early' \subseteq early
         /\ page' # page => page' \in {"loading", "loaded", "leaving", "stuck", "gone"}
  BY DEF Environment, LoadPage, Rerender, GoElsewhere, Arrive, Hang, PageGone, TimePasses, Issue,
         HijackRecord, HijackContinue, Answer, Become, Replaced, chosen, visitor, tab, history

\* The visitor sends no requests.
LEMMA VisitorFrame ==
  ASSUME Visitor
  PROVE  UNCHANGED <<job, site, st, captured>>
  BY DEF Visitor, OpenPage, Prepare, HijackRequests, Navigate, WaitLoad, DetectFrameworks,
         FrameworkReady, CheckLoading, CheckContent, CheckText, Ask, CheckIdle, Settle, AuthRedirect,
         Extract, Collect, Title, Links, ScriptSources, Forms, WebSockets, ExtractAllRoutes,
         ExtractAllLinks, AskHandlers, InjectAJAXInterceptor, AJAXEndpoints, AJAXForms,
         CapturedRequests, SoftError, ContentHash, ShadowDOM, CopyXHR, WaitForAJAX,
         TriggerAJAXEvents, MonitorStart, MonitorEnd, ScrollStart, Scroll, chosen, requests

-----------------------------------------------------------------------------
\* The page and time keep the types.
LEMMA EnvironmentTyped ==
  ASSUME VisitTyped, Environment
  PROVE  VisitTyped'
  <1> USE DEF VisitTyped
  <1>1. PlaceOK'
    BY EnvironmentFrame DEF PlaceOK, Full
  <1>2. st' \in [Reqs -> {"idle", "held", "noted", "sent"}]
    BY DEF Environment, LoadPage, Rerender, GoElsewhere, Arrive, Hang, PageGone, TimePasses, Issue,
           HijackRecord, HijackContinue, Answer, requests
  <1>3. ASSUME where \in Opening
        PROVE  /\ where = "open" => page' = "none"
               /\ page' \in {"none", "blank", "stuck", "gone"} /\ \A r \in Reqs : st'[r] = "idle"
    <2>1. page \in {"none", "blank", "stuck", "gone"} /\ \A r \in Reqs : st[r] = "idle"
      BY <1>3
    <2>2. Hang \/ PageGone \/ page' = page
      BY <2>1 DEF Environment, LoadPage, Rerender, GoElsewhere, Arrive, TimePasses, Issue,
                  HijackRecord, HijackContinue, Answer, Shows, tab
    <2>3. where = "open" => ~Hang /\ ~PageGone
      BY <1>3 DEF Hang, PageGone, Answers
    <2>4. st' = st
      BY <2>1 DEF Environment, LoadPage, Rerender, GoElsewhere, Arrive, Hang, PageGone, TimePasses, Issue,
                  HijackRecord, HijackContinue, Answer, Shows, requests
    <2>5. QED
      BY <1>3, <2>1, <2>2, <2>3, <2>4 DEF Hang, PageGone
  <1>4. QED
    BY <1>1, <1>2, <1>3, EnvironmentFrame DEF Opening

\* Where the visitor goes.
LEMMA VisitorTyped ==
  ASSUME VisitTyped, Visitor
  PROVE  VisitTyped'
  <1> USE DEF VisitTyped, PlaceOK, Full, Opening, PastCollect, PastLinks, PastRoutes, PastFrameworkLinks,
              Proceed, At
  <1>0. job.op \in Ops /\ {job.fast, job.spa, job.soft} \subseteq BOOLEAN
    BY JobsAssumption
  <1>1. UNCHANGED <<job, site, st>>
    BY VisitorFrame
  <1>2. CASE OpenPage \/ Prepare \/ HijackRequests \/ Navigate \/ WaitLoad
    <2>1. UNCHANGED <<h, result>>
      BY <1>2 DEF OpenPage, Prepare, HijackRequests, Navigate, WaitLoad
    <2>2. PlaceOK'
      BY <1>0, <1>1, <1>2 DEF OpenPage, Prepare, HijackRequests, Navigate, WaitLoad, Waiting
    <2>3. where' \in Opening =>
            where' # "open" /\ page' \in {"none", "blank", "stuck", "gone"} /\ \A r \in Reqs : st[r] = "idle"
      BY <1>2 DEF OpenPage, Prepare, HijackRequests, Navigate, WaitLoad
    <2>4. QED
      BY <1>1, <1>2, <2>1, <2>2, <2>3 DEF OpenPage, Prepare, HijackRequests, Navigate, WaitLoad
  <1>3. CASE DetectFrameworks \/ FrameworkReady \/ Settle \/ AuthRedirect
    <2>1. PlaceOK' /\ where' \notin Opening
      BY <1>0, <1>1, <1>3 DEF DetectFrameworks, FrameworkReady, Settle, AuthRedirect, Extract, Waiting
    <2>2. h' \in 1 .. 6 /\ (h' # 1 => where' \in {"ready", "routes", "frameworkLinks"})
      <3>1. CASE FrameworkReady
        <4>1. IF h < 6 THEN h' = h + 1 /\ where' = "ready" ELSE h' = 1
          BY <3>1, SixHandlers DEF FrameworkReady
        <4>2. QED
          BY <4>1
      <3>2. CASE DetectFrameworks \/ Settle \/ AuthRedirect
        BY <3>2 DEF DetectFrameworks, Settle, AuthRedirect, Extract
      <3>3. QED
        BY <1>3, <3>1, <3>2
    <2>3. DOMAIN result' = Fields
      BY <1>3 DEF DetectFrameworks, FrameworkReady, Settle, AuthRedirect, Extract, Set
    <2>4. QED
      BY <1>1, <2>1, <2>2, <2>3
  <1>4. CASE CheckLoading \/ CheckContent \/ CheckText \/ CheckIdle
    <2>1. PlaceOK' /\ where' \notin Opening /\ UNCHANGED <<h, result>> /\ where # "ready"
      BY <1>0, <1>1, <1>4 DEF CheckLoading, CheckContent, CheckText, Ask, CheckIdle, Waiting
    <2>2. QED
      BY <1>1, <1>4, <2>1 DEF CheckLoading, CheckContent, CheckText, Ask, CheckIdle
  <1>5. CASE Collect \/ Title \/ Links \/ ScriptSources \/ Forms \/ WebSockets
    <2>1. PlaceOK' /\ where' \notin Opening
      <3>1. CASE Collect \/ Title
        BY <1>0, <1>1, <3>1 DEF Collect, Title
      <3>2. CASE Links \/ ScriptSources \/ Forms
        BY <1>0, <1>1, <3>2 DEF Links, ScriptSources, Forms, Extract
      <3>3. CASE WebSockets
        <4>1. /\ where = "sockets"
              /\ where' = IF job.op = "hash" THEN "done"
                          ELSE IF job.fast THEN AfterAJAX ELSE "routes"
          BY <3>3 DEF WebSockets, Extract
        <4>2. job.op \in {"visit", "hash"}
          BY <4>1
        <4>3. CASE job.op = "visit" /\ job.fast
          <5>1. where' = AfterAJAX
            BY <4>1, <4>3
          <5>2. where' \in {"copy", "soft", "shadow"}
            BY <4>3, <5>1 DEF AfterAJAX, AfterSoft
          <5>3. QED
            BY <1>1, <4>3, <5>2
        <4>4. CASE job.op = "visit" /\ ~job.fast
          <5>1. where' = "routes"
            BY <4>1, <4>4
          <5>2. QED
            BY <1>1, <4>4, <5>1
        <4>5. CASE job.op = "hash"
          <5>1. where' = "done"
            BY <4>1, <4>5
          <5>2. QED
            BY <1>1, <5>1
        <4>6. QED
          BY <1>0, <4>2, <4>3, <4>4, <4>5
      <3>4. QED
        BY <1>5, <3>1, <3>2, <3>3
    <2>2. h' = 1 /\ h = 1 /\ DOMAIN result' = Fields
      BY <1>5 DEF Collect, Title, Links, ScriptSources, Forms, WebSockets, Extract, Set
    <2>3. QED
      BY <1>1, <2>1, <2>2
  <1>6. CASE ExtractAllRoutes \/ ExtractAllLinks
    <2>1. PlaceOK' /\ where' \notin Opening /\ DOMAIN result' = Fields
      BY <1>0, <1>1, <1>6 DEF ExtractAllRoutes, ExtractAllLinks, AskHandlers, Set
    <2>2. h' \in 1 .. 6 /\ (h' # 1 => where' \in {"ready", "routes", "frameworkLinks"})
      <3>1. IF h < 6 THEN h' = h + 1 /\ where' = where ELSE h' = 1
        BY <1>6, SixHandlers DEF ExtractAllRoutes, ExtractAllLinks, AskHandlers
      <3>2. where \in {"routes", "frameworkLinks"}
        BY <1>6 DEF ExtractAllRoutes, ExtractAllLinks, AskHandlers
      <3>3. QED
        BY <3>1, <3>2
    <2>3. QED
      BY <1>1, <2>1, <2>2
  <1>7. CASE \/ InjectAJAXInterceptor \/ AJAXEndpoints \/ AJAXForms \/ CapturedRequests
             \/ SoftError \/ ContentHash \/ ShadowDOM \/ CopyXHR
    <2>1. PlaceOK' /\ where' \notin Opening
      BY <1>0, <1>1, <1>7 DEF InjectAJAXInterceptor, AJAXEndpoints, AJAXForms, CapturedRequests,
         SoftError, ContentHash, ShadowDOM, CopyXHR, Extract, AfterAJAX, AfterSoft, HasSPAHandler
    <2>2. h' = 1 /\ h = 1 /\ DOMAIN result' = Fields
      BY <1>7 DEF InjectAJAXInterceptor, AJAXEndpoints, AJAXForms, CapturedRequests,
         SoftError, ContentHash, ShadowDOM, CopyXHR, Extract, Set
    <2>3. QED
      BY <1>1, <2>1, <2>2
  <1>8. CASE WaitForAJAX \/ TriggerAJAXEvents \/ MonitorStart \/ MonitorEnd \/ ScrollStart \/ Scroll
    <2>1. PlaceOK' /\ where' \notin Opening
      BY <1>0, <1>1, <1>8 DEF WaitForAJAX, TriggerAJAXEvents, MonitorStart, MonitorEnd, ScrollStart,
         Scroll, Extract, Waiting
    <2>2. h' = 1 /\ h = 1 /\ DOMAIN result' = Fields
      BY <1>8 DEF WaitForAJAX, TriggerAJAXEvents, MonitorStart, MonitorEnd, ScrollStart, Scroll,
         Extract, Set
    <2>3. QED
      BY <1>1, <2>1, <2>2
  <1>9. QED
    BY <1>2, <1>3, <1>4, <1>5, <1>6, <1>7, <1>8 DEF Visitor

\* The types are preserved.
LEMMA VisitTypedStep == VisitTyped /\ VisitNext => VisitTyped'
  BY EnvironmentTyped, VisitorTyped DEF VisitNext

-----------------------------------------------------------------------------
(* What the router lets through is noted.                                  *)

\* The router is set up before the first request, and records before it lets go.
LEMMA NotedStep == VisitTyped /\ Noted /\ VisitNext => Noted'
  <1> SUFFICES ASSUME VisitTyped, Noted, VisitNext PROVE Noted'
    OBVIOUS
  <1> USE DEF VisitTyped, Noted
  <1>1. CASE Environment
    <2>1. captured \subseteq captured' /\ UNCHANGED <<job, router>>
      BY <1>1, EnvironmentFrame DEF Environment, LoadPage, Rerender, GoElsewhere, Arrive, Hang, PageGone,
         TimePasses, Issue, HijackRecord, HijackContinue, Answer, requests
    <2>2. ASSUME NEW r \in Reqs, router, st'[r] \in {"noted", "sent"}
          PROVE  st[r] \in {"noted", "sent"} \/ r \in captured'
      BY <1>1, <2>2 DEF Environment, LoadPage, Rerender, GoElsewhere, Arrive, Hang, PageGone, TimePasses,
         Issue, HijackRecord, HijackContinue, Answer, requests
    <2>3. QED
      BY <2>1, <2>2
  <1>2. CASE Visitor
    <2>1. UNCHANGED <<job, st, captured>>
      BY <1>2, VisitorFrame
    <2>2. CASE HijackRequests
      BY <2>1, <2>2 DEF HijackRequests, Opening, At
    <2>3. CASE ~HijackRequests
      <3>1. router' = router
        BY <1>2, <2>3 DEF Visitor, OpenPage, Prepare, Navigate, WaitLoad, DetectFrameworks,
         FrameworkReady, CheckLoading, CheckContent, CheckText, Ask, CheckIdle, Settle, AuthRedirect,
         Extract, Collect, Title, Links, ScriptSources, Forms, WebSockets, ExtractAllRoutes,
         ExtractAllLinks, AskHandlers, InjectAJAXInterceptor, AJAXEndpoints, AJAXForms,
         CapturedRequests, SoftError, ContentHash, ShadowDOM, CopyXHR, WaitForAJAX,
         TriggerAJAXEvents, MonitorStart, MonitorEnd, ScrollStart, Scroll, tab
      <3>2. QED
        BY <2>1, <3>1
    <2>4. QED
      BY <2>2, <2>3
  <1>3. QED
    BY <1>1, <1>2 DEF VisitNext

-----------------------------------------------------------------------------
(* What is read.                                                           *)

\* More in the document, more routes that are due, and those are found.
LEMMA RoutesGrow ==
  ASSUME NEW d, NEW e, d \subseteq e, NEW i \in 1 .. 6
  PROVE  /\ RoutesDue(handlers[i], d) \subseteq RoutesDue(handlers[i], e)
         /\ RoutesDue(handlers[i], e) \subseteq RoutesOf(handlers[i], e)
  <1>1. CASE i = 1
    <2>1. handlers[i] = "angularjs"
      BY <1>1 DEF handlers
    <2>2. QED
      BY <2>1 DEF RoutesDue, RoutesOf, Detects, ExtractRoutes, AngularJSDetect, AngularJSRoutes, Found, Application
  <1>2. CASE i = 2
    <2>1. handlers[i] = "angular"
      BY <1>2 DEF handlers
    <2>2. QED
      BY <2>1 DEF RoutesDue, RoutesOf, Detects, ExtractRoutes, AngularDetect, AngularRoutes, Found
  <1>3. CASE i = 3
    <2>1. handlers[i] = "react"
      BY <1>3 DEF handlers
    <2>2. QED
      BY <2>1 DEF RoutesDue, RoutesOf, Detects, ExtractRoutes, ReactDetect, ReactRoutes, Found
  <1>4. CASE i = 4
    <2>1. handlers[i] = "vue"
      BY <1>4 DEF handlers
    <2>2. QED
      BY <2>1 DEF RoutesDue, RoutesOf, Detects, ExtractRoutes, VueDetect, VueRoutes, Found
  <1>5. CASE i = 5
    <2>1. handlers[i] = "ember"
      BY <1>5 DEF handlers
    <2>2. QED
      BY <2>1 DEF RoutesDue, RoutesOf, Detects, ExtractRoutes, EmberDetect, EmberRoutes, Found, Threw
  <1>6. CASE i = 6
    <2>1. handlers[i] = "unknown"
      BY <1>6 DEF handlers
    <2>2. QED
      BY <2>1 DEF RoutesDue, RoutesOf, Detects, ExtractRoutes, GenericDetect, GenericRoutes, Found, Inline, Scripts
  <1>7. QED
    BY <1>1, <1>2, <1>3, <1>4, <1>5, <1>6

\* Nothing is due of nothing.
LEMMA NoRoutesDue ==
  ASSUME NEW i \in 1 .. 6
  PROVE  RoutesDue(handlers[i], {}) = {}
  <1>1. CASE i = 1
    <2>1. handlers[i] = "angularjs"
      BY <1>1 DEF handlers
    <2>2. QED
      BY <2>1 DEF RoutesDue, RoutesOf, Detects, ExtractRoutes, AngularJSDetect, AngularJSRoutes, Found, Application
  <1>2. CASE i = 2
    <2>1. handlers[i] = "angular"
      BY <1>2 DEF handlers
    <2>2. QED
      BY <2>1 DEF RoutesDue, RoutesOf, Detects, ExtractRoutes, AngularDetect, AngularRoutes, Found
  <1>3. CASE i = 3
    <2>1. handlers[i] = "react"
      BY <1>3 DEF handlers
    <2>2. QED
      BY <2>1 DEF RoutesDue, RoutesOf, Detects, ExtractRoutes, ReactDetect, ReactRoutes, Found
  <1>4. CASE i = 4
    <2>1. handlers[i] = "vue"
      BY <1>4 DEF handlers
    <2>2. QED
      BY <2>1 DEF RoutesDue, RoutesOf, Detects, ExtractRoutes, VueDetect, VueRoutes, Found
  <1>5. CASE i = 5
    <2>1. handlers[i] = "ember"
      BY <1>5 DEF handlers
    <2>2. QED
      BY <2>1 DEF RoutesDue, RoutesOf, Detects, ExtractRoutes, EmberDetect, EmberRoutes, Found, Threw
  <1>6. CASE i = 6
    <2>1. handlers[i] = "unknown"
      BY <1>6 DEF handlers
    <2>2. QED
      BY <2>1 DEF RoutesDue, RoutesOf, Detects, ExtractRoutes, GenericDetect, GenericRoutes, Found, Inline, Scripts
  <1>7. QED
    BY <1>1, <1>2, <1>3, <1>4, <1>5, <1>6

\* extractLinks finds what InLinks names, in the document as it was or grown.
LEMMA LinksFound ==
  ASSUME NEW d, NEW e, d \subseteq e
  PROVE  /\ d \cap InLinks(d) \subseteq extractLinks(e)
         /\ d \cap InLinks(d) \subseteq e \cap InLinks(e)
  BY DEF InLinks, InEveryMode, Anchors, extractLinks, extractAngularRoutes, Application

\* So does the link script of the fallback handler, the one that never throws.
LEMMA FrameworkLinksFound ==
  ASSUME NEW d, NEW e, d \subseteq e
  PROVE  d \cap InFrameworkLinks \subseteq ExtractLinks("unknown", e).found
  BY DEF InFrameworkLinks, ExtractLinks, GenericLinks, Script, NotCSS, Found, Plain

\* The steps of a visit from Collect on, and where the others lead.
ReadingStep ==
  \/ Collect \/ Title \/ Links \/ ScriptSources \/ Forms \/ WebSockets
  \/ ExtractAllRoutes \/ ExtractAllLinks
  \/ InjectAJAXInterceptor \/ AJAXEndpoints \/ AJAXForms \/ CapturedRequests
  \/ SoftError \/ ContentHash \/ ShadowDOM \/ CopyXHR
OpeningStep == OpenPage \/ Prepare \/ HijackRequests \/ Navigate \/ WaitLoad
WaitingStep ==
  \/ DetectFrameworks \/ FrameworkReady
  \/ CheckLoading \/ CheckContent \/ CheckText \/ CheckIdle
  \/ Settle \/ AuthRedirect

\* A visit takes no step of an analysis or of a scroll.
LEMMA ThreePhases ==
  ASSUME VisitTyped, Visitor, Reading
  PROVE  OpeningStep \/ WaitingStep \/ ReadingStep
  <1>1. where \notin {"waitAjax", "waitAgain", "trigger", "monitor", "monitored", "scroll", "scrolling"}
    BY DEF VisitTyped, PlaceOK, Reading, Full, Opening, Waiting, PastCollect, PastLinks, PastRoutes,
           PastFrameworkLinks
  <1>2. QED
    BY <1>1 DEF Visitor, OpeningStep, WaitingStep, ReadingStep, WaitForAJAX, TriggerAJAXEvents,
                MonitorStart, MonitorEnd, ScrollStart, Scroll, Extract, At

\* A reading step starts at "collect" or past it, and leaves the tab alone
\* but for the interceptor.
LEMMA ReadingFrame ==
  ASSUME VisitTyped, ReadingStep, Reading
  PROVE  /\ where \in {"collect"} \cup PastCollect
         /\ UNCHANGED <<job, site, page, doc, live, st, captured, router, early, late, err>>
         /\ where # "collect" => kept' = kept
         /\ CopyXHR \/ page # "stuck"
  <1>1. where \in {"collect"} \cup PastCollect /\ (CopyXHR \/ page # "stuck")
    BY DEF ReadingStep, Collect, Title, Links, ScriptSources, Forms, WebSockets,
           ExtractAllRoutes, ExtractAllLinks, AskHandlers, InjectAJAXInterceptor, AJAXEndpoints,
           AJAXForms, CapturedRequests, SoftError, ContentHash, ShadowDOM, CopyXHR, Extract, At,
           PastCollect, PastLinks, PastRoutes, PastFrameworkLinks
  <1>2. UNCHANGED <<job, site, page, doc, live, st, captured, router, early, late, err>>
    BY DEF ReadingStep, Collect, Title, Links, ScriptSources, Forms, WebSockets,
           ExtractAllRoutes, ExtractAllLinks, AskHandlers, InjectAJAXInterceptor, AJAXEndpoints,
           AJAXForms, CapturedRequests, SoftError, ContentHash, ShadowDOM, CopyXHR, Extract,
           chosen, history, document, tab, requests
  <1>3. where # "collect" => kept' = kept
    BY DEF ReadingStep, Collect, Title, Links, ScriptSources, Forms, WebSockets,
           ExtractAllRoutes, ExtractAllLinks, AskHandlers, InjectAJAXInterceptor, AJAXEndpoints,
           AJAXForms, CapturedRequests, SoftError, ContentHash, ShadowDOM, CopyXHR, Extract, At,
           history
  <1>4. QED
    BY <1>1, <1>2, <1>3

\* Waiting changes neither the tab nor the requests.
LEMMA WaitingFrame ==
  ASSUME VisitTyped, WaitingStep
  PROVE  /\ where \in Waiting \cup {"settle"}
         /\ where' \in Waiting \cup {"settle", "collect"}
         /\ UNCHANGED <<job, site, page, doc, live, st, kept>>
  <1>1. where \in Waiting \cup {"settle"} /\ where' \in Waiting \cup {"settle", "collect"}
    BY DEF WaitingStep, DetectFrameworks, FrameworkReady, CheckLoading, CheckContent, CheckText, Ask,
           CheckIdle, Settle, AuthRedirect, Extract, At, Waiting, Proceed
  <1>2. UNCHANGED <<job, site, page, doc, live, st, kept>>
    BY DEF WaitingStep, DetectFrameworks, FrameworkReady, CheckLoading, CheckContent, CheckText, Ask,
           CheckIdle, Settle, AuthRedirect, Extract, chosen, history, document, tab, requests
  <1>3. QED
    BY <1>1, <1>2

\* Opening leads to the load event, to waiting or to an error.
LEMMA OpeningFrame ==
  ASSUME VisitTyped, OpeningStep
  PROVE  /\ where \in Opening \cup {"load"}
         /\ where' \in Opening \cup {"load", "detect", "settle", "done"}
         /\ UNCHANGED <<job, site, st, late>>
         /\ \/ UNCHANGED <<kept, early, doc, live>>
            \/ kept' = {} /\ early' = {} /\ live' = {}
         /\ page' = page \/ page' \in {"blank", "loading"}
  <1>1. /\ where \in Opening \cup {"load"}
        /\ where' \in Opening \cup {"load", "detect", "settle", "done"}
    BY DEF OpeningStep, OpenPage, Prepare, HijackRequests, Navigate, WaitLoad, At, Opening, Proceed
  <1>2. UNCHANGED <<job, site, st, late>>
    BY DEF OpeningStep, OpenPage, Prepare, HijackRequests, Navigate, WaitLoad, chosen, requests
  <1>3. \/ UNCHANGED <<kept, early, doc, live>>
        \/ kept' = {} /\ early' = {} /\ live' = {}
    BY DEF OpeningStep, OpenPage, Prepare, HijackRequests, Navigate, WaitLoad, Replaced, history,
           document, tab
  <1>4. page' = page \/ page' \in {"blank", "loading"}
    BY DEF OpeningStep, OpenPage, Prepare, HijackRequests, Navigate, WaitLoad, tab
  <1>5. QED
    BY <1>1, <1>2, <1>3, <1>4

\* Each reading step keeps what is read and adds its own.
LEMMA ReadByReading ==
  ASSUME VisitTyped, Read, Reading, Answers, ReadingStep
  PROVE  Read'
  <1> USE DEF At
  <1>1. /\ where \in {"collect"} \cup PastCollect
        /\ UNCHANGED <<job, site, page, doc, st>>
        /\ where # "collect" => kept' = kept
    BY ReadingFrame
  <1>2. Reading' /\ Answers' /\ Full' = Full /\ DOMAIN result = Fields /\ Alive'
    BY <1>1 DEF Reading, Answers, Full, VisitTyped, Alive
  <1>3. kept \subseteq doc
    BY DEF Read
  <1>0. kept' \subseteq doc'
    <2>1. CASE where = "collect"
      <3>1. Collect
        BY <2>1 DEF ReadingStep, Collect, Title, Links, ScriptSources, Forms, WebSockets,
           ExtractAllRoutes, ExtractAllLinks, AskHandlers, InjectAJAXInterceptor, AJAXEndpoints,
           AJAXForms, CapturedRequests, SoftError, ContentHash, ShadowDOM, CopyXHR, Extract
      <3>2. QED
        BY <1>1, <3>1 DEF Collect, Eval
    <2>2. CASE where # "collect"
      BY <1>1, <1>3, <2>2
    <2>3. QED
      BY <2>1, <2>2
  <1>4. CASE Collect
    <2>1. where' = "title" /\ kept' = doc
      BY <1>4 DEF Collect, Proceed, Eval
    <2>2. QED
      BY <1>0, <1>2, <1>1, <2>1 DEF Read, PastLinks, PastRoutes, PastFrameworkLinks
  <1>5. CASE Title
    <2>1. where = "title" /\ where' = "links" /\ kept' = kept
      BY <1>1, <1>5 DEF Title, Proceed
    <2>2. QED
      BY <1>0, <1>2, <1>1, <1>3, <2>1 DEF Read, PastLinks, PastRoutes, PastFrameworkLinks
  <1>6. CASE Links
    <2>1. where = "links" /\ where' \in {"scripts", "forms"} /\ kept' = kept
      BY <1>1, <1>6 DEF Links, Extract, Proceed
    <2>2. result'["links"] = extractLinks(doc)
      BY <1>2, <1>6 DEF Links, Extract, Set, Eval, Fields
    <2>3. kept \cap InLinks(kept) \subseteq extractLinks(doc)
      BY <1>3, <2>1, LinksFound
    <2>4. QED
      BY <1>0, <1>2, <1>1, <1>3, <2>1, <2>2, <2>3 DEF Read, PastRoutes, PastFrameworkLinks
  <1>7. CASE ScriptSources \/ Forms
    <2>1. where \in {"scripts", "forms"} /\ where' \in {"forms", "sockets"} /\ kept' = kept
      BY <1>1, <1>7 DEF ScriptSources, Forms, Extract, Proceed
    <2>2. result'["links"] = result["links"]
      BY <1>2, <1>7 DEF ScriptSources, Forms, Extract, Set, Fields
    <2>3. kept \cap InLinks(kept) \subseteq result["links"]
      BY <1>2, <2>1 DEF Read, PastLinks
    <2>4. QED
      BY <1>0, <1>2, <1>1, <1>3, <2>1, <2>2, <2>3 DEF Read, PastRoutes, PastFrameworkLinks
  <1>8. CASE WebSockets
    <2>1. where = "sockets" /\ kept' = kept /\ h = 1 /\ h' = h
      BY <1>1, <1>8 DEF WebSockets, Extract, VisitTyped
    <2>2. result'["links"] = result["links"]
      BY <1>2, <1>8 DEF WebSockets, Extract, Set, Fields
    <2>3. kept \cap InLinks(kept) \subseteq result["links"]
      BY <1>2, <2>1 DEF Read, PastLinks
    <2>4. Full => where' = "routes"
      <3>1. where' = IF job.op = "hash" THEN "done"
                     ELSE IF job.fast THEN AfterAJAX ELSE "routes"
        BY <1>8 DEF WebSockets, Extract, Proceed
      <3>2. QED
        BY <3>1 DEF Full
    <2>5. QED
      BY <1>1, <1>2, <1>3, <2>1, <2>2, <2>3, <2>4 DEF Read, PastRoutes, PastFrameworkLinks
  <1>9. CASE ExtractAllRoutes
    <2>1. /\ where = "routes" /\ kept' = kept /\ h \in 1 .. 6
          /\ IF h < 6 THEN h' = h + 1 /\ where' = "routes" ELSE where' = "frameworkLinks"
      BY <1>1, <1>9, SixHandlers DEF ExtractAllRoutes, AskHandlers, Proceed, VisitTyped
    <2>2. result'["links"] = result["links"]
      BY <1>2, <1>9 DEF ExtractAllRoutes, AskHandlers, Set, Fields
    <2>3. result'["routes"] = result["routes"] \cup RoutesOf(handlers[h], doc)
      BY <1>2, <1>9 DEF ExtractAllRoutes, AskHandlers, Set, Fields, Eval, RoutesOf
    <2>4. RoutesDue(handlers[h], kept) \subseteq RoutesOf(handlers[h], doc)
      BY <1>3, <2>1, RoutesGrow
    <2>5. kept \cap InLinks(kept) \subseteq result["links"]
      BY <1>2, <2>1 DEF Read, PastLinks
    <2>6. ASSUME Full, NEW i \in 1 .. h
          PROVE  RoutesDue(handlers[i], kept) \subseteq result'["routes"]
      <3>1. CASE i = h
        BY <2>3, <2>4, <3>1
      <3>2. CASE i # h
        <4>1. i \in 1 .. (h - 1)
          BY <2>1, <3>2
        <4>2. RoutesDue(handlers[i], kept) \subseteq result["routes"]
          BY <1>2, <2>1, <2>6, <4>1 DEF Read
        <4>3. QED
          BY <2>3, <4>2
      <3>3. QED
        BY <3>1, <3>2
    <2>7. Full =>
            /\ where' = "routes" =>
                 \A i \in 1 .. (h' - 1) : RoutesDue(handlers[i], kept) \subseteq result'["routes"]
            /\ where' = "frameworkLinks" =>
                 \A i \in 1 .. 6 : RoutesDue(handlers[i], kept) \subseteq result'["routes"]
      <3>1. where' = "routes" => 1 .. (h' - 1) = 1 .. h
        BY <2>1
      <3>2. where' = "frameworkLinks" => 1 .. 6 = 1 .. h
        BY <2>1
      <3>3. QED
        BY <2>6, <3>1, <3>2
    <2>8. where' \in {"routes", "frameworkLinks"}
      BY <2>1
    <2>9. /\ kept' \subseteq doc'
          /\ kept' \cap InLinks(kept') \subseteq result'["links"]
      BY <1>0, <1>1, <1>3, <2>1, <2>2, <2>5
    <2>10. where' \notin PastFrameworkLinks
      BY <2>8 DEF PastFrameworkLinks
    <2>11. (where' \in PastRoutes => where' = "frameworkLinks") /\ where' # "copy"
      BY <2>8 DEF PastRoutes, PastFrameworkLinks
    <2>12. QED
      BY <1>2, <2>1, <2>7, <2>8, <2>9, <2>10, <2>11 DEF Read
  <1>10. CASE ExtractAllLinks
    <2>1. /\ where = "frameworkLinks" /\ kept' = kept /\ h \in 1 .. 6
          /\ IF h < 6 THEN where' = "frameworkLinks" ELSE where' = "inject"
      BY <1>1, <1>10, SixHandlers DEF ExtractAllLinks, AskHandlers, Proceed, VisitTyped
    <2>2. result'["links"] = result["links"] /\ result'["routes"] = result["routes"]
      BY <1>2, <1>10 DEF ExtractAllLinks, AskHandlers, Set, Fields
    <2>3. ASSUME where' = "inject"
          PROVE  kept \cap InFrameworkLinks \subseteq result'["frameworkLinks"]
      <3>1. handlers[h] = "unknown"
        BY <2>1, <2>3 DEF handlers
      <3>2. ExtractLinks("unknown", doc).found \subseteq result'["frameworkLinks"]
        BY <1>2, <1>10, <3>1 DEF ExtractAllLinks, AskHandlers, Set, Fields, Eval, Detects, GenericDetect
      <3>3. QED
        BY <1>3, <2>1, <3>2, FrameworkLinksFound
    <2>4. /\ kept \cap InLinks(kept) \subseteq result["links"]
          /\ Full => \A i \in 1 .. 6 : RoutesDue(handlers[i], kept) \subseteq result["routes"]
      BY <1>2, <2>1 DEF Read, PastLinks, PastRoutes
    <2>5. where' \in {"frameworkLinks", "inject"} /\ (where' \in PastFrameworkLinks => where' = "inject")
      BY <2>1 DEF PastFrameworkLinks
    <2>6. QED
      BY <1>1, <1>2, <1>3, <2>1, <2>2, <2>3, <2>4, <2>5 DEF Read
  <1>11. CASE \/ InjectAJAXInterceptor \/ AJAXEndpoints \/ AJAXForms \/ CapturedRequests
              \/ SoftError \/ ContentHash \/ ShadowDOM \/ CopyXHR
    <2>1. where \in PastFrameworkLinks /\ kept' = kept /\ where' # "routes"
      <3>1. where \in PastFrameworkLinks /\ kept' = kept
        BY <1>1, <1>11 DEF InjectAJAXInterceptor, AJAXEndpoints, AJAXForms, CapturedRequests,
           SoftError, ContentHash, ShadowDOM, CopyXHR, Extract, PastFrameworkLinks
      <3>2. where' # "routes"
        BY <1>11 DEF InjectAJAXInterceptor, AJAXEndpoints, AJAXForms, CapturedRequests,
           SoftError, ContentHash, ShadowDOM, CopyXHR, Extract, Proceed, AfterAJAX, AfterSoft
      <3>3. QED
        BY <3>1, <3>2
    <2>2. /\ result'["links"] = result["links"] /\ result'["routes"] = result["routes"]
          /\ result'["frameworkLinks"] = result["frameworkLinks"]
      BY <1>2, <1>11 DEF InjectAJAXInterceptor, AJAXEndpoints, AJAXForms, CapturedRequests,
         SoftError, ContentHash, ShadowDOM, CopyXHR, Extract, Set, Fields
    <2>3. ASSUME Full, where' = "copy"
          PROVE  kept \cap {"shadow"} \subseteq result'["shadow"]
      <3>1. ShadowDOM
        BY <1>11, <2>3 DEF Full, InjectAJAXInterceptor, AJAXEndpoints, AJAXForms, CapturedRequests,
           SoftError, ContentHash, CopyXHR, Extract, Proceed, AfterAJAX, AfterSoft, HasSPAHandler
      <3>2. result'["shadow"] = doc \cap {"shadow"}
        BY <1>2, <3>1 DEF ShadowDOM, Extract, Set, Eval, Fields, ExtractShadowDOMContent
      <3>3. kept \subseteq doc
        BY <1>3, <2>1 DEF PastFrameworkLinks
      <3>4. QED
        BY <3>2, <3>3
    <2>4. /\ kept \cap InLinks(kept) \subseteq result["links"]
          /\ Full => /\ \A i \in 1 .. 6 : RoutesDue(handlers[i], kept) \subseteq result["routes"]
                     /\ kept \cap InFrameworkLinks \subseteq result["frameworkLinks"]
      BY <1>2, <2>1 DEF Read, PastLinks, PastRoutes
    <2>5. kept' \subseteq doc'
      BY <1>0, <1>1, <1>3, <2>1 DEF PastFrameworkLinks
    <2>6. QED
      BY <1>2, <2>1, <2>2, <2>3, <2>4, <2>5 DEF Read
  <1>12. QED
    BY <1>4, <1>5, <1>6, <1>7, <1>8, <1>9, <1>10, <1>11 DEF ReadingStep

\* Less kept, and nothing else changed: what was read of it still is.
LEMMA KeptLess ==
  ASSUME VisitTyped, Read, UNCHANGED <<job, where, h, result>>,
         kept' \subseteq kept, kept' \subseteq doc', kept' # {} => Alive'
  PROVE  Read'
  <1>1. (Reading' <=> Reading) /\ (Full' <=> Full)
    BY DEF Reading, Full
  <1>2. kept' \cap InLinks(kept') \subseteq kept \cap InLinks(kept)
    BY LinksFound
  <1>3. \A i \in 1 .. 6 : RoutesDue(handlers[i], kept') \subseteq RoutesDue(handlers[i], kept)
    BY RoutesGrow
  <1>4. Reading /\ where \in PastLinks => kept' \cap InLinks(kept') \subseteq result["links"]
    BY <1>2 DEF Read
  <1>5. ASSUME Reading, Full, where = "routes", NEW i \in 1 .. (h - 1)
        PROVE  RoutesDue(handlers[i], kept') \subseteq result["routes"]
    <2>1. RoutesDue(handlers[i], kept) \subseteq result["routes"]
      BY <1>5 DEF Read
    <2>2. i \in 1 .. 6
      BY DEF VisitTyped
    <2>3. QED
      BY <1>3, <2>1, <2>2
  <1>6. Reading /\ Full /\ where \in PastRoutes
          => \A i \in 1 .. 6 : RoutesDue(handlers[i], kept') \subseteq result["routes"]
    BY <1>3 DEF Read
  <1>7. Reading /\ Full =>
          /\ where \in PastFrameworkLinks => kept' \cap InFrameworkLinks \subseteq result["frameworkLinks"]
          /\ where = "copy" => kept' \cap {"shadow"} \subseteq result["shadow"]
    BY DEF Read
  <1>8. QED
    BY <1>1, <1>4, <1>5, <1>6, <1>7 DEF Read

\* The handlers before the one whose turn it is.
LEMMA Earlier ==
  ASSUME NEW n \in 1 .. 6
  PROVE  \A i \in 1 .. (n - 1) : i \in 1 .. 6
  OBVIOUS

\* Nothing kept, nothing due.
LEMMA NothingKept ==
  ASSUME h' \in 1 .. 6, kept' = {}
  PROVE  Read'
  <1>1. \A i \in 1 .. 6 : RoutesDue(handlers[i], kept') = {}
    BY NoRoutesDue
  <1>2. \A i \in 1 .. (h' - 1) : i \in 1 .. 6
    BY Earlier
  <1>3. \A i \in 1 .. (h' - 1) : RoutesDue(handlers[i], kept') = {}
    BY <1>1, <1>2
  <1>4. /\ kept' \subseteq doc' /\ (kept' # {} => Alive')
        /\ \A S : kept' \cap S = {}
    OBVIOUS
  <1>5. /\ kept' \cap InLinks(kept') \subseteq result'["links"]
        /\ kept' \cap InFrameworkLinks \subseteq result'["frameworkLinks"]
        /\ kept' \cap {"shadow"} \subseteq result'["shadow"]
    BY <1>4
  <1>6. /\ \A i \in 1 .. (h' - 1) : RoutesDue(handlers[i], kept') \subseteq result'["routes"]
        /\ \A i \in 1 .. 6 : RoutesDue(handlers[i], kept') \subseteq result'["routes"]
    BY <1>1, <1>3
  <1>7. QED
    BY <1>4, <1>5, <1>6 DEF Read

\* What the environment leaves of the document is all that is kept of it.
LEMMA KeptByEnvironment ==
  ASSUME Read, Environment
  PROVE  kept' \subseteq doc' /\ (kept' # {} => Alive')
  <1> USE DEF Read, Alive
  <1>1. CASE LoadPage \/ Arrive \/ Hang
    BY <1>1 DEF LoadPage, Arrive, Hang, history, document
  <1>2. CASE Rerender
    BY <1>2 DEF Rerender, Become
  <1>3. CASE GoElsewhere \/ PageGone
    BY <1>3 DEF GoElsewhere, Replaced, PageGone
  <1>4. CASE TimePasses
    BY <1>4 DEF TimePasses, history, tab, document
  <1>5. ASSUME NEW r \in Reqs, Issue(r) \/ HijackRecord(r) \/ HijackContinue(r)
        PROVE  kept' \subseteq doc' /\ (kept' # {} => Alive')
    BY <1>5 DEF Issue, HijackRecord, HijackContinue, history, tab, document
  <1>6. ASSUME NEW r \in Reqs, Answer(r)
        PROVE  kept' \subseteq doc' /\ (kept' # {} => Alive')
    BY <1>6 DEF Answer, Become
  <1>7. QED
    BY <1>1, <1>2, <1>3, <1>4, <1>5, <1>6 DEF Environment

\* An analysis and a scroll stay in their document: only a scroll adds to it.
LEMMA OthersFrame ==
  ASSUME VisitTyped, Visitor, ~Reading
  PROVE  /\ UNCHANGED <<page, live>>
         /\ \/ UNCHANGED <<kept, early, doc>>
            \/ kept' = kept \cap doc' /\ early' = {r \in early : site.via[r] \in KnownIn(doc')}
  <1>1. where \notin {"open", "prepare", "hijack", "navigate", "load", "collect", "ready"}
    BY DEF VisitTyped, PlaceOK, Full, Reading, Waiting
  <1>2. ~OpeningStep /\ ~Collect /\ ~FrameworkReady
    BY <1>1 DEF OpeningStep, OpenPage, Prepare, HijackRequests, Navigate, WaitLoad, Collect,
                FrameworkReady, At
  <1>3. UNCHANGED <<page, live>>
    BY <1>2 DEF Visitor, OpeningStep, DetectFrameworks,
         CheckLoading, CheckContent, CheckText, Ask, CheckIdle, Settle, AuthRedirect,
         Extract, Title, Links, ScriptSources, Forms, WebSockets, ExtractAllRoutes,
         ExtractAllLinks, AskHandlers, InjectAJAXInterceptor, AJAXEndpoints, AJAXForms,
         CapturedRequests, SoftError, ContentHash, ShadowDOM, CopyXHR, WaitForAJAX,
         TriggerAJAXEvents, MonitorStart, MonitorEnd, ScrollStart, Scroll, tab, document
  <1>4. CASE Scroll
    BY <1>3, <1>4 DEF Scroll, Become, history
  <1>5. CASE ~Scroll
    BY <1>2, <1>3, <1>5 DEF Visitor, OpeningStep, DetectFrameworks,
         CheckLoading, CheckContent, CheckText, Ask, CheckIdle, Settle, AuthRedirect,
         Extract, Title, Links, ScriptSources, Forms, WebSockets, ExtractAllRoutes,
         ExtractAllLinks, AskHandlers, InjectAJAXInterceptor, AJAXEndpoints, AJAXForms,
         CapturedRequests, SoftError, ContentHash, ShadowDOM, CopyXHR, WaitForAJAX,
         TriggerAJAXEvents, MonitorStart, MonitorEnd, ScrollStart, tab, document, history
  <1>6. QED
    BY <1>4, <1>5

\* Whatever the page does under the reading, what is kept of it is read.
LEMMA ReadStep == VisitTyped /\ Read /\ VisitNext => Read'
  <1> SUFFICES ASSUME VisitTyped, Read, VisitNext PROVE Read'
    OBVIOUS
  <1>1. UNCHANGED <<job, site>> /\ (Reading' <=> Reading)
    BY EnvironmentFrame, VisitorFrame DEF VisitNext, Reading
  <1>2. VisitTyped'
    BY VisitTypedStep
  <1>3. CASE Environment
    <2>1. UNCHANGED <<job, where, h, result>> /\ kept' \subseteq kept
      BY <1>3, EnvironmentFrame
    <2>2. QED
      BY <1>3, <2>1, KeptByEnvironment, KeptLess
  <1>4. CASE Visitor /\ ~Reading
    BY <1>1, <1>4, OthersFrame DEF Read, Alive
  <1>5. CASE Visitor /\ Reading /\ (OpeningStep \/ WaitingStep)
    <2>1. kept' \subseteq doc' /\ (kept' # {} => Alive')
      BY <1>5, OpeningFrame, WaitingFrame DEF Read, Alive
    <2>2. where' \notin PastCollect
      BY <1>5, OpeningFrame, WaitingFrame
         DEF Opening, Waiting, PastCollect, PastLinks, PastRoutes, PastFrameworkLinks
    <2>3. QED
      BY <2>1, <2>2 DEF Read, PastCollect, PastLinks, PastRoutes, PastFrameworkLinks
  <1>6. CASE Reading /\ ReadingStep
    <2>1. CASE Answers
      BY <1>6, <2>1, ReadByReading
    <2>2. CASE CopyXHR
      <3>1. where' = "done" /\ UNCHANGED <<kept, doc, page>>
        BY <2>2 DEF CopyXHR, Proceed, history, tab, document
      <3>2. QED
        BY <3>1 DEF Read, Alive, PastLinks, PastRoutes, PastFrameworkLinks
    <2>3. CASE ~Answers /\ ~CopyXHR
      <3>1. kept = {}
        BY <1>6, <2>3, ReadingFrame DEF Read, Alive, Answers
      <3>2. kept' = {}
        <4>1. CASE Collect
          BY <2>3, <4>1 DEF Collect, Eval
        <4>2. CASE ~Collect
          BY <1>6, <3>1, <4>2 DEF ReadingStep, Title, Links, ScriptSources, Forms, WebSockets,
           ExtractAllRoutes, ExtractAllLinks, AskHandlers, InjectAJAXInterceptor, AJAXEndpoints,
           AJAXForms, CapturedRequests, SoftError, ContentHash, ShadowDOM, CopyXHR, Extract, history
        <4>3. QED
          BY <4>1, <4>2
      <3>3. QED
        <4>1. h' \in 1 .. 6
          BY <1>2 DEF VisitTyped
        <4>2. QED
          BY <3>2, <4>1, NothingKept
    <2>4. QED
      BY <2>1, <2>2, <2>3
  <1>7. QED
    BY <1>3, <1>4, <1>5, <1>6, ThreePhases DEF VisitNext

-----------------------------------------------------------------------------
(* What is waited for.                                                     *)

\* A request of the document that is not asked for any more is not waited for.
LEMMA WaitedByEnvironment ==
  ASSUME VisitTyped, Waited, Environment
  PROVE  Waited'
  <1> USE DEF Waited, Alive
  <1>1. UNCHANGED <<site, where, late>> /\ early' \subseteq early
    BY EnvironmentFrame
  <1>2. CASE LoadPage \/ Arrive \/ Hang
    BY <1>1, <1>2 DEF LoadPage, Arrive, Hang, history, document, requests
  <1>3. CASE GoElsewhere \/ PageGone
    BY <1>1, <1>3 DEF GoElsewhere, Replaced, PageGone, requests, document
  <1>4. CASE TimePasses
    BY <1>1, <1>4 DEF TimePasses, history, tab, document, requests
  <1>5. CASE Rerender
    BY <1>1, <1>5 DEF Rerender, Become, requests
  <1>6. ASSUME NEW r \in Reqs, Answer(r)
        PROVE  Waited'
    <2>1. /\ live' = live \ {r} /\ UNCHANGED <<st, page>>
          /\ early' = {q \in early : site.via[q] \in KnownIn(doc')}
      BY <1>6 DEF Answer, Become, requests
    <2>2. QED
      BY <1>1, <2>1
  <1>7. ASSUME NEW r \in Reqs, Issue(r)
        PROVE  Waited'
    <2>1. /\ live' = live \cup {r} /\ UNCHANGED <<early, doc, page>> /\ st[r] = "idle"
          /\ st'[r] # "idle" /\ \A q \in Reqs \ {r} : st'[q] = st[q]
      BY <1>7 DEF Issue, history, VisitTyped
    <2>2. r \notin early
      BY <2>1
    <2>3. QED
      BY <1>1, <2>1, <2>2
  <1>8. ASSUME NEW r \in Reqs, HijackRecord(r) \/ HijackContinue(r)
        PROVE  Waited'
    <2>1. /\ UNCHANGED <<early, live, doc, page>>
          /\ \A q \in Reqs : st[q] # "idle" => st'[q] # "idle"
      BY <1>8 DEF HijackRecord, HijackContinue, history, tab, document, VisitTyped
    <2>2. QED
      BY <1>1, <2>1
  <1>9. QED
    BY <1>2, <1>3, <1>4, <1>5, <1>6, <1>7, <1>8 DEF Environment

\* The wait ends when checkNetworkIdle says so: what jQuery or AngularJS were
\* asked for before it, they say is answered.
LEMMA WaitedByWaiting ==
  ASSUME VisitTyped, Waited, WaitingStep
  PROVE  Waited'
  <1>1. /\ where \in Waiting \cup {"settle"} /\ where' \in Waiting \cup {"settle", "collect"}
        /\ UNCHANGED <<site, page, doc, live, st>>
    BY WaitingFrame
  <1>2. /\ live \subseteq Reqs /\ \A r \in live : st[r] # "idle"
        /\ early \subseteq Reqs /\ \A r \in early : st[r] # "idle"
        /\ \A r \in early : site.via[r] \in KnownIn(doc)
        /\ (early # {} => Alive) /\ (Alive' <=> Alive)
        /\ where' \notin Opening \cup {"load"}
    BY <1>1 DEF Waited, Alive, Waiting, Opening
  <1>3. CASE DetectFrameworks
    <2>1. where = "detect" /\ where' \in {"ready", "settle"} /\ UNCHANGED <<early, late>>
      BY <1>3 DEF DetectFrameworks, Proceed, At, history
    <2>2. QED
      BY <1>1, <1>2, <2>1 DEF Waited
  <1>4. CASE FrameworkReady
    <2>1. /\ where = "ready" /\ late' = late
          /\ \/ where' = "ready" /\ early' = early
             \/ where' = "check" /\ early' = Eval({r \in live : site.via[r] \in KnownIn(doc)}, {})
      BY <1>4 DEF FrameworkReady, Proceed, At
    <2>2. CASE where' = "ready"
      BY <1>1, <1>2, <2>1, <2>2 DEF Waited
    <2>3. CASE where' = "check"
      <3>1. early' \subseteq live /\ \A r \in early' : site.via[r] \in KnownIn(doc)
        BY <2>1, <2>3 DEF Eval
      <3>2. early' # {} => Alive
        BY <2>1, <2>3 DEF Eval, Answers, Alive
      <3>3. QED
        BY <1>1, <1>2, <2>3, <3>1, <3>2 DEF Waited, Opening
    <2>4. QED
      BY <2>1, <2>2, <2>3
  <1>5. CASE CheckLoading
    <2>1. /\ where = "check" /\ early' = early
          /\ (where' = "auth" /\ late') \/ (where' = "checkContent" /\ late' = late)
      BY <1>5 DEF CheckLoading, Proceed, At, history
    <2>2. QED
      BY <1>1, <1>2, <2>1 DEF Waited
  <1>6. CASE CheckContent \/ CheckText
    <2>1. where' \in {"checkText", "checkIdle"} /\ UNCHANGED <<early, late>>
      BY <1>6 DEF CheckContent, CheckText, Ask, history
    <2>2. QED
      BY <1>1, <1>2, <2>1 DEF Waited
  <1>7. CASE CheckIdle
    <2>1. where = "checkIdle" /\ where' \in {"auth", "check"} /\ UNCHANGED <<early, late>>
      BY <1>7 DEF CheckIdle, Proceed, At, history
    <2>2. ASSUME where' = "auth", NEW r \in early, r \in live
          PROVE  FALSE
      <3>1. Answers
        BY <1>2, <1>7, <2>2 DEF CheckIdle, At, Alive, Answers
      <3>2. checkNetworkIdle(doc, monitored, Pending)
        BY <1>7, <2>2, <3>1 DEF CheckIdle, Eval
      <3>3. site.via[r] \in Pending
        BY <2>2 DEF Pending
      <3>4. site.via[r] \in KnownIn(doc) /\ KnownIn(doc) \subseteq Clients
        BY <1>2, <2>2 DEF KnownIn, Clients
      <3>5. QED
        BY <3>2, <3>3, <3>4 DEF checkNetworkIdle
    <2>3. QED
      BY <1>1, <1>2, <2>1, <2>2 DEF Waited
  <1>8. CASE Settle
    <2>1. where = "settle" /\ where' = "collect" /\ UNCHANGED <<early, late>>
      BY <1>8 DEF Settle, Proceed, At, history
    <2>2. QED
      BY <1>1, <1>2, <2>1 DEF Waited
  <1>9. CASE AuthRedirect
    <2>1. where = "auth" /\ where' = "collect" /\ UNCHANGED <<early, late>>
      BY <1>9 DEF AuthRedirect, Extract, Proceed, At, history
    <2>2. QED
      BY <1>1, <1>2, <2>1 DEF Waited
  <1>10. QED
    BY <1>3, <1>4, <1>5, <1>6, <1>7, <1>8, <1>9 DEF WaitingStep

\* Every step keeps it.
LEMMA WaitedStep == VisitTyped /\ Waited /\ VisitNext => Waited'
  <1> SUFFICES ASSUME VisitTyped, Waited, VisitNext PROVE Waited'
    OBVIOUS
  <1>1. UNCHANGED <<job, site>> /\ (Reading' <=> Reading) /\ VisitTyped'
    BY EnvironmentFrame, VisitorFrame, VisitTypedStep DEF VisitNext, Reading
  <1>2. CASE Environment
    BY <1>2, WaitedByEnvironment
  <1>3. CASE Visitor /\ OpeningStep
    <2>1. /\ UNCHANGED <<site, st, late>> /\ early = {}
          /\ early' = {} /\ (live' = live \/ live' = {})
          /\ where' \in Opening \cup {"load", "detect", "settle", "done"}
      BY <1>3, OpeningFrame DEF Waited
    <2>2. QED
      BY <2>1 DEF Waited
  <1>4. CASE Visitor /\ WaitingStep
    BY <1>4, WaitedByWaiting
  <1>5. CASE Visitor /\ Reading /\ ReadingStep
    <2>1. UNCHANGED <<site, page, doc, live, st, early>>
      BY <1>5, ReadingFrame
    <2>2. where' \in PastCollect \cup {"done"}
      BY <1>5 DEF ReadingStep, Collect, Title, Links, ScriptSources, Forms, WebSockets,
         ExtractAllRoutes, ExtractAllLinks, AskHandlers, InjectAJAXInterceptor, AJAXEndpoints,
         AJAXForms, CapturedRequests, SoftError, ContentHash, ShadowDOM, CopyXHR, Extract, Proceed,
         AfterAJAX, AfterSoft, PastCollect, PastLinks, PastRoutes, PastFrameworkLinks,
         VisitTyped, PlaceOK, Reading
    <2>3. where' \notin Opening \cup {"load", "detect", "ready", "settle", "auth", "collect"}
      BY <2>2 DEF Opening, PastCollect, PastLinks, PastRoutes, PastFrameworkLinks
    <2>4. QED
      BY <2>1, <2>3 DEF Waited, Alive
  <1>6. CASE Visitor /\ ~Reading
    <2>1. where' \notin Opening \cup {"load", "detect", "ready", "settle", "auth", "collect"}
      BY <1>1, <1>6 DEF VisitTyped, PlaceOK, Reading, Full, Opening
    <2>2. UNCHANGED <<site, st>>
      BY <1>6, VisitorFrame
    <2>3. QED
      BY <1>6, <2>1, <2>2, OthersFrame DEF Waited, Alive
  <1>7. QED
    BY <1>2, <1>3, <1>4, <1>5, <1>6, ThreePhases DEF VisitNext

-----------------------------------------------------------------------------
\* The invariant is inductive.
LEMMA VisitStep == VisitIInv /\ [VisitNext]_visitVars => VisitIInv'
  <1> SUFFICES ASSUME VisitIInv, [VisitNext]_visitVars PROVE VisitIInv'
    OBVIOUS
  <1>1. CASE VisitNext
    BY <1>1, VisitTypedStep, NotedStep, ReadStep, WaitedStep DEF VisitIInv
  <1>2. CASE UNCHANGED visitVars
    <2>1. UNCHANGED <<job, site, where, h, result, page, doc, live, router, st, captured, kept, early, late>>
      BY <1>2 DEF visitVars, chosen, visitor, history, tab, document, requests
    <2>2. VisitTyped'
      BY <2>1 DEF VisitIInv, VisitTyped, PlaceOK, Full
    <2>3. Noted' /\ Waited'
      BY <2>1 DEF VisitIInv, Noted, Waited, Alive
    <2>4. Read'
      BY <2>1 DEF VisitIInv, Read, Reading, Alive, Full
    <2>5. QED
      BY <2>2, <2>3, <2>4 DEF VisitIInv
  <1>3. QED
    BY <1>1, <1>2

\* It holds of every reachable state.
LEMMA VisitInvariance == VisitSpec => []VisitIInv
  BY VisitInitIInv, VisitStep, PTL DEF VisitSpec

\* The last step of a visit or a hash route that succeeds.
LEMMA LastStep ==
  ASSUME VisitIInv, [VisitNext]_visitVars, EndsWell, Reading
  PROVE  /\ VisitTyped /\ Read /\ Noted
         /\ \/ job.op = "visit" /\ CopyXHR
            \/ job.op = "hash" /\ WebSockets
  <1>1. VisitTyped /\ Read /\ Noted
    BY DEF VisitIInv
  <1>2. Visitor
    BY EnvironmentFrame DEF EndsWell, VisitNext, visitVars, visitor
  <1>3. ~OpeningStep
    BY DEF EndsWell, OpeningStep, OpenPage, Prepare, HijackRequests, Navigate, WaitLoad, Proceed
  <1>4. ~WaitingStep
    BY <1>1, WaitingFrame DEF EndsWell, Waiting
  <1>5. ReadingStep
    BY <1>1, <1>2, <1>3, <1>4, ThreePhases
  <1>6. CopyXHR \/ WebSockets
    BY <1>5 DEF EndsWell, ReadingStep, Collect, Title, Links, ScriptSources, Forms,
       ExtractAllRoutes, ExtractAllLinks, AskHandlers, InjectAJAXInterceptor, AJAXEndpoints,
       AJAXForms, CapturedRequests, SoftError, ContentHash, ShadowDOM, Extract, Proceed, AfterAJAX,
       AfterSoft
  <1>7. WebSockets => job.op = "hash"
    BY DEF EndsWell, WebSockets, Extract, Proceed, AfterAJAX, AfterSoft
  <1>8. CopyXHR => job.op = "visit"
    BY <1>1 DEF CopyXHR, Reading, VisitTyped, PlaceOK, Waiting
  <1>9. QED
    BY <1>1, <1>6, <1>7, <1>8

\* What it reports.
LEMMA ReportedAtTheEnd ==
  ASSUME VisitIInv, [VisitNext]_visitVars, EndsWell, Reading
  PROVE  kept \cap Expected \subseteq Reported
  <1>1. /\ VisitTyped /\ Read /\ Reading
        /\ \/ job.op = "visit" /\ CopyXHR
           \/ job.op = "hash" /\ WebSockets
    BY LastStep
  <1>2. where \in {"copy", "sockets"} /\ (where = "sockets" => job.op = "hash")
    BY <1>1 DEF CopyXHR, WebSockets, Extract, At
  <1>3. /\ result'["links"] = result["links"] /\ result'["routes"] = result["routes"]
        /\ result'["frameworkLinks"] = result["frameworkLinks"] /\ result'["shadow"] = result["shadow"]
    BY <1>1 DEF CopyXHR, WebSockets, Extract, Set, Fields, VisitTyped
  <1>4. kept \cap InLinks(kept) \subseteq Reported
    <2>1. kept \cap InLinks(kept) \subseteq result["links"]
      BY <1>1, <1>2 DEF Read, PastLinks, PastRoutes, PastFrameworkLinks
    <2>2. result'["links"] \subseteq Reported
      BY DEF Reported
    <2>3. QED
      BY <1>3, <2>1, <2>2
  <1>5. CASE ~Full
    BY <1>4, <1>5 DEF Expected, Full, InLinks
  <1>6. CASE Full
    <2>1. where = "copy"
      BY <1>2, <1>6 DEF Full
    <2>2. /\ \A i \in 1 .. 6 : RoutesDue(handlers[i], kept) \subseteq result["routes"]
          /\ kept \cap InFrameworkLinks \subseteq result["frameworkLinks"]
          /\ kept \cap {"shadow"} \subseteq result["shadow"]
      BY <1>1, <1>6, <2>1 DEF Read, PastRoutes, PastFrameworkLinks
    <2>3. /\ result'["routes"] \subseteq Reported /\ result'["frameworkLinks"] \subseteq Reported
          /\ result'["shadow"] \subseteq Reported
      BY DEF Reported
    <2>4. /\ handlers[2] = "angular" /\ handlers[3] = "react" /\ handlers[4] = "vue"
          /\ handlers[5] = "ember" /\ handlers[6] = "unknown"
      BY DEF handlers
    <2>5. \A i \in 1 .. 6 : RoutesDue(handlers[i], kept) \subseteq Reported
      BY <1>3, <2>2, <2>3
    <2>6. /\ RoutesDue("angular", kept) \subseteq Reported /\ RoutesDue("react", kept) \subseteq Reported
          /\ RoutesDue("vue", kept) \subseteq Reported /\ RoutesDue("ember", kept) \subseteq Reported
          /\ RoutesDue("unknown", kept) \subseteq Reported
      BY <2>4, <2>5
    <2>7. "ng" \in kept => kept \cap {"angularRouter", "lazyScript"} \subseteq Reported
      BY <2>6 DEF RoutesDue, RoutesOf, Detects, ExtractRoutes, AngularDetect, AngularRoutes, Found
    <2>8. "react" \in kept => kept \cap {"nextData"} \subseteq Reported
      BY <2>6 DEF RoutesDue, RoutesOf, Detects, ExtractRoutes, ReactDetect, ReactRoutes, Found
    <2>9. "vueApp" \in kept => kept \cap {"vueRouter", "nuxtData"} \subseteq Reported
      BY <2>6 DEF RoutesDue, RoutesOf, Detects, ExtractRoutes, VueDetect, VueRoutes, Found
    <2>10. {"ember", "emberBooted"} \subseteq kept => kept \cap {"emberRouter", "emberScript"} \subseteq Reported
      BY <2>6 DEF RoutesDue, RoutesOf, Detects, ExtractRoutes, EmberDetect, EmberRoutes, Found
    <2>11. kept \cap {"onclick", "dataPath", "dataUrl", "pathScript"} \subseteq Reported
      BY <2>6 DEF RoutesDue, RoutesOf, Detects, ExtractRoutes, GenericDetect, GenericRoutes, Found, Inline, Scripts
    <2>12. kept \cap (InFrameworkLinks \cup {"shadow"}) \subseteq Reported
      BY <1>3, <2>2, <2>3
    <2>13. kept \cap InFullMode \subseteq Reported
      BY <1>4, <2>11, <2>12 DEF InFullMode, InLinks, InFrameworkLinks
    <2>14. kept \cap OwnedTables \subseteq Reported
      BY <1>4, <2>7, <2>8, <2>9, <2>10 DEF OwnedTables, InLinks
    <2>15. QED
      BY <1>6, <2>13, <2>14 DEF Expected, Full
  <1>7. QED
    BY <1>5, <1>6

\* A visit that succeeds reports every address that was in the document when
\* its extraction began and stayed there: each extractor was asked while it was
\* there, and nothing that an earlier one found is dropped.
THEOREM ShownIsReportedAlways == VisitSpec => ShownIsReported
  <1>1. VisitIInv /\ [VisitNext]_visitVars
          => (EndsWell /\ job.op \in {"visit", "hash"} => kept \cap Expected \subseteq Reported)
    BY ReportedAtTheEnd DEF Reading
  <1>2. QED
    BY <1>1, VisitInvariance, PTL DEF VisitSpec, ShownIsReported

\* The requests that the router let through before a visit's last step are in
\* its result: each was recorded under xhrMu before it was continued.
THEOREM XHRsReportedAlways == VisitSpec => XHRsReported
  <1>1. ASSUME VisitIInv, [VisitNext]_visitVars, EndsWell, job.op = "visit", router,
               NEW r \in Reqs, st[r] = "sent"
        PROVE  r \in result'["xhr"]
    <2>1. CopyXHR /\ VisitTyped /\ Noted
      BY <1>1, LastStep DEF Reading
    <2>2. r \in captured
      BY <1>1, <2>1 DEF Noted
    <2>3. QED
      BY <2>1, <2>2 DEF CopyXHR, Set, VisitTyped, Fields
  <1>2. VisitIInv /\ [VisitNext]_visitVars
          => (EndsWell /\ job.op = "visit" /\ router
                => {r \in Reqs : st[r] = "sent"} \subseteq result'["xhr"])
    BY <1>1
  <1>3. QED
    BY <1>2, VisitInvariance, PTL DEF VisitSpec, XHRsReported

\* Unless the wait gave up, what $.ajax and $http were asked for before it is
\* answered when the page is read, as long as the document keeps the library
\* that counts: checkNetworkIdle asked it, and no new request is one of those.
THEOREM DataAwaitedAlways == VisitSpec => DataAwaited
  <1>1. VisitIInv => (where = "collect" /\ ~late => early \cap live = {})
    BY DEF VisitIInv, Waited
  <1>2. VisitIInv /\ [VisitNext]_visitVars
          => (where = "collect" /\ where' = "title" /\ Full /\ ~late => early \cap live = {})
    BY <1>1
  <1>3. QED
    BY <1>2, VisitInvariance, PTL DEF VisitSpec, DataAwaited
=============================================================================
