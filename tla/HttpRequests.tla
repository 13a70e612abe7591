---------------------------- MODULE HttpRequests ----------------------------
(***************************************************************************)
(* Requests passing through RequestIdMiddleware (observability.py), the    *)
(* API key check (auth.py) and a route, and the scrapes of /metrics.       *)
(*                                                                         *)
(* The handlers and the middleware run on one event loop: what a request   *)
(* does between two awaits is not interleaved with other requests' code.   *)
(* The endpoint of /metrics is a plain function, run in a thread: a scrape *)
(* reads one metric after the other while the loop goes on.  Counter and   *)
(* histogram are kept as what each request added to them.                  *)
(***************************************************************************)
EXTENDS Sequences, Naturals

CONSTANTS
  Request,     \* requests
  Batch,       \* batch ids, and the tails of paths no route matches
  None,        \* no id, no request
  SchemaMax    \* prompts a request may have (100_000)

ASSUME HttpAssumption == None \notin Request \cup Batch /\ SchemaMax \in Nat

VARIABLES
  http,        \* http[r]: how far the request is, and its reply
  loop,        \* the request whose code the event loop is in, or None
  counted,     \* counted[r]: its increments of http_requests_total
  observed,    \* observed[r]: its observations of the duration histogram
  seen         \* seen[r]: what a scrape has read of the two

vars == <<http, loop, counted, observed, seen>>

Target == [route : {"/metrics", "/health", "/ready", "/v1/batches"}, id : {None}]
            \cup [route : {"/v1/batches/{batch_id}", "unmatched"}, id : Batch]

Guarded(t) == t.route \in {"/v1/batches", "/v1/batches/{batch_id}"}

\* request.url.path, and the matched route's template where there is one.
Literal(t)  == t
Template(t) == IF t.route = "unmatched" THEN t ELSE [t EXCEPT !.id = None]

Label  == [route : {t.route : t \in Target}, id : Batch \cup {None}]
Status == {200, 401, 404, 409, 422, 500, 503}

\* CreateBatchRequest; a body the schema rejects for another reason is one of
\* no prompts.
Valid(size) == size \in 1..SchemaMax

\* The replies of a route (batches.py:9-15, health.py).
Replies(t, size) == {s \in Status :
  \/ t.route = "unmatched" /\ s = 404
  \/ t.route \in {"/metrics", "/health"} /\ s = 200
  \/ t.route = "/ready" /\ s \in {200, 503}
  \/ t.route = "/v1/batches" /\ Valid(size) /\ s \in {200, 500, 503}
  \/ t.route = "/v1/batches" /\ ~Valid(size) /\ s = 422
  \/ t.route = "/v1/batches/{batch_id}" /\ s \in {200, 404, 409, 500}}

Waiting == {"handling", "scraping", "scraped"}
Segment == {"observe", "count", "header", "count_raised", "observe_raised", "opaque"}

Http == [pc : {"new", "sent"} \cup Waiting \cup Segment, target : Target,
         key : BOOLEAN, size : 0..(SchemaMax + 1), status : Status,
         raised : BOOLEAN, id : BOOLEAN]

\* Key and body matter where they are looked at.
NewRequests == {h \in [pc : {"new"}, target : Target, key : BOOLEAN,
                        size : 0..(SchemaMax + 1), status : {200},
                        raised : {FALSE}, id : {FALSE}] :
                  /\ ~Guarded(h.target) => h.key
                  /\ h.target.route # "/v1/batches" \/ ~h.key => h.size = 0}

Init ==
  /\ http \in [Request -> NewRequests]
  /\ loop = None
  /\ counted = [r \in Request |-> <<>>]
  /\ observed = [r \in Request |-> <<>>]
  /\ seen = [r \in Request |-> [counted |-> {}, observed |-> {}]]

-----------------------------------------------------------------------------
(* dispatch().  A segment starts when an await returns and the loop is free. *)

Step(r, from, to) ==
  /\ http[r].pc = from
  /\ http' = [http EXCEPT ![r].pc = to]

Within(r, from, to) == loop = r /\ Step(r, from, to) /\ UNCHANGED <<loop, seen>>

\* The request id is taken or made, and call_next awaited.
Arrive(r) ==
  /\ loop = None
  /\ Step(r, "new", "handling")
  /\ UNCHANGED <<loop, counted, observed, seen>>

\* call_next returns: require_api_key's 401, or the route's reply.
Return(r) ==
  /\ loop = None /\ http[r].pc = "handling"
  /\ http[r].target.route # "/metrics"
  /\ \E s \in IF Guarded(http[r].target) /\ ~http[r].key THEN {401}
              ELSE Replies(http[r].target, http[r].size) :
       http' = [http EXCEPT ![r].pc = "observe", ![r].status = s]
  /\ loop' = r
  /\ UNCHANGED <<counted, observed, seen>>

\* call_next raises what a handler of /v1/batches did not catch.
Raises(r) ==
  /\ loop = None /\ http[r].pc = "handling"
  /\ Guarded(http[r].target) /\ http[r].key
  /\ http[r].target.route = "/v1/batches" => Valid(http[r].size)
  /\ http' = [http EXCEPT ![r].pc = "count_raised", ![r].status = 500, ![r].raised = TRUE]
  /\ loop' = r
  /\ UNCHANGED <<counted, observed, seen>>

\* Mutants of Observe: only successes are observed; a path no route matches has
\* no label to fall back to.
ObserveSuccess(r) ==
  /\ Within(r, "observe", "count")
  /\ observed' = IF http[r].status # 200 THEN observed
                 ELSE [observed EXCEPT ![r] = Append(@, Template(http[r].target))]
  /\ UNCHANGED counted

RoutelessObserve(r) ==
  /\ Within(r, "observe", "count")
  /\ observed' = [observed EXCEPT ![r] = Append(@,
       IF http[r].target.route = "unmatched" THEN None ELSE Template(http[r].target))]
  /\ UNCHANGED counted

Observe(r) ==
  /\ Within(r, "observe", "count")
  /\ observed' = [observed EXCEPT ![r] = Append(@, Template(http[r].target))]
  /\ UNCHANGED counted

Count(r) ==
  /\ Within(r, "count", "header")
  /\ counted' = [counted EXCEPT ![r] =
       Append(@, [path |-> Template(http[r].target), status |-> http[r].status])]
  /\ UNCHANGED observed

\* X-Request-ID is set and the response handed to the server.
Header(r) ==
  /\ loop = r /\ http[r].pc = "header"
  /\ http' = [http EXCEPT ![r].pc = "sent", ![r].id = TRUE]
  /\ loop' = None
  /\ UNCHANGED <<counted, observed, seen>>

\* except: the label is the literal path ...
CountRaised(r) ==
  /\ Within(r, "count_raised", "observe_raised")
  /\ counted' = [counted EXCEPT ![r] =
       Append(@, [path |-> Literal(http[r].target), status |-> 500])]
  /\ UNCHANGED observed

\* Mutant of ObserveRaised: the finally clause also counts.
CountInFinally(r) ==
  /\ Within(r, "observe_raised", "opaque")
  /\ observed' = [observed EXCEPT ![r] = Append(@, Template(http[r].target))]
  /\ counted' = [counted EXCEPT ![r] =
       Append(@, [path |-> Template(http[r].target), status |-> http[r].status])]

\* ... finally: the template.
ObserveRaised(r) ==
  /\ Within(r, "observe_raised", "opaque")
  /\ observed' = [observed EXCEPT ![r] = Append(@, Template(http[r].target))]
  /\ UNCHANGED counted

\* The exception goes on to the server's own 500, which knows no request id.
Opaque(r) ==
  /\ loop = r /\ Step(r, "opaque", "sent")
  /\ loop' = None
  /\ UNCHANGED <<counted, observed, seen>>

-----------------------------------------------------------------------------
(* A scrape, in its thread: the registry's metrics in their order.          *)

Counted  == {r \in Request : counted[r] # <<>>}
Observed == {r \in Request : observed[r] # <<>>}

ScrapeCounter(r) ==
  /\ http[r].target.route = "/metrics"
  /\ Step(r, "handling", "scraping")
  /\ seen' = [seen EXCEPT ![r].counted = Counted]
  /\ UNCHANGED <<loop, counted, observed>>

ScrapeHistogram(r) ==
  /\ Step(r, "scraping", "scraped")
  /\ seen' = [seen EXCEPT ![r].observed = Observed]
  /\ UNCHANGED <<loop, counted, observed>>

\* The exposition is complete, and the thread's result awaited by the loop.
Scraped(r) ==
  /\ loop = None
  /\ Step(r, "scraped", "observe")
  /\ loop' = r
  /\ UNCHANGED <<counted, observed, seen>>

Serve(r) ==
  \/ Arrive(r)        \/ Return(r)          \/ Raises(r)
  \/ Observe(r)       \/ Count(r)           \/ Header(r)
  \/ CountRaised(r)   \/ ObserveRaised(r)   \/ Opaque(r)
  \/ ScrapeCounter(r) \/ ScrapeHistogram(r) \/ Scraped(r)

Next == \E r \in Request : Serve(r)

Spec == Init /\ [][Next]_vars

-----------------------------------------------------------------------------
(* Properties                                                               *)

\* Every variable holds what the middleware and the metrics can hold.
HttpTypeOK ==
  /\ http \in [Request -> Http]
  /\ loop \in Request \cup {None}
  /\ counted \in [Request -> Seq([path : Label, status : Status])]
  /\ observed \in [Request -> Seq(Label)]
  /\ seen \in [Request -> [counted : SUBSET Request, observed : SUBSET Request]]

\* Whichever way a request ends, when its reply is sent it was counted exactly
\* once, with the status the client got, and observed exactly once, under its
\* route's template (observability.py:125-142: except, finally and the normal path).
\* Only a handler that raised is counted under the literal path, and only its reply
\* goes without X-Request-ID.
AnsweredIsCounted ==
  \A r \in Request : http[r].pc = "sent" =>
    /\ Len(counted[r]) = 1 /\ counted[r][1].status = http[r].status
    /\ observed[r] = <<Template(http[r].target)>>
    /\ ~http[r].raised => counted[r][1].path = Template(http[r].target) /\ http[r].id

\* However a scrape's thread and the event loop interleave, counter and histogram
\* of one scrape differ by no request that was answered normally, and by at most
\* one whose handler raised: requests counted were observed.
ScrapeIsConsistent ==
  \A m \in Request : http[m].target.route = "/metrics" /\ http[m].pc = "scraped" =>
    \A r, s \in seen[m].counted \ seen[m].observed : r = s /\ http[r].raised

=============================================================================
