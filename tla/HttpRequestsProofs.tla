-------------------------- MODULE HttpRequestsProofs --------------------------
(***************************************************************************)
(* Theorems about the request middleware and the metrics, for any number   *)
(* of requests, scrapes and batches.                                       *)
(***************************************************************************)
EXTENDS HttpRequests, SequenceTheorems, TLAPS

\* The labels of a request are labels.
LEMMA LabelsAreLabels ==
  ASSUME NEW t \in Target
  PROVE  Template(t) \in Label /\ Literal(t) \in Label
<1>1. t.route \in {u.route : u \in Target}
  OBVIOUS
<1>2. t \in [route : {u.route : u \in Target}, id : Batch \cup {None}]
  BY <1>1 DEF Target
<1> QED  BY <1>2 DEF Template, Literal, Label

\* One entry appended to nothing.
LEMMA AppendToEmpty ==
  ASSUME NEW x
  PROVE  Append(<<>>, x) = <<x>> /\ <<x>> # <<>> /\ Len(<<x>>) = 1 /\ <<x>>[1] = x
OBVIOUS

\* Where a request's program counter may point.
Pcs == {"new", "sent"} \cup Waiting \cup Segment

\* A step that moves the program counter keeps the type of the requests.
LEMMA MovesKeepType ==
  ASSUME http \in [Request -> Http], NEW r \in Request, NEW c \in Pcs,
         http' = [http EXCEPT ![r].pc = c]
  PROVE  http' \in [Request -> Http]
<1>1. [http[r] EXCEPT !.pc = c] \in Http
  BY DEF Http, Pcs
<1> QED  BY <1>1

\* Counters take what the middleware adds to them.
LEMMA AddsKeepType ==
  ASSUME HttpTypeOK, NEW r \in Request, NEW s \in Status, NEW p \in Label
  PROVE  /\ [counted EXCEPT ![r] = Append(counted[r], [path |-> p, status |-> s])]
              \in [Request -> Seq([path : Label, status : Status])]
         /\ [observed EXCEPT ![r] = Append(observed[r], p)] \in [Request -> Seq(Label)]
<1>1. /\ counted[r] \in Seq([path : Label, status : Status])
      /\ [path |-> p, status |-> s] \in [path : Label, status : Status]
      /\ observed[r] \in Seq(Label)
  BY DEF HttpTypeOK
<1>2. /\ Append(counted[r], [path |-> p, status |-> s])
           \in Seq([path : Label, status : Status])
      /\ Append(observed[r], p) \in Seq(Label)
  BY <1>1, AppendProperties
<1> QED  BY <1>2 DEF HttpTypeOK

\* Each step of a request keeps the types.
LEMMA HttpTypeStep ==
  ASSUME HttpTypeOK, NEW r \in Request, Serve(r)
  PROVE  HttpTypeOK'
<1>0. /\ http \in [Request -> Http] /\ http[r] \in Http
      /\ http[r].target \in Target /\ http[r].status \in Status
  BY DEF HttpTypeOK, Http
<1>1. Template(http[r].target) \in Label /\ Literal(http[r].target) \in Label
  BY <1>0, LabelsAreLabels
<1>2. CASE Arrive(r) \/ Header(r) \/ Opaque(r) \/ Scraped(r)
  <2>1. loop' \in Request \cup {None} /\ UNCHANGED <<counted, observed, seen>>
    BY <1>2 DEF HttpTypeOK, Arrive, Header, Opaque, Scraped
  <2>2. http' \in [Request -> Http]
    <3>1. CASE Header(r)
      <4>1. [[http[r] EXCEPT !.pc = "sent"] EXCEPT !.id = TRUE] \in Http
        BY <1>0 DEF Http
      <4> QED  BY <1>0, <3>1, <4>1 DEF Header
    <3>2. CASE Arrive(r) \/ Opaque(r) \/ Scraped(r)
      <4>1. PICK c \in Pcs : http' = [http EXCEPT ![r].pc = c]
        BY <3>2 DEF Arrive, Opaque, Scraped, Step, Pcs, Waiting, Segment
      <4> QED  BY <1>0, <4>1, MovesKeepType
    <3> QED  BY <1>2, <3>1, <3>2
  <2> QED  BY <2>1, <2>2 DEF HttpTypeOK
<1>3. CASE Return(r)
  <2>1. PICK s \in Status : http' = [http EXCEPT ![r].pc = "observe", ![r].status = s]
    <3>1. Replies(http[r].target, http[r].size) \subseteq Status /\ 401 \in Status
      <4>1. Replies(http[r].target, http[r].size) \subseteq Status
        BY DEF Replies
      <4>2. 401 \in Status
        BY DEF Status
      <4> QED  BY <4>1, <4>2
    <3>2. (IF Guarded(http[r].target) /\ ~http[r].key THEN {401}
           ELSE Replies(http[r].target, http[r].size)) \subseteq Status
      BY <3>1
    <3>3. PICK s \in IF Guarded(http[r].target) /\ ~http[r].key THEN {401}
                     ELSE Replies(http[r].target, http[r].size) :
            http' = [http EXCEPT ![r].pc = "observe", ![r].status = s]
      BY <1>3, Zenon DEF Return
    <3>4. s \in Status
      BY <3>2
    <3> QED  BY <3>3, <3>4, Zenon
  <2>2. [[http[r] EXCEPT !.pc = "observe"] EXCEPT !.status = s] \in Http
    BY <1>0 DEF Http, Segment
  <2>3. http' \in [Request -> Http]
    BY <1>0, <2>1, <2>2
  <2> QED  BY <1>3, <2>3 DEF HttpTypeOK, Return
<1>4. CASE Raises(r)
  <2> DEFINE h1 == [http[r] EXCEPT !.pc = "count_raised"]
             h2 == [h1 EXCEPT !.status = 500]
             h3 == [h2 EXCEPT !.raised = TRUE]
  <2>1. h3 \in Http
    <3>1. h1 \in Http
      BY <1>0 DEF Http, Segment
    <3>2. h2 \in Http
      <4> HIDE DEF h1
      <4> QED  BY <3>1 DEF Http, Status
    <3> HIDE DEF h2
    <3> QED  BY <3>2 DEF Http
  <2>2. http' \in [Request -> Http]
    BY <1>0, <1>4, <2>1 DEF Raises
  <2> QED  BY <1>4, <2>2 DEF HttpTypeOK, Raises
<1>5. CASE Observe(r) \/ ObserveRaised(r)
  <2>1. PICK c \in Pcs : http' = [http EXCEPT ![r].pc = c]
    BY <1>5 DEF Observe, ObserveRaised, Within, Step, Pcs, Segment
  <2>2. /\ observed' = [observed EXCEPT ![r] = Append(observed[r], Template(http[r].target))]
        /\ UNCHANGED <<loop, counted, seen>>
    BY <1>5 DEF Observe, ObserveRaised, Within
  <2>3. http' \in [Request -> Http]
    BY <1>0, <2>1, MovesKeepType
  <2>4. observed' \in [Request -> Seq(Label)]
    BY <1>0, <1>1, <2>2, AddsKeepType
  <2> QED  BY <2>2, <2>3, <2>4 DEF HttpTypeOK
<1>6. CASE Count(r) \/ CountRaised(r)
  <2>1. PICK c \in Pcs : http' = [http EXCEPT ![r].pc = c]
    BY <1>6 DEF Count, CountRaised, Within, Step, Pcs, Segment
  <2>2. PICK p \in Label, s \in Status :
          counted' = [counted EXCEPT ![r] = Append(counted[r], [path |-> p, status |-> s])]
    BY <1>0, <1>1, <1>6 DEF Count, CountRaised, Status
  <2>3. UNCHANGED <<loop, observed, seen>>
    BY <1>6 DEF Count, CountRaised, Within
  <2>4. http' \in [Request -> Http]
    BY <1>0, <2>1, MovesKeepType
  <2>5. counted' \in [Request -> Seq([path : Label, status : Status])]
    BY <2>2, AddsKeepType
  <2> QED  BY <2>3, <2>4, <2>5 DEF HttpTypeOK
<1>7. CASE ScrapeCounter(r) \/ ScrapeHistogram(r)
  <2>1. PICK c \in Pcs : http' = [http EXCEPT ![r].pc = c]
    BY <1>7 DEF ScrapeCounter, ScrapeHistogram, Step, Pcs, Waiting
  <2>2. http' \in [Request -> Http]
    BY <1>0, <2>1, MovesKeepType
  <2>3. seen' \in [Request -> [counted : SUBSET Request, observed : SUBSET Request]]
    <3>1. /\ Counted \in SUBSET Request /\ Observed \in SUBSET Request
          /\ seen[r] \in [counted : SUBSET Request, observed : SUBSET Request]
      BY DEF HttpTypeOK, Counted, Observed
    <3>2. CASE ScrapeCounter(r)
      <4>1. [seen[r] EXCEPT !.counted = Counted]
              \in [counted : SUBSET Request, observed : SUBSET Request]
        BY <3>1
      <4> QED  BY <3>2, <4>1 DEF HttpTypeOK, ScrapeCounter
    <3>3. CASE ScrapeHistogram(r)
      <4>1. [seen[r] EXCEPT !.observed = Observed]
              \in [counted : SUBSET Request, observed : SUBSET Request]
        BY <3>1
      <4> QED  BY <3>3, <4>1 DEF HttpTypeOK, ScrapeHistogram
    <3> QED  BY <1>7, <3>2, <3>3
  <2> QED  BY <1>7, <2>2, <2>3 DEF HttpTypeOK, ScrapeCounter, ScrapeHistogram
<1> QED  BY <1>2, <1>3, <1>4, <1>5, <1>6, <1>7 DEF Serve

-----------------------------------------------------------------------------
(***************************************************************************)
(* The inductive invariant: what a request has added to the metrics at     *)
(* each point of dispatch(), whose segments the event loop runs one at a   *)
(* time; and what a scrape under way can have missed.                      *)
(***************************************************************************)
IsCounted(r)  == /\ counted[r] # <<>>
                 /\ Len(counted[r]) = 1 /\ counted[r][1].status = http[r].status
                 /\ ~http[r].raised => counted[r][1].path = Template(http[r].target)
IsObserved(r) == observed[r] # <<>> /\ observed[r] = <<Template(http[r].target)>>

RequestInv(r) ==
  LET pc == http[r].pc
  IN  /\ pc \in {"new", "observe", "count", "count_raised"} \cup Waiting => counted[r] = <<>>
      /\ pc \in {"header", "observe_raised", "opaque", "sent"} => IsCounted(r)
      /\ pc \in {"new", "observe", "count_raised", "observe_raised"} \cup Waiting
           => observed[r] = <<>>
      /\ pc \in {"count", "header", "opaque", "sent"} => IsObserved(r)
      /\ pc \in {"count_raised", "observe_raised", "opaque"}
           => http[r].raised /\ http[r].status = 500
      /\ pc = "sent" => http[r].raised \/ http[r].id

LoopInv == \A r \in Request : http[r].pc \in Segment <=> loop = r

\* What a scrape will find counted and not observed, or has found.
Missed(m) == IF http[m].pc = "scraping" THEN seen[m].counted \ Observed
             ELSE seen[m].counted \ seen[m].observed

ScrapeInv(m) ==
  http[m].pc \in {"scraping", "scraped"} =>
    \A r, s \in Missed(m) : r = s /\ http[r].raised

HttpInv ==
  /\ \A r \in Request : RequestInv(r) /\ ScrapeInv(r)
  /\ LoopInv

\* The initial state has the types and the invariant.
LEMMA HttpInitially ==
  ASSUME Init
  PROVE  HttpTypeOK /\ HttpInv
<1>1. ASSUME NEW r \in Request
      PROVE  http[r] \in Http /\ http[r].pc = "new"
  <2>1. http[r] \in NewRequests
    BY <1>1 DEF Init
  <2>2. http[r] \in [pc : {"new"}, target : Target, key : BOOLEAN,
                     size : 0..(SchemaMax + 1), status : {200},
                     raised : {FALSE}, id : {FALSE}]
    BY <2>1, Zenon DEF NewRequests
  <2>3. 200 \in Status /\ "new" \in {"new", "sent"} \cup Waiting \cup Segment
    BY DEF Status
  <2> QED  BY <2>2, <2>3 DEF Http
<1>2. HttpTypeOK
  BY <1>1 DEF Init, HttpTypeOK
<1>3. ASSUME NEW r \in Request
      PROVE  RequestInv(r) /\ ScrapeInv(r)
  BY <1>1, <1>3 DEF Init, RequestInv, ScrapeInv
<1>4. LoopInv
  BY <1>1, HttpAssumption DEF Init, LoopInv, Segment
<1> QED  BY <1>2, <1>3, <1>4 DEF HttpInv

\* A request's code touches its own entries only.
LEMMA RequestsKeepApart ==
  ASSUME HttpTypeOK, NEW r \in Request, Serve(r), NEW s \in Request, s # r
  PROVE  /\ http'[s] = http[s] /\ counted'[s] = counted[s] /\ observed'[s] = observed[s]
         /\ seen'[s] = seen[s]
BY DEF HttpTypeOK, Serve, Arrive, Return, Raises, Observe, Count, Header, CountRaised,
       ObserveRaised, Opaque, ScrapeCounter, ScrapeHistogram, Scraped, Within, Step

\* Each step takes its request from one description to the next.
LEMMA OwnRequestStep ==
  ASSUME HttpTypeOK, NEW r \in Request, RequestInv(r), Serve(r)
  PROVE  /\ RequestInv(r)'
         /\ http'[r].target = http[r].target
         /\ http[r].raised => http'[r].raised
         /\ counted[r] # <<>> => counted'[r] # <<>>
         /\ observed[r] # <<>> => observed'[r] # <<>>
<1>0. /\ http \in [Request -> Http] /\ http[r] \in Http
      /\ counted \in [Request -> Seq([path : Label, status : Status])]
      /\ observed \in [Request -> Seq(Label)]
  BY DEF HttpTypeOK
<1> USE DEF RequestInv, Waiting
<1>1. CASE Arrive(r) \/ ScrapeCounter(r) \/ ScrapeHistogram(r) \/ Scraped(r)
  <2>1. PICK c \in {"handling", "scraping", "scraped", "observe"} :
          http' = [http EXCEPT ![r].pc = c]
    BY <1>1 DEF Arrive, ScrapeCounter, ScrapeHistogram, Scraped, Step
  <2>2. /\ http[r].pc \in {"new", "handling", "scraping", "scraped"}
        /\ counted' = counted /\ observed' = observed
    BY <1>1 DEF Arrive, ScrapeCounter, ScrapeHistogram, Scraped, Step
  <2>3. http'[r] = [http[r] EXCEPT !.pc = c]
    BY <1>0, <2>1
  <2>4. /\ http'[r].pc = c /\ http'[r].target = http[r].target
        /\ http'[r].raised = http[r].raised
    BY <1>0, <2>3 DEF Http
  <2>5. counted[r] = <<>> /\ observed[r] = <<>>
    BY <2>2
  <2>6. counted'[r] = <<>> /\ observed'[r] = <<>>
    BY <2>2, <2>5
  <2>7. /\ http'[r].pc \notin {"header", "observe_raised", "opaque", "sent"}
        /\ http'[r].pc \notin {"count", "count_raised"}
    BY <2>1, <2>4
  <2>8. RequestInv(r)'
    BY <2>6, <2>7
  <2> QED  BY <2>4, <2>5, <2>8
<1>2. CASE Return(r)
  <2>1. PICK s : http' = [http EXCEPT ![r].pc = "observe", ![r].status = s]
    BY <1>2, ZenonT(60) DEF Return
  <2>2. http[r].pc = "handling" /\ counted' = counted /\ observed' = observed
    BY <1>2 DEF Return
  <2>3. http'[r] = [[http[r] EXCEPT !.pc = "observe"] EXCEPT !.status = s]
    BY <1>0, <2>1
  <2>4. http'[r].pc = "observe" /\ http'[r].target = http[r].target
        /\ http'[r].raised = http[r].raised
    BY <1>0, <2>3 DEF Http
  <2> QED  BY <2>2, <2>4
<1>3. CASE Raises(r)
  <2>1. http[r].pc = "handling" /\ counted' = counted /\ observed' = observed
    BY <1>3 DEF Raises
  <2>2. http'[r] = [[[http[r] EXCEPT !.pc = "count_raised"] EXCEPT !.status = 500]
                      EXCEPT !.raised = TRUE]
    BY <1>0, <1>3 DEF Raises
  <2>3. /\ http'[r].pc = "count_raised" /\ http'[r].target = http[r].target
        /\ http'[r].raised /\ http'[r].status = 500
    BY <1>0, <2>2 DEF Http
  <2> QED  BY <2>1, <2>3
<1>4. CASE Observe(r) \/ ObserveRaised(r)
  <2>1. /\ \/ http[r].pc = "observe" /\ http' = [http EXCEPT ![r].pc = "count"]
           \/ http[r].pc = "observe_raised" /\ http' = [http EXCEPT ![r].pc = "opaque"]
        /\ observed' = [observed EXCEPT ![r] = Append(observed[r], Template(http[r].target))]
        /\ counted' = counted
    BY <1>4 DEF Observe, ObserveRaised, Within, Step
  <2>2. observed[r] = <<>>
    BY <2>1
  <2>3. observed'[r] = <<Template(http[r].target)>> /\ observed'[r] # <<>>
    BY <1>0, <2>1, <2>2, AppendToEmpty
  <2>4. /\ http'[r].target = http[r].target /\ http'[r].raised = http[r].raised
        /\ http'[r].status = http[r].status
        /\ \/ http[r].pc = "observe" /\ http'[r].pc = "count"
           \/ http[r].pc = "observe_raised" /\ http'[r].pc = "opaque"
    BY <1>0, <2>1 DEF Http
  <2> QED  BY <2>1, <2>3, <2>4 DEF IsCounted, IsObserved
<1>5. CASE Count(r) \/ CountRaised(r)
  <2>1. PICK e \in [path : Label, status : Status] :
          /\ counted' = [counted EXCEPT ![r] = Append(counted[r], e)]
          /\ e.status = http[r].status
          /\ ~http[r].raised => e.path = Template(http[r].target)
    <3>1. Template(http[r].target) \in Label /\ Literal(http[r].target) \in Label
      BY <1>0, LabelsAreLabels DEF Http
    <3>2. CASE Count(r)
      <4>1. [path |-> Template(http[r].target), status |-> http[r].status]
              \in [path : Label, status : Status]
        BY <1>0, <3>1 DEF Http
      <4> QED  BY <3>2, <4>1 DEF Count
    <3>3. CASE CountRaised(r)
      <4>1. http[r].status = 500 /\ http[r].raised
        BY <3>3 DEF CountRaised, Within, Step
      <4>2. [path |-> Literal(http[r].target), status |-> 500]
              \in [path : Label, status : Status]
        BY <3>1 DEF Status
      <4>3. counted' = [counted EXCEPT ![r] = Append(counted[r],
                          [path |-> Literal(http[r].target), status |-> 500])]
        BY <3>3 DEF CountRaised
      <4>4. [path |-> Literal(http[r].target), status |-> 500].status = http[r].status
        BY <4>1
      <4> QED  BY <4>1, <4>2, <4>3, <4>4, Zenon
    <3> QED  BY <1>5, <3>2, <3>3
  <2>2. /\ \/ http[r].pc = "count" /\ http' = [http EXCEPT ![r].pc = "header"]
           \/ http[r].pc = "count_raised" /\ http' = [http EXCEPT ![r].pc = "observe_raised"]
        /\ observed' = observed
    BY <1>5 DEF Count, CountRaised, Within, Step
  <2>3. counted[r] = <<>>
    BY <2>2
  <2>4. counted'[r] = <<e>>
    BY <1>0, <2>1, <2>3, AppendToEmpty
  <2>5. /\ counted'[r] # <<>> /\ Len(counted'[r]) = 1
        /\ counted'[r][1].status = http[r].status
        /\ ~http[r].raised => counted'[r][1].path = Template(http[r].target)
    <3>1. <<e>> # <<>> /\ Len(<<e>>) = 1 /\ <<e>>[1] = e
      OBVIOUS
    <3>2. counted'[r] # <<>> /\ Len(counted'[r]) = 1 /\ counted'[r][1] = e
      BY <2>4, <3>1, Zenon
    <3> QED  BY <2>1, <3>2, Zenon
  <2>6. /\ http'[r].target = http[r].target /\ http'[r].raised = http[r].raised
        /\ http'[r].status = http[r].status
        /\ \/ http[r].pc = "count" /\ http'[r].pc = "header"
           \/ http[r].pc = "count_raised" /\ http'[r].pc = "observe_raised"
    BY <1>0, <2>2 DEF Http
  <2> QED  BY <2>2, <2>5, <2>6 DEF IsCounted, IsObserved
<1>6. CASE Header(r) \/ Opaque(r)
  <2>1. /\ http[r].pc \in {"header", "opaque"} /\ http'[r].pc = "sent"
        /\ http'[r].target = http[r].target /\ http'[r].raised = http[r].raised
        /\ http'[r].status = http[r].status /\ (http[r].raised \/ http'[r].id)
    <3>1. CASE Header(r)
      <4>1. http'[r] = [[http[r] EXCEPT !.pc = "sent"] EXCEPT !.id = TRUE]
        BY <1>0, <3>1 DEF Header
      <4> QED  BY <1>0, <3>1, <4>1 DEF Header, Http
    <3>2. CASE Opaque(r)
      BY <1>0, <3>2 DEF Opaque, Step, Http
    <3> QED  BY <1>6, <3>1, <3>2
  <2>2. counted' = counted /\ observed' = observed
    BY <1>6 DEF Header, Opaque
  <2> QED  BY <2>1, <2>2 DEF IsCounted, IsObserved
<1> QED  BY <1>1, <1>2, <1>3, <1>4, <1>5, <1>6 DEF Serve

\* A segment belongs to the request that has the loop.
LEMMA LoopStep ==
  ASSUME HttpTypeOK, LoopInv, NEW r \in Request, Serve(r)
  PROVE  LoopInv'
<1> USE HttpAssumption DEF HttpTypeOK, LoopInv, Segment
<1>0. \A s \in Request : s # r => http'[s] = http[s]
  BY RequestsKeepApart
<1>1. CASE Arrive(r) \/ ScrapeCounter(r) \/ ScrapeHistogram(r)
  <2>1. /\ http[r].pc \in {"new", "handling", "scraping"} /\ loop' = loop
        /\ http'[r].pc \in {"handling", "scraping", "scraped"}
    BY <1>1 DEF Arrive, ScrapeCounter, ScrapeHistogram, Step, Http
  <2> QED  BY <1>0, <2>1
<1>2. CASE Return(r) \/ Raises(r) \/ Scraped(r)
  <2>1. http'[r].pc \in {"observe", "count_raised"}
    <3>1. CASE Return(r)
      <4>1. PICK s : http' = [http EXCEPT ![r].pc = "observe", ![r].status = s]
        BY <3>1, Zenon DEF Return
      <4>2. http'[r] = [[http[r] EXCEPT !.pc = "observe"] EXCEPT !.status = s]
        BY <4>1
      <4> QED  BY <4>2 DEF Http
    <3>2. CASE Raises(r)
      <4>1. http'[r] = [[[http[r] EXCEPT !.pc = "count_raised"] EXCEPT !.status = 500]
                          EXCEPT !.raised = TRUE]
        BY <3>2 DEF Raises
      <4> QED  BY <4>1 DEF Http
    <3>3. CASE Scraped(r)
      BY <3>3 DEF Scraped, Step, Http
    <3> QED  BY <1>2, <3>1, <3>2, <3>3
  <2>2. loop = None /\ loop' = r
    BY <1>2 DEF Return, Raises, Scraped
  <2> QED  BY <1>0, <2>1, <2>2
<1>3. CASE Observe(r) \/ Count(r) \/ CountRaised(r) \/ ObserveRaised(r)
  <2>1. loop = r /\ loop' = r
    BY <1>3 DEF Observe, Count, CountRaised, ObserveRaised, Within
  <2>2. http'[r].pc \in {"count", "header", "observe_raised", "opaque"}
    BY <1>3 DEF Observe, Count, CountRaised, ObserveRaised, Within, Step, Http
  <2> QED  BY <1>0, <2>1, <2>2
<1>4. CASE Header(r) \/ Opaque(r)
  <2>1. loop = r /\ loop' = None
    BY <1>4 DEF Header, Opaque
  <2>2. http'[r].pc = "sent"
    <3>1. CASE Header(r)
      <4>1. http'[r] = [[http[r] EXCEPT !.pc = "sent"] EXCEPT !.id = TRUE]
        BY <3>1 DEF Header
      <4> QED  BY <4>1 DEF Http
    <3>2. CASE Opaque(r)
      BY <3>2 DEF Opaque, Step, Http
    <3> QED  BY <1>4, <3>1, <3>2
  <2> QED  BY <1>0, <2>1, <2>2
<1> QED  BY <1>1, <1>2, <1>3, <1>4 DEF Serve

\* Counted and not yet observed is at most the one request whose exception the
\* loop is handling.
LEMMA OneBetweenCountAndObserve ==
  ASSUME HttpTypeOK, HttpInv, NEW x \in Counted \ Observed
  PROVE  loop = x /\ http[x].raised
<1>1. x \in Request /\ counted[x] # <<>> /\ observed[x] = <<>>
  BY DEF Counted, Observed
<1>2. RequestInv(x) /\ http[x].pc \in Pcs
  BY <1>1 DEF HttpInv, HttpTypeOK, Http, Pcs
<1>3. http[x].pc = "observe_raised"
  BY <1>1, <1>2 DEF RequestInv, IsObserved, Pcs, Waiting, Segment
<1> QED  BY <1>1, <1>2, <1>3 DEF RequestInv, HttpInv, LoopInv, Segment

\* Whatever a request does, a scrape has missed no more than before.
LEMMA ScrapeStep ==
  ASSUME HttpTypeOK, HttpInv, NEW r \in Request, Serve(r), NEW m \in Request
  PROVE  ScrapeInv(m)'
<1>1. /\ Observed \subseteq Observed'
      /\ \A x \in Request : http[x].raised => http'[x].raised
  BY OwnRequestStep, RequestsKeepApart DEF HttpInv, Observed
<1>2. ScrapeInv(m) /\ seen[m].counted \subseteq Request
  BY DEF HttpInv, HttpTypeOK
<1>3. CASE m # r
  <2>1. http'[m] = http[m] /\ seen'[m] = seen[m]
    BY <1>3, RequestsKeepApart
  <2> QED  BY <1>1, <1>2, <2>1 DEF ScrapeInv, Missed
<1>4. CASE m = r /\ ScrapeCounter(r)
  <2>1. http'[m].pc = "scraping" /\ seen'[m].counted = Counted
    BY <1>4 DEF HttpTypeOK, ScrapeCounter, Step, Http
  <2>2. Missed(m)' \subseteq Counted \ Observed
    BY <1>1, <2>1 DEF Missed
  <2> QED  BY <1>1, <2>2, OneBetweenCountAndObserve DEF ScrapeInv, Counted
<1>5. CASE m = r /\ ScrapeHistogram(r)
  <2>1. /\ http[m].pc = "scraping" /\ http'[m].pc = "scraped"
        /\ seen'[m].counted = seen[m].counted /\ seen'[m].observed = Observed
    BY <1>5 DEF HttpTypeOK, ScrapeHistogram, Step, Http
  <2>2. Missed(m)' = Missed(m)
    BY <2>1 DEF Missed
  <2> QED  BY <1>1, <1>2, <2>1, <2>2 DEF ScrapeInv, Missed
<1>6. CASE m = r /\ ~ScrapeCounter(r) /\ ~ScrapeHistogram(r)
  <2>1. http'[r].pc \notin {"scraping", "scraped"}
    <3>1. CASE Return(r)
      <4>1. PICK s : http' = [http EXCEPT ![r].pc = "observe", ![r].status = s]
        BY <3>1, Zenon DEF Return
      <4>2. http'[r] = [[http[r] EXCEPT !.pc = "observe"] EXCEPT !.status = s]
        BY <4>1 DEF HttpTypeOK
      <4> QED  BY <4>2 DEF HttpTypeOK, Http
    <3>2. CASE Raises(r)
      <4>1. http'[r] = [[[http[r] EXCEPT !.pc = "count_raised"] EXCEPT !.status = 500]
                          EXCEPT !.raised = TRUE]
        BY <3>2 DEF HttpTypeOK, Raises
      <4> QED  BY <4>1 DEF HttpTypeOK, Http
    <3>3. CASE Header(r)
      <4>1. http'[r] = [[http[r] EXCEPT !.pc = "sent"] EXCEPT !.id = TRUE]
        BY <3>3 DEF HttpTypeOK, Header
      <4> QED  BY <4>1 DEF HttpTypeOK, Http
    <3>4. CASE Arrive(r) \/ Observe(r) \/ Count(r) \/ CountRaised(r) \/ ObserveRaised(r)
                 \/ Opaque(r) \/ Scraped(r)
      BY <3>4 DEF HttpTypeOK, Http, Arrive, Observe, Count, CountRaised, ObserveRaised,
         Opaque, Scraped, Within, Step
    <3> QED  BY <1>6, <3>1, <3>2, <3>3, <3>4 DEF Serve
  <2> QED  BY <1>6, <2>1 DEF ScrapeInv
<1> QED  BY <1>3, <1>4, <1>5, <1>6

\* Types and invariant hold of every behaviour.
LEMMA HttpInductive == Spec => [](HttpTypeOK /\ HttpInv)
<1>1. ASSUME HttpTypeOK, HttpInv, [Next]_vars
      PROVE  HttpTypeOK' /\ HttpInv'
  <2>1. CASE UNCHANGED vars
    <3>1. HttpTypeOK'
      BY <1>1, <2>1 DEF vars, HttpTypeOK
    <3>2. ASSUME NEW r \in Request
          PROVE  RequestInv(r)' /\ ScrapeInv(r)'
      <4>1. RequestInv(r) /\ ScrapeInv(r)
        BY <1>1 DEF HttpInv
      <4>2. RequestInv(r)'
        BY <2>1, <4>1 DEF vars, RequestInv, IsCounted, IsObserved
      <4>3. ScrapeInv(r)'
        BY <2>1, <4>1 DEF vars, ScrapeInv, Missed, Observed
      <4> QED  BY <4>2, <4>3
    <3>3. LoopInv'
      BY <1>1, <2>1 DEF vars, HttpInv, LoopInv
    <3> QED  BY <3>1, <3>2, <3>3 DEF HttpInv
  <2>2. ASSUME NEW r \in Request, Serve(r)
        PROVE  HttpTypeOK' /\ HttpInv'
    <3>1. ASSUME NEW s \in Request
          PROVE  RequestInv(s)'
      <4>1. CASE s = r
        BY <1>1, <2>2, <4>1, OwnRequestStep DEF HttpInv
      <4>2. CASE s # r
        <5>1. http'[s] = http[s] /\ counted'[s] = counted[s] /\ observed'[s] = observed[s]
          BY <1>1, <2>2, <4>2, RequestsKeepApart
        <5>2. RequestInv(s)
          BY <1>1 DEF HttpInv
        <5> QED  BY <5>1, <5>2 DEF RequestInv, IsCounted, IsObserved
      <4> QED  BY <4>1, <4>2
    <3>2. HttpTypeOK' /\ LoopInv' /\ \A m \in Request : ScrapeInv(m)'
      BY <1>1, <2>2, HttpTypeStep, LoopStep, ScrapeStep DEF HttpInv
    <3> QED  BY <3>1, <3>2 DEF HttpInv
  <2> QED  BY <1>1, <2>1, <2>2 DEF Next
<1>2. HttpTypeOK /\ HttpInv /\ [Next]_vars => HttpTypeOK' /\ HttpInv'
  BY <1>1
<1> QED  BY <1>2, HttpInitially, PTL DEF Spec

-----------------------------------------------------------------------------
(* The theorems                                                             *)

\* Types hold.
THEOREM HttpTypes == Spec => []HttpTypeOK
BY HttpInductive, PTL

\* Every reply is counted once, with its status, and observed once.
THEOREM AnswersAreCounted == Spec => []AnsweredIsCounted
<1>1. HttpTypeOK /\ HttpInv => AnsweredIsCounted
  BY DEF HttpInv, RequestInv, IsCounted, IsObserved, AnsweredIsCounted
<1> QED  BY <1>1, HttpInductive, PTL

\* However many requests the loop serves while a scrape's thread reads, counter
\* and histogram of the scrape differ by one failed request at most.
THEOREM ScrapesAreConsistent == Spec => []ScrapeIsConsistent
<1>1. HttpTypeOK /\ HttpInv => ScrapeIsConsistent
  BY DEF HttpInv, ScrapeInv, Missed, ScrapeIsConsistent
<1> QED  BY <1>1, HttpInductive, PTL

=============================================================================
