# Smart Proxy: TLA+ models, checks and proofs

The Smart Proxy answers the HTTP requests of the Insights Advisor UI, the
Insights Operator and others.  It keeps almost no data of its own: it combines
what the aggregator, the content service, AMS and Redis tell it.  What it does
keep (the rule content and the groups configuration) is shared by all request
goroutines and refreshed in the background, and what it does not keep it reads
and writes in several calls that other requests may come between.  These
modules model that: the background loops, the shared state, the sequences of
calls and every error path of the handlers.

Paths below are relative to the root of the repository (`src/` in
`PROJECT.json`).

## Inventory

| Component | State it keeps | Operations | Interacts with | What is hard |
|---|---|---|---|---|
| Rule content cache (`content/`, `services/services.go`) | `ruleContentDirectory`, `rulesWithContentStorage`, a condition variable | poll and swap; ten getters | content service, all handlers | unlocked globals, two-step publication, a `Cond` that nobody signals, timeouts |
| Groups (`smart_proxy.go`, `getGroupsConfig`) | locals of one goroutine, three unbuffered channels | poll; offer; receive in two steps | content service, two handlers | a non-blocking receive followed by a blocking one, polls in between |
| Acknowledgements (`server/acks_*.go`) | none (aggregator) | GET, POST, PUT, DELETE | aggregator | read, write, re-read without a transaction; lost answers |
| Report endpoints (`server/server.go`) | none | v1, v2, single rule, metainfo | aggregator, AMS, content cache | content replaced between two lookups, error paths that go on |
| Cluster views, recommendations, overview, DVO workloads (`server/handlers_v*.go`) | none | list and detail views | aggregator, AMS, content cache, groups | double responses, named results, several reads of one cache, a different reaction of each view to each failure |
| AMS client and upgrade risks (`amsclient/`, `server/upgrade_risks_prediction.go`) | connection | paging of subscriptions, one cluster, predictions | AMS, prediction service | pages of a list that changes |
| On demand gathering (`services/redis.go`) | none (Redis) | status, list and report of requests | Redis, aggregator, content cache | SCAN cursors, keys that expire, a pipeline that is no transaction |
| Request pipeline (`server/auth_middleware.go`, `auth/`, `proxyTo`, `server/rating.go`) | RBAC client | authenticate, authorise, modify, proxy | RBAC, aggregator | exemptions, pages of permissions, order of the checks |
| Info endpoint (`server/handlers_v1.go`) | `InfoParams`, a shared map | GET | aggregator, content service | unsynchronised map accesses, a nil map |
| Parsing, configuration, start, metrics | read once / written only | | | nothing that interleaves |

What makes each part correct, in the words of the properties: content and groups
are replaced as a whole and never by something older or empty; a request is
always answered, once, and its status tells the truth; what is shown is allowed
to be shown and nothing that could be shown is lost to a refresh.
`PROJECT.json` lists the hazards at their lines.

## Plan

1. *Done.*  `ContentCache` with its abstract specification `PublishedContent`,
   `Groups`, `Acks`, `Report`, `ListViews`; proofs of `ContentCache` and `Acks`.
2. *Done.*  `DetailViews`, `AmsClient`, `RequestStore` and `RequestPipeline`: the
   remaining endpoints, what comes before them and what they share.
3. *Done.*  Proofs of `Groups`, `RequestPipeline`, `Report`, `RequestStore`,
   `ListViews`, `AmsClient` and `DetailViews`: with those of step 1, a theorem for
   every invariant that a passing run checks, and for the refinement.

## Modules

### ContentCache, PublishedContent

`ContentCache` models `RunUpdateContentLoop` as one process with the places
`fetch`, `set`, `load`, `select`: the call of the content service, the
assignment of the directory, the building and swapping of the storage, and the
select on ticker and stop channel.  Content is abstracted to the number of the
generation it came from, 0 being nil or empty.  Requests are processes that call
`ReadsPerRequest` getters; each getter is the nil check, for a nil directory the
lock, the spawned goroutine, the select with the timeout, and the read of the
storage.  `Cond.Wait` releases the mutex in the step `WaiterParks`; nothing ever
wakes the goroutine, so the branch `<-done` does not occur.  After a timeout most
handlers end; `filterRulesGetContent` passes over the rule and calls the getter for
the next one, which waits again.  `goesOn` says which of the two a request is,
`left` how many getters it has still to call, and `lenient` counts the requests
of the second kind, each of whose getters may leave a goroutine behind.  A stop of
the loop is an action of its own (`StopUpdateContentLoop`), which the service itself never
requests.  Pointers are read and written in one step, which is what the 64-bit
builds do.

`PublishedContent` is the promise behind the comment "Caching is done under the
hood, don't worry about it": one published generation, replaced as a whole and
never by an older one; every getter answers from the published generation; only
a getter that found nothing published waits and may fail, whereupon the request is
refused (`Refuse`) or goes on with one getter less (`DoWithout`).  The mapping takes
`storage` as the published generation and the places of a request to the states
of a client.

### Groups

`updateGroupInfo` is a process with the places `poll`, `loop`, `select`.  A
configuration is the number of the poll that delivered it.  An unbuffered send
and its receive are one step, possible only while the updater is at its select;
the `default` branch of `getGroupsConfig` is taken only while it is not.

### Acks

Each request runs validate, read, write, re-read against one acknowledgement in
the aggregator.  Every call may fail; a failed write may have been applied.  The
model has one rule, since a handler touches only the rule it is given.
`AggregatorApplies` is the aggregator's part, modelled from how the handlers use
it: acknowledging and re-enabling set the state, updating needs an
acknowledgement.  `applied` and `interfered` are history variables.

### Report

One request at a time, since requests share only the content, which `ContentSwap`
replaces at any moment.  The steps are the calls and checks of the four handlers
in their order, with every status they write.  A rule of the content is either
known or not and tagged `osd_customer` or not.  `published` collects the contents
in place since the request began, and `acksFailed` records that the acknowledged
rules could not be read, after which the handler writes nothing.  Any status of the aggregator other than 200 is
passed on; four of them stand for all.  Bodies of the aggregator that lack the
report altogether are not considered.

### ListViews

`getRecommendations` and `getClustersView`, again one request at a time.  The two
handlers make the same calls in the same order (clusters, hits,
acknowledgements, disabled rules), and the actions are shared; `view` tells them
apart where they differ, above all after a failed call (`GiveUp`), where the
first returns and the second goes on with what it has; of the clusters that is what
AMS had listed before the page that failed.  Hits are kept by cluster
in both views, although the aggregator sends them by rule to the first; it sends
a rule only with at least one cluster.  In the recommendations an acknowledgement
only sets the field `Disabled`, which is left out.  `FilterRecommendation` is one
turn of the loop of `getFilteredRecommendationsList`, with a content lookup each;
`ReadSeverities` and `MatchClusters` are the two reads of the content in
`matchClusterInfoAndUserData`.  `writes` holds every status a handler writes: the
client gets the first one, `net/http` ignores the later ones.  Of the statuses
of the aggregator other than 200, which are passed on, 404 stands for all.

### DetailViews

Ten endpoints behind one `view`: the clusters of a rule, the overview of an
organisation and that of the clusters in a body, the workloads of an organisation
and of a namespace, the content of one rule (version 1, version 2, and with user
data) and the lists of content.  The steps that several of them take are shared
actions (`ReadClusterInfo`, `ReadHits`, `ReadAcks`, `ReadDisabled`); the `Fails`
action beside each holds what every view does with a failed call, which is where
they differ most.  A loop that looks up content takes one step per lookup
(`CountHit`, `CountReportHit`, `FillInRecommendation`), in any order, and
`ContentSwap` may come between.  Counts by risk, tag or severity are the set
`counted` of the hits that enter them; `ClustersHit` is the projection of that set,
except that the overview for given clusters also counts a cluster all of whose rules
are disabled.  `managed` may be empty although there are managed clusters, because
the aggregator, in the place of AMS, does not know of them.  When AMS fails, the
detail view and the overview go on with the clusters listed before the failure, any
subset of them; if nothing is left of it, the detail view asks the aggregator about
all clusters (`AsksAboutAll`).  `CallNilClient` is a
panic, which `net/http` recovers: the connection is closed without a response.

### AmsClient

The matches of a query are a sequence, the order of AMS, from which
`GetPage` takes a slice; `Subscribe` and `Unsubscribe` change it between two
pages.  Each item is looked at in a step (`NextItem`), with the checks of
`executeSubscriptionListRequest` in `AddItem`.  The operations that query AMS are
told apart by `op`.  The query is evaluated by AMS, which is not trusted to match the
requested cluster only: any subscription may come.  Only the upgrade risks compare
the cluster of the answer with the one in the path (`CheckManaged`); the
cluster endpoint and the details take the first entry on AMS's word.  If a page
fails, the list keeps what the pages before it gave (`GetPageFails`), and the callers
about one cluster drop it.  The history variables `seen`, `stable` and `moved` say what
matched at some time, what matched throughout, and what a removal has shifted
across the boundary of a page that was already read: exactly such a cluster may
be missing from a list.

### RequestStore

Redis holds, for each request ID of a cluster, a key of its own and a hash; each
is written and expires independently.  `Scan` is one SCAN call: it may return
any present keys, none, or some again, and the cursor is zero only after every key
that has been there all along was returned, which is all that Redis promises.
`PipelineCommand` is one HMGET of the pipeline.  The report goes on to the
acknowledgements, the disabled rules and the content, whose lookups are steps
(`FilterRule`).  `held` and `seen` are the keys that existed throughout and at
some time.

### RequestPipeline

Concurrent requests, each with its own token and endpoint, under an arbitrary
configuration of authentication and RBAC.  `Authentication` and `Authorization`
are the middlewares; `ReadPermissions` reads one page from RBAC, and `HasScheme`
says which pages can be asked for at all.  `ModifyRequest` stands for the request
modifiers of `proxyTo`; the kinds of proxied endpoints are told apart by the
modifiers they have.  The info endpoint has a begin and an end for each access to
`server.InfoParams`; a second access begun in between, one of the two a write, is
a data race, whose outcomes are that nothing happens or that the runtime aborts the
process, so that every request in progress is lost.

### InterleavedRequests

`Acks`, `RequestStore` and `RequestPipeline` side by side, for model checking: the
requests that meet each other, or other programs, outside the content cache.  The
three have no variable in common and no step of one depends on another, so the
variable `moving` chooses which of them moves in a behaviour while the others stay in
their initial states; each is explored as it would be alone.  Their invariants are
proved separately, in `AcksProofs`, `RequestStoreProofs` and `RequestPipelineProofs`.

### ReportComments, DetailComments

Monitors of `Report` and `DetailViews`: the requests are those of the module
extended, and `refuted` collects the comments in the code that some request has
refuted.  `Report` and `DetailViews` state each of the comments as an invariant
(`CountOfShownRules`, `AcksErrorHandled`, `DisabledClustersLeftOut`,
`OverviewErrorHandled`); the property of a monitor is that at least one of its two
comments is true, so that its counterexample refutes both.

### Deviations

Operators marked `Deviation` are not part of the specifications.  Each is a
plausible mistake in the code it stands beside; put in the place of the faithful
definition, it violates the property that `PROJECT.json` pairs it with.

## Runs

| Run | Bounds | Shows |
|---|---|---|
| `content_cache` | 2 readers, 2 getters each, 2 generations, 3 requests; 250,053 states | all properties of the cache, the refinement and the liveness |
| `content_timeout` | 2 readers, 1 getter each, 2 generations, 2 requests | a request times out although the directory is set (finding) |
| `groups` | 2 requests, 3 polls; 98,870 states | failed polls keep the groups; the two receives belong together; requests are answered |
| `interleaved_requests` | acknowledgements: 2 requests at a time, any number in sequence, 2 justifications; Redis: 2 request IDs, 2 rules, bodies of 2, 3 SCAN calls, 2 changes per request; pipeline: 2 requests at a time, up to 2 pages of permissions, all 16 configurations; 44,572 + 475,598 + 1,833,984 states | replies and status codes under interleaving and failure; complete lists, an answer for each ID, reports, failures; what reaches the aggregator, and that requests are answered |
| `report` | 2 rules (one internal), 2 swaps per request; 1,202,464 states | shown rules, counts, one response |
| `report_comments` | 2 rules (one internal), 1 swap per request | a count that includes rules without content, and a request without a response (two findings) |
| `list_views` | 2 rules (one internal), 2 clusters, 1 swap per request; 5,338,865 states | hits counted, rules listed, failures visible |
| `list_views_omitted` | 2 rules, 1 cluster, 1 swap | a rule without content turns the list into a 404 (finding) |
| `detail_views` | 2 rules (one internal), 2 clusters (one managed), 1 swap per request; 757,658 states | lists of the detail view, hits counted, content sent, failures answered |
| `detail_comments` | as `detail_views` | a cluster shown as enabled with the rule disabled, and a request without a response (two findings) |
| `ams_client` | 2 clusters, pages of 2, up to 3 matches, 2 changes per request; 459,176 states | lists exact but for shifted clusters; predictions for the cluster asked for; the loop ends |
| `rbac_paginated` | 1 request, 2 pages | a permission on the second page is not found (finding) |

Why the bounds are enough.  Two readers are needed to contend for the mutex, and a
third adds only another contender.  Two generations give a request that reads
twice the empty storage and a first content, or an older content and a newer one; two
getters let a request that goes on after a timeout wait again or find the content,
and three requests let one follow on a timed out one while another waits.  Two polls separate the two receives of
a request, and the third one can follow it.  Two concurrent acknowledgement requests
can do to each other what several can do to one, which the proofs
confirm for any number.  Two rules give both orders around a swap; two swaps let a
rule vanish and come back.  In the list and detail views one swap separates the two
reads of the content, and two clusters let a rule count on one and not on the other.
Three matches on pages of two give a full page, a short one and the empty one that ends
the loop; with two clusters a cluster has several subscriptions, so that duplicates
occur, and two changes let one subscription go before the current page and another
come.  The configured page size is 0, so the default is in use.  Three SCAN calls
allow an empty page and a repeated key before the last one, and two request IDs
give a body with a repeated ID.  Two info requests suffice for a race on the map,
and two pages for a permission that is not on the first.

`content_cache` and `content_timeout` do not check for deadlock: once the bounded
requests are served and the loop was stopped nothing is left to do.  The other runs
do.

## Fairness

Only the liveness properties use it (`RequestsEnd`, `ContentRefreshed`,
`RequestsAnswered`, `ListingEnds`).

* Weak fairness of every goroutine: the Go scheduler runs what can run, and
  timers fire.  Not assumed of new requests, of the content service releasing
  new content, of ticks of the groups ticker, or of a stop.
* Strong fairness of taking the mutex: `sync.Mutex` hands itself to a waiter that
  has starved for a millisecond.
* Strong fairness of the receives in `Groups`: receivers of a channel queue in
  order, and a select picks among its ready cases at random.
* A poll of the content service succeeds again and again (strong fairness of
  `GetContentSucceeds`), and a poll for groups returns.  This is an assumption
  about the environment: `http.Get` is used without a timeout
  (`services/services.go:51`), so a service that accepts a connection and never
  answers stops the loop.
* In `AmsClient` weak fairness of the handler: it runs until it returns, and the
  calls it waits for end, at the latest when the connection is given up.  Nothing is
  assumed of AMS; that the subscriptions change only `MaxChanges` times during
  a query is what lets the loop meet an empty page.

## Proofs

TLAPS proves the following for every value of the constants; each statement is
one that a run also checks.

`BackgroundProofs`, about the content, from `ConstantsAssumption` (the bounds are natural numbers)
and `ReadersAssumption` (finitely many goroutines, used for counting only):

* `TypeCorrect`, then `StorageFollowsDirectory` and `LockAlwaysOwed`, each
  inductive together with the types.  `StorageMatchesDirectory` carries the
  conjuncts `storage <= directory <= served` and `directory <= fetched` that make
  it so.
* The lemma `DirectoryGrows`: neither the directory nor the storage goes back in
  any step.  `WaitsOnlyBeforeReading` and `ContentMovesForward` follow from it.
* `WaitersAlwaysBounded`, by counting the waits still to come (`AllWaitsLeft`): a
  request that begins adds one, or one for each getter if it goes on after a
  timeout, and waiting moves one of them from the request to its goroutine.
* `Refinement`: every step of the cache is a step of `PublishedContent` or none.
  The nil check maps to `Delay`, where `storage <= directory` gives that nothing
  is published; the timeout maps to `Refuse` or `DoWithout`; the swap maps to
  `Publish`, or to nothing if the same generation was fetched again.

`AcksProofs`, from `NoAckAssumption` (no justification is the missing
acknowledgement): the inductive invariant is `HandlersKnow` (what a handler
knows at each place) with the types and the two properties of the replies, which
alone are not inductive since they speak of finished requests only.  The argument
has two halves: `OthersUntouched` and `OthersKeep` (a step of another request
leaves this one's locals alone and marks it if it changed the acknowledgement)
and `OwnStep` (a step of the request itself).

The other modules assume of the constants only what the modules they extend
state: finite sets of requests, rules and clusters, bounds that are natural numbers,
and a positive default page size.

`BackgroundProofs`, about the groups (both goroutines of the background have their
theorems there, which is why the names of `Groups` differ from those of `ContentCache`).
`GroupsTypeCorrect` carries two more invariants: `UpdaterConsistent` (the flag and
the error of the updater are set together) and `RequestConsistent` (a request
cannot hold the flag of a poll that is still to come).  `GroupsKept` is inductive
with the types; `ReceivesConsistent` needs both, since the flag and the value are
received in two steps and compared in a third.

`RequestPipelineProofs`, for any set of concurrent requests.  `ForwardedAllowed`
rests on what each step behind a request has established: `Identified` (after
authentication), `Admitted` (after authorisation, with the page of permissions
that granted it) and `Sending` (after the modifiers).  `Answered` rests on
`Unanswered` (nothing is written before the end, a badly decoded rating excepted),
`SharedMap` (an access to the map is recorded while it lasts) and `LostExplained`.

`ReportProofs`.  `Typed`, `Places` and `Responses` say, for each place, which
endpoint and locals it stands for and what may have been written; `RespondsOnce`
follows.  `ShownExact` goes by the turns of the loop of `filterRulesInResponse`:
a turn processes one rule (`TurnProcessesOne`) and shows, hides or drops it as one
content in place during the request says (`TurnOutcome`).  `CountCorrect` counts:
`Counting` keeps the two counters within the number of rules that may enter them
(`Countable`), each rule of a report being there once.

`RequestStoreProofs`.  `StoreHistory` puts the keys present between those held
throughout and those ever seen, so it bounds what any one command can find.
`Collected`, `ListProgress`, `PostProgress` and `FilterProgress` carry this along the
SCAN calls, the commands of the pipeline and the rules of a report; `OwnPlaces` and
`SoFar` say which lists are still empty and what has been written.  The assumption
that `BadRule` is no rule (`RequestStoreAssumption`) says that an ID that does not
parse is not one of those that do.

`ListViewsProofs`.  `ContentKnown`: each read of the content sees one of the
storages in place since the request began.  `SeveritiesRead` is what the first
read of the cluster view leaves for the second, `ToFilter` what the loop of the
recommendations has still to look at; `NoSuccess` and `FailuresAnswered` follow the
responses of handlers that go on after an error.

`AmsClientProofs`, for every configured page size.  `Complete` is the heart of
`ListExact`: a cluster that matched throughout and was not moved is in the list, on
the part of the page not looked at yet, or behind the offset of the next page.
An insertion only moves subscriptions back (`Inserted`); a removal moves forward
those behind it, which `moved` records if it is before the offset (`Removed`).  The
lemmas `PageItems` and `Offsets` say what a page holds and that pages leave no gap,
which needs the page size to be positive (`PageSizePositive`, from the default of
`NewAMSClientWithTransport`).  `Matched` and `Unique` give the rest; `Unmanaged` carries
what `CheckManaged` saw of the first entry to `OwnClusterAnswered`.

`DetailViewsProofs`.  Ten endpoints share their steps, so `OwnPlaces` says which view
can be at which place and `Unset` which locals have no value there; `ContentKnown`
is as in `ListViewsProofs`.  On these rest four arguments:

* `FailuresSeen`: until a handler ends, either nothing has been written and only
  what the view does without has failed, or an error is what was written first
  (`SoFar`).  The lemma `SentBy` follows: a plain 200 is written by one of
  four steps, with nothing before it.
* `ListsExact`: the content that called the rule one for managed clusters is one of
  the request (`OsdKnown`), and the hits are on clusters that were asked about
  (`HitsWithin`), which is only lost if all were (`AsksAboutAll`), so the two lists can be compared when they are made; updates
  of the content afterwards only add to what it said at some time.
* `ContentComplete`: `Allowed` and `ListRead` from the step that reads the content
  to the response, over the reads of groups, rating and acknowledgements; `Filled`
  for the loop over a namespace, where each rule that hits is filled in or to come.
* `CountsExact`: each of the seven ways into a loop starts it with exactly the enabled
  hits, or with an error written (`ToCount`), and one turn counts its hit if it
  must be counted and only if it may be (`OneTurn`), since what was there
  throughout is there when it is looked up (`StableNow`).  An update in between
  makes less due and nothing uncountable (`LessDue`).

Each of these invariants was checked with TLC on a small instance before it was
proved.

Only model-checked:

* the liveness properties (`RequestsEnd`, `ContentRefreshed`, `RequestsAnswered`,
  `ListingEnds`) and whatever else needs fairness, which are out of the prover's
  reach;
* the five violations, which are counterexamples by nature.

## Findings

Five runs show seven disagreements between the code and what it says of itself
(`findings` in `PROJECT.json` quotes the lines):

* `content_timeout`: timeouts that ignore the arrival of the content.
* `report_comments`: a count that includes rules without content
  (`server/server.go:1073`), where the comment says it leaves them out; and, if the
  acknowledged rules cannot be read, a return without a response
  (`server/server.go:889`), below the comment that the error has been handled.  The
  client sees an empty 200.
* `list_views_omitted`: a list that fails with the last of its rules.
* `detail_comments`: without a list of AMS the detail view shows a cluster on which the
  rule is disabled as enabled (`server/handlers_v2.go:1243`); and the overview for
  given clusters has the same return without a response
  (`server/handlers_v1.go:304`).
* `rbac_paginated`: pages of permissions that are never read.

Where a passing run meets the same path, its property says exactly which case is
excepted (`CountBounded`, `OneResponse`, `DetailListsExact`, `FailuresAnswered`), so that
it cannot spread unnoticed.

The models also show the following, each an ordinary behaviour of a passing run
and allowed by its properties:

* A getter may read the empty storage after the check that the directory is there,
  because the directory is set before the content is loaded
  (`content/content.go:437`).
* While the updater of the groups is not at its select, a request gets an empty list
  without an error (`server/server.go:1243`), although the comment at line 1227 speaks
  of the latest valid configuration.
* POST and PUT of an acknowledgement answer 201 or 200 with empty fields if a
  concurrent request deleted it before the re-read (`server/acks_handlers.go:237`,
  `332`).
* The namespace endpoint calls a nil AMS client if there is none and the fallback to
  the aggregator is configured (`server/handlers_v2.go:1747`); nothing in the repository
  says what it should do then.
* A list of clusters may lack one if a subscription before it ceases to match while
  the pages are read (`amsclient/amsclient.go:279`).
* A list of requests may name one twice, since SCAN may repeat a key
  (`services/redis.go:142`).

One more was met while reading: `get_disabled` with a value that is not a boolean is
answered with 500, since `handleServerError` does not know the error of
`strconv.ParseBool`.

## Not modelled

* Parsing of rule content: what `content/parsing.go` computes for one rule is
  sequential and has no state; that it happens, and when, is `LoadRuleContent` in
  `ContentCache`.
* Configuration, metrics, logging and the start of the service: sequential, or
  nothing that the service reads back.  There is no shutdown protocol.
* Endpoints that pass one answer on: the list of acknowledgements, the cluster IDs of
  an organisation, the reports of a list of clusters.
* A rule whose composite ID cannot be built (`content/content.go:112`), whose empty ID
  `GetExternalRuleSeverities` would not find: it depends on the spelling of names,
  which are model values here.

In the modelled parts the text of contents, messages and timestamps is abstracted
away, and a panic of a handler on a body the aggregator never sends is not
considered.
