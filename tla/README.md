# TLA+ models of DockerHub-Development-Stacks

The repository holds the Dockerfiles of some ninety images for s390x, and the
sources of a few programs that run in them. This directory models the programs
that have control worth checking: **watchtower**, which acts on running systems
without anybody looking, the **MEAN.JS** web application, and the
**visualizer** of Docker swarms. Paths below are relative to
`src/`; line numbers are in `PROJECT.json` under `map`.

Contents: [inventory](#inventory) · [structure](#structure) · [modules](#modules) ·
[runs](#runs) · [fairness](#fairness) · [proofs](#proofs) ·
[findings](#findings) · [limits](#limits)

## Inventory

| component | state | operations | hard behaviour | what makes it correct |
|---|---|---|---|---|
| **watchtower plan** `clefos/watchtower/container/sort.go`, `actions/update.go:106` | `unvisited`, `marked`, `sorted`, Stale flags | `Sort`, `visit`, `removeUnvisited`, `checkDependencies` | recursion while the list shrinks; circles; a single pass that relies on an order | dependencies first; a circle is reported exactly if there is one; every dependent of a stale container is stale |
| **watchtower client** `container/client.go` | the container and its name, in the daemon | `StopContainer`, `waitForStop`, `StartContainer` | the container, the timer and the daemon's own removal race the calls; calls fail before or after they take effect | nil means gone; every failure has a cause; no network lost; force only after the grace |
| **watchtower process** `main.go` | `tryLockSem`, `interrupt`, cron | ticks, signals, shutdown | overlapping ticks, a signal during an update, errors and panics | one update at a time; the process leaves between updates; the lock is never lost |
| **watchtower on a host** `actions/update.go`, `actions/check.go` | containers, images, instances | `Update`, `CheckPrereqs` | linked containers, one step of many failing, an instance that replaces itself, two instances that start together | what is down is about to be restarted or reported; dependents stop first; all end up on the newest image; one instance is left |
| **watchtower configuration** `container/container.go`, `util.go`, `trust.go` | none | option arithmetic, credentials | none | the new container gets the options of the old one |
| **MEAN.JS accounts** `clefos/meanjs/files/modules/users` | users and tokens in MongoDB, sessions, `Authentication.user` of every page | sign-up, sign-in, OAuth, forgot and reset, profile, administration | every handler is read, callback, save, and requests interleave over stale copies | a save changes what it is about and nothing else; a deleted account stays deleted; a used token is spent; every request is answered unless the process ends |
| **MEAN.JS pages, policies, articles** `modules/core/client/app`, `modules/articles` | session, page, articles | guarded views, middleware, handlers | authorised on a copy that was loaded earlier; roles and accounts change meanwhile; the tabs of a browser share a session, which every request writes back when it ends | an article is written for its author or an admin only |
| **MEAN.JS chat** `config/lib/socket.io.js`, `modules/chat`, `modules/core/client/services/socket.io.client.service.js` | sockets, messages on their way | handshake, messages, views that come and go | the user of a socket is as old as its handshake and may not be the page's; connections break | messages bear the name of who sent them; all see one order |
| **MEAN.JS start and seeds** `config/config.js`, `config/lib` | users, announced passwords | configure, connect, seed, listen | a chain of promises that goes on while requests are served; the process ends anywhere | announced passwords work; no account but the seeds is touched; seeding ends |
| **MEAN.JS scripts** `scripts/reset-password.js`, `gulpfile.js`, `gruntfile.js` | none that lasts | mails; build tasks | one object for all mails | the right mail to the right user |
| **compose-ui** `clefos/compose-ui/files` | `projects`, environment, directory of projects | REST handlers in threads | all of it is shared without a lock | a request acts on one project and one host |
| **visualizer** `clefos/docker-swarm-visualizer/files` | one tree of nodes and tasks, the page | overlapping polls of three requests | answers out of order and inconsistent with each other; exceptions half way | the page comes to show the swarm and goes on showing it |
| **spark-ui-proxy** `clefos`, `suse` | none | forward a request | none | |
| **entry points** `mariadb`, `wordpress`, `rabbitmq` | files on a volume | first-run initialisation | a crash between two steps | the next start finishes it |
| **builds and CI** `Jenkinsfile`, `buildall.sh` | images | sequential shell | failures of `make` are not looked at | |

In watchtower the parts interact by calls: `main.go` calls `CheckPrereqs` once
and `Update` on every tick; `Update` calls the client for every container and
the sorter once; the client calls the Docker daemon. They share no memory but
`tryLockSem`. All other sharing is on the host: names of containers, names of
images, and the other watchtower containers.

MEAN.JS is a browser application and a Node server. Pages and server interact
by HTTP requests and by Socket.io; requests share the collection of users and
the store of sessions in MongoDB, sockets share only the broadcast. The seeds
write the same collection while the first requests are served. The visualizer
is a page, a proxy without state, and the Docker API. compose-ui and the
entry points are separate programs.

`PROJECT.json` lists every component with its status, and under `hazards`, at
its line, each behaviour of this code that is hard to test.

## Structure

What acts unattended and destroys containers came first, then what many users
share.

1. **watchtower**: `UpdatePlan` against the abstract `TopologicalOrder`;
   `ContainerClient`; `WatchtowerScheduler`; `Watchtower`, which composes the
   plan, the client's contract and the process on a host.
2. **MEAN.JS**: `Accounts` (documents, requests and stale copies), `Site`
   (which composes pages, sessions, articles and chat over the accounts'
   existence and roles only), `Startup` (process, seeds and requests). The three
   share no variables: `Site` needs of an account only whether it is there and
   its roles, `Startup` only its name, address and password.
3. **visualizer**: `Visualizer`.

What could come next: watchtower's promise about containers that are not watched
(README.md:103 of watchtower), which is a hazard without a property;
the first-run scripts of the entry points, with a volume that survives a crash.

## Modules

| module | models |
|---|---|
| `LinkGraph` | links between containers: dependencies, circles, dependency orders, the closure under dependents. Operators, no state |
| `TopologicalOrder` | abstract: what the comment above `SortByDependencies` promises |
| `UpdatePlan` | `Sort`, `visit`, `removeUnvisited`, `checkDependencies` |
| `MCUpdatePlan` | the lists and links for TLC |
| `UpdatePlan_proof` | theorems on `UpdatePlan`, and its refinement of `TopologicalOrder` |
| `ContainerClient` | `StopContainer` and `StartContainer` on one container, one step per API call |
| `ContainerClient_proof` | theorems on `ContainerClient` |
| `WatchtowerScheduler` | `start` of `main.go`: the main goroutine, those of cron, the channels, signals |
| `WatchtowerScheduler_proof` | theorems on `WatchtowerScheduler` |
| `Watchtower` | a host: containers, images, several instances; `Update` and `CheckPrereqs`, one step per call of the `Client` interface |
| `MCWatchtower` | command lines and link graphs for TLC |
| `Watchtower_proof` | theorems on `Watchtower` |
| `Accounts` | the users collection of MEAN.JS and the requests about accounts, one step per callback |
| `MCAccounts` | three accounts, two OAuth profiles and two browsers for TLC |
| `Accounts_proof` | theorems on `Accounts` |
| `Site` | MEAN.JS as visitors use it: views, sign-in, articles with their policy, chat |
| `MCSite` | an admin, a user, two articles, and two tabs of one browser for TLC |
| `Site_proof` | theorems on `Site` |
| `Startup` | the start of the MEAN.JS server and the promise chain of its seeds |
| `MCStartup` | the seeds, a visitor and the environments for TLC |
| `Startup_proof` | theorems on `Startup` |
| `Visualizer` | the polls of the swarm visualizer, the structure they update, what is drawn |
| `MCVisualizer` | two nodes, a service and two polls for TLC |
| `Visualizer_proof` | theorems on `Visualizer` |

Definitions introduced by a comment that begins with *Mutant* are not part of
any model: each is a variant of the definition after it, of the kind a slip in
the code would make, kept to show that a property notices.

**UpdatePlan.** The Go call stack of `visit` is `stack`; a frame is the
container and the index of its next link. `Visit` enters a frame, `SkipLink`
passes a link that `findUnvisited` does not find, `Leave` is the end of
`visit`, `CircularReference` unwinds the whole stack with the error. `stale`
is the set of containers with the Stale flag, `cursor` the loop index of
`checkDependencies`. In the abstract specification any container whose
dependencies are in order may be next; the variable mapping is `order <- sorted`
and the outcome read off `pc`.

**ContainerClient.** `slot` is who has the name, the old container or the new
one, and in which state. `Call` gives each API call its three outcomes: done,
failed without effect, failed after it took effect (a lost reply). The container
may exit at any time, the daemon reaps an AutoRemove container some time after
its exit, the timer of `waitForStop` fires at any time. `StopContainer` is
followed by `StartContainer` whatever it returned, as in `Update`.

**WatchtowerScheduler.** `Job` is the set of goroutines that cron may have at
the same time. `TryLock` and `Skip` are the two arms of the `select`, `Release`
the deferred function, which runs after an error and after a panic. A signal
before `signal.Notify` kills the process; after it, the channel keeps one.

**Watchtower.** `proc[i]` is the local state of instance `i`: what it still has
to stop and to start and what `ListContainers` told about it, so that actions
use what was true when they listed. `box` and `wt` are the containers in the
daemon. Within an update: `Plan` (list, pull, compare, sort, mark), `Stop` per
container in reverse order (`PassOver` for an instance of watchtower), then `Rename` (watchtower only), `Start`
or `StartInstance`, `CleanUp` per container in order, `UpdateReturns`. An
instance begins with `CheckPrereqs`, `Purge` per older instance and
`PurgeReturns`. `StartInstance` makes the new instance run at once, while the
old one goes on with its loop. `Purge` has 60 *nanoseconds* of grace, because
`StopContainer` is given the untyped constant 60 as a `time.Duration`: an
instance at rest dies of the signal, one that updates is removed by force. At
most, `waitForStop` inspects once and sleeps a second before it sees the timer;
what the old instance does in that second is the same as if it had done it just
before `Purge`.

Three abstractions of `Watchtower` matter:

* *Plan is one step.* It reads the list of running containers first and changes
  nothing but the images the host has. What happens between the list and the
  first stop, such as a crash, is seen by the steps that follow, because they
  compare the identity of the container with the one listed. Pushes to
  different images commute with the pulls. A push to an image that two
  containers share, between the two pulls, is not covered.
* *An image is a version number under a name.* A container remembers the
  version it was created from; version 0 of a name means the host has none.
* *Some failures are merged.* A failed call of the client has one of the
  outcomes that `ContainerClient` shows for it: after a failed `StopContainer` the
  container runs, is stopped, or is gone; after a failed `StartContainer` it
  does not exist, is created and not started, or runs.

**Accounts.** Node runs one callback at a time, so a request is a record in
`reqs` whose `pc` says which call it waits for: `query` (a find), `name` (the
search for a free user name), `upload`, `save`, `remove`, `mail`, `answer`. `doc` is
the document the handler read, `changes` its modified fields; `Save` writes those
into the account of now, because mongoose sends the modified fields only and
updates nothing if the account is gone. `page[b]` is `Authentication.user`
of the page in browser `b`, which the profile form sends back whole, but for what
JSON leaves out (`Absent`). Each call has its own way to fail: `QueryFails`,
`NameFails` (which saves an account without a name, and is refused for it),
`UploadFails`, `SaveFails`, `SaveRefused` (the unique indexes, a name that is
required, another `_id`), `LoginFails`, and a mail that is not sent. `Throw` is an
exception in a callback outside of any request's stack, which ends the process: `changeProfilePicture`
when the form has no file, `forgot` when `randomBytes` fails. The requests under way
are then `lost`, and the server is started again. Abstractions:

* The hour of a reset token is the step `Expire`. A validator that refuses
  a document, mongoose's version check on arrays of roles and a database that
  fails are one step, `SaveFails`.
* The confirmation mail after a reset changes nothing and is left out.
* A page is loaded anew only where nobody is signed in to it; a reload elsewhere gives
  a fresher copy of the account, while the older copies are the hard case.
* A password is the number of the request that set it, hashed or plain. An account
  without a password has `''`, which no form sends, so that `Authenticates` refuses it.
* A browser has one page here, and its session changes with sign-ins and sign-outs
  only. That requests write it back, and that tabs share it, is in `Site`.

**Site.** Three copies of "who is signed in" are separate variables: `session[b]`
in the database, one for all tabs of browser `b`; `page[t].user` in the page of tab
`t`; `socket[t].user` on the server. `Handshake` reads the first into the third.
`call[t]` is the request a tab has under way: sent, received (`Receive` reads the
session's user and roles), perhaps at its save, answered. `Load` is `articleByID` and the policy,
`Save` the handler's write. Every request ends with `Respond`, which writes the session
back as the request knows it (`resave`, express.js:112), over what other tabs have made
of it meanwhile: a late request can undo a sign-out or a sign-in.
`socket[t].up` and `down` are what is on its way, `shown` what the chat view
has. What the model does on purpose:

* Visitors are always sent to `forbidden`, never to the sign-in page: the user of
  their page is `null`, whose `typeof` is `object`, so that the other branch of
  init.js:30 is dead.
* ui-router destroys the old view before it makes the new one, so that a
  controller's `removeListener` never takes the listener of its successor.
* The button that removes an article is offered to everybody; the server is to
  decide.
* A refused socket stays dead, as the client library does not try again after an error of
  the handshake.
* `astray` marks a page whose name and whose socket's may differ, and the messages the
  server names for it meanwhile. It comes astray by a 401, which takes the user out of
  the page and leaves it the socket, or when its session becomes another user's, by a
  sign-in in whichever tab or by a late request (`Become`, `Answer`). It is so until the tab loads a page
  again. The code has no such flag.
* A page load, a sign-out with the page load that follows, and a handshake are one step each: two
  sign-ins or write-backs between the reads of one of them are not covered. Pages open
  at the home page. Each tab has one request under way at a time, one that an
  earlier page of the tab sent included; a browser has as many as it has tabs.
* Static files do not touch the session: express serves them before it is set up.

**Startup.** `seeding.pc` is the promise that is to be settled, `todo` the seeds
left. `Configure` is config.js and app.js up to the call of `mongoose.connect`;
`SeedDB` may start the seeding then. Mongoose buffers what the models ask for, so
that all steps but the first wait for `pc = "listening"`. An account is in the
database (`SaveUser`) before its callback runs and the log announces the password
(`ReportSuccess`): requests may come in between, and the process may end. `Exit` ends
it anywhere; the database and the log stay. `announced` is the last password the
log has announced for each name, which a start outside production makes void.
`changed` has the passwords of accounts that a request has changed, renamed or deleted
since, and is there for the property only.

**Visualizer.** `polls[p]` collects the three answers of a poll, each of the swarm
at its own time. `UpdateNodes` and `WithTasks` are the two halves of
`updateData`; a task that cannot be placed throws in the second half
(`ReloadThrows`) with any of the placeable tasks before it. `starting` is the
poll of `DataProvider.start()`, whose answer replaces the structure. `swarm` is
the environment. An answer with an error is an object without a length and reads as
an empty list; a server that is not reached never answers. Tasks are taken to have
a `ContainerStatus` and a service.

## Runs

| run | asks | bounds | states |
|---|---|---|---|
| `plan` | is the sort a topological sort, is one pass enough, does it end | every list of up to 3 containers, every choice of up to 2 links each, links to absent containers and to itself included | 838,000 |
| `client` | what holds of the replacement of one container, with failing calls | up to 2 networks, 2 failing calls, AutoRemove or not, host network or not | 975 |
| `autoremove` | does the wait for removal wait (it does not) | no failing call | - |
| `scheduler` | do updates exclude each other, does the shutdown wait | 3 goroutines of cron | 967 |
| `update` | what an update leaves behind | 3 containers in a chain, in two forks, in a circle, two of them with the same image; 1 watchtower; 2 versions of each image; 1 failure or crash anywhere | 141,000 |
| `instances` | is one watchtower left | 3 instances, one launched by hand; 2 versions; 2 failures; cleanup or not | 160,000 |
| `selfupdate` | does an update survive the replacement of watchtower itself (it does not) | 1 container, 2 instances, no failure | - |
| `accounts` | what do interleaved requests do to accounts, and is every one answered | 2 requests of any of 13 kinds and a reset, 2 at a time; 3 ids, 2 OAuth profiles, 2 browsers | 206,000 |
| `site` | do stale copies of the user let anyone write or speak under another name, or reorder the chat | 2 tabs of one browser, 2 users, 2 articles; 5 of the views (`Visited`); 5 steps of users or of fate, any number of the server | 3,576,000 |
| `startup` | what does seeding do to accounts and passwords | 3 starts, 3 requests, 3 environments | 382,000 |
| `seedagain` | are existing seeds kept (they are not) | as `startup` | - |
| `visualizer` | does the page come to show the swarm | 2 overlapping polls, 2 nodes, 1 service with 1 task; 2 changes or failed requests | 480,000 |

*Why the bounds are enough to be interesting.* Three containers are the least
for a chain in which staleness has to pass through a middle one, and for a
circle that the walk enters from outside; two links let one container be
reached twice. Two failures in `client` allow a lost reply followed by another
error. One fault in `update` can be any of: a failed list, pull,
inspection, stop, rename, start or cleanup, or a crash; the properties relate
it to what happens to the *other* containers. Two versions give
one push per image; more pushes repeat the same update. Three instances are the
least where a purge meets an instance that itself purges, and where a
replacement meets one launched by hand.
In `accounts`, two requests at a time are the least for a stale copy, and a
third, which is a reset, lets a token be used after a request that may have
written it back; the newcomer has an OAuth profile whose name and address are those of
the user, so that the unique indexes and `findUniqueUsername` are at work. In
`site`, five steps suffice to sign out in one tab, or lose the session, and sign in as
somebody else with a page of the former user still open in the other, which then
connects and speaks; and for two sign-ins in a browser that nobody was signed in to, of which one comes
back late and takes the session from under the page of the other. `Visited` has the views a
user has to visit to chat, to sign in, to write articles (which leads on to viewing and
removing them) and to send a request that may come back with a 401 or write the session
back late; the mutants show that the violations are within reach. The two tabs are
interchangeable, and the properties are invariants and an action property, so that symmetry is
sound. Longer ways astray, other views and more browsers are what the theorems on
`Site` are for. In
`startup`, three starts allow two crashes during the seeding and a start that
meets what they left; `NODE_ENV` belongs to the container and stays the same. In `visualizer`, two polls are
the least for answers out of order, and two events let a node leave and come back.
`MaxVersion`, `MaxFaults`, `NumRequests`, `MaxInFlight`, `MaxSteps`,
`MaxStarts`, `MaxRequests` and `MaxEvents` bound counters that have no bound
in reality.

*What the properties say.* For the plan: `SortedDependenciesFirst`,
`PlanIsClosure`, `ImplementsTopologicalOrder`, `PlanEnds`. For the client:
`StopNilMeansGone`, `FailureHasCause`, `StartedOnAllNetworks`,
`GraceBeforeForce`, `ClientReturns`. For the process: `OneUpdateAtATime`,
`ExitsBetweenUpdates`, `LockAccountedFor`, `ShutdownCompletes`,
`TicksComplete`. For a host: `DownIsReported`, `StopsDependentsFirst`,
`FailuresFollowLinks`, `EventuallyUpToDate`, `SomeWatchtowerRuns`,
`EventuallyOneWatchtower`. For accounts: `OwnedFields`, `DeletedStaysDeleted`,
`LinksKept`, `UsedTokenIsSpent`, `RequestsAreAnswered`. For the site:
`OnlyAuthorOrAdmin`, `SpeaksAsPageUser`, `SameOrder`. For the start:
`AnnouncedPasswordWorks`, `SeedsReplaceThemselves`, `SeedingEnds`. For the
visualizer: `FailsOnlyOnNews`, `EventuallyAccurate`. The comment above each says it in words and names
the code it is about. Some have a condition that is a fact about the code and
not a convenience: `StopNilMeansGone` excludes an AutoRemove container with a
failing inspection, because the code reads any error as good news;
`FailureHasCause` leaves the container that exited by itself just before the
kill, because the code returns early and leaves it with the name. `LinksKept`
excuses a request that read the account before the link was there, and
`UsedTokenIsSpent` a profile form that wrote the token back, because the code
prevents neither; `SpeaksAsPageUser` excuses pages that came astray, and
`RequestsAreAnswered` requests that an exception nobody catches has taken along.
`AnnouncedPasswordWorks` excuses passwords that a request has changed since they were saved.

*What they do not say.* `DownIsReported` excuses a container that ended by itself,
which nobody logs; `SomeWatchtowerRuns` excuses for good a host where an instance has exited
by itself; `EventuallyOneWatchtower` is about behaviours without a failing call.
`LinksKept` excuses the loss of a link to a request that read the account before,
and to the profile form, so that two joins at the same time may still lose one.
`UsedTokenIsSpent` is about resets that come after a saved one: two that both found
the account both go through, and it does not say that a mailed link works.
`OnlyAuthorOrAdmin` is about who writes, not about an article that is removed between
the load and the save. `EventuallyAccurate` lets the page show an older state until the next
poll is back.

`CHECK_DEADLOCK FALSE` is given where the modelled thing ends: a plan is made,
a container is replaced, a process exits, all pushes are used up and no
instance runs any more; all requests of `Accounts`, all steps of `Site`, all
starts of `Startup` are used up.

## Fairness

* `UpdatePlan`: the code runs, `WF_vars(Next)`; it is a single goroutine.
* `ContainerClient`: weak fairness of the client's step (a running goroutine)
  with calls that do not fail by themselves, so that no failure is needed for
  it to go on, of the timer (`time.After` fires) and of the daemon's removal. *None* for the
  exit of the container: a container may ignore the signal for ever.
* `WatchtowerScheduler`: weak fairness of the main goroutine and of every
  goroutine of cron; none of ticks and signals. That an update returns is what
  `ClientReturns` shows for its longest calls. `cron.Entries` (main.go:145) is
  assumed to return; the library is not part of the repository.
* `Accounts`: weak fairness of the callbacks of all requests together,
  `WF_vars(\E r \in Requests : Return(r))`: the event loop goes on as long as some call
  returns. That is less than the fairness of every request, and enough, because requests and
  their calls are finitely many. *None* of the failures (`Fail`), which may come or not, on
  any path: a path that did not answer would show. None of browsers.
* `Startup`: weak fairness of `Configure`, of `mongoose.connect` calling back with a
  connection or an error, and of the seeding's steps; none of starts, requests or
  the end of the process.
* `Visualizer`: weak fairness of each poll, because the timer goes on and requests
  that are answered are answered some time; none of the swarm, of errors and of
  requests without an answer, which `MaxEvents` bounds.
* `Site` states no liveness and no fairness.
* `Watchtower`: weak fairness of every instance's next step, because cron ticks
  for ever and calls return; none of pushes, crashes and launches. Faults are
  bounded by `MaxFaults`, so that liveness is about what happens after the last
  one.

## Proofs

TLC's runs are about three goroutines, three containers and two networks. The
theorems are about any number.

`WatchtowerScheduler_proof`, for every set `Job`, without assumptions:
`TypeCorrect`, `NoOverlap` (`OneUpdateAtATime`), `LockKept`
(`LockAccountedFor`), `GracefulExit` (`ExitsBetweenUpdates`). That no two
goroutines update is not inductive: it needs to be known where the value of the
channel is. The inductive invariant `LockInv` says that it is in one of three
places, in the channel, with exactly one goroutine between `TryLock` and
`Release`, or with the shutdown, and that before cron starts every goroutine is
idle. `LockInvariant` proves it, one step per action; the rest follow.

`UpdatePlan_proof`, for every set of names, any lists without duplicates and
any links (`ListsAssumption`, `LinksAssumption`): `TypeCorrect`,
`SortIsTopological` (`SortedDependenciesFirst`), `OnePassSuffices`
(`PlanIsClosure`), `WalkImplementsOrder`
(`Spec => ImplementsTopologicalOrder`). The inductive
invariant is `PlanInv`:

* `Partition`: sorted and unvisited containers are disjoint, without
  duplicates, and together all of the list;
* `OnStack`: the marked containers are those on the stack, each once, and
  unvisited;
* `Called`: each frame links to the frame above it, so that meeting a marked
  container closes a circle;
* `Passed`: every link that a frame has passed is absent or sorted, so that a
  frame that ends has all its dependencies sorted;
* `SortedDependenciesFirst`, `Phases` (what is empty in which phase);
* `Settled`: no container before the cursor has a stale dependency and is not
  stale itself, and every set that holds the containers found stale and is
  closed under dependents holds all stale ones. Because dependencies come first
  the first half is final for what the cursor has passed, which is why one pass
  suffices; the second half says that nothing is stopped without need.

The refinement maps `Leave` to the emission of a container, the end of
the loop to success, and `CircularReference` to refusal, which the abstract
specification allows only if the links have a circle: the stack from the marked
container up is the witness. Every other step stutters.

`ContainerClient_proof`, for every `MaxNetworks`, `MaxFaults` and `AutoRemoves`
(`BoundsAssumption`, `AutoRemovesAssumption`): `TypeCorrect`, `NilMeansGone`
(`StopNilMeansGone`), `FailuresExplained` (`FailureHasCause`), `NoNetworkLost`
(`StartedOnAllNetworks`), `GraceFirst` (`GraceBeforeForce`). None of the
properties is inductive: each depends on what the client did some calls ago.
The inductive invariant `ClientInv` says who may have the name at each call
(`OldBeforeNew`, `GoneOnceRemoved`), what the client finds if no call failed
(`AsExpected`), that a removal of a running container comes after the timer or a
failure (`GraceGiven`), and how far the networks are (`Attaching`). One lemma per
part, one step per action.

`Watchtower_proof`, for any containers, instances, command lines, links and bounds
(`InstanceAssumption`, `AppAssumption`, `LinksAssumption`, `BoundsAssumption`):
`TypeCorrect`, `SomeWatchtowerRunsHolds`, `DownIsReportedHolds`,
`DependentsStopFirst` (`StopsDependentsFirst`) and `FailuresFollow`
(`FailuresFollowLinks`).

*`SomeWatchtowerRuns`.* An instance stops the older ones
of a list it made some steps ago; by then others may have exited, been stopped
or been started, and another instance may be at work on a list of its own, on which
the youngest of this list may be. `PurgeInv` says that each instance on
a list has a younger one that runs or has exited (`YoungerThere`). When that one is
removed, it was itself on a list, and the younger one it has takes its place. That
the youngest of a list exists at all is a least upper bound (`MaxFacts`), from the
well-foundedness of the numbers.

*The other three* are not true of every host: the run `selfupdate` shows the first
one violated, when a new instance ends an older one in the middle of its update. So
each theorem names what it needs. `NoneCutShort`: no instance is ended while it
has containers to start. `OneAtATime`: while an instance updates, no other does
or is about to; this is what `CheckPrereqs` is for, and what an instance launched by
hand breaks until it has stopped the older ones. A second form of each theorem, with
the name ending in `Alone`, has neither hypothesis: for a host with one watchtower
(`Instance = {1}`, as in the run `update`) both are proved, and the property
follows from `Spec` alone.

* `DownIsReportedHolds` needs `NoneCutShort` only; updates may overlap.
  `DownInv`: what is down has failed, or is in the rest of the list of some update.
* `DependentsStopFirst` needs `OneAtATime`. `UpdateInv` describes an update under
  way (`Good`): its lists have no duplicates and are in the order of the links
  (`Ordered`, from `StaleClosure` and `DependencyOrders`); who watches a container
  that is still to be stopped comes before it (`WatchedBefore`); what is still to be
  started is as it was listed, until it is stopped, and gone after that, unless an
  error was logged (`AsListed`).
* `FailuresFollow` needs both. It adds to `Good` that there is an image to start
  from (`HasImage`), unless a pull failed or `--cleanup` took it, and which
  containers are cleaned up after (`Cleans`). That a stale container has an image
  rests on `NoPullInv`: with `--no-pull` nothing ever becomes stale.

Two mistakes of an earlier version came out in these proofs: the property
denied that `--cleanup` can take an image from under a container that shares it with
a failed one, so that its start fails although no link joins the two, which TLC
finds as soon as two containers have one image (`SharedImage`); and the stop loop
had skipped watchtower's containers in the plan instead of one by one.

`Site_proof`, for any users, browsers, tabs, articles and bound of steps
(`SiteAssumption`, `VisitedAssumption`): `TypeCorrect`, `OnlyAuthorOrAdminHolds`,
`SpeaksAsPageUserHolds`, `SameOrderHolds`. `OnlyAuthorOrAdmin` is a property of one step, but that
step relies on what the policy saw an earlier step: `WriteInv` says
that a request at its save has an article that is there, and a user who is its
author or had the role of an admin. It holds because an article never changes its author,
also while roles and accounts change. `SpeaksAsPageUser` speaks of messages on
their way to pages; `VoiceInv` relates the page and the socket of each tab to the
session it shares with other tabs: unless it is astray, a page with a user has
the session of that user, or one that is over, and its open socket is that user's.
Whatever tab changes the session, each other tab is still right about it or is astray
(`BecomeFacts`): this is where a sign-in elsewhere and a late request come in, and why
a sign-out does not.
`SameOrder` compares what two pages show. Its invariant counts what is on its way
to a page as coming after what the page shows (`Comes`), and says that no two
sockets have two messages in opposite orders (`OrderInv`). It is kept because a
message goes on all queues in one step, and because until then nobody knows its number and
no other message has it (`FreshInv`).

`Startup_proof`, for any names, addresses, environments and bounds
(`StartupAssumption`): `AnnouncedPasswordWorksHolds`,
`SeedsReplaceThemselvesHolds`. The inductive invariant `IInv` adds `TodoInv`:
which seeds are left, that they are the admin alone in production, and that
elsewhere no password is announced for a seed that is still to be done; without
the last part the removal of a seeded user could void an announced password. `ReportInv`
says that between the save and the announcement the password works or is in `changed`.

`Accounts_proof`, for any ids, browsers, profiles and requests under way
(`AccountsAssumption`, `DocumentsAssumption`): `DeletedStaysDeletedHolds`, from
`GoneInv` (no id that was deleted is in the collection): a save inserts only
under a fresh id, and updates only accounts that are there.
`OwnedFieldsHolds` and `LinksKeptHolds` are about the moment of the save, but
what is written was put together some calls before. `WriteInv` follows it
there: documents have the fields of the schema; every document a request works
on and every page that knows an id is a copy, possibly stale, of an account
that is or was there (`CopyOf`), and agrees with the account in the identity,
which no save writes; what a request is about to save (`Modifies`) are only
fields it is about, and of the joined providers at most the one it joins or
removes. That page copies belong to the invariant is because the profile form
sends the whole page back: only since a page with another account's id is
refused by MongoDB, and one without an id has no identity either, can nobody get
another identity.

`UsedTokenIsSpentHolds`: a token is cleared with the reset it was used for, but
by then pages, documents that were read and other requests may have it too, and
any of them may be saved later. `TokenInv` follows the token: it is *out* (`Drawn`) from the
save of the request that drew it; whatever holds a token that is out holds it for one and
the same account (`HoldInv`, which counts accounts, pages, documents, changes
about to be saved and the reset at its save); so a reset that is saved takes the
token from the only account that has it (`Spent`), and nothing gives it back but the
profile form, which sends the token of the page. The assumption is that tokens are drawn at random:
no two accounts have the same (`DocumentsAssumption`; request r draws token r).
`TypeCorrect` follows passwords and the other fields in the same way: what is about
to be saved has passwords as they were typed (`ChangesFit`), everything that was
read has none or a hash (`Fits`), and no form sends the password field back, so that `pre('save')` hashes once.

`Visualizer_proof`, for any nodes, services, tasks and polls: `TypeCorrect`,
from `TypeInv` (what is kept, what is drawn and the answers under way are well
formed, and the tasks of a node are tasks of that node), and
`FailsOnlyOnNewsHolds`: a node's `Spec` comes back unchanged only because
`updateNodes` writes back what the answer says, so that a poll throws only on
nodes that are new to it.

*Left to TLC:* all liveness (`PlanEnds`, `ClientReturns`, `ShutdownCompletes`,
`TicksComplete`, `EventuallyUpToDate`, `EventuallyOneWatchtower`,
`RequestsAreAnswered`, `SeedingEnds`, `EventuallyAccurate`), which needs
fairness and ENABLED; and that a circle is *always* reported, which is `PlanEnds`
with the refinement. Every invariant and action property of the passing runs is
proved, three of `Watchtower` under the hypotheses named above.

## Findings

* **selfupdate.** When one update replaces an application and watchtower
  itself, the new watchtower removes the old one by force (60 nanoseconds of
  grace, `actions/check.go:26`) between its stop loop and the end of its
  restart loop. The application is gone, nothing was logged, and no later
  update restarts it, because only running containers are listed.
* **autoremove.** "Wait for container to be removed" (`container/client.go:114`)
  does not: `waitForStop` is satisfied with a container that does not run, so
  that an AutoRemove container is reported as "could not be removed" while the
  daemon is about to remove it, and the new one is created under a name that
  may still be taken.
* **seedagain.** "If one of the user already exists, it will display an error
  message on the console" (`clefos/meanjs/README.md:122`). Outside production the
  code removes the account first and makes a new one (`config/lib/seed.js:87`);
  an error is displayed only for the admin in production.

Two more things the models show and no line of the repository contradicts: a
profile form may write back an address, a link or even a reset token that was used
since the page was opened, or, when the session of its browser has gone over to
another account since, the provider; and two first logins with one OAuth profile may
make two accounts.

## Limits

Not modelled in watchtower: the parsing of the command line; the contents of
configurations (`runtimeConfig`, `hostConfig`), with the panic that a missing
map of exposed ports would cause in the restart loop (the scheduler's view of a
panic is modelled); `ByCreated.Less` on dates that do not parse; credentials;
images built on the host, without which `--no-pull` finds nothing
stale (the runs do not use that option); an instance without the label `com.centurylinklabs.watchtower`, by which
watchtower recognises its own containers and which the Dockerfile here does not
set, so that it has to be given to `docker run`; a restart of a watchtower container by hand, after which the last one *created*
is not the last one *started*; containers that share an image with a push in
between. That links from containers that are not
named on the command line are not followed is modelled, and listed as a hazard; no
property claims what the README of watchtower promises there.

The end of the watchtower process itself in the middle of an update, by a kill or a
restart of the host, is not modelled on the host: the scheduler covers signals, which
let an update finish, and `selfupdate` the removal of one instance by another.

In `Site`, the write-back of a page load's own session is merged with its read (see
above). In `Startup`, that the account is saved and the database reports an error all the same
is not covered, and neither is a log that is switched off.

Not modelled in MEAN.JS: `scripts/reset-password.js`, which changes no account;
the tasks of gulp and grunt; middleware set-up, menus and templates;
the checks of config.js that only warn (domain, secret, certificates); the
lists and reads of the administration.

## Not modelled

* **compose-ui.** `main.py` imports `scripts.git_repo` and `scripts.find_files`,
  which the repository does not have: the server as it is ends before it
  serves a request. Its browser client is a thin view of that server.
* **Entry points** (mariadb, wordpress, rabbitmq). Short shell scripts whose
  effects are those of programs that are not in the repository; their crash hazards are
  listed in `PROJECT.json`.
* **spark-ui-proxy**, Dockerfiles, Jenkinsfiles, `buildall.sh`: no state that
  several actors share.
* **`vis-logical` and `stack-header`** of the visualizer: main.js does not
  import them.
* Demo and vendored files are not this repository's logic.
