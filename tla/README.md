# wumbosd: specification and proofs

TLA+ models of wumbosd and of its release manager, the TLC instances that
check them, and TLAPS proofs about them. Line numbers refer to the files of
the repository.

## The system

wumbosd is a per-user daemon. Programs on the session bus publish *attention
events*, or send freedesktop notifications that become attention events; local
clients of a Unix socket list the events, receive new ones live, dismiss them
and invoke the actions of notifications. `wumbosdctl` installs the daemon.

| Component | State | Operations | Hard behaviour | What makes it correct |
|---|---|---|---|---|
| Event store, `attention.rs` | queue of at most 128 events, `next_id` | publish, dismiss, clear, recent | silent eviction, identifiers run out | ordered, bounded window; no identifier is used twice |
| Broadcast channel (tokio), owned by `attention.rs` | per receiver: up to 16 updates | send, recv | a slow receiver loses the oldest updates | a loss is noticed before the next update |
| Attention D-Bus service, `attention.rs` | none of its own | Publish, Dismiss, Clear, Recent and three signals | state change and signal are separated by an await | signals leave in the order of the changes |
| Notification store and service, `notification.rs` | active notifications, `next_id` | Notify, CloseNotification, active_for_event, invoke | identifiers chosen by clients; replaced notifications | one notification per event; no takeover by a fresh identifier |
| Input normalization, `notification.rs` | none | NotificationInput::new | truncation at byte limits | every input becomes a valid event |
| Client session, `socket.rs` serve_client | receiver, read buffer | six requests, live delivery, write | `select!` between requests and updates; blocking writes; lag | what a client was sent adds up to the store |
| Frame cutting, `socket.rs` | pending bytes | newline search, size limit | partial reads, exact limits | same frames however the bytes arrive |
| Listener, `socket.rs` | socket file, accept task | bind or activation, accept, shutdown | stale sockets, two daemons, failed accept | one daemon owns the socket |
| Startup and shutdown, `main.rs` | names and objects on the bus | run | name before objects, signals | served as soon as reachable |
| Foundation service, errors, `service.rs`, `error.rs` | none | constant answers | none | |
| `wumbosdctl` lifecycle | releases, links, trust anchor, `state.json`, unit files | install, update, rollback, status | a failure between any two durable writes; files edited by others | links never dangle, releases are immutable, foreign files are kept |
| `wumbosdctl` verification | none | manifest, signature, payload | order of the checks | nothing unverified is materialized |
| Release and test scripts, unit files | none | | | |

Interactions. Both D-Bus services and all sessions share one `AttentionState`,
the notification service and the sessions one `NotificationState`, each behind
a lock that is never held across an await. A change of the attention state is
sent on the broadcast channel while the lock is held; every session has a
receiver of its own, subscribed at accept. D-Bus signals are emitted after the
lock is released, over one connection that writes one message at a time. The
runtime has one thread (`main.rs:33`): a task runs undisturbed from one await
to the next, and these are the steps of the model.

## Modules

| Module | Models | Uses |
|---|---|---|
| `AttentionStore` | `EventStore` | |
| `NotificationStore` | `NotificationStore`, `NotificationState` | extends `AttentionStore`: Notify publishes |
| `Broadcast` | the receiving side of `tokio::sync::broadcast`, from its use | |
| `AttentionFeed` | abstract: what docs/ATTENTION_API.md promises those who follow the events | |
| `ReleaseSwitch` | abstract: what docs/PORTABLE_DISTRIBUTION.md promises about the active release and the one to fall back to | |
| `Daemon` | both D-Bus services, the connection, the sessions and their clients | extends the stores and the channel; instantiates `AttentionFeed` twice, for the socket clients and for the D-Bus connection |
| `Framing` | how `serve_client` cuts frames out of what it reads | |
| `Normalize` | `NotificationInput::new` against `validate_publish` | |
| `Endpoint` | daemon processes, the bus name, the socket path, the socket unit | |
| `Lifecycle` | `wumbosdctl` install, update, rollback | instantiates `ReleaseSwitch` |
| `StoreProofs`, `DaemonProofs`, `SignalProofs`, `MirrorProofs`, `FramingProofs`, `NormalizeProofs`, `EndpointProofs`, `LifecycleProofs` | the proofs | |
| `MCDaemon`, `MCInput`, `MCLifecycle` | values for TLC; `MCInput` holds `Framing` and `Normalize` | |

How they fit together: `Framing` shows which frames a session handles, `Daemon`
takes those as whole requests. `Normalize` shows that a call of Notify always
gives an event that the store accepts, and `NotificationStore` relies on it.
`Endpoint` treats a daemon as a process that does or does not serve, `Daemon`
is what such a process does for the sessions it has accepted.

### Daemon

An event is its identifier: no other field decides anything in these
components. `events`, `nextId` are the fields of `EventStore`; `nNext`,
`active` those of `NotificationStore`. `session[c]` is the task that serves
client `c`: `pc` says at which await it is, `queue` and `lagged` are its
receiver, `inq` what the client has sent, `unread` what it has not read.
`bus` holds the signals in the order in which their emitters queue for the
lock of the D-Bus connection.

One action is one stretch between two awaits. A D-Bus method changes the
store, broadcasts and queues its signal in one step; `Flush` writes the
signal. A session in `run` is in `select!`: `Handle...` takes one frame and
changes the state it asks for, `Recv` takes one update and builds the frame,
looking up actions at that moment; both go on to `write`, where `WriteFrame`
waits for room. `HandleAction` checks, `EmitAction` queues ActionInvoked,
and the reply is written when `Flush` has sent it. `RecvLagged`, `HandleBad`,
`HandleEof`, `WriteFails`, `EmitFails` end a session. `BusLost` makes every
emit fail.

Ghost variables and fields: `evicted`, `announced`, and in a session `acting`
(the event whose action was accepted and is about to be signalled) and `view`,
`since`, `live`, `shown`: what the frames add up to for a client that applies
a snapshot by replacing its list, an event by adding it, a removal by deleting
it. `since` is where that list claims to be complete from: the next event
for a fresh connection, the oldest event of a snapshot that was cut off by
its limit, 1 for a snapshot that was not.

### Framing

`pending` is the buffer of the same name (`socket.rs:385`). `ReadBytes` is a
`read` that returned something, `ReadEof` one that returned nothing. In stage
"cut" the loop over complete lines runs: `CutFrame` drains a line and handles
it, `CutEnds` meets one that is too long or no valid frame and ends the
session, `CutRest` finds no newline left and applies the limit to the rest
(`socket.rs:394` to `:411`, `:512`). `Fits` is the limit, used for both. Which
payloads are valid frames is the parameter `Accepted`. The ghosts `arrived` and
`handled` are everything that was read and where in it the handled frames end;
the reference `Acceptable` looks at `arrived` alone.

### Normalize

A text is the sequence of the widths of its characters in bytes, since where
it may be cut and how long it is are all that decides. `Offsets` is where its
characters end; `LastBoundary` goes back from the limit to such a boundary and
`Truncate` cuts there, as `truncate_utf8` does; `Source`, `Title`,
`Urgency`, `ParseActions` are the parts of `NotificationInput::new`, and
`PublishAccepts` is `validate_publish`.

### Endpoint

`daemon[d].pc` follows `run` in `main.rs` and `SocketServer` in `socket.rs`
from one await or system call to the next: `RequestName`, `RegisterObjects`,
then `Adopt` for an activated daemon, or `Inspect`, `UnlinkStale`, `Bind` and
`SetMode` for a standalone one, `Accept` while it serves, and `Terminate`,
`AcceptEnded`, `Leave`, `Remove`. `remove_stale_socket` and
`remove_socket_if_present` look at the path and remove by name in two calls,
and these are two steps. `path` is what is at the socket path: a daemon's
socket, the unit's, a stale one, or something else. `owner` has the bus name.
`backlog[l]` are the connections that listener `l` has not accepted; that of
the unit outlives every service. `BusReleases` is the end of the last clone of
the connection: the sessions hold clones, so a daemon that shuts down keeps
its name while a client stays. `Failing` are the disturbances, at most
`MaxFaults` of them: `StartupFails`, `AcceptFails`, `BusLost`, `Crash`,
`Terminate`. `UnitStart`, `UnitStop` and `Start` in mode "systemd" are systemd,
as the unit files ask it to be.

### Lifecycle

Every write that the tool makes atomic is one step: promoting a release,
replacing a link, writing `state.json`, moving one unit file in place, each
call of systemctl. `run` is the run under way and its next step; `Crash` ends
it at any of them, whether by an error or a kill. A command that is refused
before its first write is no step. A release is the digest of its artifact;
two unit files stand for all. `Edit` and `EditActivation` are somebody else at
the targets, `Start` and `Stop` the daemon. Ghosts: `signers` (whose signature
each release came with when it was materialized; `run.signer` carries it from
the verification to the promotion), `undo` (what was active before the last
switch), `lost` (that switch was cut short before `state.json` told of it),
`deployed` (what the tool ever put at a target), `completed`, `run.pinned`,
`run.raced`. No guard reads one of them. `state["current"]` is left out: the
code writes it once and never reads it.

## Runs

The bounds are small numbers in the place of 128 (events), 16 (updates),
u64::MAX, u32::MAX and the limits in bytes. Each is at least large enough that
the boundary it stands for is reached and passed.

| Run | Instance | Shows |
|---|---|---|
| `mirror` | 1 client, capacity 2, 4 events, channel of 2 | `MirrorConverges`, `FeedIntact`, `StoreInv`, `NoResurrection`, types, and `ImplementsFeed` |
| `notify` | 1 client, capacity 2, 3 events, 2 notification identifiers, channel of 2, 2 waiting signals; Notify with and without replaces_id, CloseNotification, snapshots, actions | `SignalsInOrder`, `OneActivePerEvent`, `FreshIdNeverHijacks`, `ActionableOnlyNewest`, `ActionsNeverGoBack`, types, and `ImplementsBusFeed` |
| `fair` | 1 client that keeps sending requests and reading | `UpdatesReachReaders` |
| `input` | frames of at most 3 bytes, reads of at most 4, streams of up to 9 bytes; about 8000 calls of Notify, with characters of 1, 3 and 4 bytes and limits of 4 to 6 | `CutsByLine`, `BufferBounded`, `NormalizedIsPublishable`, `TruncatesOnlyWhatMust` |
| `endpoint` | 2 daemons, 2 clients, 3 disturbances | `OneInstance`, `EndpointRespected`, `ServiceNeverUnlinks`, `NoDeadSocketLeft`, `RestartServes`, `WaitingClientServed` |
| `lifecycle` | 2 versions, 4 artifacts (one malformed, two of one version with different bytes), 2 anchors, 2 targets, 2 crashes, 1 edit | all properties of `Lifecycle`, and `ImplementsSwitch` |
| `socket_removal`, `slow_client`, `stale_action`, `interrupted_update`, `refused_install`, `shutdown_race` | | the findings below |

Why this is enough. With capacity 2 and 4 events the store overflows twice and
its identifiers run out while others are still stored. With a channel of 2 a
receiver lags as soon as three updates wait, and snapshots are taken before,
between and after queued updates. One client is enough where the property
speaks of one session, because sessions share only the stores and D-Bus
callers already remove and publish at any moment; for any number of clients
`MirrorConverges` and `SignalsInOrder` are proved. In `notify` an identifier
can be taken ahead of the search (`replaces_id` 2), the search runs off the
end, and a second signal can queue behind a first. The run makes no
dismissals: that EventRemoved too keeps its place is shown by the theorem.

In `input` nine bytes hold two frames of the full length with their newlines
and the start of a third, a read can bring more than a frame or several, and
lines of 3 and of 4 bytes lie on both sides of the limit. Every text field is
tried empty, absent where it may be, shorter than, exactly at and past its
limit, with the limit inside a character; actions come in up to three pairs and
a half where two pairs are kept. Calls do not depend on earlier calls, so a behaviour makes one.

In `endpoint` two daemons are what it takes for one to come in the way of the
other, two clients what it takes for one to wait behind the other. Three
disturbances are enough for a daemon to be killed, its successor to be stopped
and the bus or the listener to be lost in addition. `shutdown_race` needs one.

Two crashes are the smallest number that cuts both a run of `wumbosdctl` and
the run that repairs it; three values of a target (the old and the new payload,
somebody's own) are all that the checks tell apart. `InCap`, `OutCap`,
`BusCap` bound the requests a client has under way, the frames its socket
buffer holds and the signals that wait.

Deadlock is checked in the runs of `Daemon`. It is not in the others, where
the model may rightly stop: in `input` the stream has ended; in `endpoint` and
`shutdown_race` everybody may be waiting when the disturbances are used up; in
the lifecycle runs an install that is cut between the link and the first
`state.json` leaves a state in which install says "use update" and update and
rollback say there is no release. That is what the code does.

`MirrorConverges` is the central property of the socket: whatever mixture of
snapshots and live updates a client was sent, once the queued updates are
applied it lists every stored event from `since` on, and nothing but stored
and evicted events. Evictions are the only drift: they are not broadcast.

`ActionsNeverGoBack` is what does hold of stale requests, next to the finding
`StaleActionsRejected`: a request may reach a replacement of the notification
it was made from, never one with an older event.

Three refinements. `ImplementsFeed` and `ImplementsBusFeed` are one
abstract feed, `AttentionFeed`, seen by the socket clients and by the D-Bus
connection: every event from the subscription on, once, in order, with no gap,
or the connection ends. `ImplementsSwitch` is about `wumbosdctl`: under the
mapping materialized releases, `current` link, `previous` of `state.json`, and
the release a run has switched away from and not recorded, each step activates
one release that is there, records, or changes nothing of these. A crash
between switch and record (`Lose`) loses the record and nothing else; that it
can be lost at all is the finding `FailureRecoverable`.

### Fairness

`UpdatesReachReaders` and `slow_client` use `ServerFairness`. The connection
and a session that waits for one thing get weak fairness: tokio polls a task
again after its wake-up. `Handle`, `Recv` and `RecvLagged` get strong
fairness: they are branches of a `select!` without `biased`, which starts at a
random branch, so a branch that is ready infinitely often is taken. Each is
disabled while the session writes, therefore weak fairness would not do.
`ReaderFairness` says that the client goes on reading; without it the property
is false, as `slow_client` shows. Nothing is assumed of D-Bus callers and of
what clients send.

`endpoint` assumes of systemd that it starts the service while a connection
waits on the socket and no service runs (`Activate`), and of tokio that a
daemon gets on with its start-up (`StartingUp`), with accepting (`Accept`) and
with its shutdown (`AcceptEnded`, `Leave`, `Remove`): each is one task that
waits for one thing, and weak fairness is enough. Nothing is assumed of
disturbances, of clients (they may stay connected for good), of the socket
unit, or of when the bus takes a name back. `RestartServes` speaks of a daemon
that is left alone and is not disturbed again. `WaitingClientServed` allows
that an accept fails, and promises that who waits is served when the service
it failed in has been stopped; it excludes what the code does not recover from,
such a service that keeps running, and standalone daemons that keep the name.

### Findings

- `RemovalsSignalled`: docs/ATTENTION_API.md says EventRemoved and EventCleared
  are emitted after a dismissal and a clear; one that a socket client asks for
  emits nothing (`socket.rs:452`, `:465`).
- `SlowClientsDisconnected`: docs/SOCKET_API.md says a client that cannot keep
  up is disconnected; one that stops reading blocks its session in
  `write_frame` (`socket.rs:564`), which has no time limit and where the lag is
  never seen.
- `StaleActionsRejected`: docs/NOTIFICATION_INGESTION.md says replaced and
  stale requests are rejected; `invoke` compares the identifier and the key
  only, so a request made from a replaced event is accepted when the
  replacement has the same key.
- `FailureRecoverable`: docs/PORTABLE_DISTRIBUTION.md says a failure after the
  activation is recoverable with rollback; until `state.json` is written
  (`wumbosdctl:875`) it is not: rollback finds no previous release or an older
  one.
- `RefusalChangesNothing`: install pins the trust anchor (`wumbosdctl:752`)
  before the checks whose refusal says that nothing was changed (`:776`).

- `RemovesOnlyItsOwn`: docs/SOCKET_API.md:13 says a standalone daemon "removes
  only that exact socket during normal shutdown"; it removes whatever is at the
  path (`socket.rs:236`), which is the unit's socket when the unit was started
  in between, or that of a daemon started after the name was released.

## Proofs

The theorems hold for every value of the constants that satisfies the named
assumptions of the modules (positive capacities, `None` and `Absent` outside
of what they stand beside, well-formed requests), in particular for the real
128, 16, u64::MAX and u32::MAX, any number of clients, and any number of
crashes and edits; those on `Framing` for every alphabet, frame limit and read
size, those on `Normalize` for texts and lists of any length and all limits
(`NormalizeAssumption`: a limit on a required text has room for any one
character; the real ones are 64 and 256 bytes), those on `Endpoint` for any number of daemons, clients and disturbances.

- Stores (`StoreProofs`). `StoreIInv` is the type
  invariant with `StoreInv`; that what was evicted is older than what is
  stored needs the order of the queue, and the order needs every stored event
  to be below `next_id`. `NotificationIInv` adds that no two entries have one
  event, which Notify keeps because the event it stores is newer than all
  others. `DaemonProofs` shows that every step of the daemon is a step of the
  two stores or leaves them alone (`DaemonImplementsStores`: the daemon, its
  sessions hidden, implements `NotificationSpec`), and takes over
  `StoreWindow`, `NeverResurrected`, `OneActive` and `FreshNeverHijacks`.
- `TypeCorrect`. The type of `session` is not inductive alone: `Flush` sets the
  owner of a signal to `write`, so `BusInv` says that an owner has one signal
  and waits for it.
- `FeedNeverBroken`. `FeedInv` says that what waits for a receiver that has
  not lagged is an unbroken continuation of what was delivered. Every action
  has one of a few effects on a session's feed (nothing, an event added to
  all, a removal added to all, one update delivered, joined, ended), and each
  effect is shown to keep `FeedInv`.
- `DaemonImplementsFeed`: the refinement, under the mapping last issued event,
  connected clients, last live event. A delivery is the next event because
  `FeedInv` says that the head of the queue is.
- `SignalsOrdered` (`SignalProofs`). The property alone is not inductive: that
  a new removal stands behind the addition it concerns needs to know that every
  event published so far is either announced or still queued. `Orderly` says
  this while the connection works, with the order of the queued additions;
  `ActingInv` says that an action that waits to be signalled concerns an event
  that was published.
- `DaemonImplementsBusFeed` (`SignalProofs`): the refinement, under the mapping
  last issued event, connection works, last event announced. That the EventAdded
  to be written next is for the next event follows from `Orderly`: every event
  not yet announced is queued, and those that are queued are in order.
- `MirrorsConverge` (`MirrorProofs`). `Mirrors` says that for a receiver that
  has not lagged, applying its queue to its client's list gives a set between
  the stored events from `since` on and these with the evicted ones, and that
  no queued update takes a stored event away, whatever the list is: so a
  snapshot may replace the list in the middle of the queue. `Moves` classifies
  the steps by what they do to a session and to the store.
- `ShownOnlyNewer` (`MirrorProofs`). `ShownInv`: an event shown as actionable
  is never newer than the event the notification has now. What is shown is
  looked up when the frame is built, and a replacement has a newer event.
- `NeverGoesBack` (`MirrorProofs`). `AskedInv` carries the same bound over to
  the requests that a client has sent and the session has not read: a client
  asks for what it was shown (`ShownInv`), and from then on the notification
  only moves to newer events or closes; one that is opened again under its
  identifier has an event newer than all before.
- Framing (`FramingProofs`). `Cuts` says that what was handled are the lines
  of a prefix of the stream, all acceptable; `Done` is where that prefix ends,
  and `pending` is what follows it. `AtRest` adds, in "read" and "eof", that no
  newline is pending and the rest fits, and, in "ended", that the next line
  does not. The reference, which looks for newlines in the whole stream, is
  related to it by where lines start.
- Normalize (`NormalizeProofs`). The length of a text is a sum over a sequence
  of any length, a recursive function; that the defining equation has a
  solution (`Recursion`) and what it is like (`OffsetsIncrease`,
  `OffsetsOfPrefix`) are shown by induction in the form of a least element of a
  set of numbers (`Induction`), which needs no operator parameter.
  `LastBoundaryIs` is the loop of `truncate_utf8`: it ends, at the last
  boundary up to the limit. `TruncateIs` turns that into the reference, the
  longest run of whole characters within the limit, and from it follow
  `EveryCallIsPublishable` and `OnlyWhatMustIsCut`.
- Endpoint (`EndpointProofs`). `NameInv` says that the bus and the daemons
  agree: a daemon in charge is the owner. `ModeInv` says that an activated
  daemon is at none of the steps that unlink or bind. From the first follow
  `AtMostOneInstance` and `NamedSocketRespected`, from the second
  `UnitSocketKept`; each step is classified by what it does to the path. A
  second layer, `PathInv`, says that a daemon's socket is at the path only while
  that daemon is between its bind and its removal, which only a standalone one
  gets to; with it no refusal and no shutdown can leave the socket dead
  (`OrderlyExitsClean`).
- Lifecycle (`LifecycleProofs`). A first layer `IInv`: types, `ActivationSound`,
  `MaterializedVerified` and `RunInv`, which ties the run to the disk: the
  release a run is about to activate is materialized, from the switch on it is
  the active one, and the signer of the artifact that is about to be promoted is
  the pinned anchor. `ChainOfTrust` and `ReleasesImmutable` use it. A second layer `FullInv`
  says what a run has achieved (`AchievedInv`), what it has to do (`TodoInv`),
  whose the files are (`OwnedInv`: what is recorded was deployed), where
  rollback leads, crashes included (`ReturnInv`), and that nothing precedes the first switch
  (`FirstInv`). From it follow `CompletedRunsConsistent`, `RollbackLeadsBack`
  and `ForeignFilesKept`.
- `ToolImplementsSwitch` (`LifecycleProofs`). The steps of `Lifecycle` are
  mapped one by one to those of `ReleaseSwitch` or to stutters. It needs the
  first layer (what is activated is materialized) and `OldInv`: a run that has
  switched remembers what was active before.

Only model-checked: liveness (`UpdatesReachReaders`, `RestartServes`,
`WaitingClientServed`), since the installed provers do not reason about
fairness and ENABLED. Every other property that a passing run checks is stated
by a theorem. The violated properties have none.

## Not modelled

- `Foundation` service, error texts, release and test scripts: no state that
  an operation changes.
- Text of events and labels, method replies, calls that change nothing. With
  them goes the hazard at `main.rs:60`: a call that the name activated may find
  no object yet, and gets an error from zbus.
- The JSON of a frame: which payloads are valid is the parameter `Accepted`.
- `wumbosdctl`: concurrent runs. There is no lock, and two runs read
  `state.json` before they write it (`:824`): what such runs may leave is not
  promised anywhere. Also the parsing of manifests, signatures and archives,
  temporary files, `status` and `preflight`, which only read, and the D-Bus
  activation file, which is deployed like a unit.
- What a cut run leaves that no document speaks of: an install before its
  first `state.json` (`:780`), an update that is already active when it is
  tried again (`:849`). Both are reached in the lifecycle runs, no property
  judges them.
- The directory of the socket, beyond what is at the path itself, and
  sockets of other programs at the path: `Stale` and `Other` stand for what is
  there before.
- `ServiceNeverUnlinks` allows that a standalone daemon takes the unit's
  socket: the code does that, see `RemovesOnlyItsOwn`.

## Plan

Done, in this order: the stores, the daemon and its feed, because what clients
see is the purpose of the program; the release manager, the only part with
durable state; the proofs of both; what enters a session (`Framing`) and the
store (`Normalize`); processes and their endpoint (`Endpoint`); the proofs of
order, convergence, framing and ownership; the D-Bus side of the feed, the
switch of releases, and what normalization does to texts of any length.

Next:

1. `Framing` as a refinement: the handled frames as the requests of `Daemon`,
   so that a session reads bytes in the composition too.
2. Concurrent runs of `Lifecycle`, once the code says what they may do.
