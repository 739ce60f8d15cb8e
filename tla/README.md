# s3s5 in TLA+

s3s5 carries TCP connections through an object store.  A client accepts SOCKS5
connections, a server dials the targets, and the two exchange nothing but
objects in a bucket: an open request and its verdict, numbered data objects, a
cumulative ACK object per direction and a close marker per side.  There are no
locks and no notifications; everything is polled.  This directory models the
tunnel (`internal/tunnel`), checks it with TLC and proves its central
invariants with TLAPS.

## The system

| Component | Where | State | Operations |
|---|---|---|---|
| stream, one direction | `tunnel.go` `streamToStore`, `waitWindow`, `streamFromStore` | sequence numbers, cached ACK, byte counters, misses, idle deadline; data, ACK and close objects | read, PUT data, GET ACK, sleep, PUT close; GET data, write, PUT ACK, HEAD close, idle check |
| session join | `HandleSOCKS` 140-161, `handleSession` 252-274 | first error, results collected, shared context | run two goroutines, collect, cancel, half-close |
| opening, server loop | `HandleSOCKS` 96-139, `Run`, `listOpenKeys`, `handleSession` | open and open-result objects, `inFlight`, semaphore, LIST cursor | PUT open, poll verdict; LIST, claim, start, read, delete, dial, answer |
| object store | `internal/objectstore`, `memory` | key to object map | PUT, GET, HEAD, LIST page, DELETE, DeletePrefix |
| aggregation | `aggregation.go` | read buffer, deadline of the socket | first read, further reads until full, deadline, end or cancellation |
| polling | `activity.go`, `nextDelay` | delay, one-element signal | signal, sleep, wake up, back off |
| SOCKS5 listener and client session | `internal/socks5`, `HandleSOCKS` | connections, reply given or not | accept, negotiate, read the request, call the tunnel, reply once |
| statistics | `stats.go` | atomic counters, slices and maps under a mutex | start, open, reject, finish, first data, snapshot |
| S3 client, latency store, metrics | `internal/objectstore/s3`, `delay`, `internal/metrics` | a call on its way, counters | delay, send, interpret the status, count |
| cleanup and doctor | `objectstore.DeletePrefix`, `cmd/s3s5-doctor` | page being deleted, probe step | LIST and DELETE in rounds; PUT, GET, LIST, DELETE probe |
| policy | `internal/policy`, `dialTarget` | rules | parse, resolve, decide, dial |
| keys, envelopes, settings | `internal/protocol`, `internal/crypto`, `internal/config` | none | name objects, seal and open, validate and default, negotiate |
| benchmark, commands | `internal/perf`, `cmd` | none of their own | measure, parse flags, wire up |
| Android client | `android-client` | a second client in Kotlin, a foreground service | as the Go client; start and stop |

The components meet in the bucket.  The client's sender and the server's
receiver share the objects of direction c2s, the other pair those of s2c; the
two goroutines of one side share a context, a socket and an activity signal;
the server's handlers share `inFlight` and the semaphore with the loop of
`Run`.

What is hard: every store call is a point where the other process may act; a
failed PUT may have taken effect; either process may die and leave its objects
behind; the sender knows the receiver's position only through an old copy of a
lagging ACK; the end of a stream is a separate object from its data; cancelling
a context does not interrupt a socket read.  `PROJECT.json` lists these hazards
at their lines.

## Modules

* `MailboxStore` - the bucket as a function: PUT, GET, HEAD of one key.
* `Stream` - one direction.  `snd` and `rcv` hold the locals of `streamToStore`
  and `streamFromStore` and where each is; `data`, `ack` and `close` are the
  objects; `src` and `dst` record what the two sockets gave and got; `sctx` and
  `rctx` say that a context is cancelled.  There is one action per store call,
  socket call and wake-up, and one for the failure of each:

  | Action | Code |
  |---|---|
  | `SndReadData`, `SndReadEnd` | `aggregator.Read` and the limit test, 388-398 |
  | `SndGetAck`, `SndWake`, `SndSleepCancelled` | the loop of `waitWindow`, 514-529 |
  | `SndPut`, `SndClose` | 399-414 and `putClose`, 415-421 |
  | `RcvGetHit`, `RcvOverLimit`, `RcvGetMiss` | 446-456, 476-481 |
  | `RcvWrite`, `RcvPutAck` | 457-474 |
  | `RcvHead`, `RcvCheck`, `RcvWake` | 482-499 |
  | `Expire`, `CancelSender`, `CancelReceiver` | time and the session that owns the goroutine |

* `Pipe` - what a direction promises: a bounded FIFO that may be closed and
  whose end is reported only after that.  It does not promise that everything
  written is delivered before the end, because the code does not (see
  `stream_close_race`).
* `StreamProofs` - the theorems about `Stream`.
* `Session` - two instances of `Stream` and the join loop of each side.
  Cancelling the client stops the sender of c2s and the receiver of s2c; a dead
  process takes no step.
* `SessionProofs` - each direction of a session is a `Stream`, and how the two
  sides of a session return.
* `Server` - opening of sessions: clients, the listing loop, slots, `inFlight`,
  handlers, crash and restart.  The streams are one state that ends.  The DELETE
  of an open object may be lost (`DeletesOpen`), since `handleSession` ignores
  its error, or take effect late (`LateDelete`); `lost` counts these per session.
* `ServerProofs` - the theorems about `Server`.
* `Aggregator` - one `Aggregator.Read` after the other: `sock` is the socket
  (bytes arrived and read, how it ends, its read deadline), `agg` the locals of
  `Read`.  One action per socket read (`FirstRead`, `MoreRead`) and per look at
  the context (`MoreCancelled`); the peer, the clock and the cancellation are
  the environment.  `Stream` keeps of it that a read returns a chunk within the
  limit, the end, or both one after the other.
* `Polling`, `PollingProofs` - the receiver's delay, its sleep in units of time
  and the channel with room for one signal, written by both goroutines of a side
  (`notifyActivity`, `sleepOrActivity`, `nextDelay`).
* `Stats` - every recording method is an atomic addition followed by a section
  under the mutex; a snapshot copies the slices under the mutex and then loads
  the counters one by one.  All of these are steps of their own.
* `SocksClient`, `SocksProofs` - extends `Stats`: the listener, `handleConn`
  with its reply callback, and `HandleSOCKS` with every way to return.  Here a
  session is what its calls return; what they do in the bucket is in `Server`
  and `Stream`.  The server of a session shares the statistics, as in the
  benchmark, and reports first data at any time.
* `S3Client` - a call goes through the latency store, the request, the service,
  the status and the outcome that the metrics count, with a step for each.  A
  caller may give up in between; a request that was given up may still be
  handled later.  The service is external.
* `Cleanup` - extends `S3Client`: `DeletePrefix` against a tunnel that goes on
  writing and deleting, and the doctor's probe against `DeletePrefix`.
* `Policy` - rules as they are written and parsed, the engine's decision about
  the addresses one resolution returned, and the dial that tries them in turn.
  The resolver is external and may answer differently each time.  Addresses are
  atoms and a network is a set of them, so two spellings of one address (an IPv4
  address mapped into IPv6) are not told apart.
* `Keys` - names as sequences of segments: how they are built, cleaned, escaped
  into a URL, matched by a LIST prefix and read back by the metrics; its theorem
  is in `CodecProofs`.
* `Codec`, `CodecProofs` - every PUT and GET of the tunnel and the doctor with
  the name it uses and the context it gives to the codec (`OpenPut` ... `ProbePut`,
  `OpenGet` ... `ProbeGet`), what an object is bound to (`associatedData` and the
  derived key), which part of an envelope may have been changed and what
  `OpenData` and `openJSON` make of it, and the layout checks of a data envelope
  with the width of its length field and of `int`.  Encryption is symbolic.
* `Settings`, `SettingsProofs` - `Finalize`, `normalizeConfig`, `withDefaults`,
  the negotiation of the chunk size, and the provider presets of the commands
  and of the S3 client.
* `ComponentProofs` - the theorems about `Policy`, `Aggregator` and `Cleanup`.
* `AndroidService` - one life of the foreground service: the main thread, the
  coroutines of each start and stop, the listener's socket.
* `MCStream`, `MCSession`, `MCServer`, `MCSessionFaults`, `MCComponents` - small
  instances for TLC.  The last two hold components that do not interact: the
  first state picks a topic and only the components of the topic move.

Every module names the mutated variants of its actions (`... Mutant: ...`) just
before the action; they are used only to show that the properties can fail.

### Abstractions

Data: a chunk is a value with a length; what the codec does to it is identity
or an error (`RcvGetFails`).  A write to the socket that fails half-way counts
as the whole chunk or nothing.  Time: a sleep may end at any moment, and the
idle deadline is a flag that the environment sets and a delivered chunk resets;
the backoff only paces the loops.  In `Server`, a request is valid, invalid
(decodable but refused) or garbled (not decodable); `EffectiveSendChunkSize`
cannot fail after `ValidateChunkSize` succeeded, so that error path is not a
separate step.  `isClosedConn` looks at the text of an error, so any error that
comes from the socket or the store may be one it ignores (`Heard`).  Of a slice
of durations only its length is kept, of a SOCKS message whether it can be read
and what it asks for, of a status what `s3.go` makes of it.  A call that was
given up is in one of two states: the service has handled it or not yet.

## Runs

| Run | Shows |
|---|---|
| `stream_faults` | order, window, ACK, marker, byte limits and the refinement of `Pipe`, with every fault; the receiver ends after the sender, whatever ended it |
| `stream_window` | no deadlock in flow control and every chunk arrives, with the ACK interval equal to the window |
| `session_faults` | sessions whose every call may fail: a clean return accounts for both halves; with two connections, a snapshot and late reports of the server, each session is counted once, nothing of it is remembered, its request is answered once, and a snapshot shows no sample of an event that it does not count |
| `session_ends` | half-close in any order cuts nothing and ends both handlers; a client that dies before closing its half ends the server's handler, if the target closes when it is half-closed |
| `server_faults` | slots and `inFlight` are exact, a target is dialled at most once more than DELETEs of its request were lost and verdicts are honest, with three sessions on two slots, stale pages, a lost or late DELETE and crashes between any two steps |
| `server_live` | every decodable request is taken, with undecodable ones in front of it and one lost DELETE, and every waiting client is answered, however long it takes (client deadlines are off) |
| `components` | aggregation neither loses nor reorders a byte, reports its end truly and flushes what arrived; no activity signal is lost and none spins; `DeletePrefix` ends and leaves nothing that was there throughout, and the doctor's verdict is true, with failing and late calls; only permitted addresses are dialled; names can be read back; each read opens what was written for it and nothing else, and envelopes are sliced within bounds; effective settings are sound and presets agree |

Five runs show where the code does not do what its documents say:

* `stream_close_race` - the receiver misses a GET, the sender writes its last
  data and its close marker, the HEAD finds the marker and the data is lost.
* `session_expires` - the wait for the window has no deadline.
* `server_lost_delete` - the error of the DELETE of an open object is ignored, so
  that the request is taken again and its target dialled a second time
  (`optimization-v1.md:320`).
* `prefix_escaping` - `objectURL` escapes a key twice and LIST sends the prefix
  as it is, so with a prefix like `my app` the server never finds a request.
* `android_stop` - a stop during a start does not see the listener that is about
  to be recorded, and the port stays bound.

### Known disagreements without a run

* The ACK interval is derived from the receiver's own window: one more than
  twice the sender's makes both wait until the idle timeout.
* A cancelled server handler stays in its socket read as long as the target is
  quiet, so it keeps its slot; `FairSessionSpec` therefore assumes that a local
  peer closes its half after it was half-closed.
* An open object that cannot be decoded is never deleted and handled again in
  every round (`optimization-v1.md:295-299` and `:317` ask for its
  removal).
* `OpenData` never reads the flags byte, and the header is not part of the
  associated data, so a data object whose flags were changed still opens, where
  `optimization-v1.md:744` lists "tampered header" among what is to be refused;
  a JSON envelope opens with any layout and with further fields.
  `ObjectsBoundToSlot` says that nothing else can be changed.
* A call of the doctor that fails makes `runDoctor` return at once and leaves the
  probe's object in the bucket; `DoctorHonest` is about a reported success.
* Every 404 is read as a missing object (`s3.go:140`), also that of a missing
  bucket.
* A prefix with a segment `v1` makes the metrics misread the class of a call;
  `KeysReadBack` excludes it.  A prefix with empty or dotted segments is cleaned
  in keys but not in the argument of `--cleanup-prefix`.
* The benchmark reports an active poll duration of 0 where the tunnel takes
  500 ms for it, and `waitForSessions` (`perf.go:513`) may see the counters of a
  session before its duration, as `Stats` shows.

### Bounds

`MaxChunks` is larger than the window in every stream run, so that the window
fills, empties and fills again; two misses before a HEAD let data arrive in
between; limits of 5 and 4 bytes with chunks of 1 and 2 bytes hit the limits
exactly and beyond.  Sessions use one or two chunks per direction with a window
of one, which is enough to have a sender wait for an ACK.  The server runs have
more sessions than slots and more keys than fit on a page, one restart and one
lost DELETE, of the first session (`MaxLost` bounds them by session, and
`Requests` says what each client may write; the proofs hold for all of them).

A chunk of 3 bytes in a stream of 5 is cut short by every cause and leaves a
rest.  Delays from 1 to 3 units double once and are capped once, and 4 signals
allow two before, in and after a sleep.  `DeletePrefix` sees 3 keys on pages of
one, two changes by the tunnel and one fault, so that a page changes between
LIST and DELETE and a given-up call takes effect after a later one.  Two
connections with one snapshot interleave every pair of atomic steps.  Settings,
rules and object lengths are the values on both sides of each boundary in the
code; the widths of the length field and of `int` are scaled down together
(512 and 1048576 for the half of a 32-bit and a 64-bit word).

### Fairness

`Fairness` of `Stream` and `ProgramFairness` of `Session` say that a goroutine
that can run does, that writes to a socket return and that time passes.
Nothing is assumed of reads: a socket may stay silent for ever.  Store errors
are not excluded by fairness.  `FairSessionSpec` adds that a local peer closes
its half after it was half-closed, because a cancelled handler does not leave a
blocked socket read.  `ServerFairness` says that the loop and the handlers run, that a
dead server is started again (`Restart=on-failure` in `packaging/systemd`), that sessions end, and
that a client polls until its deadline.  `AggFairness` says that the goroutine runs
and that a read deadline passes, nothing of the peer.  `CleanupFairness` says
that `DeletePrefix` runs and that the service handles and answers its calls; it
says nothing of the tunnel.

## Proofs

The safety properties of `Stream` are not inductive.  `StreamInv` adds where
the sender's buffer stands relative to what it has counted (`SenderInv`), that
the bucket holds exactly the counted chunks, one more only after a failed PUT
that ended the sender (`StoreInv`), and that the receiver's position, ACK and
socket agree (`ReceiverInv`).  `StreamProofs` shows that `StreamInv` holds
initially and is kept by every action, and derives from it, for every chunk
set, window, limit and fault set allowed by the module's assumptions: type
correctness, `DeliveredInOrder`, `WindowBound`, `AckSound`, `CloseAfterData`,
`NoWindowDeadlock`, `ObjectsMoveForward` and the refinement of `Pipe`.

`LimitsRespected` speaks of sums.  `LimitInv` says that `snd.sent` and
`rcv.received` are the sums of the chunks moved so far (`TotalBytes`), that the
test made when a chunk was read still holds while it waits for the window, and
that a sender that failed for its limit holds a chunk that does not fit; the
window, the faults and the other side do not matter to it.  What a recursive
function computes is shown without an induction rule: a set of naturals that is
not empty has a least element (`LeastNatural`, from `WFMin`), so there is a least
prefix of a sequence for which the sum is not defined or two sums differ, and the
definition refutes it (`TotalsExist`, `TotalsAgree`).  From this come the two
facts the steps need: a sum grows by the next chunk (`TotalStep`) and does not
depend on what is appended behind it (`TotalOfAppend`).

`SessionProofs` shows that every step of a session is, for each direction, a
step of `Stream` or invisible to it, so these results carry over (the steps are
written as those of `Stream`, so this shows only that the join loops cancel a
direction as its owner may).  A second part
is about how a session ends.  `CleanReturn` relates a join loop to objects that
two other goroutines wrote, so `SessionInv` ties them together step by step: a
running sender has put exactly the chunks it counts, and one that returned nil
has put all it read and an end-of-file marker (`SenderOf`); a receiver that
returned nil has seen the other marker (`ReceiverOf`); and a join loop that knows
of no error has only taken nil results (`Joined`).  For `NoCancelWithoutFault` it
adds that without faults a sender fails only under a cancelled context, and the
context is cancelled only after the receiver of the same side has timed out
(`CalmSide`).  The facts about one direction are restated within the session,
because the prover cannot use a theorem of an instantiated module.

`ServerProofs` has two parts.  `ServerInv` (type, `SlotsAccounted`,
`InFlightExact` and `RunInv`, which says that the loop only ever waits for a
slot on behalf of a session without a handler) is inductive whatever fails; a
handler that leaves moves from the busy sessions to `exiting` and keeps its
slot until `HndFreesSlot`.  `HandshakeInv` follows each request.  Its core is a
count, `Attempts`: the dials made, one more while the open object is there to be
taken or its handler is about to delete it, one more while the handler is about
to dial.  A request starts with one attempt, only a lost DELETE adds one, and a
refusal has used one up; so `DialsAccounted` and `VerdictHonest` hold for every
set of sessions, page size, number of slots, restarts and lost DELETEs.  That a
target is dialled at most once is the case without a lost DELETE, and false
otherwise (`server_lost_delete`); likewise a client that was refused may see its
request dialled after all, but only after a lost DELETE.

`SocksProofs` is about any finite number of connections (`StatsAssumption`).
The number of goroutines between counting a start and counting an end is a
cardinality, so the proof first shows what a step of one connection may do
(`Effect`: the others are left alone, one counter moves and the connection
enters or leaves the counted ones, the maps grow only for a session on its way)
and then that each such effect keeps the counts, the maps and the replies.
`ReplyOf` ties what was replied to where the goroutine is; `MapsInv` says that
an observed direction belongs to a session whose start is known, which is why a
late report of the server is dropped.  `SessionsAccounted`, `NothingRemembered`
and `OneReply` follow.  `SnapshotCoversSamples` needs one more invariant,
`CoverInv`: in every slice, the samples and the goroutines that have counted
their event and not yet appended its duration together are at most the events
counted; and what a running snapshot has copied is covered by the counters it
has loaded, or by the current ones where it has still to load (`Seen`), since
counters only grow.

`PollingProofs` strengthens `SignalsCountOnce` by the reason for it: a signal
that the receiver has not seen is in the channel, so that a sleep does not go on.
It holds for all delays with `0 < PollMin <= PollMax` and any number of signals.

`SettingsProofs` has no steps to follow: it shows for all integers that
`withDefaults` makes settings runnable, that the negotiated size is within both
limits, that what `Finalize` accepts is kept, and that a preset applied twice is
the preset applied once.

`CodecProofs` shows for all sessions and sequence numbers that each call names
its object after its context (`CallsAreConsistent`), that the associated data
tells two contexts apart (`AssociatedDataInjective`) and that each read has a
write by the other end with the same name and context (`EveryReadHasAWrite`),
hence `ObjectsBoundToSlot`; and that `SlicesInBounds` holds for every width of
`int` of at least the header, every object length and every length field.  Its second
half is about `Keys`.  `Clean` folds over the segments of a path; by the least
counterexample, as above, a cleaning exists, depends on the segments cleaned so
far only, and keeps ordinary segments at the end of a path as they are
(`CleanOrdinary`), so that a key is the cleaned prefix followed by the protocol's
parts (`KeyIs`), whatever the prefix has of empty segments, `.` and `..`.
`KeysReadBack` follows for prefixes of every length: `open` and `open-result` differ
in the segment behind `v1` (`OpenListed`), and the first `v1` that the metrics meet
is the protocol's (`SeenAfterV1`).  The prover does not look into strings;
`NameAssumption` says of the names made of a session or a sequence number that
they are ordinary segments and that a session can be read back from its name, and
TLC evaluates it on the instances.

`ComponentProofs` holds three independent inductions.

* `PolicyInv` carries through the dial what each stage has established: the
  engine holds the parsed form of well-formed rules (`Built`), the addresses are
  those of one answer (`Resolved`), and the decision was about exactly these
  addresses.  `ParsedMatches` shows that a parsed rule matches what the written
  one covers, for every form, port and name, and `DialledIsPermitted` follows for
  all rule sets, targets and answers.
* `AggInv` says that the deadline is on the socket only while a chunk is being
  gathered, so that a first read never times out; that this chunk has room; that
  returned and gathered bytes are those read; and that an end is noted only
  behind the last byte that arrived.  `AggregationLossless` and
  `ReadReportsTruly` follow for every chunk size and stream.
* `CleanupInv` has three parts.  `RequestInv`: callers write under the prefix and
  only the doctor writes its own key.  `CleanInv`: an empty page on its way to
  `DeletePrefix` means that nothing stale was left when it was listed; an empty
  page of a nonempty bucket is impossible because a set of numbers has a least
  one (`EmptyPage`), and what is stale only shrinks.  `DoctorInv`: a PUT of the
  doctor that may still arrive has failed the probe, so that nothing can follow
  its successful DELETE.  `CleanupComplete` and `DoctorHonest` follow for all
  keys, page sizes, rounds, failures and writers, provided that the three callers
  are different goroutines (`CleanupAssumption`).

`LimitInv`, `SessionInv`, `HandshakeInv`, `CoverInv`, `PolicyInv`, `AggInv` and `CleanupInv` were
checked by TLC on the instances of the runs before they were proved.

Only model-checked: everything about fairness (`EveryChunkArrives`,
`ReceiverEnds`, `GracefulEnd`, `CrashEndsSession`, `EveryRequestTaken`,
`EveryClientAnswered`, `ArrivedIsFlushed`, `CleanupEnds`), which is out of the
prover's reach.  Every other property of the passing runs is a theorem.

## Plan

1. Done: `Stream`, `Pipe`, `Session`, `Server` and their proofs.
2. Done: the rest of the tunnel and what surrounds it - `Aggregator`, `Polling`,
   `Stats`, `SocksClient`, `S3Client`, `Cleanup`, `Policy`, `Keys`, `Codec`,
   `Settings`, `AndroidService` - with proofs about `SocksClient`, `Polling`,
   `Settings` and `Codec`.
3. Done: proofs of every other safety property that the passing runs check -
   the end of a session, byte limits, snapshots, egress policy, aggregation,
   names, `DeletePrefix` and the doctor.
4. The Android tunnel against `Stream`: its coroutines are cancelled by
   exceptions where the Go code looks at a context.

## Not modelled

Request signing, HTTP and XML of the S3 client, and the ciphers are I/O and
library code.  The benchmark harness (`internal/perf`, `cmd/s3s5-perf`) drives
the tunnel that is modelled, measures and renders reports; only its defaults
matter to the tunnel and are in `Settings`.  Flag parsing and wiring in `cmd`
fill fields.  The byte and call counters of the statistics and metrics are
single additions that no code reads back.  The Android user interface is layout;
the Android tunnel, SOCKS5, protocol, crypto and store are counterparts of the Go
packages that meet the server in the same objects, of which only the listener's
start and stop are modelled, with the service.
