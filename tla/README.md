# gopush2 in TLA+

This directory specifies and verifies the message push server in `src/` (Go):
clients subscribe to a key over TCP or websocket and are pushed the messages
that other parties publish for that key over HTTP.

## The system

| part | source | state | operations |
|---|---|---|---|
| message | `message.go` | body, expiry, id | `Expired`, `Bytes`, `NewJsonStrMessage` |
| skip list | `skiplist/skiplist.go` | nodes with `forward` pointers, `Level`, `Length` | `Insert`, `Update`, `Delete`, `Equal`, `Greate`, `Next` |
| inner channel | `inner_channel.go` | connections, stored messages, tokens, deadline; one mutex | `SendMsg`, `PushMsg`, `AddConn`, `RemoveConn`, `AddToken`, `AuthToken`, `SetDeadline`, `Timeout`, `Close` |
| channel list | `channel.go` | map from key to channel, one mutex per bucket | `New`, `Get` |
| subscribers | `pubsub_tcp.go`, `pubsub_http.go` | one goroutine per connection | accept, parse, get/create, authenticate, first heartbeat, send stored messages, register, heartbeat loop, unregister, close |
| publishers | `pubsub.go` | one goroutine per request | `PublishHandle` |
| channel requests | `pubsub.go` | one goroutine per request | `ChannelHandle` |
| redis channel | `redis_channel.go` | connections with cursors, write buffers, redis keys | the `Channel` interface |
| consistent hashing | `hash/ketama.go`, `hash/mmhash3.go` | the circle | `Node`, `Sum32` |
| accept loops | `pubsub_tcp.go`, `pubsub_http.go` | pools of readers, the round-robin index | accept, socket options, `Get`, `Put`, `parseCmd` |
| the rest | `config.go`, `main.go`, `stat.go`, `log.go`, `client.go` | settings, counters | start, reports |

How they interact: every handler first asks the channel list for the object of
its key (`Get`, and `New` where a missing channel may be created), under the
mutex of the key's bucket. It keeps the object in a local variable and calls
its methods one by one, each under the object's mutex. `Get` also is the place
where an expired channel is dropped: it takes the object off the list and
calls `Close`, which closes the connections registered at that moment; their
handlers find out when their next read fails. Publishers write to the
subscribers' connections from their own goroutine, inside `PushMsg`.

What is hard: between two calls a handler holds no lock, so all handlers of a
key interleave call by call; the object a handler holds may have been dropped
meanwhile; a subscription has six places to fail and must be unregistered in
exactly the right cases; messages reach a subscriber on two ways (stored and
pushed) that share no cursor; limits are checked at the moment of use; tokens
are single-use; the read deadline of the heartbeat is reset lazily. The inner
channel writes to clients while it holds its mutex, and `Get` may wait for that
mutex while it holds a bucket's. The redis channel keeps messages, tokens and
the online counter in another process: a command may fail, or be carried out
and its answer lost, and the push server may crash between two of them.

What makes the parts correct:

* inner channel: at most `MaxStoredMessage` messages, only expired or oldest
  ones leave; at most `MaxSubscriberPerKey` connections; a token works once;
* channel list: one live object per key, dropped only after its deadline;
* subscribers: registered exactly while served, written every message at most
  once and, but for one window, at least once; closed in the end;
* skip list: an ordered map, also under a walk that deletes behind itself;
* heartbeat: working clients stay, silent ones are found;
* redis channel: one cursor per connection, so that every message is written in
  order, at most once, and none is lost between `SendMsg` and `AddConn`; the
  online counter never too low; a token works once, also when answers are lost;
* consistent hashing: the owner of a key is the next point of the circle, and a
  new node takes keys only for itself;
* mutexes: no circle of waits, and a stalled client holds up its bucket at most;
* accept loops: a reader serves one connection at a time and hands no bytes on.

## Modules

| module | models |
|---|---|
| `Message` | `message.go`: expiry, the outcome of `Bytes(nil)` |
| `Network` | the clients' connections, and the results both channel types share |
| `ChannelContract` | abstract specification of the `Channel` interface (`channel.go`), for both channel types |
| `InnerChannel` | every method of `inner_channel.go` as an action on the object `o`, with the call's result as parameter `err` |
| `ChannelList` | `New` and `Get` of `channel.go` |
| `PushService` | the handlers: `subPC`, `pubPC`, `admPC` say which call a goroutine makes next, `subRef`, `pubRef`, `admRef` hold the object it was given |
| `PushProperties` | what the service promises, and what the comments say |
| `PushInvariant`, `PushProofs`, `PushSafetyProofs` | the inductive invariant, the proof that it holds, and the theorems that rest on it |
| `MCPushService` | symmetry for TLC |
| `OrderedMap` | abstract specification of the store of messages |
| `SkipList`, `MCSkipList`, `SkipListProofs` | `skiplist.go`, level by level; implements `OrderedMap` |
| `Heartbeat`, `MCHeartbeat`, `HeartbeatProofs` | the timer of the heartbeat loop |
| `RedisChannel` | every method of `redis_channel.go`, with redis's sorted set, set of tokens and counter |
| `RedisService` | the handlers as they run over the redis channel: the same code, cut where that channel gives up its mutex |
| `RedisProperties` | what this service promises |
| `RedisInvariant`, `RedisProofs` | its inductive invariant, the lemmas per action, and the theorems |
| `MCRedis` | small ids, the bound on a behaviour's load, symmetry |
| `Ketama`, `MCKetama`, `KetamaProofs` | `hash/ketama.go`: the circle, `searchLeft` round by round, `Node`, against what consistent hashing is |
| `Locking`, `MCLocking`, `LockingProofs` | the bucket mutexes, the inner channels' mutexes, and the writes that may block under one; websocket |
| `Server`, `ServerProofs` | the accept loops, the pools of readers, a connection from accept to close |

`Message`, `Network`, `InnerChannel`, `ChannelList`, `PushService` and
`PushProperties` extend each other in this order; so do `Message`, `Network`,
`RedisChannel`, `RedisService` and `RedisProperties`. A configuration has one of
the two channel types, so they are never composed with each other; what they have
in common is `ChannelContract`, which both services implement. `Locking`
and `Server` look at the same handlers from another side: `Locking` splits the
calls that `PushService` takes in one step at the points where they can wait and
forgets what is stored, `Server` has the part of a connection's life before and
after its handler, which is one state there.

### Correspondence

*Atomicity.* A method of the inner channel runs under the object's mutex from
first to last line, `New` and `Get` under the bucket's mutex, and `Get` calls
`Close` inside; so one call is one step. `SetDeadline` and `Timeout` take no
object mutex, but both are called under the bucket's. A handler's step is one
call, together with the tests on its result up to the next call.

*Messages.* The body is never inspected, so a message is named by its
publication. `MsgID` comes from the publisher and is chosen from `MsgIDs`.
The expiry is the clock plus any amount of `ExpireSec`; the 64-bit arithmetic
that produces the amount is not in these modules. `PublishHandle` reads the clock
for it before it reads the body and calls `Get`, which looks at the clock again;
`PubGet` takes both at one instant, so `ExpireSec` is what is left of the amount
when `Get` is called: the theorems allow any integers, those below zero included.

*Connections.* `sock[c]` is `open`, `reset` (the peer is gone: a write may
still succeed or fail) or `closed` (by this side: a write fails). `sent[c][p]`
counts the writes of publication `p` on `c`.

*The store.* `InnerChannel` keeps the set of stored messages; `SkipList`
shows that the pointer structure behaves like that set read in order. An error of
`Bytes` or `Write` ends the walk of `SendMsg` at any node (`WalkBreak`, with the
result `WriteErr`).

*Objects.* `NewInnerChannel` takes an element of `Chan` not used before
(`made`). `Chan` must be large enough: an object is created at most once per
key and tick of the clock in the runs, which the sizes below respect.

*History.* `gap[c]` records the publications pushed to `c`'s channel after
`c` was sent the stored messages and before it was registered; `authed` the
connections that passed `AuthToken`. They guard nothing.

*Heartbeat.* In `PushService` the loop may end whenever the socket is broken
or the client may have been silent; `Heartbeat` models the same loop against
the clock. Its only variables beyond those of the code are the instants at
which the deadline was set and the client was heard.

*Redis channel.* Its methods are not one critical section. `SubBuf` and
`PubBuf` take the write buffer before the mutex; `SendMsg` registers the
connection, reads redis and writes under the mutex; `AddConn` changes only
redis and takes the connection out of the map after an error (`SubDrop`);
`RemoveConn` leaves the map first (`SubRemove`) and calls redis without the
mutex (`SubDecr`). The putting back of the buffer, which needs no mutex, is part
of the step that uses it. The server keeps no copy of what redis holds, so a
redis command is one step at the server too. `Do` is a command: it is carried
out and answered, or it fails, and may have been carried out all the same; or
there is no node for the key. `Store` is whoever adds to redis's sorted set,
which this repository never does itself; the text need not be a message.
`Ended` is the end of the process, by `Crash` or by the panic of a TCP handler;
redis's data survive it. `owed`, `pushed` and `authed` are history.

*The contract.* `ChannelContract` says what the comments of the interface
(channel.go:28-51) leave to its two implementations, and what they do not. A
connection's `phase` is a function of its handler's position: `new` until
`SendMsg` has been called, `caught` up and not yet registered (the inner channel
only), `in` a channel, `out`; `broken` is one whose handler panicked in `SendMsg`
and which stays in the map, and is promised nothing. `answer` is what the
publisher was told (`pubRet`). The contract demands that `SendMsg` writes to the
one subscriber, above its `mid`, once; that a connection comes in once, where
there is a place; and that a publication which is answered `ok` is written to
every registered connection that has not got it, unless its socket is broken or
it is not newer than what the connection asked for or has; everything else that
ends, refuses or crashes is `Leave`, and writes to nobody. Sockets and ids are
the environment's. `Contract` is its instance in each service.

*Consistent hashing.* The hash function is any function from the names of the
virtual nodes to `0..MaxHash`; `Node`'s argument is any value in it. `sort.Sort`
may return any order that is increasing. `IsSuccessor` and `IsOwner` say what
consistent hashing is, without a search.

*Mutexes.* `Locking` is the service under websocket with the inner channel. Under
TCP that channel writes to nobody, as `Bytes(nil)` fails first; the redis channel
writes under its mutex in both protocols, but is locked at other places (`SendMsg`
holds the mutex during its redis calls, the token methods take none) and has no
module of this kind. `lock[b]` and `mutex[o]` name the goroutine that holds a mutex over
several steps; a critical section in which nothing can wait is one step that
needs the mutex to be free. `todo[g]` is what a `SendMsg` or `PushMsg` still
writes. A write returns unless its client has stalled and the connection is
open. Whether a channel has expired, a token is good or a place is free is a
choice, as any answer is possible.

*Accept loops.* `taken` is the connection the loop is setting up; the loop is
sequential, so there is one. A reader is `made` by `NewReaderSize`, and `source`
and `left` are what `Reset` replaces: the connection it reads from, and whose
bytes it has read ahead. The parser is one choice between accepted, refused and
a panic (`ParsePanics`): a number of arguments that cannot be allocated, or a
length of -1 with one byte of data. A panic of a TCP goroutine, an error of
`SetReadDeadline` (`Stop`), an error of `SetKeepAlive` under websocket (`Stop`) and
an error of the listener that is not temporary (`AcceptFails`) end the process, and
with it every connection (`ProcessEnds`). `PushService` and `RedisService` have the
parser as accepted or refused; what a process that ends leaves behind is in
`Server`, and for redis in `Ended`. All three have the failing socket options of
the accept loop.

## Checks

| run | instance | shows |
|---|---|---|
| `delivery` | websocket, 2 connections, 3 publications, ids {1,2,3}, mid 1, expiries 0 and 1, store of 2, clock 0..1, load 4 | `RegisteredExactly`, `NoDuplicate`, `CaughtUp`, `DroppedOnlyAfterDeadline`, `StoreBounded`, `OnlyExpiredOrOldestLeave`, `KeepsContract` |
| `sessions` | TCP, 2 connections for 1 place, 1 token, 2 requests, fair scheduling | `TypeOK`, `TokenUsedOnce`, `SubscribersBounded`, `DroppedSubscribersEnd`, `SubscriptionSettles` |
| `skiplist` | scores 1..3, levels 0..2, 2 members | `LevelsConsistent`, `CountersExact`, `ImplementsMap` |
| `heartbeat` | half-second ticks, period 2 s, 12 s | `ResponsiveStays`, `SilentFound` |
| `redis` | TCP, 2 connections for 1 place, 2 publications, 1 request, 1 fault, load 3 | `TypeOK`, `RegisteredExactly`, `SubscribersBounded`, `OnlineCount`, `NoWindow`, `InOrder`, `TokenUsedOnce`, `KeepsContract` |
| `circle` | 3 nodes with 2 points, hash values 0..2 | `LookupCorrect`, `OnlyNewNodeTakes`, `LookupReturns` |
| `locking` | 2 keys in 2 buckets; 2 connections, a publication, a request; one client may stall for ever | `WaitsEndAtAClient`, `MapHeldStill`, `StallIsLocal` |
| `server` | 3 connections, 2 pools of one reader, both protocols | `ReaderExclusive`, `OwnBytes`, `PoolsInRange`, `EveryClientHandled` |

Four more runs end in a counterexample; see the disagreements below.

The bounds: one key suffices because handlers of distinct keys share nothing
but a bucket mutex that is never held across a step. Two subscribers and two
publications of one key are enough for every pair of calls to interleave. The
channel's lifetime is 0 ticks and the clock moves once, so a channel expires, is
dropped, created again and refreshed within a run. `Load` bounds what one
behaviour of `delivery` combines: subscribers, publications and messages that
outlive the first tick together are at most `MaxLoad` = 4. So two subscribers meet
two publications, and with one subscriber three publications fill a store of two
and one more, whether or not the channel is dropped meanwhile; and one subscriber
finds a message that has expired beside one that has not. A full store holds an
older and a newer message, of which only the older may leave, and `Insert` refuses
a duplicate with and without a trim before it.
In the skip list three nodes on three levels contain each case of the search
(step right, step down, both), growth and shrinking of the list by a level,
and the deletion of the first, a middle and the last node.
`heartbeat` has a client that misses no beat for six periods, or falls silent at
any instant of them.

In `redis` the ids are -1 and 1, one that `SendMsg`'s range returns and one that
it does not (see the disagreements), and the nodes of the configuration may or
may not be those the key falls to. `Load` bounds what one behaviour combines:
accepted connections, publications with a message, faults and authentication
together are at most `MaxLoad` = 3, of at most 2, 2, 1 and 1. Every pair of
actors with a fault, every pair with authentication and every three actors
occur. Some hash values of `circle` coincide in every instance, as there are
three values for six points. In `locking` the two buckets are needed to see
that a stall does not cross, and the goroutines of the first key are one of
each kind. In `server` three connections use two pools, so that the index wraps
and a reader is used again, discarded, and given to a later connection.

Fairness (`FairSpec`): the scheduler eventually runs a goroutine whose next
call is ready; calls return. A TCP client's first packet is awaited for five
seconds at most, hence the request step is fair under TCP; a websocket
handshake is awaited while the peer keeps its connection. The heartbeat loop
is not forced to end while the connection is intact; it must when a read
fails. Publishers, peers and the clock are never forced.

`Locking` assumes that goroutines are scheduled and that a mutex is handed on;
that the heartbeat loop ends when its client may not be heard any more (the read
has a deadline); and that every client but the stuck ones recovers or is given
up by the network, so that what is written to it is taken in the end. That last
fairness is strong, as a client may stall again and again; a stuck client is
never forced to do anything. `Server` assumes that the goroutines and the accept
loop are scheduled and that `parseCmd` returns, which the deadline of five
seconds guarantees; a subscription may last for ever. `Ketama` assumes that a
goroutine goes on with its loop.

### Disagreements with the code's own comments

Four are runs that end in a counterexample.

* `missed` (`NothingMissed`): a message pushed between a subscriber's
  `SendMsg` and `AddConn` of the inner channel never reaches it while it stays
  connected (websocket; under TCP the inner channel pushes to nobody). The redis
  channel registers in `SendMsg` and has no such window (`NoWindow`).
* `orphan` (`NoOrphanSubscriber`): a subscriber that got the object before
  another handler's `Get` dropped it registers in an object off the list.
* `redis_lost` (`StoredDelivered`): "get offline message from redis which greate
  mid" asks for the scores above `mid` up to -1; -1 is a score and no open end,
  so messages with a positive id are never returned.
* `stuck` (`SilentRemoved`): a `PushMsg` that writes to a client that has stopped
  reading keeps the object's mutex. The client's handler notices the silence and
  waits in `RemoveConn` for that mutex ("remove exists conn"); the close of the
  connection, which would end the write, comes after it. Until the network gives
  the client up, every call for the key waits, and with an expired channel every
  call for the bucket (`StallIsLocal`: and no other). This is websocket; the redis
  channel also writes under the mutex that `RemoveConn` takes, under TCP too.

Others are plain in the models and need no search:

* `MaxSubscriberPerKey: 0, // no limit` (config.go:71) refuses every subscriber
  (`AddConn`; `SubscribersBounded` states the bound that is kept);
* "drop the message, can't unmarshal" (redis_channel.go:177) reads the id of a
  message that is nil. The handler panics (`SubPanic`), which ends the process
  under TCP; under websocket it lives on with the connection in the map, which
  keeps its place. `RegisteredExactly` and `KeepsContract` except such handlers;
* `// more then 1 sec, reset the timer` (pubsub_tcp.go:239) does not hold in the
  first two seconds of the loop, because `end` starts, and `begin = end` puts
  `begin`, one second ahead. With a heartbeat of one second, which the code
  accepts, a client that sends in time may be disconnected: heard at 1.5 s it gets
  no new deadline, and the one of the start is over at 2 s;
* a refused token of `/ch` is answered with the error and then with `ok`
  (`AdmToken`);
* under TCP the inner channel's `Bytes(nil)` always fails, after `PushMsg` has
  stored the message and before anybody is written to;
* `ZREM` gets an id where the members are texts, so expired messages stay in
  redis, and the range is not deleted from either (`Walk`);
* a failed `HINCRBY` that was carried out leaves the online counter too high for
  ever (`OnlineCount`), and a lost answer of `SREM` spends a token.

## Proofs

The theorems hold for all sets of connections, publications, requests, keys,
tokens and objects, finite or not, and every configuration. They assume only
that the settings are integers (`ConfAssumption`, `ServiceAssumption`, with
`Auth` 0 or 1), in `PushService` that the redis channel is not selected
(`ListAssumption`), in `RedisService` that `Nil` is none of the values it stands
beside (`RedisServiceAssumption`), in `Locking` that every goroutine has a key and
every key a bucket and that the three kinds of goroutines differ
(`LockingAssumption`), in `SkipList` that the scores are integers of a finite type,
as `int64` is, and that the nil pointer is no node and no member
(`SkipListAssumption`), in `Server` that there is a pool (`ServerAssumption`), and
in `Ketama` that there is a node and a virtual node (`KetamaAssumption`).

| theorem | module | states |
|---|---|---|
| `Invariant` | `PushProofs` | `Spec => []IndInv` |
| `TypeCorrect`, `Registration`, `AtMostOnce` | `PushProofs` | `TypeOK`, `RegisteredExactly`, `NoDuplicate` |
| `SubscriberLimit`, `StoreLimit` | `PushSafetyProofs` | `SubscribersBounded`, `StoreBounded` |
| `NoOtherLoss` | `PushSafetyProofs` | `OnlyExpiredOrOldestLeave` |
| `DropDeadline` | `PushSafetyProofs` | `DroppedOnlyAfterDeadline` |
| `OnlyTheGap` | `PushSafetyProofs` | `CaughtUp`, when the protocol is not TCP |
| `TokenOnce` | `PushSafetyProofs` | `TokenUsedOnce` |
| `PushKeepsContract` | `PushSafetyProofs` | `KeepsContract`: the inner channel's service implements `ChannelContract` |
| `Responsive`, `Found` | `HeartbeatProofs` | `ResponsiveStays`, `SilentFound` |
| `RedisInvariance` | `RedisProofs` | the redis service's `Spec => []IndInv` |
| `RedisTypeCorrect`, `RedisRegistered`, `RedisOnline`, `RedisBounded`, `RedisNoWindow`, `RedisInOrder`, `RedisTokenUsedOnce` | `RedisProofs` | `TypeOK`, `RegisteredExactly`, `OnlineCount`, `SubscribersBounded`, `NoWindow`, `InOrder`, `TokenUsedOnce` |
| `RedisKeepsContract` | `RedisProofs` | `KeepsContract`: so does the redis channel's |
| `KetamaInvariance`, `KetamaLookup`, `KetamaOnlyNew`, `KetamaSearch` | `KetamaProofs` | its invariant, `LookupCorrect`, `OnlyNewNodeTakes`, and that every round leaves less to search |
| `SkipListInvariance`, `LevelsStayConsistent`, `CountersStayExact`, `SkipListIsAMap` | `SkipListProofs` | its invariant, `LevelsConsistent`, `CountersExact`, `ImplementsMap` |
| `LockingInvariance`, `NoDeadlock`, `RangeSafe` | `LockingProofs` | its invariant, `WaitsEndAtAClient`, `MapHeldStill` |
| `ServerInvariance`, `ServerReaderExclusive`, `ServerOwnBytes`, `ServerPoolsInRange` | `ServerProofs` | its invariant, `ReaderExclusive`, `OwnBytes`, `PoolsInRange` |

*Inner channel.* The inductive invariant `IndInv` of `PushInvariant` is `TypeOK`
with three parts. `HandlesOK`: a handler about to call a method holds an allocated object
and its arguments, and an unallocated object stores nothing; so every call is
on an object of `Chan`, and creating an object loses no message and no
connection. `RegisteredExactly` is needed as it stands: whom `PushMsg` writes to
is known from the handlers' positions. `DeliveredOnce`: only finished
publications are stored or have been written, and a connection is written
nothing before its `SendMsg`. That is why the two delivery ways cannot
overlap: `SendMsg` runs when nothing was written to the connection, and a
publication that is pushed was neither stored nor written before.

*The argument.* Lemmas `GetEffect`, `NewEffect`, `SendEffect` and `PushEffect`
say what one call does to the shared state; there is one lemma per action of
the handlers (`AcceptStep` to `AdmTokenStep`), and `NextIndInv` joins them.
`PushSafetyProofs` first shows that every step makes one call or leaves the
objects and the list alone (`OneCall`). The two limits need their sets to be finite
beside the bound, because `Cardinality` says nothing of an infinite set; the
store's bound also needs that a full store loses exactly one member before the
new one enters. `CaughtUp` is not inductive: a subscriber is caught up from
the end of `SendMsg` on, before it is registered (`CaughtUpEarly`), and from
there on `PushMsg` writes to it, or `gap` remembers the publication. Under TCP
the inner channel's `PushMsg` stores a message and writes it to nobody, so
`OnlyTheGap` excludes that protocol. `TokenOnce` must count over all objects a
key ever had, because the list drops an object with its unused tokens and makes
another one. `TokenInv` therefore names for each object the key it was made for: no
handler works with an object of another key (`KeysOK`), and the connections that
passed with a token plus the key's objects that still hold it are no more than
the requests answered "ok" (`TokensOK`).

*The contract.* Both refinements are proved step by step: a step is `SendMsg`,
`AddConn`, `PushMsg` or `Leave` of the contract, or changes nothing it speaks of.
`PushKeepsContract` needs beside `IndInv` that a stored message is the one its
publisher holds (`StorePublished`), since the contract's ids are those of the
publications; that nobody is written a publication twice is `DeliveredOnce`.
`RedisKeepsContract` needs that a publication is answered last (`AnsweredLast`)
and takes the rest from `CursorOK`: a connection passed over has a cursor that is
no smaller, and the cursor is the `mid` or the id of a message that was written.
A crash is a `Leave` of all.

*Skip list.* The invariant speaks of the set `N` of the nodes in the list, which
no variable holds: `Linked(N)` says of every level that each node made for it
points to the next one made for it, `Counted(N)` relates `Length` and `Level` to
`N`, and a walk stands on a node of `N`. A search and a chain are recursive
functions, and the provers have no induction. Two steps replace it. First, a
function that satisfies the equation exists (`LastExists`, `ReachExists`: its
values are given by the sets closed under the pointers), so the recursive function
satisfies it. Then, if it were wrong on some node, there would be a greatest such
node, as the scores are finitely many (`HasMax`, `HasMin`); its successor is greater,
right, and so makes it right. `SearchFinds` is the same over the levels. With it
`LinkStep` and `UnlinkStep` need only that the node found on a level is the last
one below the score (`NextOfMore`, `NextOfLess`). That a walk goes on correctly
from a deleted node is `forward'[s] = forward[s]` in `DeleteStep`: no node before
`s` is `s`. `SkipListIsAMap` is the refinement itself, method by method
(`InsertStep` to `NextStep`), the map being `MapOf(N)`. It covers any `MaxLevel`, 0
included, and every level `randomLevel` may draw.

*Heartbeat.* `DeadlineInv` relates the deadline to the instants at which it was
set and the client was heard, for every period, and `Found` follows from it.
`TimerInv` adds that a working client is never late, which is inductive only for
a period of two seconds or more: that is the hypothesis of `Responsive`, and with
one second `ResponsiveStays` is false (see the disagreements).
`HeartbeatAssumption` only says that the clock's resolution and the period are
positive.

The theorems also cover what the runs' configurations do not reach: a channel
type that does not exist (`ChannelTypeErr`), and a store of size zero, where
`PushMsg` panics while making room.

*Redis channel.* `RedisInvariant` says in `CursorOK` what the cursor is: nothing
was written before `SendMsg`, and from there on the cursor is the greatest id
written, or the `mid` of the request. Both ways of writing ask for ids above the
cursor, hence `InOrder`, and a publication that a push passed over is not newer
than the cursor, hence `NoWindow`. `MessagesOK` makes a publication the same
message in redis and in its handler. The counter and the limit are proved
through finite sets of connections (`CountsOK`): a step that moves one
connection into or out of such a set changes its size by one, and the counter by
one or, with a fault, by nothing. A crash empties the sets and leaves the
counter. `RedisTokenUsedOnce` needs `TokenInv`: the connections that passed with
a token, plus one while the token is in redis, are no more than the requests that
may have stored it. A lost answer of `SADD` is counted on the side of the
requests, a lost answer of `SREM` takes the token and admits nobody.

*Consistent hashing.* `CircleOK` relates the slice and the map to the virtual
nodes added so far: the map gives each point the greatest node with that hash, and
after `Sort` the slice is increasing with the same points (`SortEffect`).
`SearchOK` is the loop's invariant: below `lo` all points are smaller than the
key, from `hi` on none is. Where they meet is the successor, or the first point
of the circle. `KetamaOnlyNew` needs nothing of the state but `LookupCorrect`:
`OwnerOrNew` says of the definition of an owner that it can only change to the
node added.

*Mutexes.* `ObjectsHeld` and `BucketsHeld` relate a mutex and its holder both
ways. A holder of an object's mutex is at `sending` or `pushing`, where it waits
for no mutex; a holder of a bucket's is at `closing`, where it may wait for an
object's. `RangeSafe` follows because whoever changes the map needs the mutex to
be free.

*Accept loops.* `Distinct`, `Held` and `Idle` say of every reader where it is;
`Get` and `Put` have a lemma each on what taking out of a pool and adding to one
leave.

Only model-checked: the liveness properties, which are outside the prover's
reach (for the search of `Ketama` the bound that makes it end is proved). Every
invariant and action property of a passing run, and each refinement, is a theorem.
Two theorems have a hypothesis: `OnlyTheGap` (`CaughtUp`) that the protocol is not
TCP, and `Responsive` (`ResponsiveStays`) that the period is two seconds or more.
`Found` has none.

## Not modelled

* The 64-bit arithmetic of a publication's expiry: `Messages` of the models take
  the expiry from a set of instants. In the code the default of
  `MessageExpireSec` is multiplied by `Second` twice (pubsub.go:138 and :141); with
  three hours the product overflows.
* The bytes of requests, messages and answers. `parseCmd` accepts, refuses or panics, and
  a fresh write buffer of the redis channel starts with `WriteBufByte` zero bytes
  that go out before its first message (redis_channel.go:89), which one push shows.
* The murmur hash: callers need only a function of the key, and the proofs of
  `Ketama` hold for all of them.
* Reading the configuration, statistics, log, the demo page and the test client:
  no state the service depends on.
* The pool of connections to redis: the library's, seen here through `Do`.
