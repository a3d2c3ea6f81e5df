# Formal model of the road gateway and its devices

TLA+ models, TLC configurations and machine-checked proofs for the IoT part of
`github.com/harveywangdao/road`: the gateway (`src/iot/gateway`), the device
(`src/iot_client/thing`) and the exchanges between them.

## The system

| part | state | operations | speaks with |
|---|---|---|---|
| registry and web goroutine (`iot/gateway/gateway.go`) | `ThingConns`, `lock`, `AddThingChan`, `DeleteThingChan` | add, delete, look up and push a command | every Thing by channel, the message queue |
| gateway Thing (`iot/gateway/thing.go`) | one per connection: `ThingMsgChan`, `thingid`, a reader and a scheduler goroutine | read a frame, dispatch an event, push on its own channel, end | registry, device, database |
| device Thing (`iot_client/thing/thing.go`) | `ThingStatus`, `Conn`, `ThingMsgChan`, a reader per connection | connect, read, dispatch, reconnect | gateway, its own database |
| registration (`register.go` on both sides) | `registerStart`, number of requests, timer; the key in both databases | request, acknowledge, repeat | Thing, database |
| login (`login.go` on both sides) | `loginStatus`, creation time, randoms, timer | request, challenge, response, failure, success | Thing, registry, database |
| remote control (`thingcontrol.go` on both sides) | `thingControlStatus`, `operation`, timer | request, end, ack, three acknowledgements | web goroutine, Thing |
| relogin, read and set of the configuration, heartbeat, information upload | one status and one timer each | request, ack | Thing |
| framing (`message/message.go`) | none | read, check, decrypt, send a frame | Things of both sides |
| message queue bridge (`msgqueue`, `cache/redis`) | offsets in Redis, channels to the web goroutine | read a partition, store its offset, produce | web goroutine |
| database handles (`database/database.go`, `database/mongo`) | a map of handles | get, close | all handlers |
| logger (`log/logger`) | log file, its number | write, rotate | everything |

What is hard here: every Thing runs a reader and a scheduler over one bounded
channel, and the scheduler itself pushes on it; the registry is fed through two
channels that one `select` reads; the web goroutine pushes while it holds the
registry's lock; the timers of all exchanges are goroutines that write the
status field without synchronisation; a device comes back while the old Thing of
its former connection is still working off its queue; keys are stored on both
sides, one step before and one after a message that may be lost. There is no
test in the repository. `PROJECT.json` lists the hazards at their lines with the
properties that cover them.

What makes each part correct:

* registry: it names only sessions that logged in; a lookup stays valid until the
  push is done; a live session is not lost; an ended one goes; nothing blocks.
* registration and login: both sides end with the same key; a device never goes
  back to a key that has been replaced.
* remote control: both sides mean the same operation; it ends; a late answer of
  an operation that was given up does no harm.
* the one-step exchanges: whoever asks is answered or knows that he is not; a late answer
  does not end a later request; nobody waits at his own close channel for ever.
* framing: what is returned is a frame that was sent, in order, and no frame is passed over.
* bridge: messages are given in order and none twice; how many are lost is bounded; a request is answered.
* handles: one handle per name, none left open and forgotten, the lock given back.
* logger: the files rotated last are kept, and it is known which lines can be lost.

## Modules

| module | what it models | source |
|---|---|---|
| `Gateway` | registry, lock, web goroutine, reader and scheduler of every gateway Thing with bounded channels | `gateway.go`, `thing.go`; the handlers as far as they push |
| `GatewayProofs` | theorems about `Gateway` | |
| `RequestTimer` | the timer every exchange builds: `time.NewTimer`, a goroutine in a `select`, a token channel of capacity 1 | pattern of `login.go`, `register.go`, `thingcontrol.go`, ... |
| `Handshake` | one device, its connections, the gateway's Things of these connections, both databases: registration, login, the age of the key | `register.go`, `login.go`, `thing.go` of both sides |
| `KeyIssue` | abstract specification: the gateway issues keys, the device takes over an issued one that is newer than its own, and derives one that nobody has only after a second connection; `Handshake` implements it | |
| `RemoteControl` | the remote operation between a logged-in device and its gateway Thing | `thingcontrol.go` of both sides |
| `Exchange` | the five exchanges of one request and one acknowledgement: relogin, reading and setting the configuration, heartbeat, information upload | `relogin.go`, `readconfig.go`, `setconfig.go`, `heartbeat.go`, `thinginfoupload.go` of both sides |
| `MqBridge` | the message queue bridge with its offsets in Redis, from the topic to the web goroutine and back | `msgqueue.go`, `kafka.go`, `redis.go`, the loop of `WebTask` |
| `Delivery` | abstract specification: each partition's messages are given in order, none twice; `MqBridge` implements it | |
| `Framing` | one direction of a connection: frames written to a stream, and `RecvMessage` cutting it into frames again | `message.go` |
| `HandleCache` | the maps of database handles and mongo sessions, read without the lock and written with it | `database.go`, `mongo.go` |
| `LibraryProofs` | theorems about `HandleCache` and about `RotatingLog` | |
| `RequestTimerProofs` | lemmas: what each operation on a timer keeps and counts | |
| `HandshakeProofs`, `RemoteControlProofs`, `ExchangeProofs`, `MqBridgeProofs`, `FramingProofs` | theorems about the module of that name; the first three rest on `RequestTimerProofs` | |
| `RotatingLog` | the rotating handler, its loggers, its files and the goroutine that rotates | `log/logger/logger.go` |
| `MCGateway`, `MCHandshake`, `MCRemoteControl`, `MCExchange`, `MCMqBridge`, `MCFraming`, `MCHandleCache`, `MCRotatingLog` | the instances TLC runs | |

`Gateway` gives the channels and their capacities; `Handshake`, `RemoteControl` and `Exchange` are
what flows through them, each on its own, as their handlers share no field but `ThingStatus` and the key.
`MqBridge` is in front of the web goroutine, whose inside is `Gateway`'s. `Framing` is what
`Handshake`'s and `RemoteControl`'s channels of whole frames rest on.

### Gateway

A goroutine is a control state (`sched[t]`, `reader[t]`, `recv`, `web.pc`); a channel is a
sequence with a capacity; a send is enabled when there is room, so that a
goroutine which blocks is one whose action is not enabled. A handler is `Take`
(receive from the channel), the `Handle...` action, and a separate step for each
send that can block (`PushEventChannel`, `PushAdd`, `PushDelete`), because other
goroutines run meanwhile. `gw.lock` is held over more than one step only by the
web goroutine, from `WebFind` to `WebPush`; the registry's own critical sections
contain no blocking call and are one step. `ThingId` and `Thing` are arbitrary sets,
`Device` says which device opens which connection. A frame may be any event of the table in
`eventtype.go`, before the login too: `Frames` says which. The handlers of the exchanges
appear with what they push, what they do to `thingid` and where they wait; their own states are in
the other modules, and here any outcome of theirs is possible. Only two parts of those states remain: `login`, as
`LoginSuccess` and `LoginFailure` depend on it when they come as frames, and `retries`, the goroutines of
`relogin.go` that push a request when their timer runs out. A handler that sends on the close channel of
a timer may wait there if it is in `Waits` (`WaitClose`), until a goroutine takes the token, if one does. `Panic` ends the
process: the type assertion of `RemoteOperationReq` on a request that came as a frame, whose `Param` is nil
(`thing.go:253`), and the nil `loginReqServData` of `LoginFailure` before any `LoginRequest`. The `status` column that a login and
`destoryThing` write is in `Handshake`.

### Handshake

The device's database row is `dev.key`, `dev.old` and `dev.ThingStatus`, the gateway's is `db`. Keys
are numbered as the gateway generates them; `PreKey` is the one both sides are
delivered with. A frame carries its event, the key it was encrypted with and what the
handlers compare: the creation time in seconds (`ect`), the random of the attempt,
the issued key. `now` advances only when a request takes a new time stamp, so that two
attempts within the same second are possible. Each handler is one action per
outcome: refused by its guard, failed by an error of database, JSON or send, done.
`LoginSuccess` on the gateway is split at the point where it has read the key for the
encryption and not yet saved the new one, as another connection's Thing may
replace it there; the `SELECT` (`iot/gateway/login.go:133`) and the `UPDATE` (line 157) of its second half are one
step. The behaviour is that of a device started for the first time, `ThingUnRegister` and without a key of its own: a device that is started again
registers as well, as `EventCheckThingStatus` does so whatever its row says (`if true`, `iot_client/thing/thing.go:264`). Channel capacities are left out: `Gateway` has them. `DKeyAges` is the passing
of almost a day, possible when nothing the device does would be over by then;
`DCheckAesKeyValidity` is the ticker's case of the scheduler.

### RemoteControl

Both sides start out logged in. The device's `ThingControl` survives the connection and the
gateway's does not: `DConnect` replaces the gateway side by a fresh one. Everything
between a broken connection and the next login is one event of the device, as
`Handshake` models it. Parameters are left out, as both sides send and ignore 0, and
so is the result code, as the device always answers success.

### Exchange

The five exchanges are five copies of the same code with differences: who asks, whether the
timer's goroutine pushes the repetition before or after it resets the status (or does not repeat at
all), whether an error resets the status, whether the answer's time stamp is compared. Shared steps are
operators over the exchange `x`; each handler of the code is an action of its own with those operators.
`timer[x]` is a `RequestTimer`. Who asks first is left open (`Ask`): in the code the pushes after the
login are comments (`iot/gateway/thing.go:220-222`, `iot_client/thing/thing.go:299-300`), but
the same events also arrive as frames. One assumption is about time: a token in the close channel is
taken before a timer of seconds runs out. The device's status changes without a break too: the ticker takes a login
back to `ThingUnLogin` (`DCheckAesKeyValidity`, `iot_client/thing/thing.go:168-172`), a `RegisterReq` does so as well (`DRegisterReq`), and the
device then logs in again; `withdrawn` counts them. A reader that cannot decode a frame drops it (`ReadFails`), which `lost` counts. The unit of `NewTime` is not modelled: the comment
at `iot_client/thing/relogin.go:35` says ten minutes, line 61 multiplies by one.

### MqBridge

`topic` and `list` (the Redis list) survive `Restart`, everything else is the process's. `NewConsumer` is one
action per command to Redis, so that a process may end between any two; a command whose answer
does not come may have been done or not. The reader of a partition is in `Read` before a message, before
the store of the offset, or at the push. A `producerRoutine` starts with `NewProducer`, an error of which ends it
(`ProducerStart`); `Producers` are those there may be, `starts` those of a behaviour. The lookup and the push that the web goroutine does under the registry's lock
are one step here (`WebLookup`), which is assumed to come to its end: `Gateway` has them, and shows it below capacity (`WebAnswered`). Kafka keeps a partition's messages in order and for ever.

### Framing

A byte is its place in the stream; what a frame holds is its length and whether it can be parsed. A `Read`
returns between one byte and the buffer's length. `start` and `taken` are where `readData` begins and
ends, so that a reader out of step is one whose `start` is not the begin of a frame.

### HandleCache

A map write is two steps, because a Go map read while it is written is undefined: the read may miss, find,
find nil, or end the process with "concurrent map read and map write". `GetDB` and `CloneMgoSession`
are the same algorithm and are one definition.

### RotatingLog

Files are numbered as they are created, `disk` maps names to them, a renamed or removed file is still
written through an open descriptor. `lgClosed` is about the descriptor `lg` holds, not about its file: after a failed
`os.Rename` the file of that name is opened again, by another one. Lines are counted by file. `rename` is a step per call of `os`. The
specification has names of its own (`LogInit`, `LogNext`, `LogSpec`), as `LibraryProofs` extends it together with `HandleCache`.

## Runs

TLC explores a few different behaviours of a module in one run: `Instances` is a set of records of bounds,
defined in the MC module with a comment on each, and `Init` takes one of them. A variable
such as `faults` is then a record of what has happened and what at most may, so that a property can say
under which circumstances it holds (`Harmed`, `OwnTrouble`, `Bounds.expire`): it is checked in all
instances, and claims nothing where the code does not keep it.

| run | bounds | properties |
|---|---|---|
| `gateway_reconnect` | two devices, the first with two connections, beside the other with one; channels of 1, two frames per connection: a login (the other device: or the request of a command first), 1 command | `TypeOK`, `LockedLookupFresh`, `RegistryNamesLoggedIn`, `CommandOnlyAfterLogin`, `SoleSessionRegistered`, `RemovalNeedsDeadSession` |
| `gateway_live` | one device, two connections, a login on each, channels larger than what is sent, 1 command | `GoesOut`, `LoginReachesRegistry`, `DeadSessionRemoved`, `WebAnswered` |
| `gateway_saturated` | one connection, channels of 1, any three frames, timers that run out, full close channels, 2 commands | `GoesOutOrJammed` |
| `gateway_goes_out` (violation) | one connection, channels of 1, two registrations | `GoesOut` |
| `handshake_login` | one connection, no errors, answers in time, a key that becomes too old once | `LoginCompletes` |
| `handshake_troubles` | two connections, an error anywhere and an old key; two connections and one request more; three connections and logins begun by the ticker; timers that run out on one connection; or on two that overlap | `TypeOK`, `KeysAgreeAtRest`, `KeysAreIssued` |
| `remote_control` | three commands of two operations (and an unknown one); nothing, a break, an error, one or two expiries | `TypeOK`, `NoPanic`, `SameOperation`, `OperationEnds` |
| `exchange` | one or two exchanges, up to three requests; timers, failures of either side, a break, a login that is taken back, a frame that cannot be read | `TypeOK`, `NoPanic`, `ReLoginReleased`, `CloseTakesToken`, `WaitsForSomething`, `AckIsCurrent`, `DeviceIsAnswered`, `ReLoginComesAbout` |
| `mq_bridge` | two partitions of two messages, channels of 1, one producer, two where producers fail; crashes, errors of Redis or Kafka in `Read`, `NewConsumer`, `NewProducer` or the producer, garbage | `LossBounded`, `InOrderAtMostOnce`, `Answered`, `ServedOrLost`, `ServedUntilStopped` |
| `framing` | up to three frames of 16 or 32 bytes; whole Reads, short Reads, or a peer that waits for each answer | `Intact`, `EveryFrame` |
| `handles` | two names, two callers, two closers, an open and a close that fail | `AtRest`, `GotShared`, `Returns` |
| `log_rotates` | three files of two lines, 11 lines, two processes, two failures of `os` | `KeepsLast`, `LevelledKept`, `LostInRotation` |

Why the bounds suffice. In `Gateway` the smallest hazards need two sessions of one
device (reconnection) or two devices (a third party blocked by the first); a channel is
full at 1 as it is at 128, and the properties do not count. In `Handshake` and `Exchange` the conflicts
are between an attempt and the one before: two connections, or one connection with a
repeated request. The third connection of `handshake_troubles` is for a registration, a break and a login the ticker begins
before that registration is handled. In `RemoteControl` a late answer needs an operation that was given up
and its successor; the third command reaches the state after that. In `MqBridge` the offset
rules of a partition need two messages, the list needs two partitions, and a crash after a
crash is where the next process starts from what the last one left; a second producer is there to go on where the first ended. In `Framing` a reader that
is out of step needs a frame it lost and one it may find again. In `RotatingLog` the numbers wrap at the fourth
rotation. What the proofs cover (below) holds without bounds.

Symmetry over the two connections of the first device is used only in `gateway_reconnect`, which
checks safety. Deadlock is not checked: with all frames, commands and connections used up the models
rest, as the program does when nobody speaks to it; that nobody is stuck before is
what the liveness properties say. The types of `HandleCache`, `MqBridge`, `Framing` and `RotatingLog` are proved and not checked by a run;
those of the others are both checked and proved.

### Fairness

Weak fairness of the steps of each goroutine: the Go scheduler runs a runnable
goroutine, and a step here is enabled just when the goroutine is not blocked.
None is assumed of what comes from outside (a device that sends, a connection that
breaks, a command or message of the web), of errors, crashes and restarts, or of the choice a `select` makes, except
that the registry goroutine as a whole goes on; `LoginReachesRegistry` and
`DeadSessionRemoved` hold under that because what can be sent to the two channels is
finite in the run. In `Handshake` the timers are not fair, as a login completes without
any of them running out; the ticker is, as `time.Ticker` ticks for ever. In `RemoteControl` and `Exchange` timers are
fair, as a running `time.Timer` does fire or is closed. In `Framing` only the reader is fair. `HandleCache` assumes strong
fairness of each goroutine's steps: a `sync.Mutex` in Go hands a starving goroutine
the lock after a millisecond. `gateway_saturated` assumes it of one step, the reader's last push
(`SendersInOrder`): Go serves the senders that wait on a channel in their order, and the timers of
`relogin.go` would otherwise always be first. Nothing is assumed of who takes a token from a close channel. `RotatingLog` states no liveness and assumes none.

## What the runs show of the code

* The registry never names a session that has not logged in, a command is never queued
  before the login, and the lock makes lookup and push one step with respect to the
  registry.
* The comment "need go out" (`iot/gateway/thing.go:167`) is not kept when a Thing's
  channel is full while its own scheduler pushes on it: the scheduler waits for
  itself (`gateway_goes_out`). `gateway_saturated` shows that there are just three ways of being stuck:
  this one, a handler that waits at the full close channel of one of its own timers (`relogin.go:185` and
  the other sends of this kind, any of them at any time), and the one in which the web goroutine waits at a full Thing with the
  registry's lock. When a close channel can be full is what `Exchange` says (`CloseTakesToken`).
* A frame may ask for any event. `EventRemoteOperationRequest`, which the web pushes with a `Param`, panics when it comes as a frame
  (`iot/gateway/thing.go:253`), and so does `EventLoginFailure` before the first `LoginRequest`: nothing recovers, and the
  gateway ends. The liveness properties of `Gateway` say "unless the process ends".
* A delete removes whatever entry the device has, so an old session that ends late takes
  its successor out of the registry, and a delete can overtake its own add. That is why
  `SoleSessionRegistered` speaks of a Thing that is the only one to have logged in as its device, and
  `DeadSessionRemoved` of entries with no add under way.
* Without expiring timers both databases agree whenever the device takes itself for logged in, asks for nothing and
  nothing is under way, whatever breaks or fails, and a key that becomes too old is replaced
  (`LoginCompletes`), also where the ticker begins a login in the middle of a reconnection. In between they may differ
  even then, and the device may have a key that nobody issued: the key becomes old while the device has no connection, its
  registration on the next one is cut off by a break, the ticker begins a login on a third, and the Thing of the second
  still replaces the gateway's key, between the two halves of that login's `LoginSuccess`: each side derives the next key from another one. The device is waiting for
  the registration that was lost (`registerStart`), and its timer starts another that gives both the same key again. `KeysAgreeAtRest` says so.
* With expiring timers the keys may differ at rest: after a late expiry of
  the registration timer a repeated `RegisterReq` replaces the gateway's key, its
  acknowledgement is refused because `registerStart` has been reset, and the device remains
  `ThingRegisteredLogined` with the older key. `KeysAgreeAtRest` therefore claims nothing of
  behaviours with expiries; what remains true in all is that the
  device takes over issued keys only and never goes back to an older one (`KeysAreIssued`), but for the key above that nobody
  issued (`MixUp`), which needs a second connection and which the next registration replaces.
* A remote operation ends when nothing fails. After one expiry of the
  device's timer, a break or an error in the middle, the gateway's `ThingControl` stays in
  its status, as its timer was stopped at the first answer (`iot/gateway/thingcontrol.go:230`) and
  never started again: later commands on this connection are refused. The same after an unknown command
  or an error before the send (line 126). The device
  in turn stays in `RemoteOperationEndStatus` over all later connections when
  its `RemoteOperationEnd` cannot be sent (`iot_client/thing/thingcontrol.go:298`).
* No interleaving of late answers, expiries, breaks and errors calls a method of a timer that
  was never made, in remote control or in any of the exchanges.
* In the exchanges, an asker that waits is watched by its timer or by the goroutine of the timer that ran out, whatever the other side does, unless
  it had an error of its own after the status was set (`thinginfoupload.go:46`, ...), the connection
  broke, its login was taken back, or its goroutine took the token of an earlier answer: the close channel is shared by all requests of an exchange,
  and the goroutine of a new request may take the token meant for the old one, so that nobody
  watches the new timer (history variable `robbed`). After such trouble the status stays set, and a scheduler may
  block at its own close channel; `WaitsForSomething` and `CloseTakesToken` say that nothing less will do.
* A heartbeat that meets a login taken back by the ticker or by another registration is refused after its status was set
  (`iot_client/thing/heartbeat.go:49`) and has no timer: no heartbeat is sent any more, though nothing failed. The information upload
  does not look at the login and goes on. What the device asks is answered otherwise, unless a frame is lost (`DeviceIsAnswered`).
* An acknowledgement of a relogin that is accepted answers the current request (`AckIsCurrent`), with one request from outside
  per second. The gateway's repetition is pushed before the status is reset and may be refused; the relogin comes
  about where no timer runs out (`ReLoginComesAbout`).
* The bridge stores an offset before it delivers the message. At most `ChanCap + NParts` messages are lost per crash and one
  per failed command of `Read`, and `LossBounded` is tight. Order and at-most-once hold over crashes (`Delivery`), not over errors of
  `IsKeyExist`, which takes an error for an absent list and starts again at 0. A process that ends between two pushes of
  the offset list leaves one that is too short, and every later process panics at it. One error of `Read` or one message that is no
  JSON ends the web goroutine and the remote control with it. An error of `NewProducer` ends one of the ten producers for good; when all are gone the
  web goroutine stands at `iot/gateway/gateway.go:107` once the channel is full. `ServedUntilStopped` says that nothing else stops it. Ten producers send the replies in any order.
* Short Reads cost the frame after the one they cut, and the reader is then out of step until it meets a header;
  what it returns are still whole frames in their order. A frame with less than 22 bytes of service data may be read to its end with its
  header, and the reader then waits for a byte that a peer who waits for the answer does not send.
* The second look at the map, with the lock, makes the handle unique. The first, without it, can
  end the process (`fatal`). A `Close` that fails leaves a closed handle in the map for ever.
* The rotation keeps `maxNum` files, one less per failure of `os`. `Debug` to `Error` go on writing to the file that was opened first and lose
  their lines when it is removed, exactly at rotation `maxNum + 1`. A line of `Print` is lost only between
  `Close` and `SetOutput` of a rotation, or after `os.Create` failed. A new process begins again with suffix 1 and
  removes the file of that name first, which may be the newest.

## Proofs

Every theorem is for all values of the constants that the module's assumption (`ConstantsOK`; `BoundsOK` in `Handshake`, `LogConstantsOK` in `RotatingLog`) allows, which
is what the constants are: sets, capacities, numbers. No other assumption is made.

### GatewayProofs

`GatewayProofs` proves for every set of connections and devices, every assignment of
connections to devices and every capacity and bound that `Gateway`'s `ConstantsOK` allows:

| theorem | property |
|---|---|
| `TypeCorrect` | `TypeOK` |
| `LookupFresh` | `LockedLookupFresh` |
| `NamesLoggedIn` | `RegistryNamesLoggedIn` |
| `CommandAfterLogin` | `CommandOnlyAfterLogin` |
| `SessionRegistered` | `SoleSessionRegistered` |
| `RemovalAfterEnd` | `RemovalNeedsDeadSession` |

The inductive invariant `IInv` is built in layers, each inductive relative to the ones
below it, so that a step is examined for a few conjuncts at a time:

1. `IdInv`: types and capacities; a Thing's id is the empty one or its device's; a
   scheduler about to send its add has its id; a Thing whose connection was not accepted
   has neither scheduler nor id.
2. `RegInv` adds `RegistryNamesLoggedIn` and that a delete, in its channel or taken from it,
   belongs to an ended session of that id (`DeletesOfEnded`). From here `RemovalNeedsDeadSession` follows for every step.
3. `WebInv` adds `LockedLookupFresh`: the two registry writes require the lock to be free,
   and the web goroutine holds it.
4. `IInv` adds `CommandOnlyAfterLogin`, for which `LockedLookupFresh` and the registry
   conjunct are both needed (the command goes to the Thing that was looked up, that
   Thing is the registered one, the registered one has its id, and an id is never taken
   back: `IdsStay`; a request that came as a frame is another event, see `Panic`), and
   `SoleSessionRegistered`, which needs that a delete comes from an ended session that had logged in as the same
   device, so that a Thing that is the only one to have done so is not deleted while it lives.

Lemmas `Sent` and `Received` state what appending to and taking from a bounded channel
does to "every element has P", and are the only place where sequences are taken apart.

### LibraryProofs

`HandleCache` and `RotatingLog` share nothing; each theorem is about the specification of one of them.

| theorem | property |
|---|---|
| `TypeCorrect` | `TypeOK` |
| `NoHandleLost` | `AtRest` |
| `HandleShared` | `GotShared` |
| `LogTypeCorrect` | (`LogTypeOK`) |
| `LastFilesKept` | `KeepsLast` |
| `LevelledLinesKept` | `LevelledKept` |
| `LinesLostInRotation` | `LostInRotation` |

The first three are for any names, callers, closers and bounds. `AtRest` speaks of a free lock only, so its strengthening says what is true while somebody holds it: only the holder is past `Lock`
(`LockInv`); a goroutine that opens a handle has a name that is not in the map, and the handle it has opened is open
(`StepInv`); every open handle is in the map or in the holder's hands (`OpenInv`, with `Pending`); the closed
ones in the map are as many as closes have failed, apart from the one being deleted (`DeadInv`, with `Deleting`; the set grows by
one element at most, which is why it is finite). `OneHolder` reduces the two sets to what the holder has.
`HandleShared` needs that before the first `Close` what was returned is still in the map (`GotInv`).

The others are for any number and size of the files and any number of lines, processes and failures. `KeepsLast` says nothing
of where a file is, so `AgeInv` does: the file rotated `k` rotations ago has a name of an `Age` of at most `k`, one more for each failure and for the
rotation under way, and the name that comes next is the oldest of all. `MoveInv` says that the name a file is moved to is free. `LevelledKept` is
an equivalence. `FirstInv` says that the lines with a level go to the first file of the process;
`AgeInv` that it is there for so many rotations; `OneName`, that no file has two names, and `LevelledAt`, where its one name is (`PlaceOf`), say
that it is gone after them. `LostInRotation` needs that `lg` has an
open file but between the `Close` and the `SetOutput` of a rotation (`OpenLogInv`).

### RequestTimerProofs

`TimerOK` types the record of a timer field by field; `Goroutines` counts the goroutines it stands for and `Armed` those whose timer runs or has
just run out. The lemmas say of each operation (`Started`, `Stopped`, `Closed`, a token taken, a timer expired, the two
statements after it) that it keeps the type, by how much it changes the two counts, and which fields it leaves alone. All proofs
about timers cite these and never expand an operation.

### HandshakeProofs

| theorem | property |
|---|---|
| `TypeCorrect` | `TypeOK` |
| `KeyRefinement` | `KeysAreIssued` |
| `KeysAgree` | `KeysAgreeAtRest` |

For any number of connections and any bounds. The first part says once which steps write which variable. `TypeInv` bounds the goroutines of each timer by the requests sent, which needs that
whoever starts one has spent a try. The refinement maps `platform` to `db.key`, `device` to `dev.key` and `sessions` to the connections
opened. Its invariant is `KeyInv`: no Thing works with a key ahead of the row, and nothing is opened ahead of the device (`OpenInv`); the issued keys in the device's queue and in the pipe of its
live connection are in the row's past, in their order, and from the device's own key upwards (`OrderInv`); and while there is one connection, what the device could decrypt is
derived from the key it still has (`SessionInv`). The order is what makes `Adopt` take a newer key, and
the last part is what makes `MixUp` impossible on a first connection.

The attempt to prove the refinement changed the specification: the earlier `KeyIssue` said that the device's key is always an issued one, which
is not inductive, and TLC found the counterexample with two overlapping connections and an expiring timer (now in `handshake_troubles`).

`KeysAgree` is the longest argument of the project. A registration and a login are each one frame that goes around: from the device through a connection
to the queue of a Thing, back, and into the queue of the device. `Boxes` is all these queues and pipes as one function of the `Places`; `None` and
`AtMostOne` say how many frames of a kind there are in them, and lemmas `DropOne`, `PutOne` and `EmptyOne` say once what taking, putting and breaking do to that.
Each step of either side is then `Carried`, or the start of a registration or login (`WayStep`). On it rest

* `WayInv`: of each kind at most one frame is under way, and none when the device does not wait for one.
* `ConnectInv`: the events of a connection stand before the event on which the next is opened, so that the device never has answers of two.
* `HeadInv`, `SavingInv`: what a Thing between the two halves of `LoginSuccess` works with.
* `AnswerInv`: a login's success that reaches the device carries the newest key, or an acknowledgement of a registration is before it or still to come; and one that
  makes the two sides derive different keys is met only while a registration of an earlier connection is lost (`RegLost`).
* `RestInv`, the property without `Quiet`: a device that takes itself for logged in has the newest key, waits for an answer, or is about to ask (`Asking`).

`AgreeInv` joins them and is inductive together with `TypeInv` and `KeyInv` where no request runs out; TLC checked it on the instances of `handshake_troubles` before.
The attempt also corrected the property: as it stood it said that without expiries the device never has a key that nobody
issued, which the three connections described under "What the runs show of the code" refute (instance `Ticks` reaches such a state), and the assumption on
`Bounds.times`, which is at least 1 as the constant in the code is (`RegisterReqMaxTimes`).

### RemoteControlProofs

| theorem | property |
|---|---|
| `TypeCorrect` | `TypeOK` |
| `NoNilTimer` | `NoPanic` |
| `OneOperation` | `SameOperation` |

For any operations, any number of commands, and any breaks, faults and expiries. The argument counts what is under way, by kind of event and direction (`Count`). `BoundInv`: a
timer's goroutines and the events that would start one more are at most the commands of the web. `MadeInv`: an answer is under way only to a side that
has made its timers; so no answer meets a nil timer. For `SameOperation` nothing may have run out, and `PhaseInv` says what is then true: the
events that tell of the device's operation are at most one, the requests and their answers too, all of them are of the operation of the side they concern (`OwnInv`, `TokenInv`), and where the
one event is tells how far the other side has come (`SidesInv`). `LastInv` is needed because a reader's last
push makes the device connect again: behind it must come no request of the former connection.

### ExchangeProofs

| theorem | property |
|---|---|
| `TypeCorrect` | `TypeOK` |
| `NoNilTimer` | `NoPanic` |
| `ReLoginIsReleased` | `ReLoginReleased` |
| `RequestsAreWatched` | `WaitsForSomething` |
| `CloseFindsTaker` | `CloseTakesToken` |
| `AckAnswersCurrent` | `AckIsCurrent` |

For any set of instances of any size. `Inv` joins the types and `LinkInv` (only a break ends the reader; only a break, the ticker or another registration makes a login necessary) with

* `WatchInv`: an asker that waits is watched, and a token that lies in the close channel meanwhile has a goroutine to take it. `WaitsForSomething` and
  `CloseTakesToken` are its consequences, but for the asker's own trouble (`OwnTrouble`: a break, a fault of its side, or for a heartbeat a login taken back); neither is inductive alone, as the goroutine that takes a token may be the one that watched.
* `MadeInv`: of an exchange whose timer has not been made nothing is under way but requests the asker has still to handle. It is where `NoPanic` comes from.
* `CalmInv`, `PlaceInv`, `FreshInv`: a device that comes back meets a new Thing of the gateway, whose timers are nil again. Nothing its predecessor asked for may start an answer that reaches it:
  no request of the gateway is behind the last push of a reader, none is under way until the login, and behind the login's success stands nothing of the gateway's.
* `ReleaseInv`, which is `ReLoginReleased`.

A queue that has only events of one set stays so (`Stays`); "there is no such event" is membership in the sequences over the others, so that
sequences are taken apart in a few lemmas only.

`AckIsCurrent` is a second layer, relative to `Inv`. `ChainInv`: a relogin from outside begins a chain in which there is at most one of a request in the
channel, a running timer, a goroutine that asks again. `DatesInv`: what is under way, except unhandled requests, is not of the future, belongs to the request that waits or is
older than it, and is older than the present second when the next request of the chain is at hand (`Pending`). A second has passed then, because a timer ran out.
So the creation times of two requests differ, and the comparison of `iot/gateway/relogin.go` tells them apart.

### MqBridgeProofs

| theorem | property |
|---|---|
| `TypeCorrect` | (`TypeOK`) |
| `DeliveryRefined` | `InOrderAtMostOnce` |
| `LossIsBounded` | `LossBounded` |

For any number of partitions, any capacity of the channels, any number of messages, crashes and errors. `ListInv` and `PlaceInv` tell what `NewConsumer` has of the list of offsets at each of its commands, and
that nothing is read beyond the topic. `OrderInv` orders, for each partition, what was given, what is in the channel and what the reader holds, and relates all three to the
stored offset; it holds where no command of `NewConsumer` fails, as the refinement does. For `LossBounded` the messages lost are counted: `Gone` is those that the offset has passed and that were
neither given nor are in the channel or in a reader's hands. A crash adds at most what was on the way
(`WayBound`: `ChanCap + NParts`), a failed command one message, every other step none.

### FramingProofs

| theorem | property |
|---|---|
| `TypeCorrect` | (`TypeOK`) |
| `OnlyFrames` | `Intact` |
| `NothingIsSkipped` | (`NothingSkipped`) |

For any lengths of header and data, any kinds of frames and any cut of the stream. `FrameInv` lays the frames one behind the other; `PhaseInv` says that `RecvOneMessage`, once it has found the id, is at a frame and then knows its
length; `ReceivedInv` that what was received lies before the place it is at. `NothingIsSkipped` is the safety part of `EveryFrame`: `WholeInv` for Reads that are never short, where each phase begins at
the end of the last, and `AloneInv` for a peer that sends one frame at a time.

### What is only checked

TLC alone covers the liveness properties, which are outside the prover's reach. Every invariant and every action property that a
run checks, and both refinements, are proved.

## Not modelled

* The cryptographic functions (a frame carries its key) and the conversions of `util` and `encoding/json` (an outcome).
* A key that reaches `AesKeyOutOfDateTime`: the device replaces it ten minutes before, unless it cannot connect.
* Several devices in one client process (`things.go`): they share the process's database only. One
  consequence is listed as a hazard: the age of the key is read from row 1 whatever the device (`iot_client/thing/thing.go:162`).
* `Consumer1` to `Consumer3` and the older producers of `kafka.go`, which nothing calls.
* The console and file handlers of the logger, whose state does not change.
* The MySQL sample under `database/mysql`, generated protobuf code, the microservice, the tools, the older logger
  under `log/log`, and the mains: not linked into gateway or client, or without a state of their own.
