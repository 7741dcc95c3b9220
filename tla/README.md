# TLA+ models of the HikeSafe LoRa code (MeshCore)

MeshCore is firmware for a LoRa mesh.  Nodes are repeaters, room servers,
sensors and companion radios; a companion radio is driven by an app over a
serial line or Bluetooth, and here also by a web gateway.  Texts flood the mesh
until a path to the recipient is known and then go hop by hop along it.  These
modules model the parts that decide whether packets survive, arrive once, and
are acknowledged by somebody who has them, and the servers and links built on
top: the room server, the alerts of a sensor, the companion's link to its app,
the web gateway, and the frames on serial lines.  Paths below are relative to the root
of the repository (the C++ sources are in `src/` of it, so `src/src/...` in
`PROJECT.json`).

## 1. Inventory

| Component | State | Operations | Interacts with |
|---|---|---|---|
| Dispatcher (`src/Dispatcher.cpp`) | outbound packet and its expiry, `next_tx_time`, `cad_busy_start`, airtime, error flags | `loop`, `checkRecv`, `checkSend`, `processRecvPacket`, `obtainNewPacket`, `sendPacket`, `releasePacket` | radio driver, pool, its subclass through `onRecvPacket()` |
| Packet pool (`helpers/StaticPoolPacketManager.cpp`) | three arrays: unused, send queue, receive queue | `add`, `get`, `countBefore`, `removeByIdx` | dispatcher |
| Radio driver (`helpers/radiolib/RadioLibWrappers.cpp`) | one `state` byte, shared with the interrupt routine | `recvRaw`, `startSendRaw`, `isSendComplete`, `onSendFinished`, `resetAGC` | transceiver |
| Mesh routing (`src/Mesh.cpp`) | none of its own; the table of seen packets | `onRecvPacket`, `routeRecvPacket`, `sendFlood`, `sendDirect`, `createPathReturn`, ... | dispatcher below, peers above by callbacks |
| Table of seen packets (`helpers/SimpleMeshTables.h`) | two cyclic tables | `hasSeen`, `clear` | mesh routing |
| Chat client (`helpers/BaseChatMesh.cpp`) | contacts with `out_path`, channels, connections, a pending import | send text / group text / request / login, `onPeerDataRecv`, `onPeerPathRecv`, `onAckRecv`, `onAdvertRecv` | mesh routing; app by virtual functions |
| Companion radio (`examples/companion_radio/MyMesh.cpp`) | expected-ACK table, offline queue, pending request tags, lobby, dirty flag of the contacts | about 50 app commands, `loop`, `begin` | chat client, serial interface, storage |
| Companion storage (`DataStore.cpp`) | contacts, channels, preferences, blobs on flash | load / save | companion |
| Lobby gateway (`gateway/index.js`) | receive buffer, pending requests with timers | web-socket messages, device frames, timeouts, closing sockets | companion by serial line |
| Room server (`examples/simple_room_server`) | ring of posts, per client `sync_since`, `pending_ack`, `push_failures` | post, login, push, ACK, timeout | access list, mesh |
| Access list (`helpers/ClientACL.cpp`) | array of clients with permissions | `putClient`, `applyPermissions`, load, save | servers |
| Repeater (`examples/simple_repeater`) | neighbours, rate limits, region of the packet being received | `allowPacketForward`, `filterRecvFloodPacket`, admin session | mesh, regions |
| Sensor (`examples/simple_sensor`) | queue of alerts, time series | `alertIf`, `sendAlert`, `onAckRecv`, `loop` | access list, mesh |
| Regions, transport keys | tree of regions, cached keys | find, put, remove | repeater |
| Bridges (`helpers/bridges`) | framing state, table of seen packets | `loop`, `sendPacket`, `onPacketReceived` | repeater, second radio |
| Serial interfaces (`ArduinoSerialInterface`, `SerialBLEInterface`, `SerialWifiInterface`) | framing state, two queues, connection flags | `checkRecvFrame`, `writeFrame`, Bluetooth callbacks | companion |
| Command line, crypto, boards, UI, drivers | | | |

How they interact.  Everything on a node runs in one thread, `loop()` called for
ever, except three things: the transceiver's interrupt (which ors a bit into the
driver's state byte), Bluetooth callbacks, and other nodes.  A received frame
goes radio -> dispatcher -> `Mesh::onRecvPacket` -> the callbacks of the chat
client -> companion -> serial frame; what `onRecvPacket` returns tells the
dispatcher to free the packet, keep it, or queue it again.

What is hard:

* packets are objects of a fixed pool that pass through five owners on seven
  paths; one path that forgets to free them shrinks the node for good;
* a 32-bit millisecond clock that wraps around, compared in two different ways;
* an interrupt that races with plain stores;
* transmission times that are random, so that frames overtake each other, arrive
  several times over different ways, or not at all;
* nodes that reboot and forget what they had seen;
* acknowledgements of four bytes matched against a small cyclic table;
* one serial line shared by several web clients without request identifiers.

What makes each component correct:

* dispatcher and pool: every packet has exactly one owner; the chip works for
  the outbound packet only; a send that never ends is given up; airtime stays
  within the budget; a busy channel holds a packet back for a bounded time;
* mesh: floods end and do not circle, each packet is worked on once, direct
  packets stay on their route;
* chat client: each text reaches the app once; a stored path can be walked; a
  confirmation means that somebody has the text; a flooded text is confirmed and
  teaches both sides a path;
* companion: the expected-ACK table confirms only what somebody received; the
  offline queue keeps order and private messages; an app that is there gets what
  waits for it, one answer for each command, and every contact that changed;
* gateway: each request is answered once, with the answer to it, and none is
  forgotten while its client waits;
* room server: every client gets every post of others, once the radio
  lets it; a retried push does not skip one; access list: an administrator is
  never evicted while somebody else can be;
* sensor: an alert goes to every contact that wants it, an ACK counts for the
  contact it comes from, and no alert blocks those behind it;
* serial framing: frames arrive as sent, however they are cut; after a damaged one
  the stream gets into step again.

## 2. Modules

| Module | Models |
|---|---|
| `Millis` | the wrapping clock: `futureMillis`, `millisHasNowPassed`, with half the period (`Half`) a parameter instead of 2^31 |
| `PacketQueue` | `PacketQueue::add`, `countBefore`, `get`, `removeByIdx` as operators on sequences |
| `RadioLibWrapper` | the driver's state byte as `<<mode, ready>>` and the chip behind it; each call is cut between the command to the chip and the store to the byte, because the interrupt can come in between |
| `Dispatcher` | `Dispatcher::loop()` in phases (`pc`): the top of the loop, the delayed queue, `recvRaw`, `checkRecv`, `onRecvPacket`, `checkSend`, arming the expiry; subclass, clock and interrupts run between phases |
| `PacketLifecycle` | the abstract specification: one owner per packet, moving along twelve edges |
| `MCDispatcher` | the symmetry set for TLC |
| `DispatcherProofs` | proofs about `PacketQueue`, `Dispatcher` and the refinement |
| `MeshPackets` | frames, bodies, the ACK code, the tables of seen packets |
| `ChatMesh` | a network: `Mesh::onRecvPacket`, the answers of `BaseChatMesh`, the companion's ACK table and path reset, lossy links, power losses |
| `MCChatMesh` | topologies and traffic |
| `ChatMeshProofs` | proofs about `ChatMesh`: types, what the tables of seen packets know, paths and floods; acknowledgements and deliveries |
| `Gateway` | `gateway/index.js`: pending requests, timers, sockets, the line to the device and the frames that come back |
| `MCGateway` | clients, identifiers and actions |
| `GatewayProofs` | proofs about `Gateway` |
| `ClientACL` | the access list as operators on the whole array and its length: `getClient`, `putClient`, `applyPermissions`, `save`, `load` |
| `RoomServer` | the room server on top of it: logins, texts, requests, commands, pushes with ACK, timeout and retry, restarts |
| `MCRoomServer` | clients, commands and scenarios |
| `ClientACLProofs` | lemmas about `ClientACL`, for both that use it |
| `RoomServerProofs` | proofs about `RoomServer` |
| `CompanionLink` | the companion's offline queue and contact listing, and the Bluetooth interface between it and its app |
| `MCCompanionLink` | contacts and scenarios |
| `CompanionLinkProofs` | proofs about `CompanionLink` |
| `SensorAlerts` | the alerts of a sensor, on top of `ClientACL` and `Millis` |
| `MCSensorAlerts` | contacts, alerts, commands and scenarios |
| `SensorAlertsProofs` | proofs about `SensorAlerts` |
| `SerialFraming` | the three machines that cut a byte stream into frames, and those that write it |
| `MCSerialFraming` | lines and payloads |
| `SerialFramingProofs` | proofs about `SerialFraming` |

What composes what: `Dispatcher` is built from `Millis`, `PacketQueue` and
`RadioLibWrapper` and shown to implement `PacketLifecycle`; `ChatMesh` uses
`MeshPackets`; `RoomServer` and `SensorAlerts` share `ClientACL`, as the two
programs share the class; `SensorAlerts` takes its clock from `Millis`.

`Dispatcher` and `ChatMesh` are separate models of the same node at two
levels: the first has one node, with its queues and clock, and treats
`onRecvPacket` as any legal use of the public interface; the second has several
nodes and treats the dispatcher as a set of frames each node will some day send.
`RoomServer`, `SensorAlerts` and `CompanionLink` are one level up again: a packet
between a server and its client, or a message that came over the radio, is one
element that arrives, is lost, or is late; how it gets there is `ChatMesh`.

### 2.1 Dispatcher

*Correspondence.* One step is one phase of `loop()`.  The clock may advance, and
an interrupt come, between any two phases (`TickPoints` limits where, per run).
`SendCompleted`, `SendTimedOut`, `SendPending` and `NothingOutbound` are the
branches at the top of `loop()`; `CheckInbound`, `RecvRaw`, `CheckRecv` and
`CheckSend` the calls after it, each with all of their early returns.
`ProcessRecvPacket` is what happens to the packet once `onRecvPacket()` has
returned; `ObtainNewPacket`, `SendPacket`, `ReleasePacket` may happen inside it
and between calls, for packets the subclass holds.  That the subclass gives back
only what it holds is the one assumption; two callers break it, see section 5.

*Abstractions.* Frames are one of malformed, flood, direct; the score that turns
into a receive delay is any value of `RxDelays`; the channel is busy or free
without a reason; the transceiver may refuse any command and never finish a send.
`outStart`, `outExpiry` and `nonRxStart` are set to 0 where the code will not
read them before writing them, which saves states and changes no behaviour.
Statistics are left out, except `total_air_time`, which a property is about.

*Runs and bounds.*

* `dispatcher_ownership` - three packets, so that all owners are occupied at once
  and the pool runs dry; the clock stops at 2, because ownership depends on the
  clock only through what is due.  Symmetry in the packets.
* `dispatcher_timing` - one packet (timing concerns the one outbound packet),
  12 ticks, an airtime factor of 2, CAD retry delays of 1 and 2.  No wrap-around
  (section 5 says what the wrap does to a node that is silent for long).
* `dispatcher_live` - the clock wraps around for ever in a period of 16; the only
  fairness is weak fairness of `LoopStep` (`main.cpp` calls `loop()` for ever and
  the phases follow each other) and of `Tick` (time passes).  Nothing is assumed of the radio.

### 2.2 The mesh

*Correspondence.* One step is one call of `onRecvPacket()`, one transmission, or
one command of the app.  `Receive(n)` is the `switch` of `onRecvPacket` cut into
its cases: `ForwardDirect` (direct, hops left), `IgnoreSeen`, `PassOn` (text or path
for somebody else), `GroupTextArrives`, `TextForMe`, `PathForMe`, `AckArrives`.
Each does everything the callback behind it does: entering the packet in the
table, delivering, building the answer, entering the answer in the table
(`sendFlood` and `sendDirect` do), and queueing it.  `SendMessage`,
`SendGroupMessage` and `ResetPathTo` are app commands; `SaveContacts` is the lazy write
of the contacts, `Boot` is `begin()`.

*Abstractions.*

* A packet hash or an ACK code is the tuple of what is hashed, so different
  inputs never collide; a packet decrypts at its addressee only.  What the code
  leaves *out* of a hash is left out of the tuple: the recipient is not part of an
  ACK code, and of the attempt only two bits are.
* `outq[n]` is a set: retransmissions wait for random times
  (`getRetransmitDelay`, `getDirectRetransmitDelay`), so any order is possible.
  Equal frames waiting at one node are one element.
* `air` holds what a node has heard and not worked on: the receive delay depends
  on the signal and differs from frame to frame.  A node that is not waiting to
  send is always able to receive; what it misses otherwise is `Miss`.
* Every client knows every other one.  Repeaters have the default (wildcard) region.
* `FloodMax` and `MaxPath` are 64 as in the code except where a run is about the limit.
* Texts have an identity (`text`) that stands for timestamp and content; an app
  that retries sends the same text with the next attempt number and stops once it is confirmed.

*Bounds.* `MaxTraffic`: an app gives a command only when at most so many frames
are under way in the whole network; `MaxAir`: a node transmits only when at most
so many receptions are waiting.  They bound how many transmissions overlap, not
their order, and are what keeps the instances small: with `MaxAir = 1` two
frames are in the air with all their receivers and three or four handlers race.
`MaxAttempts`, `MaxResets` and `MaxOutages` bound what apps, users and power supplies do.

*Fairness.* `FairSpec` adds weak fairness of `Receive(n)` and `Transmit(n)` for
each node: loops run for ever and a queued packet is sent in the end
(`dispatcher_live`, `CadWaitBounded` and `DutyCycle` are the reasons).  Nothing
is assumed of apps, of `Boot`, or of a missed frame: the liveness runs set
`Lossy = FALSE`, because the protocol promises nothing to a sender who is never
heard, and let a repeater die and not come back instead.

*Runs.*

* `mesh_paths` - two repeaters that hear each other (so there is a cycle), one
  of which the sender does not hear (so the ways differ), losses, a path reset,
  one power loss of sender or repeater.
* `mesh_direct` - a chain of two repeaters, two texts, multi-part ACKs, losses:
  the first text floods, the second goes directly.
* `mesh_recover` - the diamond again, one repeater may die and may come back, two
  texts with two attempts each, a reset: what docs/faq.md 5.4 tells users to rely on.
* `mesh_learn` - three clients over two repeaters with `MaxPath` equal to the
  longest way, so the limit is met exactly; no outage.

The instances never fill the 128 slots of the table of seen packets; what
happens when they overflow is listed as a hazard without a property.  Section 4 states
what has to hold of the table for `DeliveredOnce` and `FloodsDoNotCircle` in general.

### 2.3 The gateway

*Correspondence.* One step is one callback of the event loop of Node, which runs
callbacks one at a time: a message of a client (`Accepted`, which is
`addPendingRequest()` and the write to the port, or `Refused`), a timer that
runs out (`Timeout`), a socket that starts to close and its `close` event
(`BeginClose`, `Close`), a frame of the device (`DeviceFrame`).  Between them the
device takes a command and answers it (`DeviceAnswers`), or the line loses it
(`LineLoses`).  A request is its number in the order of arrival; that is also the
order in which a JavaScript `Map` is walked, so the first match in
`handleDeviceFrame` is the least number.  Timers and `close` handlers are closures
over an id, not over a request, and that is how they are modelled: they delete
whatever is stored under that id.

*Abstractions.* Parameters and encodings of commands are left out; a message whose
parameters are missing leaves no trace and is like `Refused`.  Which answers the
device gives (`AnswersTo`) is taken from `handleCmdFrame()` of the companion:
success or error, one frame per command, in the order of the commands.  Pushes
of the device (codes from 0x80) match no request and are only broadcast, which
changes no state.  Frames arrive whole here; how `feedSerialData()` cuts them out of
the byte stream is `SerialFraming`.  A timer may
run out at any moment: nothing is assumed of how 5 seconds relate to the device.
`told` keeps what a client was sent under the id of its request; `resolved` and
`abandoned` are history variables for the properties.

*Run and bounds.* `gateway` - three requests over two sockets, one identifier
that clients may choose (so that it is used twice) or none, three actions that
stand for the kinds: one that cannot be evaluated, one answered OK/ERR, one with a
code of its own.  Two requests are enough for answers to be mixed up, the third
makes it possible that one of them took the id of another before.

*What the code promises, and where it ends.* `AnswersBelong` holds only while no
request was given up and no command lost: after a timeout, the late answer to the
request that is gone is taken for the answer to the next one that waits for
the same code.  The frames carry no identifier, so the gateway cannot tell; nothing in
the code or its documents claims more.  A lobby joined by name is excluded too:
the gateway waits for OK or ERR, and the companion answers
`RESP_CODE_CHANNEL_INFO` ("Respond with channel info so the app can learn the
channel index"), so the request times out, or takes the answer to another.

### 2.4 The room server and the access list

*Correspondence.* What a client sends is handled in the step that sends it:
`Login`, `BlankLogin` (`onAnonDataRecv`), `TextArrives`, `Request`,
`CommandArrives` (`onPeerDataRecv`), `PathArrives` (`onPeerPathRecv`); so that it may
have been under way for long, it carries any time stamp and any `since` value the
client had so far.  `SetPerm` is the same command on the server's own console.
`PushTurn` is the part of `loop()` that takes a turn: it forgets ACKs that are
overdue, looks at the client whose turn it is, and pushes the oldest post that client
has not.  Pushes and their answers stay in `air` until they arrive (`PushArrives`,
`AnswerArrives`) or not (`Lose`).  `SaveClients` and `Restart` are the lazy write of
the list and `begin()`, with a write that the restart cuts off anywhere.  A clock chip,
or a warm start, keeps the time over a `Restart`; at power-on a board without a chip is back at the
time its clock starts with (`VolatileRTCClock`, `ArduinoHelpers.h:11`, the fallback of
`AutoDiscoverRTCClock.cpp:57`; `ESP32Board.h:95`), while `sync_since` is read from the
file or told by the client at its next login.  Both happen, in any restart.  In
`ClientACL` the list is the whole array with `num`: a deletion leaves a copy in the
last slot, and `next_client_idx` may point to it, as in the code.

*Abstractions.* An ACK code is the triple of client, whole post and attempt, as the code
hashes the text with its stamp; a public key is an
identity and a key prefix the set of identities it fits; a path is known or not; a
timeout may come at any moment, as nothing relates it to how long an answer takes.
Server and clients have a clock of their own each; a client never sends a post's
`since` that it does not have.  `horizon` is a history variable: the latest stamp the server
had given before its last start.  `Tick` is also the clock being set forwards, by an administrator or a GPS; commands
refuse to set it back (`CommonCLI.cpp:186`, `:205`).  A GPS may set it back between
two starts, which is not modelled: stamps go on rising all the same
(`getCurrentTimeUnique`), so that it delays pushes and changes nothing else.  Replies to requests change no state and are left out.

*Run and bounds.* `room_server` - three clients, two places on the access list
(so that a third login pushes somebody out), a ring of two posts (so that the
second round overwrites), pushes left alone after two failures, two attempts.
`Budgets` says how often each client may send what with which time stamp, in any order, and how
many paths, console commands, losses and restarts there are, in eleven scenarios that combine
two or three hazards each: posts of two clients and a loss; a guest; two posts of one, or a
retry; paths; a request; commands that remove or promote a client; more
clients than places, with and without somebody to give way; a second login that is older or newer
than the text; and two with a restart, in one of which the list is read back and in the
other a client has to log in again.  The two posts about a restart may be
stamped in any order with it and with the clock at its start or after it, so
that a post gets a stamp that was already given, or an older one.
All of them together do not fit into memory; which of them interact is a judgement, and
the safety properties are therefore also proved, for all budgets.

*Fairness.* `loop()` is called for ever, what is on the air arrives, and time passes.
Under fairness `PushTurn` times out exactly those clients whose answer is not on
its way any more: the code's timeout is meant to cover the way there and back
(`PUSH_ACK_TIMEOUT_FLOOD`, `PUSH_TIMEOUT_BASE` with a factor for each hop), and a
timeout that comes sooner counts as a loss of the budget.  Losses and restarts end, because
nothing is promised to a client who is never heard.

### 2.5 The companion and its app

*Correspondence.* The main loop is cut at the three places where the Bluetooth task
can come in between and matter (`pc`): `LoopStarts` sends one frame and copies a command out of
the receive queue or reads the number of connections; `ShiftAndHandle` moves
the rest of the queue up and does what `handleCmdFrame` does;
`NoFrame` acts on the number of connections as it was read, and goes on with the
listing of the contacts.  `Connect`, `Disconnect` and `onWrite` are the callbacks of
`SerialBLEInterface`.  `MessageArrives`, `Push` and `ContactChanges` come from the mesh.

*Abstractions.* The app is not in the sources: it is taken to send one command at
a time, to fetch messages when it connects and when it is told of one, and to ask for
the contacts changed since the time it was told last.  A frame is its type
and what the properties need of its content.  `arrived`, `lost`, `cut` and
`disturbed` are history variables: which messages came in, which types of frame
did not get through, whether a connection broke, whether a contact changed in the
second of a listing or found no room in the send queue, and what an app found in the queue that was
meant for the one before.  The properties say what holds
until then, because a frame that does not fit is dropped without a word.

*Run and bounds.* `companion` - both queues of two (6 frames and 8 to 256 messages in the code: what
matters is that they overflow), two contacts, two seconds, and six scenarios: an offline queue that
overflows, over one connection and over two; pushes that fill the send queue; listings
while contacts change, over one connection and over two; three connections, the first number
with which an app could be misled by an answer that was queued for an earlier one.

*Fairness.* `loop()` is called for ever, the interval between two frames passes, and
an app that is connected sends what it has to send.

### 2.6 The alerts of a sensor

*Correspondence.* A `loop()` reads the sensors once a minute, which calls `alertIf` for each
condition (`SameReading`, `NewReading`), and then works on the head of the queue:
`Idle`, `AlertDone`, `NextContact`, `NextAttempt` and `ContactGone` are the branches of
that part, and `Work` holds them together with the reading.  `AckArrives` is
`onAckRecv`; `Login` and `SetPerm` change the access list while an alert is under way.

*Abstractions.* A text that was sent may arrive late, more than once or never, and so
may its ACK: nothing is taken away.  The clock (`Millis`) wraps around.  `told`, `confirmed`
and `steady` are history variables: what was sent since an alert was raised, whom an
ACK was taken for, and whether the list only grew.

*Run and bounds.* `sensor_alerts` - three alerts of which one has high priority, a queue of two, so that
it fills up and that an alert inherits the turn of one that has ended; three contacts, a list
of two; two attempts; a clock of period four, which wraps
around several times while one alert is told.  Five scenarios with up to two
texts that get through, two changes of the reading, three logins, one command.

*Fairness.* `loop()` is called for ever, the sensors are read again and again, and
the clock goes on.  Nothing is assumed of contacts: an alert goes on without their ACKs.

### 2.7 Frames on serial lines

*Correspondence.* `Machine` is the byte machine of `ArduinoSerialInterface::checkRecvFrame`,
`Fed` the loop of `feedSerialData()` over its buffer, `Bridged` the body of
`RS232Bridge::loop` for one byte, with `fletcher16`; `Framed` is what the three
senders write.  The three never meet, but promise the same, so they are three kinds of
one line: `line` is chosen at the start.

*Abstractions and bounds.* A byte has four values, so that a length byte, a payload byte and a
checksum can each look like the start of a frame, and a length has two bytes.  `framing` sends
single frames and pairs of them, with payloads that look like a frame or are too large for the
device, and loses or changes two bytes anywhere; the gateway gets bytes in chunks of any size.

*Fairness.* Bytes that have arrived are read.  `LineRecovers` is about lines on
which frames keep coming: with none, a machine without a timeout waits for ever.

## 3. What is checked

| Property | Says |
|---|---|
| `Ownership`, `OutboundOwnsRadio` | one owner per packet; a packet is outbound exactly while the chip works on it |
| `LifecycleSpec` | `Dispatcher` implements `PacketLifecycle` under the mapping `OwnerOf` |
| `DutyCycle` | when a send may start, completed sends took at most 1/(1+factor) of the time |
| `RadioHeldBounded`, `CadWaitBounded` | a silent radio or a busy channel hold a packet for a bounded time |
| `OutboundReleased` | a packet given to the radio comes back (liveness) |
| `FloodsDoNotCircle` | a node is in the path of a flood at most once per life of its tables |
| `OutPathsLead` | every stored path can be walked in its direction |
| `DeliveredOnce` | no app gets the same packet twice |
| `DirectStaysOnRoute` | what is left of a direct packet's path leads to its addressee |
| `AckProvesReceipt` | a confirmed text is in somebody's inbox |
| `FloodsAreConfirmed`, `PathsAreLearnt`, `GroupReachesAll` | liveness of an exchange once nothing fails any more |
| `TimersOwnPending` | a timer never takes away another request than its own |
| `AnsweredOnce`, `NoneIsForgotten` | each request is answered once and lost by nobody else's doing |
| `AnswersBelong` | an answer goes to the request that caused it, while nothing is given up |
| `NoPostSkipped` | what a client is taken to have, it has: no post of others is passed over that has a later stamp than all before the last start |
| `PostedOnce` | a text sent again is posted once, as long as the client's entry stays on the list |
| `AdminsStay` | a newcomer pushes out no administrator while there is somebody else |
| `PostsReachClients` | in the end every client the server has heard of has every post in the ring that has a later stamp than all before the last start (liveness) |
| `MessagesInOrder` | messages reach the app in the order they came in |
| `PrivateMessagesStay` | the offline queue gives up channel messages, the oldest first, and private ones only when full of them |
| `WaitingMessagesAreKnown` | an app that waits for nothing knows of every message that waits for it |
| `OneAnswerEach` | a command is queued, worked on or answered, once, while nothing breaks |
| `ListingsAreComplete` | contacts older than the time a listing ended with are known to the app |
| `MessagesGetThrough` | what waits for an app that is there gets to it (liveness) |
| `AcksProveReceipt` | an ACK taken for a contact is that of an alert the contact received |
| `EveryoneIsTold` | an alert that is done was sent to all who want it |
| `AlertsGetAround` | an alert whose condition lasts is told to all and done with (liveness) |
| `FramesArriveAsSent` | frames arrive as sent, all of them and nothing else |
| `LineRecovers` | a receiver that is out of step gets into step again (liveness) |

Each module but `SerialFraming` also has its `TypeOK`, which holds the bounds of
arrays and counters: the pool and its queues, the cyclic tables, the ring of posts,
the access list, the two frame queues, the queue of alerts and the index of attempts.

Each has a mutant in `PROJECT.json`: a change of one definition, as a bug in the
mapped lines would make, under which TLC finds the property violated.

## 4. What is proved

`DispatcherProofs` first proves lemmas about the queue operators for every queue: what
`Add` and `RemoveByIdx` do to membership and length, that a queue of distinct
packets of a pool of size N has at most N entries, that `Best` picks an eligible
index.  Then, for every finite pool, every set of delays and
priorities, and every clock width:

* `TypeCorrect`: `Spec => []TypeOK`;
* `PoolOwnership`: `Spec => []Ownership`;
* `RadioOwnership`: `Spec => []OutboundOwnsRadio`;
* `ImplementsLifecycle`: `Spec => LifecycleSpec`;
* `SendsAreCutShort`: `Spec => []RadioHeldBounded`, wherever the clock wraps;
* `AirtimeBudget`: `Spec /\ [](now <= U) => []DutyCycle`, and
* `BusyChannelGivesIn`: `Spec /\ [](now <= U) => []CadWaitBounded`, for every uptime `U` with
  `WithoutWrap(U)`.

From which assumptions: `DispatcherAssumption`, the assumptions of `Millis` and
`PacketQueue` (a finite, non-empty pool), nothing else.  The last two have the hypothesis
that the clock has not passed an uptime `U` so short that none of the sums made with it, the
airtime with its silence or the time of a retry, leaves half the period (`WithoutWrap`).  They need it: `next_tx_time` is
compared by signed difference, and after half a period without a send it lies in the
future again (section 5).  With a budget factor of two and 2^31 ms the hypothesis covers
the first eight days.

The argument.  `Ownership` is not inductive: `checkSend` puts a packet into
`outbound` and would lose an older one if there was one, so the invariant has to
say in which phases `outbound` and `current` can be occupied (`PhaseInv`): there
is a current packet exactly in phase `handle`, an outbound one always in phase
`arm`, and otherwise only in phase `app`.  With that, each action moves one packet, and what has to be shown is that
`Add` is never called on a full queue: the queues hold distinct packets
of a pool of `PoolSize` and the packet being added is not among them, so its
queue has at most `PoolSize - 1` entries.  The silent drop in `PacketQueue::add` is
therefore dead code, for every pool size.  The refinement proof maps each action
to one edge of the life cycle, using that `OwnerOf` is a function because owners are disjoint.

The timing properties each have an invariant of their own on top of that.  `HeldInv`
says that the expiry lies within 3/2 of some estimated airtime of the start, and that the age of the send is
past it by the tick of the current phase at most, because the top of `loop()` looks each time round; this is
arithmetic modulo the period, and no clock value is ever compared as a plain number.  `BudgetInv`
says that the completed sends, with the silence each earns, fit before `next_tx_time`,
and that a send under way began after it.  `WaitInv` says that while the channel is
busy some packet stays due, so that every `checkSend()` looks again, and counts the
ticks a pass of `loop()` can have taken before it comes to the phase it is in (`Spent`), because
a frame that comes in sends the loop through `handle` once more.

`ChatMeshProofs` proves for every set of
nodes, links and hashes, every set of messages, tables of every size and any
number of losses, resets and outages:

* `TypeCorrect`: `Spec => []TypeOK`;
* `OutPathsAlwaysLead`: `Spec => []OutPathsLead`, whether or not hashes are distinct;
* `DirectAlwaysOnRoute`: `Spec => []DirectStaysOnRoute`, for distinct hashes
  (`HashesDiffer`; with equal ones a node may take a packet that was meant for
  another, which the code accepts);
* `AckAlwaysProvesReceipt`: `Spec => []AckProvesReceipt`;
* `DeliveredOnlyOnce`: `Spec /\ [][\A n \in Clients : StillKnown(n)]_vars => []DeliveredOnce`,
  for a table of at least two slots;
* `FloodsNeverCircle`: `Spec /\ [][\A n \in Repeaters \cap alive : StillKnown(n)]_vars =>
  []FloodsDoNotCircle`, where no two repeaters have the same hash (`RepeatersDiffer`);
* `DeliveredOnceUntilFull` and `FloodsNeverCircleUntilFull`: the same two conclusions from
  `[]NoTableFull` instead, the first for clients that do not lose power.

From which assumptions: `NetworkAssumption` and `PacketAssumption`.  The hypotheses of the
last four are what the code relies on and cannot ensure.  A node recognises a copy by
a cyclic table of 128 packets and 64 ACK codes (`SimpleMeshTables.h:78`) that is
lost in a restart; `StillKnown(n)` says of a step that `n` forgets no packet of
which a copy is still in a queue or in the air.  Without it both properties are false:
with one slot or two TLC soon shows a packet delivered again after another
packet has taken the slot.  `RoomMeansStillKnown` proves that a node with power
forgets nothing while its table has a free slot at the end of each step, which
is how the runs meet the hypothesis, and the two `UntilFull` theorems follow.  Two slots are
needed because the answer to a text is entered right behind the text.

The argument.  What a client keeps as a path came in a PATH packet, what that
packet brings was the path field of a flood, and what a flood has in its path
field was put there by the repeaters it passed.  So the invariant `PathInv` is
about frames (`FramesTellTheWay`): in the air, the path field of a flood is a walk
from its origin to who heard it; in a queue, to whoever can hear that node; a PATH
packet brings a walk from its addressee to its sender; and the rest of a direct
packet's path is a walk from the node whose queue it is in.  Three lemmas about
walks carry it: a flood starts one, a repeater extends one by itself, and the
first hop may be taken off at the node that has its hash.  For acknowledgements the
invariant `AckInv` says that no code is under way in a plain, multi-part or
wrapped ACK unless a text it acknowledges has been delivered, and that a client
expects acknowledgements of its own texts only; inboxes only grow, so what is
earned stays earned.  The second half is what makes the first enough: two
clients cannot confirm each other's texts, because the sender is part of the code.

`DeliveredOnce` needs to look at what is still to come.  `OnceInv` says that what a
client has given its app is in its table *as long as a copy is under way*, and
that no text is under way, or in an inbox, that an app has yet to send (`Unsent`).  So
once the last copy is gone the entry may go too: the same packet does
not come back, because an app never sends it again (another attempt is another
packet) and no node makes a text of anything else (`CopiesOrAnswers`).  For
`FloodsDoNotCircle`, `CircleInv` accounts for every hash in the path of a flood: the
passes of a repeater are at most its outages so far, and one more if it has power
and knows the packet (`Lives`).  Passing a flood on adds one to both sides, and
a power loss takes the entry away and adds the outage.

`GatewayProofs` proves every invariant of the run `gateway`, for any sockets,
identifiers, actions and number of requests, from `GatewayAssumption`:
`TypeCorrect`, `TimersAlwaysOwnPending`, `AlwaysAnsweredOnce`, `NoneIsEverForgotten`,
`AnswersAlwaysBelong`.

The argument.  That timers and pending requests are the same set, and that no two
pending requests share an id, is inductive by itself, and makes what a timer
deletes its own request.  With it, a pending request is one reply short of what its
client may get (`RepliesLeft`), and every step that replies ends it.  That closing a
socket leaves others alone rests on where the ids of its handlers come
from (`KeysKnown`).  For `AnswersBelong` the invariant `LineInv` says that answers and
commands lie on the line in the order of the requests and, while nothing has
been given up, that they are exactly the pending ones; so the answer that comes back
is to the oldest pending request, whose code it has
(`FrameFindsItsRequest`), and the search by code finds no older one.

`RoomServerProofs` proves for any clients, any length of the ring and of the access
list, any delay, any commands and any budgets of events:

* `TypeCorrect`: `Spec => []TypeOK`;
* `NoPostIsSkipped`: `Spec => []NoPostSkipped`;
* `AdministratorsStay`: `Spec => AdminsStay`;
* `RetriesArePostedOnce`: `Spec /\ [][AuthorsStay]_vars => []PostedOnce`.

From which assumptions: `RoomAssumption` and `ACLAssumption`.  Nothing is assumed of the clock at a restart: it
may be kept or start over, each time.  `NoPostIsSkipped` speaks of posts with stamps
above `horizon`; of those at or below it the statement would be false, see section 5.

The argument.  `NoPostSkipped` is about `sync_since`, which comes from three places: a
client's claim, the access list read back from the file, and the time stamp of the push
an ACK answers.  Only the last is hard: an ACK that comes in sets `sync_since` to
the stamp of the *latest* push to that client, and a client must have all posts up to it.
So `RoomInv` says that the posts lie in the ring in the order of their stamps
(`Ordered`, counted from `next_post_idx`), that a pushed post is one whose
predecessors the client has (`AirFine`), that whoever has received one has those
before it (`HeardFine`, from which claims follow), that an entry waits for the ACK of
its last push (`Good`), and that all stamps are in the past (`Past`): not later than the last stamp given, or
than `horizon`.  A new post therefore has either a stamp that is excused or one that comes after everything promised so
far.  At a restart the ring is empty and `horizon` rises to the last stamp, so that every promise is
about excused stamps and holds of what is posted next.  A stamp may now be given twice, before and after a
restart; hence pushes and what clients have are whole posts, and `Same` and `Stamped` say that a pushed post
with a stamp above `horizon` is the only one in the ring with that stamp.  `Grows` collects what every step
preserves: the past stays past, and what a client has up to a past time it goes on having,
because posts are only overwritten by newer ones.  `Good` is asked of every slot of the
array, in use or not, because a deletion moves entries and a turn may look at a slot
that is no longer used.  `AdministratorsStay` needs the invariant only for the
types; it rests on the lemmas about `putClient` and `Delete`.  Those are in `ClientACLProofs`, stated for a list
with entries of any set `E`: whatever holds of all entries goes on holding, nobody but the one that gives way is
lost, and no client is listed twice.

`PostedOnce` holds because a text that is posted has a newer stamp than the last one
of its author (`is_retry`), so the invariant `OnceInv` relates the ring to the access list: whoever
has a post in the ring has an entry, one, whose `last_timestamp` is not older than that post.  The
hypothesis `AuthorsStay` says that an author's entry is not given up while a post of it is in the
ring.  It is needed: a client that was evicted or deleted logs in again with a stamp of zero, and a text it sends
once more is a new one to the room.  With as many entries in the list as clients nothing is ever evicted, and a
restart clears the ring together with the stamps.

`CompanionLinkProofs` proves for queues of any lengths, any contacts and any budgets:

* `TypeCorrect`: `Spec => []TypeOK`;
* `MessagesStayInOrder`: `Spec => []MessagesInOrder`;
* `PrivateMessagesAreKept`: `Spec => []PrivateMessagesStay`;
* `OneAnswerForEach`: `Spec => []OneAnswerEach`;
* `WaitingIsAlwaysKnown`: `Spec => []WaitingMessagesAreKnown`;
* `ToldMeansListed`: `Spec => []ListingsAreComplete`.

From which assumption: `LinkAssumption`.

The argument.  Messages are numbered as they come in.  `OrderInv` says that the
numbers increase along the way from the queue over the send queue to the app, and
that there is no number that has not come in.  `KeepInv` adds that the queue knows
which of its messages are private (`KindsKept`) and that only older channel
messages are gone (`OnlyChannelsGone`).  The step that needs an argument is a private message that
finds the queue full of private ones: then there are more private messages than
places, which counts the distinct numbers in the queue, a pigeonhole argument by
cardinality.  `AnswerInv` is a balance: commands in the receive queue, plus the one
being worked on, plus replies in the send queue, are as many as the app waits for.  Before the first
connection there is nothing to answer, and once the loop has seen a connection the
interface is not taken for unconnected again; in between, the race in
`checkRecvFrame` may clear a fresh command, but never without a frame that is
counted as lost.

For `WaitingMessagesAreKnown` the order of the frames in the send queue matters: `KnownInv` says that behind every
answer that there are no more messages there is a tickle, unless nothing waits.  `ListingsAreComplete` takes three
invariants.  `Versions`: no version of a contact is newer than the one the device has, neither the app's nor one
under way, and the versions of one contact are under way in their order, so that a late frame
does not put an older one in the place of a newer.  `Sinces`: no command asks for, and no listing goes back to, a later time than
the app has been told.  `ListInv`: whenever an end is in the queue that the app will count (`Counts`: it
has the answer to its start, or that answer lies before the end), every contact up to
the end's time is with the app or lies before the end as well (`Shown`); and
the same of the contacts a listing has passed, while the app it began with is there.  Frames of a listing that was broken
off may be in the same queue, before the answer to the new start; they do no harm
because of `Versions`.

`SensorAlertsProofs` proves for any alerts, contacts, readings and commands, a queue and a list of any length, any
number of attempts and any period of the clock:

* `TypeCorrect`: `Spec => []TypeOK`;
* `AcksAreProof`: `Spec => []AcksProveReceipt`;
* `AlertsReachAll`: `Spec => EveryoneIsTold`.

From which assumptions: `AlertAssumption`, `ACLAssumption` and that of `Millis`.  `AlertAssumption` asks that the
value that stands for no ACK is no ACK, as in the code, where 0 means that none is pending.

The argument.  A reading is one `alertIf` after another, a recursive function over the alerts.  `Follows` says
what has become of an alert when the reading has got so far: nothing, it was raised, or it was called off; a lemma by the
least counterexample carries it through to the end.  `AlertsInv` then has four parts beside the types.  `Queued`: an alert
is in the queue once, and raised.  `Stamped`: no two alerts have a time stamp in common, and the next attempt of a
trigger is one no text has, so that an ACK is that of one text.  An alert of low priority has one attempt only, the
last, and the ACKs expected before it are none, which is why they need not be cleared for each contact.
`Courses`: as long as the list has only grown, whoever was told or has answered is at or before the place of
the trigger, everyone up to that place who wants the alert was told, and an ACK that would be
taken now is that of a text to the contact at that place (`MayAnswer`).  That needs `AclFine`: no contact is listed
twice.  The last part is `AcksProveReceipt` itself.  A login keeps the course because an entry is written behind the last one, or
replaced, which ends `steady`; what a contact wants is not touched by its role (`AdminWantsTheSame`).

`SerialFramingProofs` proves `FramesAlwaysArriveAsSent`: `Spec => []FramesArriveAsSent`, for bytes of any number of
values, any marks, any payloads, any of the limits and any number of bytes lost or changed.  From
`FramingAssumption`, which asks that a payload is not empty and that its length takes two bytes, as both
protocols have it; a length that took three would be cut by the sender.

The argument.  `right` says nothing of what is still to come, so the invariant `FrameInv` describes the line as
a whole: a receiver in step holds the first `k` bytes of one frame (`Stands`), and what is on the wire is the rest of that frame
and then the next one (`OnWire`, `InStep`).  What holding `k` bytes means differs: the device has its state, the length as far
as it is read, and the payload up to `MaxFrame` (`Within`); gateway and bridge have the bytes themselves (`Begun`).  With nothing
of a frame, the gateway may still hold garbage, but no `Mark` in it (`Rests`).  One byte takes the
device and the bridge from `k` to `k + 1`, and gives out the frame with its last byte (`DeviceAdvances`,
`BridgeAdvances`); the bridge needs that its checksum is two bytes, and nothing else of it.  The gateway takes many bytes at once: the
chunk may end inside the first frame, with it, inside the second, or with both (`ChunkTaken`), and its loop
goes round once for each whole frame (`FedInRounds`).  The loop and the sums of the checksum are recursive functions, so that
there are such functions at all is proved, from the least number for which there is none (`Rounds`).  When bytes were lost
or changed nothing is claimed, until a receiver waits while the wire is empty, which is `InStep` with nothing expected.

What TLC alone shows: everything under fairness (`OutboundReleased`, `FloodsAreConfirmed`, `PathsAreLearnt`,
`GroupReachesAll`, `PostsReachClients`, `MessagesGetThrough`, `AlertsGetAround`, `LineRecovers`), which is out of
reach of the provers, like ENABLED.  Every other property that a run checks is proved.

## 5. Seen while modelling

The models do what the code does, also where it surprises.  The following was met on
the way.  It is described here and has no run of its own; where a property would fail
because of it, the property says so.  The items on lobby commands, imports and TRACE are from
reading the code, which is not modelled there.

Dispatcher and mesh:

* After half a clock period (24.8 days) without a transmission, `next_tx_time` lies
  in the future by the signed comparison, and the node is silent for the other
  half (`src/Dispatcher.cpp:228`).  The send queue compares scheduled times as
  plain unsigned numbers (`StaticPoolPacketManager.cpp:14`, `Due` in `PacketQueue`).
- The watch on the receive mode (`WatchRecvMode`) looks at the radio only at the top of
  `loop()`, so a receive period between two looks does not count.
* `sendFlood()` of a TRACE packet returns without freeing it (`Mesh.cpp:617`), and
  `importContact()` overwrites a pending import, whose packet is then lost to the pool
  (`BaseChatMesh.cpp:438`).
* The code an ACK is matched by leaves the recipient out: the same text to two
  contacts in the same second is confirmed for whichever answers (`BaseChatMesh.cpp:178`).
* `onAckRecv()` marks the packet as not to be passed on before it asks whether it is a
  flood (`BaseChatMesh.cpp:284`), so the branch that sends the return path
  again is never taken.

Companion:

* JOIN_LOBBY with 0xFF adds a channel with the public secret, then looks that secret up;
  `findChannelIdx` finds the first channel that has it, which is "Public" at index 0, and
  the new name and secret overwrite that one.
* After a restart `num_channels` is 1 whatever was loaded, so the next `addChannel` takes
  the slot of a channel from the file.
* CREATE_LOBBY says "After channel saved" but calls nothing that saves channels.
* A short JOIN_LOBBY frame is answered by an error and then worked on all the same.
* The listing's `since` is a time in seconds: a contact that changes again in the second a
  listing ends with, or during the listing, may not be in the next one; and a contact frame that
  finds the send queue full is dropped while the listing goes on (`disturbed`).
* The send queue is cleared only when the loop sees a connection that it knew (`oldDeviceConnected`) to be gone.  If a
  connection ends and the next one comes up before the loop looks, the new app gets what was queued for the
  earlier one: its "no more messages" although some wait, or its SELF_INFO, after which it takes the end of the
  earlier listing for its own.  Neither property holds for such an app (`Found`).
* Between reading the number of connections and acting on it, a connection may come up and be
  taken for none (`SerialBLEInterface.cpp:275`).  `deviceConnected` is set by `onConnect` and by the end of a pairing only,
so it stays false until the next of these: what is written to this connection meanwhile is
dropped, and what it sends is worked on without an answer.

Gateway and servers:

* The reply to a request that does not fail is built with a name that is declared nowhere
  (`RESP_CODE_DISABLED`, `gateway/index.js:358`); the exception is caught at 362.  In `Gateway`
  the request has ended and its client is told nothing.  The same name makes
  `device.query` impossible (`Refused`).
* At power-on a room server without a clock chip starts in May 2024 again (`ArduinoHelpers.h:11`), while `sync_since`
  is read back (`ClientACL.cpp:33`) or told by the client at login (`simple_room_server/MyMesh.cpp:323`).  Posts made before
  the clock is set, or has come past that `sync_since`, get stamps at or below it: they are passed over and never
  pushed, also when the clock is right again later.  `NoPostSkipped` and `PostsReachClients` leave
  them out (`horizon`).
* While an alert is told, the turn in the contact list is an index (`SensorMesh.cpp:924`).  If an entry before it is removed
  the others move down: the contact that comes to the place which is being told gets the attempts that are left, and is
  passed over if there are none.  `EveryoneIsTold` is about a list that has only grown (`steady`).
* A text that arrives in the second of an earlier packet of the same client is acknowledged
  and not posted: the server takes it for a retry.
* `setperm` of the sender itself, in a command over the mesh, may move the entry the handler
  still points to.
* `send_expiry = 0` is meant as "at once" but compared as a time: while the clock is in the
  second half of its period, an alert raised then waits (`SensorMesh.cpp:275`).

## 6. Not modelled, and why

Cryptography and hashing (taken as sound; byte arithmetic), the drivers of
individual chips, boards, displays, sensors and the file systems (hardware I/O),
`lib/`, `arch/`, `gateway/node_modules` (third-party), the command line (parsing
and formatting), the noise floor and the packet score (floating point), and the
terminal chat (a second, smaller subclass of the same chat client).

Most lines of the repository are of this kind: headers of a Bluetooth stack, a
file system, ed25519, font tables, an embedded web page, board variants.
The models cover the control of the program's own core, not these.

Of the modelled components, left out are: the companion's channel table and lobby
commands, its pending requests, and the commands that read or set preferences; the
contact array, adverts and contact import; TRACE, CONTROL and raw packets; a table of seen
packets that overflows; the repeater's region filter, neighbours, rate limits and admin
session; the ESP-NOW bridge and the table against echoes; the WiFi and nRF52 interfaces;
a sensor's time series.  Hazards there are listed in `PROJECT.json` with a note.

## 7. Plan

What the next steps would be, most important first:

1. The companion's contact and channel arrays with the lobby commands and storage.
2. Adverts and contact import with `clear()`, requests and responses, TRACE, and a table
   of seen packets smaller than the traffic.
3. The repeater's region filter and rate limiter, the bridges' table against echoes.
