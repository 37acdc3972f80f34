# mink-core: a TLA+ verification project

mink-core is a C++ middleware for distributed telecom services. Daemons (a
configuration daemon, routing daemons, gRPC and system agents, a CLI) talk to
each other over SCTP with GDT ("general data transport"): streams of ASN.1
messages multiplexed over one association per peer, with routing, heartbeats
and time-outs. Service messages (parameter lists, cut into fragments) travel on
the streams, and the configuration of the whole system is changed, committed
and replicated with them. Paths below are relative to the repository's `src/`
directory unless they say otherwise.

## Inventory

| part | source | state | operations | module |
|---|---|---|---|---|
| lock-free SPSC queue | `include/spscq.h` | ring, published and shadow indices | `push`, `pop` | `SpscQ`, `BoundedFifo` |
| GDT client | `gdt/gdt.cpp`, `include/gdt.h`, `pool.h`, `ring.h` | active streams, stream pool, two out queues, flags of each payload and of the client | threads IN, OUT, TIMEOUT, EXIT; `new_stream`, `send`, `process_timeout`, `init_reconnect` | `GDTClient` |
| GDT stream protocol | `GDTStateMachine::run`, `process_sf_*`, `generate_*` | sequence number, flag and reply bit of each end | start, continue, continue-wait, end, stream-complete, errors, time-outs, loop-back | `StreamProtocol`, `Conversation` |
| GDT session and registration | `GDTSession`, `gdt_reg_events.cpp` | client list, reference counts, thread count, registration streams | `connect`, `server_loop`, `register_client`, `reg_timeout_loop`, `find_route`, `remove_client`, `destroy_session` | `GDTSession` |
| heartbeat | `init_heartbeat`, `HeartbeatInfo`, `services/routing/routing.cpp` | thread, stream, `next` and `active` flags, the daemon's `cfgd_active` | loop, reply, miss, cleanup and reconnect | `Heartbeat` |
| weighted routing | `WRR` in `include/mink_utils.h`, `services/routing` | node list, weights, current weight and index | add, remove, edit, enable, disable, select | `WRR` |
| service messages | `gdt/gdt_utils.cpp` | pools of messages and parameters, fragment state | send, fragment, reassemble, hand over, free | `ServiceMsg` |
| configuration daemon | `services/config`, `cfg/mink_config.cpp` | tree with pending values, mutex, transaction, users, files | login, set, delete, edit, show, commit, discard, rollback, load, replicate, logout, user time-out | `ConfigDaemon` |
| configuration client | `cfg/config_gdt.cpp` | snapshot, handlers, update streams; at the daemon the notification table | notification request, notify, update stream, re-subscription | `CfgNotify` |
| gRPC gateway | `services/grpc` | call objects, correlation map, payload pool | call, send, store, answer, time-out | `Grpc` |
| system agent | `services/sysagent` | the message of a request, which becomes the reply | receive, run a plugin, pass the message on | `ServiceMsg` (`Reply`) |
| plugin configuration | `cfg/plgcfg*.cpp` | as the configuration client | as the configuration client | not modelled |
| statistics | `stats`, `services/stats` | counters | increment, poll | not modelled |
| codec, SCTP wrapper, CLI, daemon shell, generators | `asn1`, `net`, `cli`, `daemon`, `utils`, `codegen` | buffers, sockets, terminal | conversion and I/O | not modelled |

How they interact. A *session* owns *clients*; a client is one association and
four threads. Its OUT thread takes payloads from two *SPSC queues*; its IN
thread runs the *stream protocol* for every packet and, inside it, the callbacks
of whatever uses the stream: registration, heartbeat, service messages,
configuration. A packet for another daemon is re-encoded into the pool and queue
of the client that `find_route` names, so IN threads also work on each other's
clients; `ref_counter` is what keeps such a client alive. The *routing table*
that `find_route` asks is changed by registration, by removal and by the
notifications of the *configuration daemon*, which run in IN threads too. The
*heartbeat* of a daemon makes it look for another configuration daemon. The
*gRPC gateway* turns calls into service messages and correlates the answers of
the *system agents* by a random number.

What is hard, and what has to hold:

- *Queue*: each side decides on a value that the other may be moving, and a ring
  with room may refuse. FIFO, no slot read and written at once, a bound on when
  a push is refused, no lasting refusal.
- *Client*: who owns a stream object is nowhere written down; it follows from the
  pool, the list, the queues and two flags that three threads write. One holder
  at any time, a payload queued once, a conversation's end told once and always,
  a stopped client goes away.
- *Stream protocol*: the two ends count by toggling a bit at different moments of
  a packet's way; packets are lost, refused and late; two linked streams share
  one identifier. The ends stay in step, agree about the end, and end.
- *Session*: pointers outlive the lock; semaphores are waited for without a
  time-out. No client is deleted under its user, no handler under its stream,
  `connect` and `destroy_session` return.
- *Heartbeat*: a stream's callbacks are what its thread waits for, and they are
  deleted by that thread. One watcher, and one whenever the daemon believes
  itself connected; threads end.
- *Routing table*: a rotation whose position survives every change of the list,
  cached divisor and maximum. No dead client, nobody left out, fair shares.
- *Service messages*: pools that run empty in the middle of a message. What is
  handed over is what was sent; each object has one holder.
- *Configuration daemon*: a mutex that is held between packets and released by
  several different events. One author per transaction, tree and file agree, no
  pointer into the tree outlives its node, the lock is granted.
- *Notification*: a snapshot and updates that overtake each other. A subscriber
  that has not been struck by a named mishap is current.
- *Gateway*: answer against time-out, answer before its entry. Each call is
  finished once, with its own answer, and always.

## Plan

The order was: the queue, the client, the routing table (the foundations, first);
then the stream protocol over the abstract `Conversation`, the session, the
heartbeat, service messages, the configuration daemon, its notifications and the
gateway. All of these are written. The proofs go from the modules that others
rest on to those that rest on them: the queue, the session, the gateway, the
heartbeat, the configuration daemon, its notifications, the stream protocol
with its refinement of `Conversation`, the client with its threads, the
routing table, and the service messages. Every invariant that a run checks is now
a theorem too; what is left to TLC is what happens eventually.

Each module gets one instance that checks its safety and, where it is small
enough, its liveness in the same run; a run more only where a second instance
answers another question. Modules do not import each other's state: where one
component relies on another, the abstract side is a choice that the other
module shows to be sound (`InternalCap` in `GDTClient` is `RefusalBound` of
`SpscQ`; the single round trip per packet of `ServiceMsg` and `CfgNotify` is
`ConversationSpec` of `StreamProtocol`; the forwarding in `GDTClient` goes to a
client that `NoUseAfterDelete` of `GDTSession` keeps alive; the commits of
`CfgNotify` are those of `ConfigDaemon`).

## What is modelled

### `SpscQ`, `BoundedFifo`

Variables are the C++ members; `push` and `pop` are split at each access to a
field that the other thread uses: `PushCheck` (compare with the published tail,
refuse or go on), `PushStore` (write the slot, advance `shadow_head`),
`PushPublish` (copy it to `head`); `PopCheck`, `PopLoad`, `PopRelease` likewise.
`WATERMARK` and `QSIZE` are constants with assumptions that the code's template
arguments satisfy. `BoundedFifo` is what the queue promises: a sequence, an
append, a take. `FifoSpec` maps the ring between `shadow_tail` and `shadow_head`
to that sequence. The shared indices are `volatile` and separated by compiler
barriers (`gcc_mb`), so the model lets stores become visible in program order:
it speaks of machines with total store order (x86), not of weaker ones, for
which the code has no barrier.

### `GDTClient`

| code | actions |
|---|---|
| `new_stream`, `GDTStream::send` | `AppNewStream`, `AppSendHeader`, `AppPush` |
| forwarding by other clients' IN threads | `Forward` |
| `out_loop`, `out_process` | `OutPop`, `OutSend`, `OutSendFails`, `OutCheck`, `OutFree`, `OutClear`, `OutExit` |
| `GDTStateMachine::run` on a packet | `ReceiveStart`, `ReceiveRequest`, `ReceiveContinue`, `ReceiveWait`, `ReceiveEnd`, `ReceiveComplete`, `ReceiveHeartbeatReply` |
| `in_loop` around it | `InRun`, `InTimed`, `InIdle`, `InLost`, `InNotified`, `InReconnect`, `InRetry` |
| `process_timeout` | `ScanFor`, `ScanStream`, `EraseExpired` |
| `exit_loop`, `remove_client` | `ExitWait`, `ExitRemove` |
| `timeout_loop`, `disconnect` | `TimeoutTick`, `TimeoutExit`, `Disconnect` |

A packet received is one record: which message it carries, for which
conversation, whether its sequence number is right. Its content is left out. The
pool is the array it is in the code: returning an object twice is possible in
the model, and `NoDoubleFree` looks for it. `told` is a history variable: what
the callbacks of a conversation have reported. Left out: linked (loop-back)
streams, which `StreamProtocol` has, `send_datagram` (nothing calls it),
registration threads (`GDTSession`).

The constants `Overtake` and `MidSend` name two orders of events: `Overtake` is
admitted in the violation run, `MidSend` in none (see Findings). `InternalCap`
is what the internal queue is sure to accept; the runs give it the size of the
pool, which the code's 1022 slots do not guarantee for 1000 streams, since a
refusal may come from 766 on. With `InternalCap = 1` `PayloadFlags` fails: the
payload that was refused keeps `out` for ever, because no caller of `push` looks
at its result.

### `StreamProtocol`, `Conversation`

One stream and its two ends. `loop` says whether the ends are two daemons or two
linked streams of one client. `st` has the fields of the `GDTStream` of each
side, `net` the packets on their way, `last` is `last_linked_side`.

| code | actions |
|---|---|
| `new_stream`, `send` | `Start` |
| `run`, `GDT_SF_START` | `ReceiveStart` |
| `process_sf_continue`, `generate_ack` | `ReceiveContinue` (`ProcessSfContinue`) |
| `GDT_SF_CONTINUE_WAIT`, a later send | `ReceiveWait`, `SendMore` |
| `process_sf_end` | `ReceiveEnd` (`ProcessSfEnd`) |
| `process_sf_stream_complete` | `ReceiveComplete` |
| `validate_seq_num`, `generate_err_uos`, `generate_err_unkn_strm` | `OutOfSequence`, `UnknownStream` |
| `process_timeout` | `Timeout` |
| routers, associations | `Lose`, `Refuse` |

`Conversation` is the promise to the users: they speak in turns, hear what the
other has said in order and once, and nothing after they have been told that the
stream is over. `ConversationSpec` is the refinement: `said` and `heard` are the
same variables, `over` is the set of sides that have been told. A packet carries
in `no` which of its sender's messages it is, which the code does not have, so
that the refinement can tell one from another.

### `GDTSession`

| code | actions |
|---|---|
| `connect`, `server_loop` | `Connect`, `Accept` |
| `register_client` and its callbacks | `RegEnd`, `RegSent`, `RegTimeout`, `RegReturn` |
| `RegClientStreamNew`, `RegClientStreamDone`, `reg_timeout_loop` | `RegNew`, `RegDone`, `RegThread` |
| `in_loop`, `init_reconnect` | `Lost`, `Reconnected`, `InEnds` |
| `exit_loop`, `remove_client` | `ExitRemove`, `Free` |
| `find_route`, `route`, `dec_refc` | `FindRoute`, `Forward` |
| `stop_server`, `destroy_session` | `StopServer`, `ServerEnds`, `Destroy`, `Destroyed` |

A client is in one of the stages of `Life`; `reg` is its registration: the
stream, whether all parameters have come, who waits for it and whether the
semaphore has been posted. `refc` counts modulo `RefMod`, because the code's
counter is unsigned: a decrement of zero wraps. `Faults` names what the code
does not handle, and the run gives it no member (see Findings). `Destroy` asks
that no `connect` is going on, which is how every daemon calls it.

### `Heartbeat`

Thread 0 is the main thread, which calls `init_config()` once; thread *k* is the
*k*-th heartbeat thread. `Make`, `Arm` and `Send` are the three steps of
`heartbeat_loop` that others can come between; `Leave` and `Cleanup` its end.
`Connect`, `Mark`, `NoThread` and `GiveUp` are `init_config()`, which
`HbeatCleanup` calls again. `OutSend` and `OutDone` are OUT before and after the
`PAYLOAD_SENT` callback, `Reply`, `Refused`, `Timeout` and `Down` are IN, with
`HbeatMissed` inside (`Miss`). `mishap` records which of the races named in the
module has happened, so that properties can be stated with exactly those
exceptions. The daemon is the routing daemon; the agent and the gateway have the
same loop and no configuration logic in their `init_cfg`.

### `WRR`

`table` is one `WRR` object: items with client, weight and saved weight, and
`gcd`, `max`, `index`, `cw`. `Select` is `run()`: the k-th item it looks at, the
current weight at that moment and the first k at which it stops. An item is
found by its position in the list and taken out by `RemoveAt`; `gcd()` is the
recursive function `Euclid`, and `recalc()` two folds over the weights. The
names `WRRInit`, `WRRNext`, `WRRSpec`, `WRRvars` and `WRRTypeOK` carry the module's
name because its proofs share a module with those of the queue. Clients go
through `Register` (the registration flag), `Routed` (`update_client`), `Lost`
and `RemoveClient`; the three edits of a commit are `AddNode`, `RemoveNode`,
`RemoveType`, and the two of a weight `ModifyWeight`, `DeleteWeight`. A commit
with several changes is applied under one lock; the model does it one at a time,
which adds states between and loses none. `find_route` for a type is
`RouteFirst`, `RouteNone` or `RouteWeighted`. `turns` is a history variable that
counts the choices of a cycle, until the table changes. Weights are positive;
that `weight` is 32 bits wide is not modelled. Nodes are configured before any
client registers, as in `RoutingdDescriptor::init`; a destination type of the
configuration daemons themselves, which are connected before, is outside the
model, and its nodes would stay disabled until they reconnect.

### `ServiceMsg`

A parameter is an identifier with a size; a piece of data is its offset and
length, so a value is the sequence of its pieces and reassembly can be compared
with it. `mgr` has the `ServiceMsgManager` of the gateway and of the agent.
`MAX_VALUE` (1024) is where the vpmap cuts a value (`PooledVPMap`); a value that
is as long or longer is outside the model (`ConstantsAssumption`), since
`VariantParamMap::defragment` would then leave its last fragment behind.
`DATA_SZ` (256) and `MAX_PARAMS_SIZE` (768) are the code's; with the 25 bytes that
the encoding adds to each piece, three whole pieces do not fit into a packet.

| code | actions |
|---|---|
| `gdt_push`, `vpmap_sparam_sync`, `send` | `Request` |
| `ServiceMessageNext::run`, `process_fragments` | `MessageNext` |
| `ServiceMessageDone::run`, `EVSrvcMsgSent` | `MessageDone` |
| `ServiceStreamHandlerNew`, `Next`, `Done` | `HandlerNew`, `HandlerNext`, `HandlerDone`, `HandlerCut` |
| the agent's `EVSrvcMsgRecv` (`SMSG_PT_PASS`) | `Reply` |
| errors of the stream below, its end | `Unknown`, `Close` |

Pools count how often an object is in the free list; their order and what an
object held before are abstracted, except for the fragment index, which is read
again. `RequestReused` is where the model stops (see Findings): what follows a
parameter that has been freed twice is not looked at (`CONSTRAINT Explored`). The
names `SmsgInit`, `SmsgNext`, `SmsgSpec` and `SmsgTypeOK` carry the module's name
because its proofs share a module with those of the session.

### `ConfigDaemon`

`tree` has a record per node: whether it is there, `is_new`, its state and its
two values. Nodes are items, template-based nodes with an item, and template-based
nodes without (`is_empty`). `Discarded`, `Committed`, `Marked`, `Prepared`,
`Merged`, `Shown` and `ShownCommitted` are the recursive functions of
`mink_config.cpp`, written as functions over the nodes.

| code | actions |
|---|---|
| `NewStream::run` up to the lock, and the command behind it | `Arrive`, `Serve` = `Enter`, `Replicate`, `Show` |
| `enter_mode`, `replicate_mode` | `Set`, `SetForeign`, `Delete`, `Refused`, `Discard`, `Commit`, `Rollback`, `Load`, `Edit`, `Login`, `Logout` |
| `StreamNext::run`, `StreamDone::run` | `Next1`, `Done` |
| `ClientIdle::run`, `ClientDown::run` | `Idle`, `Down` |
| `timeout_loop` | `Age`, `UserTimeout` |
| kill and start | `Restart` |

The mutex is an error-checking one: a second lock by its holder and an unlock by
anybody else do nothing, which is what `Unlocked` and `Locks` say. `LogUsable`,
`ForeignSet`, `LoadOverNew` and `SlowPeer` name four cases that break the
properties, and which the run excludes (see Findings).

### `CfgNotify`

One node path, its subscribers, and the update streams to them, packet by
packet. The values of the items are the numbers of the commits that set them.

| code | actions |
|---|---|
| `prepare_notifications`, `StreamDone`, `notify_user` | `Commit`, `CommitDone`, `CommitLost` |
| `notification_request`, `process_get`, `reg_user` | `Subscribe`, `GetEnds`, `GetFails`, `GetDone`, `TakeOver` |
| `CfgUpdateStreamNew`, `Next`, `Done` | `Accept`, `TakeItem`, `TakeEnd`, `TakeCut` |
| `NtfyUsrStreamNext`, `NtfyUsrStreamDone` | `Ask`, `TakeError` |
| time-outs, routers, associations | `TimeoutHere`, `TimeoutThere`, `NoRoute`, `Down`, `Up` |
| `HbeatMissed`, `HbeatCleanup` | `Missed` |

`mishap` of a subscriber says whether one of the events below has befallen its
updates since it last asked for them.

### `Grpc`

The gRPC thread is `pc`: it takes an event (`Invalid`, `Refuse`, `SendFails`,
`Send`, `Delete`, `Wake`), stores what it has sent (`Store`) and then looks for
time-outs (`Expire`). IN threads take an answer in two steps: `Correlate` under
the lock of the map, `Reply` after it. `Sent` is the end of a request's stream,
`Lose` everything that makes an answer useless. A random number is one that is
not in use; that two of 16 bytes collide is not considered.

## The runs

| run | instance | states | shows |
|---|---|---|---|
| `spscq` | ring of 8, watermark 4, two items | 248 000 | no race on a slot, refusal bound, refinement of the FIFO, a full ring is drained |
| `client` | two streams, two conversations, three packets, outbound, losses | 2 100 000 | one holder per stream object, flags that say what is true, one report per conversation |
| `client_live` | two streams, one conversation, two packets, may be stopped | 654 000 | every conversation ends or is timed out, a stopped client is removed |
| `client_overtake` | as `client`, `Overtake` | - | finding, below |
| `wrr` | two nodes with a client each, weights 1 to 3, every edit | 948 000 | the table is current, serves every node, gives fair shares, and only edits of a weight unsettle it |
| `stream` | sixteen sequence numbers, six packets lost or refused, both shapes | 25 000 | ends in step, agreed and told once; refinement of the conversation; every stream ends |
| `session` | one outbound and two inbound clients | 280 000 | references, deletion, handlers, `connect` and `destroy_session` return |
| `heartbeat` | two clients, one miss, two losses | 134 000 | one watcher, no handler used after its deletion, reconnection, threads end |
| `smsg` | two streams, two messages per node, three parameters | 284 000 | reassembly, packets within their limit, one holder per message and parameter |
| `config` | two users at two associations, one node of each kind, three requests | 220 000 | one author, tree and file agree, no dangling pointer, lock and transactions end |
| `notify` | two users, two items, two commits, one fault | 680 000 | a stale subscriber has had a mishap, the table of users is current, updates are whole |
| `grpc` | three calls, two payloads, two numbers, two IN threads | 213 000 | one owner per payload, one answer per call, every call ends |

Bounds, and why they are enough.

- Ring of eight: both indices wrap, and the tail can lie a watermark behind.
- Two stream objects are the least that show reuse, two conversations the least
  that reuse an object with a stale flag while another is active; three packets
  (`MaxRecv`) are start, continue and end, or any other three.
- Two nodes suffice for a rotation, for a list position beyond the end after a
  removal, and for weights with and without a common divisor.
- Sixteen sequence numbers: every turn of the toggled bit in every phase of a
  stream; six faults: each of the three packets of the end of a stream twice.
- Session: three clients let two forward through a third that is being removed;
  one of them is outbound and may reconnect. `RefMod = 5` is the least that three
  forwarders and the list do not make wrap, which is the code's situation.
- Heartbeat: two clients, since a heartbeat may be resumed over another one; two
  losses, one for each; one miss gives two heartbeat threads.
- Service messages: sizes are chosen at the limits: 693 bytes fill a packet to
  the last byte, 769 bytes leave a last piece of one byte, 256 is not cut. The
  pools have 4 and 3 parameters, so that they run empty in the middle of a
  message.
- Configuration: three requests are a change, a commit or a second user's change,
  and what comes after it, with restart and time-out anywhere between.
- Notification: two overlapping updates at one user, none at the other (whose
  client has room for one stream), and one fault anywhere.
- Gateway: fewer payloads and numbers than calls, so that both are reused.

Deadlock is not checked where the system may come to rest: `spscq` (a producer
that did not flush leaves items that nobody may take), `client_live` (the client
is gone), `session` (destroyed), `heartbeat` (terminated), `stream` (over),
`notify` and `grpc` (bounds reached). Symmetry is used only in runs without
liveness.

Fairness. `SpscQ`: OUT polls, a push that began is finished. `GDTClient`: each
thread that has a step takes one, time passes for every stream, and an
application that called `new_stream` calls `send`. `StreamProtocol`: what
arrives is read, and a stream to which nothing arrives is timed out
(`process_timeout`); nothing is assumed of the network or of users.
`GDTSession`: the client's threads run and a registration stream that is open
again and again is timed out in the end; nothing is assumed of the peer, of
reconnecting or of who stops the daemon. `Heartbeat`: threads run, a lost client
reconnects, a heartbeat without an answer is timed out. `ConfigDaemon`: a stream
ends or is timed out, users go quiet, and the mutex is granted to a thread that
keeps waiting (pthread mutexes do not promise it in theory; the lock is free
between requests for a network round trip at least). `Grpc`: calls keep coming
(`Wake`), because the map is looked at after an event of the completion queue
only. `WRR`: none; `Served` is an invariant that counts lookups.

## Findings

`client_overtake`: `gdt/gdt.cpp:4064` clears `out` after the send. If the peer's
answer has been handled by then and the payload queued again, the flag is false
for a queued payload, and the next check of time-outs frees its stream, although
the check means to "skip if still in out_queue" (`gdt/gdt.cpp:3897`).

Seen while modelling, without a run of their own. Each breaks a property above
when the named constant admits it, or is one of the named mishaps; the
repository states the opposite of few of them.

Client and stream protocol
- A stream is on the list before anything is queued. A forced time-out (lost
  association, stop) in that gap frees it and `send` then uses it (`MidSend`).
- The last time-out check skips queued streams and is repeated only while other
  threads run (`gdt.cpp:3897`, against the comment at `:4027`): a stream still
  queued then is never reported to its handler. `EventuallyTold` is therefore
  stated for a client that is not stopped.
- With both `MayStop` and `Forward`, `NoDoubleFree` fails: `exit_loop` clears
  `out` of queued streams and frees them, `Forward` takes them from the pool and
  queues them again, and the drain in `remove_client` returns them twice.
- `CONTINUE_WAIT`: `generate_ack` counts once more (`gdt.cpp:3650`), so that the
  packet that follows is refused; nothing in the repository uses it.
  `InSequence` has the exception.
- `STREAM_COMPLETE` with a wrong number still runs the END handler. Of linked
  streams one may be told TIMEOUT after END, and one whose packet is refused
  ends without a word (`EndsOnce`). The error for a packet with too many hops is
  queued at the client it was to go to, not the one it came from.

Session
- `find_route` hands out the routes of `"*"`, and those of the session's own
  address, without `inc_refc`, and `gdt.cpp:1863` does `dec_refc` for each
  (`"broadcast"`: `RefcIsHolders` and `NoUseAfterDelete` fail).
- A client whose registration failed is not in the list, `remove_client` does not
  find it, and `destroy_session` waits for its thread for ever; `DestroyEnds` has
  the exception.
- `register_client` computes a time-out of ten seconds and calls `sem_wait`. If
  the association is lost while the last message of a registration is queued,
  nobody posts (`"unsent"`: `ConnectReturns` fails).
- `reg_timeout_loop` frees the handlers when the client becomes inactive, also
  when `destroy_session` makes it so in the middle of a registration
  (`"midreg"`: `HandlersLive` fails).
- The server loop may accept a client after `destroy_session` has told all
  clients to disconnect (`"late"`: `DestroyEnds` fails).

Heartbeat
- OUT calls `PAYLOAD_SENT` with an object that the thread has deleted when the
  reply was faster ("overtaken", `gdt.cpp:4056`; the comment at `:1122` is "wait
  for streams to finish or timeout").
- A stream timed out between `new_stream` and its callbacks leaves `next` false
  for ever ("unarmed"), one timed out before `send` is sent all the same
  ("stray").
- `cfgd_active` is set after the heartbeat was started (`routing.cpp:320`), and
  also when no thread could be started: nobody then watches ("flag", "thread").
  The main thread does not try again when its first `init_config()` fails.

Routing table
- Editing the weight of a connected node leaves divisor and maximum as they were
  (`cfg_events.cpp:128`; the comment at `:129` leaves it to `update_client()`,
  which skips an enabled node): a lone node whose weight goes from 3 to 1 is
  never chosen again. A node whose weight is deleted is logged as disabled and
  enabled with its old weight (`:151`). An edit is dropped when the node has no
  client at that moment.
- `remove_client` clears an item by daemon id: with two clients of one node (a
  reconnect that overtakes the removal) `ConnectedTakesPart` fails. The rotation
  does not look at `is_active()`, and gives up after one pass.

Service messages and agents
- `free_smsg` frees the first fragment of a value that was cut and leaves
  `frag_param` set (`gdt_utils.cpp:2350`); a message taken from the pool with it
  frees the parameter a second time when it is used to send (`RequestReused`).
- A receiver without a free message ends the stream with END, which the sender
  takes for success. `gdt_push` drops octets for which the pool has no parameter.
  `ServiceMessageDone` posts the semaphore of a message it has just freed, and
  `signal_wait` computes a time-out and calls `sem_wait`.
- Not in the model: the data of a parameter of more than 256 bytes is not copied
  but points into the request (`gdtgrpc.cpp:110`); a time-out frees parameters
  whose data OUT may still have to encode; the data of a cut value stays in
  the vector that `EVParamStreamNew` made.

Configuration
- Another user's `set` that names a new template-based node creates it before it
  is refused (`ForeignSet`: `OneAuthor` fails).
- The pretended commit clears `is_new`, so that new nodes are in the rollback
  file (comment "save current config excluding uncommitted changes"), and a
  discard after a failed log keeps them (`LogUsable`, `LoadOverNew`: `TreeIsFile`
  fails).
- An idle poll of a client's socket, and a second stream of the same client,
  release the lock while results are being sent (`SlowPeer`, two streams of one
  client: `NoDanglingResult` fails).
- A commit with nothing pending leaves the transaction open. Two daemons that
  commit at once replicate to each other in different orders and may end with
  different trees; a file torn by a crash is not modelled.
- Notification ("all connected daemons that are affected with that particular
  modification, are notified", `../README.md:198`): an update that arrives
  before the subscriber's handlers are set is refused; a snapshot taken earlier
  may overwrite a later update; of two overlapping updates the older may finish
  last; a stream that the daemon gives up is applied in part (`update_count` is
  never compared, `config_gdt.cpp:182`); `ntf_user` points into a vector that is
  changed, so that an error may unsubscribe somebody else (`:650`); a commit
  whose stream is lost is announced with the next one; a subscriber that
  reconnects within a heartbeat does not ask again. These are the mishaps of
  `CfgNotify`.

Gateway
- A call that `verify()` refuses is never finished. Time-outs are looked at after
  an event only. The payload of an answered call, and of a send that failed, is
  not returned to `cpool`, so that the hundredth is the last (`dropped` in the
  model). The IN thread reads the payload through a map entry it has removed
  ("reused"); octets of a request that finds `cpool` empty leak.

## What is proved

Eight proof modules; TLAPS checks every step, for every value of the constants
that satisfies the assumptions of the module. The bounds of the runs
(`MaxFaults`, `MaxCommits`, `MaxNum` and so on) are constants too, so that a
theorem covers any number of faults or messages. Where a theorem has a
hypothesis, it names a defect of the code that *Findings* describes and that a
constant admits; the run has the same restriction, and with the constant the
other way TLC finds the property violated.

`Containers_proofs`, the queue (every `QSIZE` and `WATERMARK`, every set of
items):

- `TypeCorrect`, `RingOrdered`, `SlotsApart`: `TypeOK`, `RingOrder` and
  `NoSlotRace` are invariants;
- `RefusalBounded`: `push` refuses only a ring that holds at least
  `QSIZE - 2 - WATERMARK` items. It needs to know how far the published tail may
  lie behind the consumer's own (`Trailing`);
- `Implements`: the ring implements `BoundedFifo` with capacity `QSIZE - 2`.

The inductive invariant is `TypeOK /\ RingOrder /\ (push.pc = "store" =>
push.item \in Item)`. `RingOrder` says in which order the four indices lie on
the ring, which none of the others implies: the stale `tail` bounds the
producer, the stale `head` the consumer. The last conjunct is needed so that
what is stored is an item. `NextIndInv` has one step per action; the two that
matter for the FIFO have lemmas of their own (`StoreAppends`, `LoadTakes`) that
say what they do to the abstract sequence. The arithmetic modulo `QSIZE` is
written with `IF`, which the SMT solver handles, and `NextSlotType`,
`SlotAfterType` bound it.

`Containers_proofs`, the routing table (any finite sets of nodes and clients, any
set of positive weights with a greatest one):

- `Pointers`: the table has one item for every configured node, and no item that
  `run()` may choose has a null or a dangling pointer;
- `CurrentTable`: `TableIsCurrent` when each node has one connection
  (`OneClient`). With two, the removal of the older one disables the node that
  the newer one still serves (Findings), so the hypothesis cannot be dropped; the
  run's instance satisfies it;
- `EditsUnsettle`: the action property `OnlyEditsUnsettle`, every step but the
  edit of a weight leaves `w_gcd` and `w_max` right;
- `FairTurns`: the action property `FairShare`; `EveryNodeServed`: `Served`.

The invariant is `RouteInv == ListInv /\ ConfInv /\ TableInv`: no client is listed
twice, weights are in range, the items are those of the configured nodes, one
each (`Listed`), and what an item points to is a listed client of its node
(`Sound`). Each operation on a table has a lemma (`Updated`, `Added`, `Removed`,
`EditIs`), and each action one that cites it. `TakenInv` is added for the
clients that take part. Three arguments go beyond that:

- *What the algorithms compute.* `Settled` says without recursion what divisor and
  maximum are right, and `RecalcIs` that `recalc()` leaves them so, by
  `EuclidIs` (the recursive function has the greatest common divisor as its value)
  and `GcdOfIs`, `LargestOfIs` (the folds). The library's theorems on recursive
  definitions take an operator as a parameter and cannot be used; `FoldExists`,
  `EuclidEquation` and `RunExists` show with a least counterexample
  (`LeastNatural`, `AllUpTo`) that a function with the defining equation exists.
- *Fair turns.* `SelectIs` reads `run()` as: the rest of the current pass, or else a
  new pass with a lower current weight. `Tally` says how often each item has been
  chosen when the rotation is at an index and a current weight: once for each
  multiple of the divisor between the current weight and its own. It is kept by
  every choice (`TallyNext`, `NewPass`) as all weights are multiples of the
  divisor (`Multiples`), and at the end of the cycle it is the share (`TallyEnd`).
- *Bounded waiting.* The rotation may start with an index and a current weight
  that an earlier list has left, so an item may be passed over. `Waiting` bounds
  the passes until the current weight has come down to the item's weight, through
  zero and the maximum if need be: `v` passes, each at least the divisor lower. A
  lookup that does not serve the item brings `v * Len(items) + index` down
  (`WaitingNext`, `LateNext`), and it starts below `Lookups` (`WaitingEnds`).

`StreamProtocol_proofs` (any `MaxNum` and `MaxFaults`, both kinds of stream):

- `SequenceCorrect`: `InSequence`; `EndsCorrect`: `EndsAgree`;
- `ConversationCorrect`: `Spec => ConversationSpec`, the refinement.

All three rest on one inductive invariant, `Inv == Typed /\ Talks /\ Ends /\
Loops`. `Talks` is about the packets that carry the conversation, START to END:
there is at most one of them, in all channels together, until a user has sent
by itself after `CONTINUE_WAIT` (`Ways`); before the START has arrived nothing
has happened at the other side (`First`); the packet has the number that its
receiver expects, its sender has heard everything, and it brings the receiver
the next message (`Turns`); a side that waits is one number further than it
should be, and whatever is on its way comes from it (`Waiting`), so that nothing
is accepted any more. `Turns` is what the toggling of `seq_reply_received`
amounts to: the side that has started is at the packet's number, the other one
further. `Ends` adds that a STREAM_COMPLETE was sent by a side that has
been told of the END, and `Loops` that of linked streams the one whose turn it is
has been told nothing. Steps that only answer with STREAM_COMPLETE or ERROR, or lose
a packet, or close a stream, are the same step as far as `Talks` is concerned
(`QuietStep`); the four others have a lemma each (`TalkStart`,
`TalkReceiveStart`, `TalkContinues`, `TalkSendMore`). The refinement has one
lemma per action of `Conversation` (`Speaks`, `Hears`, `Mores`, `Finish`).

`SessionMsg_proofs`, the session (any finite sets of outbound and inbound clients, any
`RefMod` larger than their number plus one):

- `TypeCorrect`: `TypeOK`. That `thread_count` is a natural number is the only
  hard part: `ThreadsCounted` says that it is the server thread and the clients
  that are neither new nor deleted, and `Listed` and `Waiting` (a client is
  listed while it is up, lost or exiting; it is inactive from its exit on; a
  `connect` waits for a client that is active and not yet listed) are what the
  other invariants rest on.
- `RefcCorrect` and `DeleteCorrect`: `RefcIsHolders` and `NoUseAfterDelete` when
  no packet for `"*"` arrives. Both together are inductive (`RefInv`): the
  counter tells the truth because each forwarder has exactly one reference, and a
  client is deleted at zero only. `LookupCounts` also shows that the counter does
  not wrap, since no more threads can hold a client than there are clients.
- `HandlersCorrect`: `HandlersLive` unless the session is destroyed in the middle
  of a registration. `HandInv` adds that the peer's stream is open only while
  there is nothing for `reg_timeout_loop` to wake up for.
- `ListCorrect`: a client that has registered and is active can be found, or
  `connect` has not returned, or has returned nothing. `KnownInv` says so of
  every active client.

`SessionMsg_proofs`, the service messages (any finite sets of streams, messages and
values, any pool sizes, octets of any size, and variants below `MAX_VALUE`, where the
vpmap would cut them):

- `MessagesAndParameters`: `SmsgInv`, the inductive invariant, of every stream and
  both nodes, as long as no message with a dangling `frag_param` is sent again
  (`RequestReused` is where the model stops, so it changes nothing but `reused`);
- `ReassembledAlways`: `Reassembled`; `HeldOnceAlways`: `HeldOnce`.

`SmsgInv` is `SmsgOK`, which has three parts:

- `Own(g, X)` says where the parameters of a node are: in a pool, in the pile of
  one message (`Pile`: its list, the fragment that is being received, and the
  extra buffers linked to each), or in the set `X` of those that the operation has
  in hand. Between two operations `X` is empty; within one each
  helper (`NewParam`, `FreeParam`, `FreeSmsg`, `Build`, `Link`, ...) has a lemma
  that says how it changes `X` and that it leaves other messages alone (`Kept`).
- `Course(M, r, ord, x, y)` says how far a stream has come. There is one order
  `ord` of the values that are sent; a place in it is a number of whole values and
  of fragments of the next. The sender is at `y` (`Sends`), the receiver at `x`
  (`Recvs`), and the packet on its way carries just what lies between
  (`Carries`): this is where a fragment index that starts at the wrong number,
  a value that is cut at another place or a part that is filed under the wrong
  key would show. `Recvs` says what the receiver has: whole values
  in the vpmap or as parameters of the message (`Plain`), and of the value that
  is being received all fragments so far, in order (`Cut`, `Vp`), unless a part
  has been missed because a pool was empty (`missing`).
- `Holds` ties messages to streams: each is free or with one side of one stream.

A packet is filled and read by loops over lists of parameters. `FillRun` and
`RecvParamsIs` carry an invariant (`Filling`, `Recvs`) along such a run, from a
least counterexample as above; `GivenIs`, `StartedIs` and `CloseIs` say what a
handler does to `SmsgOK` once it is known what it has done to its own stream and
message, and each action has one step lemma (`RequestStep`, ..., `ReplyStep`)
that combines these. `MessagesHeld` and `ParamsHeld` get the counts of `HeldOnce`
from `Own` and `Holds`: a sum of zeros and ones is the size of a set (`SumOfOnes`).
The order in which a map is sent (`InOrder`) is the ascending sequence without
duplicates; `InOrderIs` shows that a finite set has one.

`Heartbeat_proofs` (any set of clients, any number of misses and losses):

- `WatchedCorrect`: `WatchedByOne`. Inductive with `OneInCharge`: at most one
  thread connects, watches or cleans up, and `init_config()` hands this role on
  to the thread that it starts.
- `HandlersCorrect`: `NoUseAfterFree`. `Safe(k)` ties `next` to the stream: it is
  set only when the stream has been given up, and OUT holds on to a given-up
  stream only after one of the races "overtaken" and "stray", or at the end.

`ConfigDaemon_proofs` (any users, associations, templates and items):

- `TypeCorrect`: `TypeOK`, and the shape of the tree (items are always there, the
  nodes of a template-based node come and go with it);
- `OneAuthorCorrect` (`~ForeignSet`): `Owned` and `OwnChanges` say that nothing is
  pending without an owner who is logged in, and that he alone has changed it;
- `TreeCorrect` (`~LoadOverNew`, `LogUsable` without `FALSE`): inductive is not
  that tree and file agree, which a transaction breaks at once, but that the file
  is what a discard would leave (`FileIsBase`);
- `PointersCorrect` (`~SlowPeer`, one stream per association): a working node that
  a discard will remove is its transaction's owner's (`NewIsOwners`), and a
  stream with results to send has the lock (`OpenHasLock`).

`CfgNotify_proofs` (any finite sets of users and items, any number of commits and
faults):

- `UsersCorrect`: `UsersCurrent`; `UpdatesWhole`: the action property
  `WholeUpdates`;
- `StaleCorrect`: `StaleIsExplained`. The invariant is `Follows(u)`: whatever a
  subscriber in good order does not know is still on its way to it (`Pending`),
  in a stream or in the commit that is being announced. While its snapshot is on the
  way this is split by number: an item that the snapshot has missed was changed
  after it. `History` is needed to tell the last change of an item from
  earlier ones in older streams.
- The loops over the vector of users (`Kept`, `Ranks`) are the one place
  where an induction over data is needed; it is made by a least counterexample
  (`LeastNatural`, from `WFMin` and `NatLessThanWellFounded`), which needs no
  theorem with an operator parameter.

`Grpc_proofs` (any calls, payloads, numbers and IN threads):

- `OwnerCorrect`: `OneOwner`. `Apart` divides the payloads between pool, map, the
  thread on its way to the map, and those never returned; `OneSpare` shows
  that an object for the next call is there when one is needed.
- `AnswersCorrect`: `AnsweredOnce`. `Correlated` says that the number of each
  waiting call is in one place, as long as no erased entry has been reused.

`GDTClient_proofs` (any finite set of streams, any conversations, any number of
packets, losses and reconnects, inbound or outbound):

- `ObjectsCorrect`, `FlagsCorrect`, `ToldCorrect`: `ObjectsAccounted`,
  `PayloadFlags` and `ToldOnce` of an outbound client that is not stopped
  (`Lasting`: stopping one to which others forward breaks them, see Findings);
- `UntilStopped`: the same three of any client until it is stopped.

All four suppose `Calm`: an answer is handled only after OUT has finished with what
it answers (`~Overtake`), no forced time-out falls between `new_stream` and
`send` (`~MidSend`), and the internal queue takes as many payloads as there are
streams (`PoolSize <= InternalCap`; `RefusalBounded` of `SpscQ` says which
sizes do). Each excludes a defect that Findings describes.

The invariant is `Inv == Stage /\ (Stopping \/ Working)`: where IN may be when the
client stops, and, as long as it has not,
`Working == Typed /\ Held /\ Flagged /\ Expiry /\ Talks`. `Held` divides the
objects between the pool, the list, the two queues and OUT's hand. `Flagged`
states `out` and `free_on_send` of what is queued, in hand, or with the
application past `send` (`OnItsWay`), and what OUT knows from the flag it has
read: at `"free"` the stream is off the list for good, at `"clear"` it is on it.
`Expiry` is what makes the third of the threads that free objects harmless: a
stream is marked as expired only while IN looks for such streams, only when it
is not on its way, and never when the application is about to send it. `Talks`
ties objects to conversations: each has one object, and the peer has something
to answer only when nothing of the stream is queued. That is where `~Overtake`
is needed, and why a reply can fill the same payload again. Each step has a lemma
(`OutFreeKeeps`, `EraseKeeps`, `ReplyKeeps`, ...) with one step per conjunct;
they rest on lemmas about sequences without duplicates (`OnceConcat`,
`PushedIs`, `ReturnedIs`, `TakenIs`, `PoppedIs`, `ListedIs`), which say what a
queue and the pool hold after an operation.

Only model-checked are the liveness properties, since fairness and `ENABLED` are
outside the prover: `NeverStuckFull`, `EventuallyTold`, `Terminates`,
`LockIsGranted`, `AbandonedEnds`, `ConnectReturns`, `DestroyEnds`,
`EveryStreamEnds`, `Reconnects`, `ThreadsEnd` and `EveryCallEnds`. Every invariant
and every action property of the passing runs is a theorem. In `Containers_proofs`
and `SessionMsg_proofs` the proofs of two components stand side by side; neither
uses the other's.

## Not modelled

- *Plugin configuration* (`cfg/plgcfg.cpp`, `plgcfg_events.cpp`): a second copy of
  the configuration client's handlers, for a plugin of the CLI.
- *Statistics*: counters read under a lock and answered in one callback; nothing
  depends on them.
- *ASN.1 codec*: conversions without state; whether a packet decodes is a choice
  of the receive actions.
- *SCTP wrapper, daemon shell, utilities*: system calls, signals, arguments; their
  results are choices of the models.
- *CLI, grammar, code generators*: one thread at a terminal, and batch
  conversions, whose result is the input of `ConfigDaemon`'s requests.
- Of modelled parts: loop-back in `GDTClient` and `CONTINUE_WAIT` together with
  loop-back in `StreamProtocol`; duplicate daemon ids in `GDTSession` (a free
  choice of the peer's answer); parameters read from a file in `ServiceMsg`;
  patterns, names and order of nodes in `ConfigDaemon`; several replicas at once;
  more than one node path in `CfgNotify`; what a plugin does with a command.
