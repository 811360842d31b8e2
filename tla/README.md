# A verification development for MCP Open Discovery 3

TLA+ models of the TypeScript runtime under `mcp_open_discovery_3_0/`
(`src/` for the server, `plugins/src/` for its built-in plugins), TLC
configurations that check them on small instances, and proofs checked by TLAPS.
The JavaScript server at the root of the repository is deprecated by its own
header and is not modelled.

Paths below are relative to `mcp_open_discovery_3_0/`; those that begin with `/` start at
the root of the repository. All modules are plain
TLA+. A run is `tlc -config <cfg> <module>`, a proof is `tlapm <module>`.

## 1. Inventory

| component | source | state it keeps | operations | how it meets the others |
|---|---|---|---|---|
| AMQP transport | `src/transports/amqp/amqp-server-transport.ts`, `AmqpServerTransport` | connection, channel, `connectionState`, `closing`, `closeNotified`, reconnect and cleanup timers, `routingInfoStore` | `start`, `close`, `connect`, `scheduleReconnect`, `send`, `handleIncomingMessage`, `handleResponseMessage`, connection and channel events, routing cleanup | amqplib and the broker call back into it; it calls `onmessage` of the MCP server, and `ontransportclosed` of the adapter |
| AMQP adapter | same file, `NativeAmqpRuntimeAdapter` | the attached transport, `starting`, `stopping`, recovery timer, attempt, delay and status | `start`, `stop`, `attachTransport`, `attemptRecovery`, `scheduleRecovery`, `getStatus` | creates transports, connects them to the one MCP server; health reads its status |
| AMQP helpers | `amqp-utils.ts`, `amqp-transport.ts` | none | parse and classify a message, routing keys, configuration | called by the transport |
| HTTP transport | `src/transports/core/streamable-http-transport.ts` | `sessions` by id, the listener | POST with a session, without one and with an unknown one, GET, DELETE, start, stop | every transport it makes is connected to the one MCP server, which has room for one |
| transport manager | `src/transports/core/transport-manager.ts`, `src/runtime/transport-state.ts` | the managed transports, known only once all modes were tried | start the configured modes in order, stop HTTP and then AMQP | called by the server |
| server | `src/server.ts`, `src/main.ts` | the server instance, shutdown handlers, `process.exitCode` | create, start, stop, signals and unhandled errors | starts plugins, then transports |
| logging, notifications | `src/runtime/logging.ts`, `notifications.ts` | log level per session | set level, log | fan out to the MCP server |
| OAuth | `src/runtime/oauth.ts` | token cache | introspect, validate, middleware | in front of the HTTP path |
| plugin manager, registry, database | `src/plugins/plugin-manager.ts`, `plugin-registry.ts`, `db/plugin-db.ts`, `db/schema.sql` | tables `plugins`, `plugin_tools`, `plugin_extractions`, audit; in memory `activeRegistrations` | install, activate, deactivate, update, uninstall; at start `initialize` and `bootstrapBuiltinPlugins` | registers tools with the MCP server, loads code with the loader |
| plugin loader | `src/plugins/plugin-loader.ts` | `Module._load` while a plugin is created | load, capture and forward registrations | called by `activate` |
| credential store | `plugins/src/credentials/src/store.ts` | the store file, the key file | add, get, list, remove, rotate | tools of a plugin; `MCP_CREDS_KEY` |
| memory CMDB | `plugins/src/memory-cmdb/src/store.ts` | `ciMemory`, table `memory_store`, autosave timer | get, set, merge, query, stats, clear, save, migrate, rotate key | tools of a plugin |
| marketplace, registry tools | `plugins/src/marketplace`, `plugins/src/registry-tools`, `src/plugins/marketplace` | none of their own | one plugin manager call each | — |
| integrity | `src/plugins/integrity` | none | hashes and signatures | called by install |
| discovery tools, prompts | `plugins/src/{net-utils,nmap,snmp,proxmox,zabbix,prompts}` | SNMP: one map of sessions with an idle sweep; the others none that outlives a call | commands and remote APIs | — |

What is hard in it, and what makes each part correct:

* **AMQP transport.** One event loop, but `connect()` awaits five times,
  `close()` twice, and events, timers and rejections come between any two of
  these awaits. It must never be left disconnected without a retry, must stay
  closed once it is closed, must report its closure once, and must send each
  answer to who asked.
* **Adapter.** A failing transport reports twice, by callback and by rejection;
  a timer may fire while an attach is under way; `stop()` may come in the middle
  of it. It must always have AMQP in hand, attach one transport at a time, keep
  to its number of retries, and obey `stop()`.
* **Plugins.** The database survives a crash, the registrations do not; calls
  of several clients interleave at every wait for disk and plugin code; the MCP
  server cannot take a registration back. What the manager thinks is registered
  must be served, rows and what refers to them must agree, and a start must
  bring back what was active and leave the rest alone.
* **Credential store.** Two files that belong together, written one after the
  other and not atomically. No acknowledged secret may become unreadable.
* **Memory CMDB.** Memory first, then rows, without a transaction. What a call
  returned must survive.
* **HTTP.** Sessions, requests without a session, stdio and AMQP share one MCP
  server. Each connect replaces its transport, the end of any transport removes
  it, and an answer goes to the transport the server has when the handler ends,
  matched by JSON-RPC id. An answer must reach the request it answers.
* **Server.** Modes start one after the other while the first ones already serve;
  a mode may fail, by throwing or in silence; signals may come during the start and
  during the stop. A graceful end must not cut what is open, and a stop must end.
* **Loader.** A load patches `Module._load` and puts back what it found. The
  guard must be that of the plugin being loaded, also when a load fails.
* **OAuth.** Cached tokens age; each request is decided on its own.

`PROJECT.json` lists every hazard at its line, with the properties that cover it
or the reason none does yet.

## 2. The modules

| module | models | state and actions |
|---|---|---|
| `AmqpLinkStates` | what an owner can tell about one transport | four fields, and each step the transport promises as a guard and an effect on that record |
| `AmqpLink` | the abstract specification of one transport | the same steps as actions |
| `AmqpTransport` | `start`, `connect`, reconnect timer, events, `close` | one action per stretch between two awaits; calls of `connect()` are numbered "dials", and `connection`, `channel` hold the number of the dial that assigned them |
| `AmqpRouting` | messages, `routingInfoStore`, acknowledgements, cleanup | extends `AmqpTransport`: each of its steps is a step here too |
| `AmqpRecovery` | the adapter | transports are `AmqpLinkStates` records, so it relies on `AmqpLink` and nothing else |
| `AmqpAdapter` | the abstract specification of the adapter, as the rest of the process sees it | what it holds (attaching, attached, down, waiting, closing, off) and whether it is stopping |
| `PluginLifecycle` | manager, registry, database, loader | one action per stretch between waits for disk, network or plugin code; `serves` is the MCP server's registry, `loader` the guards `Module._load` has, `originalLoad` what each load will put back |
| `HttpSessions` | the HTTP transport and the one transport slot of the MCP server | transports are numbered as they are made, requests as they arrive; a request records the transport it came by and what its client saw |
| `ServerLifecycle` | `server.ts`, `main.ts`, the transport manager | extends `HttpSessions`: its steps are taken while the listener is open; the AMQP adapter is reduced to what the rest of the process can tell |
| `CredentialStore` | the credential store | a call computes the writes it makes (`due`), which are done one by one; `Restart` cuts anywhere |
| `MemoryCmdb` | the memory CMDB | a call returns, throws or dies with any of its rows written |
| `MCAmqpRouting`, `MCPluginLifecycle`, `MCServerLifecycle` | instances | what the messages, plugins and tools are; which states are told apart |
| `*_proofs` | theorems | section 5 |

How they compose: two abstract specifications stand between the AMQP modules.

```
AmqpTransport, AmqpRouting  implement   AmqpLink      ImplementsLinkHolds, RoutingImplementsLink
AmqpRecovery                relies on   AmqpLink      KeepsContractHolds
AmqpRecovery                implements  AmqpAdapter   ImplementsAdapterHolds
ServerLifecycle             relies on   AmqpAdapter   TakesAdapterStepsHolds
```

The two `implements` are refinements. The two `relies on` say that each step the user
takes of the interface is one the interface has: the adapter calls nothing of a transport
that `AmqpLink` forbids, and has a transport do nothing that it does not promise. They do
not say that the user takes every step the other side may take. That the three
modules together are the process is therefore argued, by the shared definitions of
`AmqpLinkStates` and by reading, and not proved.

`AmqpRouting` is `AmqpTransport` plus messages in one state space. `AmqpRecovery`
composes the adapter with several transports that do what `AmqpLink` allows; the
one step that is two of it is an attach that fails, where the rejection of `start()`
and the call of `close()` are one turn (`RejectAndClose`). `ServerLifecycle` composes
the process with `HttpSessions`, stdio and AMQP around the shared server, and
keeps of AMQP what `AmqpAdapter` has; of what the adapter reports it takes less than
`AmqpAdapter` allows, as a `stop()` during an attach ends the process. `AmqpRouting`
in turn assumes that answers of AMQP requests come back by
AMQP, which `SteadyGetTheirAnswer` gives for requests nothing came between.
`PluginLifecycle`, `CredentialStore` and `MemoryCmdb` meet only the SDK, the file
system and SQLite; plugin creation is one step of the start of `ServerLifecycle`
that succeeds or throws.

Conventions of the code kept in the models: the code after an `await` runs in
one turn and is one action, and the state it reads is read there; `connection`
and `channel` may have been overwritten since the await began, as in the code,
where fields and not locals are used. Error and early-return paths are disjuncts.
Outside the repository, marked external in the map: amqplib and RabbitMQ (an
exclusive auto-delete queue, channel errors, delivery tags), the MCP SDK
(`McpServer` refuses a taken name and has no `unregister...`; `connect()` replaces
its transport), SQLite, what keeps a Node process alive and the process's end.

## 3. What is checked

| run | shows | size |
|---|---|---|
| `transport_faults` | under every fault of the model: never disconnected without a retry (`NeverStranded`), nothing armed or dialled after `close()` (`NoReconnectAfterClose`), the promises of `AmqpLink` (`ImplementsLink`), in the end connected or reported (`EventuallySettled`) | 12 dials, 2 attempts, 2 faults |
| `routing_clean` | when connections fail as a whole: dials do not overlap, `connected` is the truth, `close()` frees the broker, a closure is final; with distinct ids answers reach who asked and deliveries are settled where they came | 4 messages, 4 dials, 3 faults |
| `routing_live` | channels fail alone, all messages share one id: no request is answered twice and no routing entry used twice, routing information stays until used or too old, and then goes | 4 messages, 3 dials, 2 faults |
| `recovery` | the adapter always supervises AMQP, one attach at a time, no more retries than configured (`RetriesBounded`), none armed with a delay older than that of before the last backoff (`BackoffLagsOne`), obeys `stop()`, the reported recovery state is true, implements `AmqpAdapter` (`ImplementsAdapter`), comes back unless retries are used up | 8 transports, 7 faults, 3 retries |
| `plugin_calls` | two clients, a crash and a restart: registrations are served (`RegisteredIsServed`) and in service (`RegisteredIsActive`), nothing refers to a missing row, capability flags follow the state, `Module._load` is guarded for the plugin being loaded until two loads overlap; a start revives the built-ins and touches nothing else | 3 plugins, 2 installs, 1 fault, 1 crash |
| `credentials_crashes` | acknowledged credentials read back over rotations and restarts; calls other than a rotation, cut short anywhere, leave no secret the key does not open | 2 credentials, 4 keys, 2 crashes |
| `cmdb_crashes` | memory and table keep what calls returned; the autosave repairs what failed | 2 items of 2 fields, 2 errors, 2 crashes |
| `server` | any list of modes from start to exit: a request nothing came between gets its answer, exit code 0 leaves no listener, response or stream open and, unless the start threw, no AMQP, a stop ends unless a client holds it | 2 requests, 2 ids, 2 HTTP transports, 2 attaches |
| `routing_shared`, `credentials_env`, `http_shared`, `recovery_backoff` | disagreements with the repository's own words, section 6 | |

**Bounds.** All counters that the code leaves unbounded are bounded in guards,
by constants named `Max...`:

* *Dials.* With 2 attempts and 2 faults no behaviour of `transport_faults` needs
  more than 12 calls of `connect()`, so the bound never stops a timer there and
  the liveness property is not an artefact of it. Overlapping dials, the
  longest story (old connection fails under a retry, both fail, attempts run
  out), need 3. In the routing runs the dials only bound the length; their
  liveness property is about entries and does not depend on dials.
* *Retries.* `recoveryMaxRetries` is -1 (no limit) by default; the model takes
  3, so that exhaustion happens. The multiplier is a fraction, 3/2 as by default;
  with the interval 3 and the maximum 5 the delay is multiplied and then capped (3, 4, 5).
  Each transport after the first is made for a fault, so 8 transports are enough
  for 7 faults, and the bound never stops a retry.
* *Plugins.* One built-in and two versions of another plugin. The newer version wants a
  name of the built-in one and the older does not, so that loads collide and, when the
  built-in plugin is not registered, updates succeed. Two installs are an install and an
  update of it, two installs of one plugin, or of both.
* *Messages.* Two clients' requests, one without reply address, a malformed one
  (`routing_clean`), an answer and a broadcast (`routing_live`). The time to
  live is one tick: younger, equal and older all occur.
* *Keys and items.* Four keys allow three rotations after the first key; two
  credentials tell "all of them" from "this one", two fields tell a merge
  from a replacement.
* *Requests and HTTP transports.* With two requests one runs while the other comes,
  on the same transport or another, with the same id or another. Two HTTP
  transports take the server from each other, and stdio and AMQP from both. Requests
  are numbered in the order they arrive, so that no two states differ by names
  alone. With two attaches the one of the start fails and a retry follows. The
  bounds stop arrivals only, never a handler, a close or a signal; signals have no
  bound. A mode list names a mode once.

`plugin_calls` is symmetric in its two clients: the module compares clients with one
another only, the start is a caller of its own, and the run has no liveness property.
Its view `Distinct` keeps of the times of installation their order among the versions of
a name, which is all `Newest` reads, and of `Module._load` nothing once loads have
overlapped, as `GuardMatchesLoad` then says nothing and no step reads it. In `server`
the ids are interchangeable, and `FirstIdIsLowest` leaves out the behaviours whose first
request has the other one.

**Deadlock** is not checked: a closed transport, a stopped adapter, a server
nobody calls, a process that has ended and one that may have crashed its last
time have nothing left to do.

**Fairness.** `AmqpTransport`: timers fire, a pending request is answered or
refused, a connection that reported an error also closes, and the owner closes
a transport whose `start()` rejected (`attachTransport` does so in the same turn).
Nothing obliges a fault or a `close()` otherwise. `AmqpRecovery`: the timer fires,
`start()` and `close()` settle, and an attached transport regains its connection or
gives up, which is what `EventuallySettled` says. `AmqpRouting`: time passes and
the interval fires.
`MemoryCmdb`: the interval fires. `ServerLifecycle`: handlers end, and so do the
close of a listener without connections and the close of AMQP; nothing obliges
a client to hang up, a signal to come, or the process to end by itself (the
autosave timer of the CMDB, armed on first use, keeps it alive). All of it is weak
fairness of the event loop.

**Where the limits of properties are.** Some properties hold only under a
restriction, which is part of what the runs show:

* `OneDialAtATime`, `ConnectedIsLive`, `CloseReleasesBroker`, `ClosureIsPermanent`
  and `DeliveriesSettle` need connections that fail as a whole. When a channel
  fails alone, its connection lives on and its later events are taken for events
  of the current one: two dials may then overlap, and a delivery of an older
  channel is acknowledged on a newer or closed one. The acknowledgement then
  throws, so does the `nack` of the catch clause, and the rejection reaches the
  process handler of `server.ts`, which shuts down.
* `CloseReleasesBroker` excepts dials in flight when `close()` was called: they go
  on, and nothing closes what they open.
* `StopDetaches` excepts a transport that was being attached: `attachTransport()`
  does not look at `stopping`.
* `SteadyGetTheirAnswer` is about requests nothing came between: no other transport
  took or left the server, and no request with the same id ran, from their arrival
  to their answer. What happens to the others is `http_shared`.
* `GracefulExit` is about processes whose start has ended, and exit code 0. A signal
  during the start exits at once, before the transports are managed; a second
  signal during a stop ends it with code 1, and so does a listener that never came to
  listen. Of AMQP it says nothing when the start threw: no signal closes it then.
* `StopEnds` excepts a client that holds a stream, or a response whose answer went
  elsewhere: `stop()` closes the listener, and Node waits for what is open.
* `GuardMatchesLoad` holds until two loads overlap. Then the load that ends first
  puts back the original function while the other still runs, and the one that
  ends last leaves the first one's guard behind.
* `StatusIsTrue` says what the states waiting, attempting and stopped stand for. It
  does not say that an armed retry is shown: see section 6.
* `CapableIsActive` and `RegisteredIsActive` say nothing of a plugin that two calls were
  about at once (`shared`): an `activate` that saw the plugin active and ends after a
  `deactivate` sets the flags again, and registers what nobody asked for. The exception
  is per plugin; calls about other plugins may overlap as they like.
* `BackoffLagsOne` allows the delay of before the last backoff. That it is not the
  current one is `recovery_backoff`.
* `SecretsDecrypt` excludes a rotation that was cut short: the key file is
  written before the store.
* `Durable` makes no promise about items once the load has failed: `memoryDb` is
  set before it, so nothing loads again, no autosave starts, and a merge
  overwrites what is stored.

## 4. Mutants

Every property of a passing run has a mutant in `PROJECT.json`: an operator
`X_Mutant`, beside the mapped operator `X`, that changes it as a plausible bug
would (a dropped guard, an off-by-one, a missing reset). Under it TLC finds the
property violated. The mutants are part of no specification.

## 5. What is proved

For every value of the constants that the named assumptions allow:

| module | theorem | by |
|---|---|---|
| `AmqpTransport_proofs` | `TypeCorrect`, `NeverStrandedHolds`, `NoReconnectAfterCloseHolds` | the invariant `SafetyInv` |
| `AmqpLink_proofs` | `ImplementsLinkHolds` | the invariant `LinkInv` |
| `AmqpRouting_proofs`, any faults | `RoutingTypeCorrect`, `AtMostOneReplyHolds`, `RoutesLastHolds`; `AnswersInTurn`, and its case of distinct ids `RepliesReachAskerHolds` | `AnswersInv`; `RoutesAreOwn` |
| same, the transport with its messages | `RoutingNeverStranded`, `RoutingNoReconnectAfterClose`, `RoutingImplementsLink` | `RoutingLinkInv` |
| same, connections that fail as a whole | `OneDialAtATimeHolds`, `ConnectedIsLiveHolds`, `CloseReleasesBrokerHolds`, `ClosureIsPermanentHolds`, `DeliveriesSettleHolds` | `SettleInv` |
| `AmqpRecovery_proofs` | `TypeCorrect`, `SupervisedHolds`, `SingleAttachHolds`, `RetriesBoundedHolds`, `BackoffLagsOneHolds`, `StatusIsTrueHolds`, `StopDetachesHolds`, `StopIsFinalHolds` | the invariant `IInv` |
| same, between its neighbours | `ImplementsAdapterHolds`, `KeepsContractHolds`, `NoneLeakedHolds` | `IInv` and `HInv` |
| `PluginLifecycle_proofs` | `TypeCorrect`, `RegisteredIsServedHolds`, `NoOrphansHolds`, `GuardMatchesLoadHolds`, `StartKeepsChoicesHolds`, `StartRevivesBuiltinsHolds`, `CapableIsActiveHolds`, `RegisteredIsActiveHolds` | `TypeOK` with the property itself; `GuardInv`; `StartInv`; `ReviveInv`; `CallsInv` |
| `MemoryCmdb_proofs` | `TypeCorrect`, `DurableHolds` | the invariant `Inv` |
| `CredentialStore_proofs` | `TypeCorrect`, `SecretsDecryptHolds`, `AckedIntactHolds`; without `MCP_CREDS_KEY` `RotationReencryptsHolds` | `Typed`; `Inv`; `LostEnv` |
| `ServerLifecycle_proofs` | `TypeCorrect`, `SteadyGetTheirAnswerHolds`, `OutcomeIsFinalHolds`, `GracefulExitHolds`, `StopIsNeverStuckHolds`, `TakesAdapterStepsHolds`; while ids do not meet `NobodyCrossedHolds` | `SteadyInv`; `Blank`; `ExitInv`; `StopInv` |
| same, HTTP alone | `HttpTypeCorrect`, `HttpSteadyGetTheirAnswer`; with one transport `LoneSessionIsServedHolds` | `SteadyInv`; `LoneInv` |

Some of them state what no run lists: `KeepsContract`, `NoneLeaked`, `TakesAdapterSteps`,
the three of the transport with its messages,
`NobodyCrossed`, `OutcomeIsFinal`, `LoneSessionIsServed`, `StopIsNeverStuck`, and
`RotationReencrypts` without the variable. They are checked by proof alone.

*AMQP transport.* `NeverStranded` is not inductive: an event that arrives while
`close()` awaits, or after the closure was reported, must be known to change
nothing. `SafetyInv` adds `CloseIsClosing` (a `close()` that was called has set
`closing`) and `ClosedIsQuiet` (while closing no timer is armed). The step lemma
goes through the actions; everything that ends in `scheduleReconnect()` is one
lemma about its three outcomes. `NoReconnectAfterClose` follows as an action
property of the same invariant. The bound on attempts in `TypeOK` is where
`AttemptsExhausted` matters.

*Refinement.* That every step of the transport is one of `AmqpLink` or changes nothing
of it needs `LinkInv`: before `start()` nothing happens, `close()` comes after `start()`
settled, and dial 1 is the start's own. It is alone (`Undisturbed`) until its
connection reports an error; from then on (`Doomed`) it waits for its rejection, so
that `start()` never resolves after the closure was reported. `LinkMoves` lists what
a step may do to the four fields the owner sees, and each action is one of its cases.
With this theorem what `AmqpRecovery_proofs` shows of links holds of the transports.
Messages add one way for a channel to fail, an acknowledgement it did not expect; the
step lemmas are about any failure of a channel (`Failure`), so that `LinkInv` carries
over to `AmqpRouting` as it is (`RoutingLinkInv`).

*Routing.* A stored route is of a message that was delivered, under that message's id,
and a route that was used never returns, since a message is delivered once
(`AnswersInv`): hence `AtMostOneReply`, also with shared ids. `RoutesLast` is an action
property of the same invariant. For an answer to reach its asker, the entry under
the id of a request being handled must be its own or none (`RoutesAreOwn`). What keeps
it so is not that ids differ but that they come in turn (`InTurn`): no message that is to
be answered arrives while a request with its id is handled, and no request without a
reply address arrives on an entry that is left under its id. Distinct ids come in turn.

*Connections that fail as a whole.* Without `ChannelFaults` and `SplitEvents` the fields
of the transport hold the one connection and the one channel that are open, and these
are of the last dial (`LastDial`, `FieldsHold`). `Whole` adds where that dial is
(`DialPhases`), that a dial, an armed timer and an established connection exclude each
other (`OneAtATime`), what follows when there is none of them, and that `close()` reaches
what it finds open (`CloseReaches`). The end of the connection ends the dial on it
(`ConnectionGone`), so no dial survives to overwrite what a later one assigned. A
delivery is then made on the channel that settles it, and no channel gets a bad
tag; so the steps of the routing model are those of the transport and `Whole` is an
invariant of both.

*AMQP adapter.* All safety properties of `recovery` are proved, for every
`recoveryMaxRetries`, every natural interval and maximum in any relation, every
non-negative multiplier that is a fraction, and any number of transports and faults.
Delays are whole numbers, and what a product has beyond one is cut; a multiplier that is
negative or not a number is not modelled. `TypeOK` says that a delay is the retry interval
or at most the maximum: before the first backoff nothing compares the two. `IInv` adds to them: only the newest transport is being attached and
`starting` says so; before `start()` nothing runs; after `stop()` nothing is armed and only the attach
in flight goes on; the state attempting is for transports after the first. The one
step with many outcomes is `AttachClosed`, where the callback and the caller
schedule in turn: `FailedAttach` says what all of them have in common.
`BackoffLagsOne` needs that during an attach an armed delay is still the current one.

*The adapter between its neighbours.* What the adapter holds is told from `transport`,
`starting` and the state of one link, and that these agree is `HInv`: which phase
of its attach each transport is in (`LinkPhases`), that the one held has resolved, has not
reported its end and is being closed only by `stop()` (`Held`), and what `stop()` left
behind (`StopHolds`). From it follow the three theorems: each step is one of
`AmqpAdapter` or a stutter; each step is, of each transport, one its `AmqpLink` has or
none; and a transport that resolved is held, told to close, or over. The last is
what keeps the broker free of consumers nobody owns.

*Plugins.* `RegisteredIsServed` is inductive with `TypeOK`: a load registers a
plugin's names only where none is taken, and registrations are never taken away
from the server but by its end. `GuardMatchesLoad` needs, beside it (`GuardInv`), that a
lone load has saved the unguarded function. For `StartKeepsChoices`, `StartInv` says
that the start runs alone and what its own call is about. `NoOrphans` is the
database's own cascade: each write is conditional on the row it refers to. The others
rest on `LoadsRow`: the row of a plugin that is being loaded is there, and still active if
it was when the load began. That holds of a plugin only one call is about, and
`OneCallEach` says so of every plugin that is not in `shared` (`CallsInv`). With it the
flags `activate()` sets in the end are those of an active plugin (`CapableIsActive`), and
a registration is made only for a row that the same turn makes active, while each call
that takes a plugin out of service unregisters it in that turn (`RegisteredIsActive`). A
crash between the two writes of an `uninstall` or of an `update` (`UninstallCut`,
`UpdateCut`) leaves each row with its own flags, and no registration. The start has
made active every built-in plugin it has behind it (`ReviveInv`), since it fails at the
first one it cannot.

*CMDB.* `Durable` needs one more fact, `TimerImpliesOpen`: the autosave saves
`ciMemory` as it is, which is what was promised only once it was loaded. All
operations differ just in the memory they leave, so the two lemmas on how a call
ends, `ReturnsDurably` and `FailsDurably`, and the one on a save,
`SavesDurably`, serve all of them.

*Credential store.* `Inv`: as long as no rotation was cut short, the key did not
change from outside and no rotation ran under it, the key file and the store agree
(`Agree`: every secret is of the key in use, and as it was put in), except in the
middle of a rotation, and the writes that are due will leave them in agreement.
`DueAgrees` lists the four shapes of what can be due: nothing; the store; a key and
the store; two keys and the store. Only a rotation replaces a key; any other key
write is the first one, under which nothing is encrypted yet, so that it may be
lost or torn. The `...Keeps` lemmas go through the operations, the writes one by
one and the restarts. What a call acknowledges is in the store it is to
write (`Finish`), whence `AckedIntact`. `Typed` adds to the types that the call of
an add has an item, and bounds what is due by three writes. Without `MCP_CREDS_KEY` a
rotation that ran under it is always followed by a change of it (`LostEnv`), which
is why the variable alone separates `RotationReencrypts` from its counterexample.

*Server.* `SteadyInv` adds to `SteadyGetTheirAnswer` that a running request nothing
came between came by the transport the server has, and is the only one running
with its id; `ArriveSteady` is the one lemma on arrivals, whatever they come by.
`ExitInv` says why the order of a stop is safe: the mode list starts HTTP at most
once (`HttpOnce`), nothing of HTTP is open without a listener (`ListenerFirst`), and
AMQP is not touched before the listener has closed (`StopOrder`). `StopIsNeverStuck` is what
`StopEnds` rests on: a stop that has not ended is held by a client, or one of the three
steps that fairness is assumed of can be taken. It needs that a stop waiting for AMQP
waits for a close under way (`AwaitsAmqp`), and that a request without handler has no
client (`Blank`). By `Blank` no step touches a client twice either (`OutcomeIsFinal`). `LoneInv`
says that with one transport nothing ever comes between: the server keeps it, and
a client does not use an id twice on one transport.

Only model-checked: liveness under fairness (`EventuallySettled`, `EventuallyAttached`,
`RoutesExpire`, `AutosaveCatchesUp`, `StopEnds`), which is out of the
prover's reach. For each of them the safety it stands on is proved: `NeverStranded`,
`Supervised`, `RoutesLast`, `Durable` and `StopIsNeverStuck`.

## 6. Where the code and its words differ

Each has a run that TLC ends with a counterexample, and a theorem that says when
the statement holds after all, or how far it is off.

1. `routing_shared`: `testing/test_amqp_transport.js:129` "response should be sent
   to reply queue". Routing information is kept by JSON-RPC id alone. Two
   clients that both number from the same id share an entry: the first one's
   answer goes to the second one's queue, and one of them gets none. It holds as long
   as no two requests with one id meet at the server (`AnswersInTurn`).
2. `http_shared`: `docs/BACKWARD_COMPATIBILITY.md:25-26` has clients keep the
   `mcp-session-id` header and "reuse that header on later `POST`, `GET`, and
   `DELETE` requests". The second session connects its transport to the one MCP
   server; a later request of the first session is handled, its answer goes to the
   newer transport and is dropped there, and its response stays open. It holds with
   one transport (`LoneSessionIsServedHolds`); with more, what goes astray reaches
   another client only by a shared id (`NobodyCrossedHolds`).
3. `credentials_env`: `plugins/src/credentials/src/index.ts:87` "re-encrypts all
   stored credentials". With `MCP_CREDS_KEY` set, rotation encrypts under a new key
   that goes to the key file, which is not read as long as the variable is set. It
   holds without the variable (`RotationReencryptsHolds`).
4. `recovery_backoff`: `/docs/ENVIRONMENT_VARIABLES.md:101` "Multiplier applied to the
   recovery retry delay after each failed background recovery attempt." When an attempt
   fails, the closure callback arms the next retry before `attemptRecovery()` multiplies
   the delay: each retry waits what the one before it should have waited, and the first
   two wait the plain interval. It is never further off (`BackoffLagsOneHolds`).

Seen while modelling, without a run of their own: with channels that fail alone a transport can connect
again after it reported its "permanent closure" (`/docs/ENVIRONMENT_VARIABLES.md:82`);
a deactivated plugin's tools stay listed, as the SDK has nothing to remove them
with; a refused uninstall of a built-in plugin leaves it in state `uninstalling`
and out of service until the next start; while a retry is armed health may show the
recovery as idle (`testing/test_amqp_health_recovery.js:130` "Health should expose
the waiting recovery state"), as the status is reset after the callback armed it; an
`update()` that fails half way leaves the old version in state `updating`
(`/docs/CLAUDE_CODE_REMEDIATION_PROMPT_V2.md:761` "old version stays"); with AMQP as the
only mode a process whose broker is away ends instead of retrying, since its timers
are unref'd; when the HTTP address is in use, Express 5 calls the callback of `listen()`
with the error, which nobody looks at, and HTTP counts as started: with HTTP alone the
process then ends with code 0, and otherwise `stop()` rejects at the listener and exits
with code 1 before AMQP is closed; a start that throws at HTTP, as for a port that is
none, leaves the modes before it running but
unmanaged, so that a later signal ends them at once; loads that overlap leave a guard
of a plugin that is not being loaded.

## 7. Plan

Done: `AmqpTransport`, `AmqpLink`, `AmqpRecovery`, `AmqpRouting`, `PluginLifecycle`
with the loader's guard, `CredentialStore`, `MemoryCmdb`, `HttpSessions`,
`ServerLifecycle`, and the theorems above.

Every invariant, action property and refinement of a passing run is proved, some of them
under the restriction of their run. The composite of transport, adapter and process is
proved at each of its two interfaces in the sense of section 2. A proof of
the composition itself would show besides that the adapter accepts every step of `AmqpLink`,
and the process every one of `AmqpAdapter`. What else is left to a proof is how far
the restrictions of section 3 reach: what still holds of dials and deliveries when
channels fail alone, of the guard when loads overlap, of the capability flags of a plugin
two calls are about.

To model, if the code grows there: the token cache of OAuth once requests share an
introspection, and the SNMP session map once its sweep can meet a session in use.

## 8. Not modelled

The largest part of the repository is outside the models, by lines of code: the
legacy JavaScript server (about 11,700 lines under `tools/` alone), the compiled
copies under `dist-ts/` of the sources that are modelled, and wrappers of commands
and remote APIs.

* Legacy JavaScript server, its `tools/` and root `plugins/`: deprecated in favour of
  this one by its own header.
* `dist-ts/`: compiler output of `src/` and `plugins/src/`.
* Discovery tools and prompts: wrappers of commands and remote APIs; the SNMP
  sessions are one map with an idle sweep, used by one call at a time.
* Marketplace and registry tools: each forwards one call to the plugin manager,
  or downloads a file, which is a possible failure of an install here.
* OAuth: a filter that decides on one request at a time; the cache only saves a call.
* HTTP requests that change no state: bodies that are no JSON-RPC, a second initialize
  in a session, health and metadata pages; and batches. A JSON-RPC body that is refused,
  or carries no request, connects a transport first and is modelled (`PostWithoutRequest`).
* Integrity checks: functions of their input; a failed check is one of the
  failures of an install.
* Audit log, trusted keys, statistics of the plugin database; `memory_keys` and
  `memory_audit` of the CMDB; the credentials' audit log: written, and read by
  nothing the models have.
* Logging and notifications: best effort, formatting.
* Configuration parsing: the models take its results as constants.
