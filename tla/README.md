# hass_tplink_easy_smart in TLA+

A verification development for the Home Assistant integration in `src/`: TLA+
modules that model its core, TLC configurations that check them on small
instances, and proofs that TLAPS checks for every value of the constants.

## 1. The system

The integration talks to the embedded web server of TP-Link Easy Smart
switches. Everything runs in one asyncio event loop, so code is atomic between
two `await`s and every `await` is a point where other tasks run. Paths below are
relative to `src/custom_components/tplink_easy_smart/`.

| Component | State it keeps | Operations | Used by |
|---|---|---|---|
| HTTP client, `client/coreapi.py` `TpLinkWebApi` | `_session`, `_session_injected`, `_is_initialized`, `_call_locker`, the cookie jar of the session | `authenticate`, `get`, `post`, `get_variable(s)`, `invalidate_authentication`, `disconnect` | the wrappers |
| Configuration wrappers, `client/tplink_api.py` `TpLinkApi` | none but the client and the feature latch | a reader per page, a setter per command, `_apply_get`, `_apply_post`, `reboot`, `is_feature_available` | coordinator, config flow |
| Feature detector, `client/utils.py` | `_features`, `_is_features_updated` | `update`, `is_available` | wrappers |
| Update coordinator, `update_coordinator.py` | the data of each page (`_port_states`, `_igmp_state`, ...), `_xxx_supported`, `last_update_success` (base class) | `async_update`, one `_update_xxx` per page, the setters of commands, `async_unload` | entities, services, entry |
| Entities, `switch.py`, `select.py`, `sensor.py`, `binary_sensor.py`, `button.py` | `_port_info`, `_port_poe_info` and the like: what they were last notified of | `_handle_coordinator_update`, `available`, turn on/off, select | Home Assistant |
| Services, `services.py` | the number of users of the domain's services, their registration | `async_setup_services`, `async_unload_services`, dispatch to the coordinator's setters | entry, Home Assistant |
| Config entry life cycle, `__init__.py`, `helpers.py` | `hass.data[DOMAIN]` | setup with rollback, unload, reload on a change of options, migration | Home Assistant |
| Config flow, `config_flow.py` | the values entered, the switch that was picked | scan, pick, forms, validation with one short-lived client, a new entry, reconfiguration, options | Home Assistant |
| Discovery, `client/discovery.py` | queue of datagrams, switches found | broadcast, parse, deduplicate | config flow |
| Statistics, `client/statistics.py` | the previous sample of the counters and its time | rate calculation, wrap and reset of counters | coordinator |
| Data classes, constants, displayed values | none | none | all |

### How they interact

* One `TpLinkApi` with one `TpLinkWebApi` exists per config entry. The poll, the
  entity commands and the services are separate tasks that call it at any time.
  The client's lock admits one of them to the switch.
* The poll reads the pages one after the other and stores each as it arrives. A
  setter writes a page and then stores what it wrote, patches what is known, reads
  the page again, or leaves it to the next poll; then it notifies the entities.
* Entities hand commands to the setters. Switch entities that share a page write
  the other settings as they know them.
* Set-up, reload and unload create and drop a coordinator. They do not wait for a
  poll or a service call that is under way.
* A config flow scans the network, then makes a client of its own, asks a switch for
  its MAC, and adds or changes an entry; several flows may be open at once, and one of
  them can have the port a scan needs.

### What is hard about it

* **Interleaving:** a poll, commands and the unload share a session, a cookie, a
  logon flag and the cached pages. Some of these are changed without the lock.
* **Retry:** a request may be refused because the switch forgot the session; it is
  repeated once after another logon. It must not be carried out twice.
* **Doubt:** the connection of an applied change may be closed before the answer;
  the wrappers take a closed connection for success.
* **Partial failure:** a page may fail during a poll, a reread after a write, a
  write of a pair of pages, a step of the set-up.
* **Latches:** "this firmware has no such page" and "this switch has no PoE" are
  remembered for the life of the coordinator, after one answer.
* **Lost updates:** read-modify-write across the lock.
* **Stale knowledge:** the cached LAGs by which a QoS priority is spread, the name and
  the switch a flow was told of before it waited for the network.
* **Untrusted order:** datagrams of other scans, late, duplicated or too many.
* **Narrow numbers:** counters that wrap at 2^32 and start again from zero.

### What makes each component correct

| Component | Properties |
|---|---|
| HTTP client | `OneOnTheWire`, `RequestIsLoggedOn`, `LoggedOnHasCookie`, `BoundedRetry`, `DisconnectClosesSession`, `ImplementsSwitchCalls`, `EveryCallEnds` |
| Wrappers | `ImplementsSwitchCalls` (a change is applied at most once), `SuccessMeansApplied` (does not hold) |
| Coordinator, entities | `CacheCoherent`, `MandatoryKept`, `SupportKept`, `OnlyMandatoryFailsPoll`, `LatchedOnlyIfAbsent`, `EventuallyInSync`, `NoLostUpdate` (does not hold for concurrent commands), `EntitiesRemain` (does not hold) |
| Services, life cycle | `ServicesWhileUsed`, `CoordinatorFound`, `NothingLeftBehind` |
| VLAN, LAG, mirror commands | `LagsApart`, `VlansWellFormed`, `VlansFit`, `MirrorReplaced`, `MtuSettled`, `LagTreatedAsOne`, `VlanPortsChecked`, `NoOrphan` (does not hold) |
| Statistics | `RatesExact`, `RatesNotOverstated`, `RatesWithinLineRate` |
| Discovery, config flow | `FoundIsFresh`, `OneEntryPerSwitch`, `HostVouched`, `PickedIsConfigured`, `NamesApart`, `ImplementsRegistry`, `Released` |

`PROJECT.json` lists the hazards line by line with the properties that cover them.

## 2. The modules

| Module | Models | Composes |
|---|---|---|
| `SwitchCalls` | what the client promises to its callers: a call is begun, carried out at most once while it is open, and ends with a result that may not contradict what happened | |
| `WebApi` | `TpLinkWebApi` with `_apply_get`/`_apply_post`, for several tasks | implements `SwitchCalls` (`Calls == INSTANCE SwitchCalls WITH open <- ...`) |
| `WebApi_proofs` | the theorems about `WebApi` | EXTENDS `WebApi` |
| `Coordinator` | `TpLinkDataUpdateCoordinator`, the feature detector, the entities' and services' commands | uses `SwitchCalls` for its calls (`Api == INSTANCE SwitchCalls`) |
| `EntryLifecycle` | set-up, rollback, cancelled set-up and unload of several config entries, the store of coordinators and the domain's services | |
| `EntryLifecycle_proofs` | the theorems about `EntryLifecycle` | EXTENDS `EntryLifecycle` |
| `SwitchConfig` | the commands of `TpLinkApi` that read a page, validate against it and write: mirror, LAGs, VLAN modes, port and 802.1Q VLANs, PVIDs, rates | |
| `Statistics` | the counters of the switch, `PortStatisticsRateCalculator` and the poll that feeds it | |
| `Discovery` | the scan of `client/discovery.py` and the network it meets: state and actions without a specification of its own | |
| `EntryRegistry` | what the flows promise of the config entries: an entry is made or changed only by an answer a switch gave that flow, with the address it answered from, no answer is used twice, and there is one entry for each switch | |
| `ConfigFlow` | the steps of the config flow for several flows, entries and switches | EXTENDS `Discovery`: the next-state relation is that of both; implements `EntryRegistry` (`Registry == INSTANCE EntryRegistry WITH answer <- Answers`) |
| `Coordinator_proofs`, `SwitchConfig_proofs`, `Statistics_proofs`, `ConfigFlow_proofs` | the theorems about `Coordinator`, `SwitchConfig`, `Statistics`, and `ConfigFlow` with `Discovery` | EXTENDS the module |
| `CoordinatorUpdates_proofs`, `CoordinatorStartup_proofs` | when no update is lost, and which entities there are after the set-up | EXTENDS `Coordinator_proofs` |
| `MCCoordinator`, `MCEntryLifecycle`, `MCSwitchConfig`, `MCConfigFlow` | small inputs and the symmetry for TLC | EXTENDS the module |

So the coordinator is checked against the *abstract* client, and the real client is
proved to implement it: the two are put together by the refinement, and the
coordinator's runs need not carry cookies, retries and queues.

### WebApi

A task is idle or waits in one of three places, the three awaits of a call: for
`_call_locker` (`pc = "queued"`), for `logon.cgi` (`"logon"`) or for the page
(`"request"`). What the code runs between two of them is one action:

| Code | Action |
|---|---|
| `get`/`post` up to `async with self._call_locker` | `Call` |
| lock taken, `_ensure_initialized`, `_refresh_session`, first request | `Acquire` = `SendRequest` or `BeginLogon` |
| `authenticate` from the answer on | `LogonReply` |
| `get`/`post` from the answer on, with the retry, and the wrapper's handling of the result | `RequestReply`, `Return`, `Classify`, `Outcome`, `Invalidates` |
| `CancelledError` at any of the three awaits | `Cancel` |
| `TpLinkApi.authenticate` of the config flow, without the lock | `Login`: only while no task has a call open, because the flow's client serves one task; until it is through (`LoggingIn`) nobody calls |
| `disconnect` | `Disconnect` |
| switch and network | `Serve`, `Deny`, `Drop`, `Welcome`, `Refuse`, `Forget` |

`cookie` is what the switch thinks of the session's cookie. A request with a live
one is carried out, whatever becomes of its answer; any other request is answered
with the login page. The history variables `sent`, `logons` and `handled` count what
one call did. `Acquire` is a separate step also for an uncontended lock: the
extra state between `Call` and `Acquire` only adds interleavings.

### Coordinator

A page has a value with two fields, the one an entity sets (`enabled`) and the
`rest` that is written along with it, which is enough to tell "kept", "lost" and
"overwritten" apart. `PollOrder` gives the pages in the order of `async_update`, and
the sets `Mandatory`, `Optional`, `Gated`, `Replaced`, `Patched`, `Reread`,
`LeftAlone`, `Shared` and `Direct` say how the code treats each of the fifteen.
Those sets hold for every page of the code; a run instantiates a few of them.

A call is `Send`, `CarryOut` and the handler of its end. `CarryOut` is when the call
has the client's lock and the switch acts; the handler runs from the answer to the
next `await` in one step. End and next `Begin` are two steps, which again only adds
interleavings. An answer is `data`, `absent` (what `_is_unsupported_error` accepts),
`disconnected` or `request` (any other error).

| Code | Action |
|---|---|
| `async_update`, the order and the skipping | `StartPoll`, `NextAt`, `Polled`, `GoOn`, `PollFails` |
| `_update_switch_info`, `_update_port_states` | `UpdateMandatory` |
| `_update_led_state` ... `_update_pvid_state` | `UpdateOptional`, `Verdict` |
| `is_feature_available`, `_ensure_features_updated` | `ProbeFeatures` |
| `_update_poe_state`, `_update_port_poe_states` | `UpdateGated` |
| entity commands in `switch.py`, `select.py` | `EntityCommand`, `Known` |
| `_async_run_configuration_service` and the PoE services | `DirectCommand` |
| the setters: read before the write, write, reread | `Check`, `Write`, `Written`, `Refresh`, `Publish` |
| a cancelled command | `CancelCommand` |
| `set_qos_priority` with `_ports_for_trunk` | `Spread` in `Check`: the write is for every member of the LAG, by the page just read |
| `async_set_qos_priority`, the patch of the known priorities | `Patch`, `Spread`, `Written`: for the members of the LAG as the *cached* page has them |
| entities that the platforms create after the first refresh | `Entities`, in `GoOn` |

The QoS page has one more field, `trunk`: whether its two ports are in one LAG, which a
change of the LAG page changes on the switch (`Applied`) and the cache only learns from the
next read.

`unsure` and `asked` are history variables: the pages whose last write ended in a way
the client could not see, or was patched by LAGs that had changed (`PatchedAmiss`), for
which `CacheCoherent` claims nothing until the page is read again; and what acknowledged
commands asked for.

### EntryLifecycle

Home Assistant runs set-up and unload of one entry one after the other, under the
entry's own lock; tasks of different entries interleave at every `await`. The phase of
an entry is the `await` its task is at:

| Code | Action |
|---|---|
| `async_setup_entry` up to `async_config_entry_first_refresh` | `StartSetup` |
| the refresh raises | `RefreshFails` |
| `set_coordinator`, up to `async_forward_entry_setups` | `Refreshed` |
| a platform takes the entry on, or raises | `LoadPlatform`, `ForwardFails` |
| `async_setup_services`, complete or failing | `Forwarded`, `SetupServices` |
| the handler after `async_unload_platforms`, whose result it ignores | `RolledBack` |
| `CancelledError` at any of the three awaits of the set-up | `CancelSetup` |
| `async_unload_entry` | `StartUnload`, `Unloaded` (with `UnloadServices`), `UnloadFails` |

`disconnect` of a coordinator's client does not suspend, because its session is
injected, so dropping a coordinator is part of the step that drops it. The handlers
of the set-up are `except Exception`, which `CancelledError` is not: a cancelled set-up
leaves its coordinator behind, and the history variable `abandoned` names the entries to
which that happened. `failed_unload` is where Home Assistant leaves an entry whose
platforms could not be unloaded, until it restarts. A reload is an unload and a set-up.

### SwitchConfig

A command is `Start`, which is the read and the validation in one step (nothing is
shared but the switch, so only the moment of the read counts), and then one `Write` per
form it submits. What a command is to write is computed from the page it read:
`Accepts` are the checks that raise before the first write, `Writes` is the list of
forms. A command that is not accepted changes nothing, so it is no step. Between two
writes other commands run.

| Code | Definitions |
|---|---|
| `set_port_mirror` | `AcceptsMirror`, `MirrorWrites` |
| `set_lag`, `delete_lag` | `AcceptsLag`, `AcceptsNoLag`, `GroupPorts` |
| `set_mtu_vlan` | `AcceptsMtu`, `MtuWrites` |
| `set_port_vlan_enabled`, `set_8021q_vlan_enabled` | the `mode` command of `Writes`, which is accepted always |
| `upsert_port_vlan`, `delete_port_vlan` | `AcceptsPortVlan`, `AcceptsNoPortVlan` |
| `upsert_8021q_vlan`, `delete_8021q_vlan`, `set_pvid` | `AcceptsVlan`, `AcceptsNoVlan`, `AcceptsPvid` |
| `_expand_trunk_ports`, `_ports_for_trunk` | `Expanded` |
| bandwidth and storm control | `AcceptsRate`; one `rate` stands for both |
| `_apply_get` after a closed connection, after an error | `Forgiven`, `Fail` |

The switch does as it is told (`Effects`), and when it leaves a VLAN mode it may
forget the VLANs of that mode or keep them; nothing is assumed of checks of its own.
Three history variables say what a property is about: `clean` of a job, that the page it
read is still what the switch has; `blind`, that some command wrote although it was not;
`settled`, the last mirror and MTU VLAN command that ended undisturbed. An MTU VLAN command
that finds mode and uplink as it wants them submits no form and ends with its read: `Start`
enters it in `settled` at once.

### Statistics

A "port" is one counter, of good packets sent or received. A rate is kept as the packets
and the seconds it is the quotient of, so no fraction is needed; the bits of a rate are a
constant factor.

| Code | Action or definition |
|---|---|
| the switch counts, time passes, the switch restarts | `Tick`, `Restart` |
| `get_port_statistics`: the switch takes its counters | `Read` |
| the answer arrives, `monotonic()`, `PortStatisticsRateCalculator.update`, the stores of `_update_port_statistics` | `Arrive`, `Calculated`, `Remember` |
| `_counter_delta` | `CounterDelta`, `WrapThreshold` |
| the call fails, before or after the switch has taken its counters | `Fail` |

The history variables `before`, `after` and `told` follow the true traffic between the
samples, and are what the rates are compared with. `LineRate < Modulus` is an assumption: in
one tick no counter wraps twice.

### Discovery and ConfigFlow

| Code | Action |
|---|---|
| `create_datagram_endpoint` and the broadcast | `OpenPort`, in `StartUser` |
| `datagram_received`, the queue's limit | `Receive` |
| one turn of the loop of `async_discover_switches`: `_parse_discovery_response`, the dictionary by MAC | `Turn`, `Accepts` |
| the deadline, `_MAX_RESPONSES` | `Deadline`, `Over` |
| `transport.close()` in the `finally` | `ClosePort`, in `Scanned` and `Cancel` |
| a switch that changes its address or is switched off | `Move` |
| `async_step_user`/`import`, with and without a scan | `StartUser`, `StartManually`, `Scanned` |
| `async_step_discovery` | `Pick` |
| `async_step_user`, `..._discovery_credentials`, `async_step_reconfigure` up to the validation | `StartReconfigure`, `Submit`, `TakenNames` |
| `get_device_info` in `_async_validate_switch`: the switch answers | `Answered` |
| from the end of `_async_validate_switch` on: its result after the disconnect, errors, the wrong switch, the unique id, the entry | `Validated`, `Refused`, `WrongDevice`, `Accepted`, `Stores` |
| the user gives up; the task of a step is cancelled | `Abandon`, `Cancel` |

A datagram is an answer to this scan, one to another scan (`foreign`) or junk; MAC and
address are members of small sets, and the cipher and the layout of packets are left out.
An answer to this scan names an address its switch had since it was asked (`held`), so a
delayed or duplicated one is in the model, and so is one that is dropped because it is never
received. The answer of a switch (`Answered`) and what the flow makes of it (`Validated`)
are apart: between them are the network, the event loop and the disconnect in the `finally`,
during which switches move and other flows end. The answer may also be lost or no good, and the
flow may be cancelled with it. What follows the last `await` of a step up to the
entry is one action, because nothing else runs between: `Validated` is
`_abort_if_unique_id_configured` and the creation of the entry together. The history variables are `held`, `vouched` (the switch that
answered at the address of an entry) and `raced` (flows that were validating while an entry
got a new name).

## 3. The runs

| Run | Shows | Bounds, and why they are enough |
|---|---|---|
| `webapi_calls` | all safety properties of the client, that it implements `SwitchCalls`, and that every call ends | 2 tasks: the lock, the queue and the unlocked invalidations need two; `WebApi_proofs` covers any number. The unlocked logon of the config flow is one of the calls. 80,545 states |
| `webapi_forgiven` | **violation** of `SuccessMeansApplied` | 1 task |
| `webapi_unload` | **violation** of `DisconnectClosesSession` for a poll that outlives the unload | 1 task |
| `coordinator_overlap` | the cache agrees with the switch whatever polls and commands overlap; data and support once gained are kept; only a mandatory page fails a poll | poller and 2 command tasks, 2 commands, 1 fault, pages may come malformed; a mandatory page, an optional one that no command refreshes, and the PoE ports with their probe. 1,021,032 states |
| `coordinator_commands` | commands one after the other lose nothing; the priorities known for a LAG are right; a page is only given up if the firmware lacks it; in the end the polls bring every page in line | 1 command task, 2 commands, 1 fault; a page that is replaced after a write, one that is patched by the LAGs it knows, and those LAGs. 488,573 states |
| `coordinator_concurrent` | **violation** of `NoLostUpdate` by two commands at once | 2 command tasks |
| `coordinator_startup` | **violation** of `EntitiesRemain` by one closed connection during the first refresh | 1 fault |
| `entry_lifecycle` | services exist exactly while an entry uses them; platforms and services find a connected coordinator; a failed set-up leaves nothing behind | 3 entries: one that is loaded, one that fails and one that is unloaded at the same time; 2 platforms, so that some can be loaded and some not. The entries' behaviour is not bounded. 20,940 states |
| `switch_config` | what accepted commands leave on the switch is a legal configuration, LAG members are treated alike, and the commands that look after VLAN membership do | 2 tasks, 3 commands out of 94, 1 lost or failed write; 4 ports, 2 LAGs of 2 ports, 3 VLAN IDs of which 2 fit: room for a LAG apart from a port, a list across LAGs, and a VLAN too many. 1,381,224 states |
| `switch_orphan` | **violation** of `NoOrphan` by three commands in a row | 1 task, 3 commands |
| `statistics` | what a rate claims against the traffic there was, over wraps, restarts, failed and late polls | 1 counter of modulus 10, so the margin is 1 and a tick can exceed it; 3 packets a tick and 4 ticks, so a whole range can pass between two samples. `Statistics_proofs` covers any size. 903,700 states |
| `config_flow` | which switch gets which entry, address and name; that the flows implement `EntryRegistry`; that port and clients are released | 2 flows, 2 switches and addresses, 1 move, 2 submitted forms, 2 entries; a queue of 1, so that it overflows, and a limit of 2 responses. A switch may move while its answer is on the way. It starts with the first switch where the entry has it (`StartSpec`): elsewhere it gets by the one move, and the rest is the same with the names exchanged. 253,987 states |

`MaxCommands` bounds the commands begun and `MaxFaults` the calls that go wrong, both
in guards. Two commands and a poll are enough for every overlap that the
properties relate, since each relates one write, one read and one more write.
`WebApi` and `EntryLifecycle` have no bound: their state is finite as it stands.
`MaxMoves`, `MaxFlows` and `MaxSubmits` bound what users and switches do in `ConfigFlow`, and
`MaxTime` the clock of `Statistics`.
`CHECK_DEADLOCK FALSE` is set for the runs of three modules: entries all of which failed to
unload wait for a restart of Home Assistant; and the commands of `SwitchConfig` and the flows of
`ConfigFlow` are bounded.

### Fairness

* `WebApi`: weak fairness of `Acquire`, `LogonReply`, `RequestReply` (asyncio runs
  every task that can run; `asyncio.Lock` is FIFO, and the queue is modelled) and of
  `Answer` (each raw request has a `ClientTimeout` of 5 s, so it ends with an
  answer or a failure). Nothing is assumed of `Call`, `Cancel`, `Forget` or
  `Disconnect`.
* `Coordinator`: weak fairness of `StartPoll` (the base class schedules another poll
  while there are listeners), of `Send` and of the end of a call. `CarryOut` has
  strong fairness because the lock, which is not modelled as a queue here, is handed
  on in the order in which it was asked for; `EveryCallEnds` of `WebApi` is the
  detailed form of that.
* `ConfigFlow`: weak fairness of `Turn` and `Scanned` (asyncio runs the loop), of `Deadline`
  (time passes) and of `Validated` (every call of the validation has a time limit).
  Nothing is assumed of `Receive`, `Move`, the user or a cancellation.
* `EntryLifecycle`, `SwitchConfig` and `Statistics` state safety only and assume no fairness.
* No fairness is given to a command or to a fault, and `MaxFaults` is what makes the
  switch good in the end: with faults for ever no poll need succeed.

### Findings

1. `_apply_get`/`_apply_post` report success for a connection that was closed before
   the change was carried out (`webapi_forgiven`).
2. A poll that is under way while the entry is unloaded makes a session after
   `disconnect`, which nobody closes (`webapi_unload`).
3. Two concurrent commands of entities that share a page overwrite each other
   (`coordinator_concurrent`); `docs/controls.md` says that they preserve each other.
4. One closed connection during the first probe hides the PoE entities until the next
   reload (`coordinator_startup`); the README says that entities of a page that
   fails temporarily during startup remain visible.
5. Deleting a VLAN, or taking a port out of a VLAN other than 1, may leave a port in no
   VLAN: only an upsert of VLAN 1 is checked for that (`switch_orphan`).
   `docs/services.md` says that every port must remain in at least one VLAN.

For each of them a theorem of section 4 says how far the damage goes: which hypothesis would
exclude it (`ForgivenIfApplied`, `ClosedUnlessLogon`, `KeepsUpdates`, `UndisturbedStart`), or what holds
nevertheless (`OthersStay`, `ChecksPorts`).

## 4. The proofs

### The client

`WebApi_proofs` proves for any set of tasks, any interleaving and any number of calls:

| Theorem | Says |
|---|---|
| `TypeCorrect` | `Spec => []TypeOK` |
| `MutualExclusion` | `Spec => []OneOnTheWire` |
| `LoggedOn` | `Spec => []RequestIsLoggedOn` |
| `CookieKept` | `Spec => []LoggedOnHasCookie` |
| `Bounded` | `Spec => []BoundedRetry` |
| `Refinement` | `Spec => Calls!Spec`: the client implements `SwitchCalls` |
| `AnswersConclusive` | `Spec => []Conclusive`: what a caller may conclude from how its call ended |
| `ForgivenIfApplied` | `Spec /\ []ClosedMeansApplied => []SuccessMeansApplied` |
| `ClosedUnlessLogon` | `Spec /\ []NoLogonAhead => []DisconnectClosesSession` |

The one assumption is that `NoTask` is no task.

None of the invariants is inductive as it stands. `IInv` adds to `TypeOK`:

* `OneOnTheWire`, `RequestIsLoggedOn` and `LoggedOnHasCookie` themselves;
* `AloneInv`: while the config flow logs on, no other task has a call open. It is what
  keeps the mutual exclusion although that logon takes no lock;
* `ReplyInv`: which answers can be on their way to a task that waits where it does,
  and that an idle or queued task has none;
* `TrafficInv`: how `sent` and `logons` relate at each waiting place. `BoundedRetry`
  follows, because a second request is only sent with `sent = 1`;
* `HandledInv`: a call was carried out at most once, and not at all while its logon is
  under way or when its answer is `unauthorised`. This is the heart of the
  refinement: the retry is taken only on an answer that proves that the first
  request was not carried out.

For the refinement every action maps to `Begin`,
`CarryOut`, `End` or a stutter of `SwitchCalls` (`Serve` is `CarryOut`; `Acquire`,
`LogonReply` and `RequestReply` end the call or stutter).

`AnswersConclusive` does not look at the client again: `Conclusive` (a request is carried out at
most once, a read that succeeds was answered by the switch, after a refusal the switch has done
nothing) is proved of `SwitchCalls` and carried over by the refinement, so it holds of any
client that implements it.

The last two theorems are about properties that runs refute, and say what it takes to have them.
`ClosedMeansApplied` is what the comment in `_apply_get` takes for granted: a connection
on a change is only closed after the change was made. Then success means applied, exactly once.
`NoLogonAhead` says that no call that outlives the disconnect waits for the lock or is about to
log on again. Then the disconnect closes the session for good: an answer that is merely late opens none.

### The life cycle

`EntryLifecycle_proofs` proves, for any finite set of entries (`EntriesAssumption`) and any
platforms:

| Theorem | Says |
|---|---|
| `TypeCorrect` | `Spec => []TypeOK` |
| `ServicesCounted` | `Spec => []ServicesWhileUsed` |
| `AlwaysFound` | `Spec => []CoordinatorFound` |
| `CleanedUp` | `Spec => []NothingLeftBehind` |

`ServicesWhileUsed` relates the counter to the cardinality of `Users`. The step that
matters is `CountStep`: an entry that enters or leaves `Users` changes the cardinality by
one, exactly as `async_setup_services` and `async_unload_services` change the counter, and
every other step leaves both alone (`SameUsers`). That the last instance removes the
services follows because a finite set of cardinality zero is empty.
`CoordinatorFound` is not inductive: when `Refreshed` stores a coordinator, nothing says
that its client is connected. `FreshCoordinator` adds that of the phase before, and
`CoordinatorInv` puts it together with the two properties.

### The coordinator

`Coordinator_proofs` proves, for any set of tasks with a poller, any of the fifteen pages in
any order, any number of commands, faults and interleavings:

| Theorem | Says |
|---|---|
| `TypeCorrect` | `Spec => []TypeOK` |
| `Coherent` | `Spec => []CacheCoherent` |
| `KeepsMandatory` | `Spec => []MandatoryKept` |
| `KeepsSupport` | `Spec => SupportKept` |
| `OnlyMandatory` | `Spec => OnlyMandatoryFailsPoll` |
| `Latches` | `Spec => []LatchedOnlyIfAbsent`, if pages come with their variables (`~Malformed`) |
| `KeepsUpdates` (`CoordinatorUpdates_proofs`) | `Spec /\ []CommandsApart => []NoLostUpdate` |
| `OneCommanderKeeps` (same) | `Spec => []NoLostUpdate`, if one task besides the poller gives commands |
| `OthersStay` (`CoordinatorStartup_proofs`) | `Spec => []OthersRemain`, if `~Malformed` |
| `UndisturbedStart` (same) | `Spec /\ [][Undisturbed]_vars => []EntitiesRemain` |

`CacheCoherent` relates the cache to the switch at moments when no call is under way, and is far from
inductive: that a read stores the truth depends on nobody having written since the switch
answered. `IInv` is built of

* `TypeInv`: the type invariant, with the values each page can have;
* `CallInv` and `JobInv`: which call a task's job has open, and what a command that has
  come to its write can be about;
* `WireInv`: one call is on the wire, what a read got is still what the switch has, and what a
  write set is still set, because no other call can be carried out before the handler of
  this one has run. This is where the client's lock enters;
* `CoherentInv`: `CacheCoherent` with the exact set of writes that excuse a page;
* `PollInv`: a poll has settled the pages it has passed (a mandatory page is known, the PoE
  probe has an answer), hence all of them once the entry is ready. `Following` shows that the
  pages `NextAt` skips need nothing.

The action properties follow from the same invariant, step by step (`StepsCareful`).

`NoLostUpdate` is false in general (`coordinator_concurrent`), so the theorem names the hypothesis
that excludes the race and no more: `CommandsApart` says that while a command that writes fields it
was not asked for is under way, no other command is about the *same* page. Commands about other
pages, commands that write only what they were asked for, polls, faults and cancellations may
interleave as they like, and any number of commands may follow each other. One task that gives
commands satisfies it trivially, hence `OneCommanderKeeps`, which is what the run
`coordinator_commands` checks. `UpdateInv` has three parts: `Kept` (the switch has each field as
asked, unless it is being written), `Told` (what an entity takes the other fields from, the cached
page and what it was last notified of, has them as asked, unless the page is about to be read
again) and `Borrowed` (a command under way took them over so). A poll is what connects them: by
`WireInv` it stores what the switch has, and by `Kept` that is what was asked.

`OthersStay` bounds what `coordinator_startup` shows. Whatever calls fail during the set-up, an entity
of a page other than the PoE ones is there, because a mandatory page is known when
the entry is ready and an optional one is only given up when the switch says that it has no such
page (`Latches`). `UndisturbedStart` is the other
half: if no call goes wrong *before* the entry is set up, the PoE entities are there too, and stay
whatever goes wrong later. `StartInv` says that until then the coordinator has found out the truth
about every page (`Found`), the PoE probe included, and has read the PoE ports once the poll has passed them.

### Statistics

`Statistics_proofs` proves for any ports, any counter width, line rate and latency:

| Theorem | Says |
|---|---|
| `TypeCorrect` | `Spec => []TypeOK` |
| `Exact` | `Spec => []RatesExact` |
| `NotOverstated` | `Spec => []RatesNotOverstated` |
| `WithinLineRate` | `Spec => []RatesWithinLineRate` |

`CountersInv` says how the counter of now follows from the last sample and the true traffic
(`Leads`): without a restart the two differ by the traffic, modulo the width. `TimesInv` bounds the
true time between two samples by the time between their answers and the latency of the first. The
lemmas about `CounterDelta` compare its three cases with the two that can be true.

### Discovery and the config flow

`ConfigFlow_proofs` proves for any number of flows, switches, addresses, entries and datagrams:

| Theorem | Says |
|---|---|
| `TypeCorrect` | `Spec => []TypeOK` |
| `Fresh` | `Spec => []FoundIsFresh` |
| `OneEntry` | `Spec => []OneEntryPerSwitch` |
| `Vouched` | `Spec => []HostVouched` |
| `Picked` | `Spec => PickedIsConfigured` |
| `GivesFreeNames` | `Spec => NamesApart` |
| `Implements` | `Spec => ImplementsRegistry` |

`ScanInv` adds to `FoundIsFresh` that the queue holds only answers with addresses their
switches had (`QueueFresh`), and that both are empty without a scan. `EntryInv` adds the
shape of a flow at each form (`FlowShape`: a picked switch where there must be one, an entry that
exists where one is reconfigured, an answer only while it validates) and `NameFree`: a flow that was told no error still has a name
nobody else has, unless it is `raced`.

`TypeOK` bounds the queue and the responses (`ScanBounds`, `FlowBounds`). The limit of responses
holds because a turn takes one datagram and the limit is looked at before each turn
(`TurnBounds`), so the dictionary grows by one at most when there is room for one.
`Implements` maps the `switch_info` and the form's address of each flow to the answers of
`EntryRegistry`, and each step to one of its: `Move` to itself, `Answered` to `Answer`,
`Validated` to `Add`, `Change`, `Forget` or, without an answer, a stutter, `Cancel` with an answer
to `Forget`, and everything else to a stutter (`AnswersStep`, `AddressStep`). It rests on the
address of the form, which cannot change while a flow validates and so is still the one
the switch answered from, and on the search for the unique id after the last
`await`, whatever other flows have stored since the answer. Where the switch is by then nobody
promises: it may have moved between its answer and the entry, and `EntryRegistry` allows that.

### The configuration commands

`SwitchConfig_proofs` proves for a switch with any ports, LAGs and VLANs, any commands of any
tasks and any number of writes that go wrong:

| Theorem | Says |
|---|---|
| `TypeCorrect` | `Spec => []TypeOK` |
| `GroupsKeptApart` | `Spec => []LagsApart` |
| `WellFormed` | `Spec => []VlansWellFormed` |
| `Fit` | `Spec => []VlansFit` |
| `Replaces` | `Spec => []MirrorReplaced` |
| `Settles` | `Spec => []MtuSettled` |
| `ActsOnWholeLags` | `Spec => LagTreatedAsOne` |
| `ChecksPorts` | `Spec => VlanPortsChecked` |

`TypeInv` says that the switch is `Legal` and that every plan is a sequence of `LegalWrite`s,
which keep any legal switch legal, however old the page was that they were planned by. That is
all the first three theorems need, with `GroupsApart`: the ranges of ports of two groups do
not meet. The others are about what a command still has to do. `JobInv` says that a
command nobody has disturbed is `Ahead`: a write that depends on the page is
still right (`Apt`), and what the switch does not yet have of the mirror or the MTU VLAN
that was asked for is still in the plan. When the plan is empty, the switch
has it all. `Apt` is also what `ChecksPorts` rests on: of a command nobody has disturbed, the
members a write gives VLAN 1 leave no port without a VLAN, and a PVID it writes is one of a VLAN
every port of the write is in, by the page it read, which is still what the switch has. That
theorem is what `NoOrphan` can be saved to: the commands that check for orphans are right, the others
make them. That `MirrorWrites` plans every port that is or becomes a source rests on
`AscendingPorts`: putting ports in order loses none.

The assumptions are about the sizes of the switch, that commands have the types of the services'
fields (`CommandsAssumption`), that the bounds are numbers and that `None` is no port and no command.

### Only model-checked

`EveryCallEnds`, `EventuallyInSync` and `Released`, because liveness is out of TLAPS' reach. Every
safety property of a passing run is a theorem, under the hypotheses that the tables above name:
`NoLostUpdate` needs `CommandsApart` or one commander (the run has one), and
`LatchedOnlyIfAbsent` needs `~Malformed` (so has the run). That the hypotheses of the conditional theorems
can be met is no theorem: the passing runs have behaviours of each kind. Induction over data is out of
reach too, so no definition is recursive: `Ascending` of `SwitchConfig` is chosen by what it must
be, and that there is such a sequence is proved (`CanBeSorted`).

## 5. What is not modelled, and why

* aiohttp's own repetition of idempotent requests on a reused connection, and a
  request that the switch carries out after the client gave up on it: the model
  stops following a request that timed out or was cancelled.
* Changes made in the switch's own web page while the integration runs: a poll would
  pick them up, and the coherence properties would be about the interval only.
* Polls that overlap: the base class serialises them with the debouncer's lock.
* A first refresh that fails discards the coordinator; the next attempt is the same
  initial state with `PollFails` resetting the knowledge.
* The PoE consumption and the PoE ports are read from one URL in two requests; they
  are two pages here.
* In `Coordinator`, the expansion of LAG members other than for QoS priorities, and the two
  writes of the MTU VLAN: they are in `SwitchConfig`, without the cache. The QoS mode, which
  is written for a switch and not for a port, is left to the field that is patched alike.
* In `SwitchConfig`, the settings that are written in one form without being
  validated against a page (port speed, IGMP, loop prevention, LED and the like): they
  are commands of `Coordinator`.
* What Home Assistant does with an entry that is removed or disabled: both unload it. That an
  entry is removed while a flow reconfigures it is left out.
* Pages of `SwitchConfig` that lack the LAG ids, where the code takes no port to be in a LAG.
* The options flow, two forms in a row that keep nothing but their input; the migration of
  old entries, a function of the entry's data; the schemas of the services, of which
  `SwitchConfig` takes the types of the fields.
* The packet cipher and the packet layout of the discovery: an answer is one to this scan or
  not.
* Sensors, displayed names and formatting: no state that the properties tell apart.

Two limits of the code that the properties state as they are:

* `RatesExact` holds for up to a tenth of the counter's range between two samples. The longest
  interval that can be configured, an hour, lets a gigabit port carry more packets than the
  whole range, and then `docs/sensors.md` ("counter resets and 32-bit wraps are handled") promises more than
  any two samples could tell.
* `HostVouched` says nothing of entries without a unique id, which an early version made:
  reconfiguring one accepts any switch and sets no unique id.

## 6. The plan

Done: `SwitchCalls`, `WebApi`, `Coordinator`, `EntryLifecycle`, `SwitchConfig`, `Statistics`,
`Discovery`, `EntryRegistry`, `ConfigFlow`, and proofs of every safety property about all of them.

1. An abstract specification of one entry's life (set up, in use, gone) that `EntryLifecycle`
   implements, and the step-by-step proof.
2. The QoS mode and priorities in `SwitchConfig`.
3. The migration of old entries, as a function checked against a definition of its result.
