# TLA+ verification of network-provisioning-zephyr

Models, model-checking runs and machine-checked proofs for the Zephyr port of
ESP-IDF's network provisioning: a device offers a provisioning service over BLE,
SoftAP or the console, a client opens a protocomm session, sends Wi-Fi or Thread
credentials, and the device tries them and reports the outcome.

`tlc -workers 2 -config <run>.cfg <module>` repeats a run, `tlapm
<module>_proofs.tla` the proofs about a module. `PROJECT.json` lists components, runs, mutants,
the map from definitions to source lines, findings, hazards and theorems.

## 1. Inventory

| Part (source) | State | Operations | Interacts with | Hard behaviour |
|---|---|---|---|---|
| Manager (`network_prov_mgr.c`) | inited/started, auto-stop, `done` semaphore, `teardown_work`, protocomm instance, custom endpoints | init, start, stop, deinit, disable_auto_stop, wait, endpoint_*, set_app_info, reset_* | starts and stops transports, installs endpoints, gets events from the config handlers | teardown on the workqueue against stop/deinit/restart; success event against stop |
| Wi-Fi config (`wifi_config_handler.c`) | staged credentials, in-flight snapshot, attempt counter, status, `retry_work` | set, apply, status, reset, init, deinit, connect result | credential store, Wi-Fi driver, net_mgmt events, manager | three threads without a lock; late results; retries; power loss |
| Thread config (`thread_config_handler.c`) | staged dataset, `pending`, `attach_timeout`, status | set, apply, reset, erase, init, deinit, role change, timeout | OpenThread, manager | callback, timeout and re-check race for one outcome |
| Security 1 (`security1.c`) and protocomm core (`protocomm.c`) | handshake state, key slots, one AES-CTR keystream; endpoint table | open/close session, Command0/1, data request | transports above, endpoint handlers below | lost and late messages, half-failed Command0, re-handshake |
| Security 0 (`security0.c`) | none | handshake, pass-through | protocomm | a session is established by opening it |
| Control (`*_ctrl_handler.c`) | none of its own | reset, reprovision | config handlers | part of those modules |
| Scan (`wifi_scan_handler.c`, `thread_scan_handler.c`) | result table, finished flag, semaphore | init, deinit, start (blocking with timeout), status, results | driver / OpenThread events | completion after the timeout or never; results of an older scan; paging |
| Custom endpoints, app info (`network_prov_mgr.c`) | `mgr.custom`, the app section of the version JSON | create, register, unregister, set_app_info, trampoline | protocomm's endpoint table | registration against a request; table limit |
| SoftAP (`protocomm_softap.c`) | cookie session, shared request buffer, `req_client` | HTTP callbacks, start, stop | HTTP server, access point, protocomm | callbacks of several clients alternate; cut-off bodies; the server stops later than stop |
| BLE (`protocomm_ble.c`) | `g_pc`, GATT table, cached answers, UUID and manufacturer data | connect, disconnect, recycled, write, read, setters, start, stop | Bluetooth stack, protocomm | callbacks outlive stop; failed start; one connection slot |
| Console (`protocomm_console.c`) | `cur_session`, `g_pc` | shell command, start, stop | protocomm | stop and start under a command |
| Fake driver (`sim/wifi/fake_wifi.c`) | connect work, scan work, link | connect, scan, AP | net_mgmt | one pending connect, overwritten target; full event queue |

What makes each part correct: a set of credentials gets exactly one outcome and
the store agrees with it (config); one teardown at a time, nothing leaked, nothing
torn down that should not be (manager); both ends of a session agree on key and
offset, and no handler sees a garbled request (session); a scan's answer is about
that scan (scan); whatever the application may create can be started, and a
request meets the handler, context, instance and session that belong together
(endpoints); requests, answers and sessions of two clients never mix, and a client
that goes away does not lock out the next (transports).

## 2. Modules

| Module | Models | Composes |
|---|---|---|
| `CredTrial` | abstract promise: a trial has at most one outcome and ends | |
| `WifiConfig` | Wi-Fi prov-config with driver, event queue, store | refines `CredTrial` |
| `MCWifiConfig` | symmetry of the network names, for TLC | `WifiConfig` |
| `ProvMgr` | manager lifecycle | |
| `ThreadConfig` | Thread prov-config with OpenThread | |
| `Session` | protocomm session, Security 1, clients | |
| `Scan` | prov-scan of both network types with driver, event queue, OpenThread | |
| `Endpoints` | custom endpoints, endpoint table, dispatch, Security 0, console transport | manager, protocomm, transport |
| `SoftAp` | SoftAP transport, HTTP server, clients | transport, protocomm's session |
| `Ble` | BLE transport, Bluetooth stack, centrals | transport, protocomm's session, the manager's start and stop |
| `X_proofs`, for each of the eight modules with state but `CredTrial` | theorems about `X`, their inductive invariants and lemmas | `X` |

**Step size.** An action is a handler up to the next call that can block or
leaves the module (credential store, net_mgmt, the event callback,
`k_work_cancel_delayable_sync`, transport start/stop). `pc[t]` records
where a thread stands in between. Variables keep the names of the struct fields.

**WifiConfig.** Threads: `Requesters` (the transport's threads, which handle
requests), `Apps` (threads that call the manager: the application, and for a deinit
also the workqueue's auto-stop), `ev` (net_mgmt event thread), `wq` (system
workqueue). Nothing restrains how they interleave. `staged` and `inflight` are the
two credential sets; `retryQ` is `retry_work`; `drv` is the driver, `evq` net_mgmt's
queue of undelivered results, which holds `QueueLen` and may drop a result at any
time because other network events share it; `store` survives `Reboot`. An SSID,
passphrase, BSSID and channel are one record. Status words are reduced to ok, not
found, wrong password, which is what `final_failure` tells apart. `gen`,
`inflightGen`, `seen`, `connects`, `tried` and `out` are history, and so is `mishap`,
what has happened to the latest apply so far:

| | |
|---|---|
| `crossed` | a handler that uses `wc` ran into one that was half-way on another thread |
| `stale` | the result of an earlier apply was taken for its own (`wifi_config_handler.c:189`) |
| `lost` | its result was dropped by the event queue |
| `orphaned` | it was announced, or took its snapshot, while the service was stopping or down |
| `erased` | the application or a later apply removed its stored entry |

The code guards against none of the first four. A property that cannot hold after
one of them names it, so its claim ends exactly there and starts again with the
next apply.

**CredTrial.** What the application is promised: a trial announced by CRED_RECV ends
in one outcome. A trial may be abandoned, or spoilt ("void") by what the endpoint has
no guard against; the next one starts afresh.

**ProvMgr.** Threads `app`, `ev`, `wq`. A protocomm instance is the number of the
start that allocated it, so a leak or a dangling pointer is visible. The
application may call anything in any order from one thread. The transport is up
one step before `started` is set (`network_prov_mgr.c:493`, `:498`), and a success
checks `started` and `auto_stop` one step before it schedules the teardown (`:86`,
`:87`); `late` records an opt-out between those two. `due` holds the starts whose
success found the service started.

**ThreadConfig.** OpenThread is external: enabled, attached or not, the committed
dataset, a pending notification. `delayed`/`queued` split the timeout into
counting down and handed to the workqueue, because a reschedule treats them
differently. `preempt` is chosen in `Init` from `Schedules`: whether other threads
run between a claim of the outcome and its report.

**Session.** Cryptography is symbolic: a key is the record of what it was derived
from, and data decrypts correctly only under the same key at the same offset.
Messages are lost or delivered late; a client sends one request at a time and,
after an error, a timeout or a bad verification, starts over with a new handshake
(as `tests/common/prov_client.c` does). Transport sessions are tokens: cookie,
session_id, connection.

**Scan.** `be` chooses the network type in `Init`. The Wi-Fi event thread works
without a lock, so `on_scan_result` is split into taking the slot, counting it and
filling it; `discover_cb` holds `ts_lock` and is one step. An entry is the pair of
the start its sweep was made for and its number in the sweep. `evq` is net_mgmt's
queue, which drops what does not fit. `clean`, `ok`, `heard` and `got` are history:
nothing was under way when the start began, it answered Success to a blocking
client, how many of its results were delivered, what the client has paged in.

**Endpoints.** `app` is the application's thread, `sh` the shell thread with one
`net_prov` command. A registration is a number that stands for handler and ctx;
an instance is the number of its start. The stores of the console's start, stop and
remembering of a session are steps of their own, session ids may be 0, and `wiped`
records that start overwrote the id of a session opened meanwhile. The trampoline's check and its call are
two steps, and the call may use the handler it checked or load it again, since
nothing tells the compiler which. `overtaken` and `raced` record that the
transport was stopped under a request, or a registration in use replaced or removed.
Allocation failures and a failing `sec0` decode are refused requests.

**SoftAp.** The HTTP server's one thread is external and described in the module.
A body is the sequence of its chunks, `BufLen` the buffer in chunks. Random
session ids are numbered, so a collision of two 32-bit ids is left out. `req_cookie`
is `req_cookie_present` and `req_cookie_id` together. The final callback is split
at `ensure_session` and `protocomm_req_handle`, where `g_pc` is read.

**Ble.** `app` walks through `network_prov_ble_start` and `_stop` and the manager's
deletion of the instance; `bt` is the Bluetooth thread, which runs one callback at a
time from its read of `g_pc` to its end. The stack is external: one connection slot
(the single slot the comment in `recycled` speaks of), released some time
after `disconnected`; advertising stops when a connection begins, and a restart of it
may be refused (`stranded`). A session and a
cached answer are the number of the connection they belong to.

## 3. Runs

| Run | Result | Question |
|---|---|---|
| `wifi_threads` | pass | two networks, a stop on one thread against an apply on another: retry budget, number of attempts, no lost wakeup, no retry left behind a stop, truthful Connected, other networks untouched |
| `wifi_trial` | pass | refinement of `CredTrial`; every attempt ends |
| `mgr_lifecycle` | pass | exclusive teardown, ownership, one END per START, opt-out, auto-stop, every call returns |
| `thread_config` | pass | attach never missed, at most one outcome, every apply ends |
| `session_core` | pass | keystream in step, requests and answers intact, proven peer with a live key, with faults |
| `scan` | pass | a blocking start that answers Success left a complete table that can be paged through; every request is answered |
| `endpoints` | pass | endpoints fit, handler and ctx match, live instance, own session |
| `softap` | pass | whole bodies, own session, the shared buffer is released |
| `ble` | pass | own answers and session, live instance, advertised service matches the GATT table, a device can be found again |
| `wifi_quick_retry` | violation | the cleanup of a failed attempt spares newer credentials |
| `mgr_stale_done` | violation | wait returns on this service's success |
| `ble_failed_start` | violation | the GATT service is registered only while provisioning is started |

The violations are reported in `PROJECT.json` under `findings`, each with the line
it contradicts. They use the same specification as the passing runs. The trace of
`wifi_quick_retry` carries two of them: a failed connection erases stored credentials,
which the documentation says it never does, and even those of a newer apply, which
the comment at the deletion says are safe.

Where a race breaks a property, the property leaves out what that race touches and
nothing else, by a history variable:

| Property | Leaves out | What happens there |
|---|---|---|
| `BudgetRespected`, `TypeOK` | nothing | |
| `NoLostWakeup`, `AttemptEnds` | `lost`, `orphaned` | the attempt stays in flight until the next apply, reset or stop; there is no connect timeout |
| `RetryIdleWhenStopped` | `orphaned` | a retry after the teardown (`NoRetryAfterStop`) |
| `AttemptsExact`, `ConnectedIsReal` | `crossed`, `stale`, `orphaned` (`erased` for what is stored) | another attempt's outcome (`StaleIgnored`) |
| `OthersUntouched` | `crossed`, for a synchronous refusal | a Set under an apply (below) |
| `TrialSpec` | `crossed`, `stale`, `lost`, `orphaned`: the trial is void | the four of them |
| `OptOutKept` | `late` | the service is torn down all the same (`OptOutDropsAutoStop`) |
| `SessionOwnId` | `overtaken`, `wiped` | a session of another id (`NewIdNewSession`) |
| `InstanceAlive`, `InstanceUsed` | `overtaken` (and a failed BLE start) | `ble_failed_start`, behaviours below |
| `CtxMatches` | `raced` | behaviours below |
| `Discoverable` | `stranded` | the refusal is logged and not retried (`protocomm_ble.c:290`) |
| `BlockingComplete` | starts that something was under way for (`clean`) | behaviours below |

The definitions named in the last column, and two more below, state what the code
does not keep. They stand in the modules beside the properties that hold, and TLC
finds each of them violated when it is put in a run.

Two assumptions are named constants:

* `Schedules` (`ThreadConfig`): handlers interleave, or a thread that has claimed an
  outcome reports it before another runs, which is so with cooperative priorities.
  `OutcomeReported` is about the second case only.
* `LongGrace` (`ProvMgr`): auto-stop and cleanup delays outlast a call in progress
  (30 s by default). With a shorter one (`LongGrace = FALSE`, `TeardownExclusive` fails)
  a success reported while stop tears down schedules a second teardown at once.

**Behaviours the models have and no property rules out**, seen while writing them
and worth knowing:

* A stop while an apply is between CRED_RECV and its snapshot
  (`wifi_config_handler.c:377`, `:386`): deinit clears the old snapshot, the apply then
  takes a new one and connects for a service that is gone. A failed result that comes
  before the callback is removed queues a retry, which connects after the teardown
  (`NoRetryAfterStop`), although the comment at `:257` says that it bails. If the
  result comes after the callback is removed, the snapshot is still there after the next start with
  nothing on its way.
* A Set while an apply is there makes the apply try, and on a rejected request delete
  (`:415`), credentials that nobody applied.
* A result of an abandoned attempt is taken for the next one's if a snapshot is in
  flight when it arrives (`:189`, `StaleIgnored`); `:43` promises that a stale result is
  ignored.
* Every failed connection deletes the stored entry of its SSID (`:158`, `:415`,
  `FailureKeepsStore`), also when nothing races it.
* A connect result that net_mgmt's queue drops leaves the attempt in flight and the
  status at Connecting until the client applies again or resets; the handler has no
  timeout of its own.
* An apply whose credentials cannot be stored has already deleted the old entry of
  that SSID (`:366`); so has one cut off by a power loss.
* A `retry_work_handler` past its check (`wifi_config_handler.c:174`) is not stopped
  by the cancel in apply (`:386`) and connects with the new snapshot.
* An opt-out between a success's check of `auto_stop` and its scheduling of the
  teardown (`network_prov_mgr.c:86`, `:87`) finds nothing to cancel and the service is
  torn down (`OptOutDropsAutoStop`); `:555` says that the opt-out drops it.
* A success reported between the start of the transport and `started = true`
  (`network_prov_mgr.c:493`, `:498`) gives `done` but schedules no auto-stop.
* A success that races a stop and a start schedules a teardown that ends the new
  service (`network_prov_mgr.c:86`).
* `disable_auto_stop` cancels a deferred `stop_provisioning` too
  (`network_prov_mgr.c:556`); the service then stays up.
* `stop_provisioning` with a cleanup delay, called while the workqueue tears the
  service down, schedules another teardown (`:543`) that meets the next service.
* END of a service can be reported after START of the next (`:519`, `:520`).
* An empty request runs the data handler without looking at the handshake state
  (`protocomm.c:188`); only a non-empty answer is refused.
* A second Command0 in a session imports a new key over `session_key`; the first is
  never destroyed (`security1.c:180`).
* A re-apply of a Thread dataset sets `pending` while the old countdown runs, which
  may then fail it at once (`thread_config_handler.c:228`); and an `on_attached` that
  is preempted after its claim cancels the countdown of a newer apply (`:77`), whose
  outcome then stays open until the node attaches.
* Overlapping scans: a SCAN_DONE of the sweep before ends the wait of the next
  blocking start early, with its table still filling (`wifi_scan_handler.c:185`,
  `:194`), and results of both mix. A Wi-Fi entry is counted before it is filled
  (`:81`), so a page may hold an old one. A Thread start that is refused because a
  sweep runs has already emptied the table and reports it finished while the old
  sweep refills it (`thread_scan_handler.c:122`, `:147`).
* A request that is inside protocomm when the transport stops goes on with a freed
  instance (all transports).
* Replacing or removing a handler while a request is past the trampoline's check
  calls the old handler with the new ctx, or calls NULL (`network_prov_mgr.c:284`).
* A handler registered before a stop is still registered after the next start; a
  `set_app_info` that does not fit clears the section set before (`:252`).
* Console: a stop and a start between opening and remembering a session
  (`protocomm_console.c:123`) leave `have_session` set for a session that was never
  opened; that id gets EACCES until the client changes it.
* Console: a command that opens and remembers a session before the last store of start
  (`protocomm_console.c:45`) has its id overwritten with 0; the next command with id 0
  runs in that session (`NewIdNewSession`), although `:119` says that a new id resets it.
* SoftAP: a failed `http_server_start` leaves the access point up and `g_pc` set to
  the instance the manager deletes; a failed AP_ENABLE leaves the DHCP server running
  (`protocomm_softap.c:440`). A body that a stop and a start cut in two is handed on
  without its first part.
* BLE: a stop between the two statements of `recycled` (`protocomm_ble.c:286`, `:290`)
  is followed by advertising (`StopEndsAdvertising`), although stop promises its end
  (`network_prov_internal.h:122`); the next start fails with EALREADY.
* BLE: a restart of advertising that the stack refuses in `recycled` is logged and not
  tried again (`protocomm_ble.c:290`); the started service is not found until a stop and
  a start. A central stays connected through a stop, and a start while it is still
  there fails at `bt_le_adv_start` (`:333`), which is how `ble_failed_start` comes
  about.

**Bounds.** The Wi-Fi runs have one request thread (a transport handles requests one
at a time) and one application thread, so an apply and a stop overlap at every step,
and two applies, an old attempt and a current one. `wifi_threads` has two SSIDs, to
tell own from other credentials (the passphrase only travels along; the names are
symmetric), a queue of two, to hold a late result and a current one, and the attempt
limits 0, 1 and 2. `wifi_trial`, which checks liveness, has one SSID, the limit 2 and
a queue of one. Two or three starts give a service and its
successors. Three handshakes give an established session, a re-handshake and a
competing client; keystream offset 4 is a handshake and one exchange beyond it;
`MaxNet` lets a late message meet a current one. Scan: a sweep of three results
against a table of two and an event queue of two makes both overflow, pages of one
entry take several requests, and two starts give an old sweep and a current one.
Endpoints: ids 0 and 1, three names for two custom slots, and a table of seven with five
built-in endpoints, as Kconfig's 3 and 8. SoftAp: bodies of three chunks against a
buffer of two, two clients on two resources, four requests. Ble: three starts and
three connections, so that a central of one service meets the next but one.
Deadlock checking is off in `ProvMgr` (wait may block for ever by design), in
`Session`, `SoftAp` and `Ble` (nobody has to talk to the device, and starts are
bounded).

**Fairness.** Weak fairness of every thread that has begun or queued work, of the
driver's answer and of kernel timeouts: the kernel schedules each thread and fires
each timer. That the driver's answer is raised does not mean that it is delivered:
the event queue may drop it. In `SoftAp` the server finishes a callback and closes a silent connection
(Zephyr's HTTP server has an inactivity timeout); no client
has to send the rest of its body. In `Ble` the stack runs its callbacks and releases
the slot of a connection that is over; whether it lets advertising restart is left
open. No client, central, application call, attach
or reboot is assumed to happen. `Session` and `Endpoints` state no liveness and have
no fairness.

**Refinement.** `TrialSpec` maps `WifiConfig` to `CredTrial`: the phase of a trial is
the last event the application was given, idle once the service stops or the state is
reset, void once `mishap` says that the trial was spoilt; `cred` is what was last
announced.

Every property of a passing run has a mutant in `PROJECT.json`: a definition
changed as a plausible bug would change it, under which TLC finds the property
violated. Mutants stand before the definition they replace, named `X_Change`.

## 4. Proofs

Every invariant and every action property that a passing run checks is also a
theorem, `Spec => []P` or `Spec => [][A]_vars`, for all values of the constants
that satisfy the module's `ASSUME`: any number of networks, clients, names, starts,
messages, any table, buffer or queue length. The step part of the refinement of
`CredTrial` is one too. `PROJECT.json` lists them under `theorems`.

Few of the properties are inductive. Each module `X_proofs` defines the
strengthenings it needs, with one lemma per strengthening that goes through `Next`
action by action; the theorem then combines them. TLC has checked the strengthenings
as invariants of the module's run.

### WifiConfig

| Theorem | Inductive invariant and why it is needed |
|---|---|
| `TypeCorrect` | `TypeOK` itself, in named parts |
| `BudgetHolds` | `Budget`: the counter is below the limit only while no result is being processed, so it is related to the limit in every position of the event thread, and the mid-retry flag to attempts being left |
| `RetryIsIdle` | `Behind`: from the moment deinit clears the snapshot on, nothing is in flight and no retry is queued unless an apply was orphaned |
| `NoWakeupLost` | `Woken`, with `Behind`: the driver's latest request is about the attempt in flight unless the request has yet to be made, so a dropped result of that attempt is always noticed as `lost` |
| `OthersAreUntouched` (action) | `Staging`: the credentials a synchronous refusal deletes (`wc.ssid`) are still the announced ones unless another thread ran into the apply |
| `AttemptsAreExact` | `Gens` and `Course`: requests made are the failures so far, and one more while the driver works |
| `ConnectedIsTrue` | `Gens` and `Course`: the driver works for the credentials on trial |
| `TrialIsImplemented` | `Course`; each action is a step of `CredTrial` under the mapping of `TrialSpec`, or a stutter |

None of them assumes anything of the callers or the schedule: any number of request
and application threads interleave at every step, and any result may come late or
not at all.

`Gens` says that the apply the driver, an undelivered result or the snapshot belongs
to is never newer than the latest one, so a result that is not stale is the latest
apply's. `Course` is the heart of it, and says for an apply that is `Untouched`
(nothing crossed it, it took no stale result, it was not orphaned): from CRED_RECV to
the request it is alone and the snapshot is its own (`Applying`); from an accepted
request to its outcome at most one of the driver's work, its result and the retry is
under way, and the counter agrees with the requests made (`Trying`); a failure being
cleaned up is its own (`Ending`); and a Connected state is what the driver joined
(`Joined`). The parts need each other: that a result belongs to the latest apply
follows from there being only one thing under way for it, and that from every other
handler either waiting or being noted as having crossed it. For `Course` to be
inductive the history must catch every step that could break it, which is what the
proof, action by action, shows.

### ProvMgr

`TypeCorrect`; `InstanceIsOwned` from `Owned` (`mgr.pc` is set only while the service
is started or being started, so a start never overwrites one); `OptOutIsKept` (action)
from `Warranted` (a scheduled teardown rests on auto-stop, on a stop that was asked
for, or on an opt-out that came between check and schedule). These hold under every delay. `TeardownIsExclusive` and `EndIsOncePerStart`
assume `LongGrace` and follow from `Lifecycle`: a teardown that has yet to clear
`started` finds it set, a start finds it clear, and starts less ENDs are what is
running or due. `LongGrace` cannot be dropped (section 3).

### ThreadConfig

`TypeCorrect`. `NoAttachMissed`: `AttachNotMissed` is inductive given the types.
`OutcomeIsOnce` from `Exclusive`: the right to report an apply's outcome is in
exactly one place, with the request thread, in `tc.pending` or with the thread that
claimed it. All for every schedule.

### Session

`TypeCorrect` from `Types`, which describes contexts, clients and messages as
whole records. `PeerIsProven` from `Proof`: the device's key was derived with the
proof-of-possession and is still in its slot, and every proof in transit comes from
a client that knows it. `EndsInStep`, `RequestsAreIntact` and `RepliesAreIntact`
share one argument: transport sessions and runs belong to one client each
(`Routed`), a session has at most one message in transit and none while its client
may send (`Solo`), hence a request stands at the device's offset, an answer just
before it (`Aligned`), and a waiting client just after its request (`Expecting`).
The three properties need each other in the induction, so they are proved together
as `Stepping`. `SessionConstants` has `MaxPos` at least 2, the keystream a handshake
uses; with less, no client could begin one.

### Scan

`TypeCorrect` in two parts, `Flags` and `Counts`. `BlockingIsComplete` from three
invariants: `Course` (when nothing was under way before a start, everything under
way belongs to it, stage by stage from the request to the semaphore), `InHand` (the
results that were queued, taken and filled are consecutive, and those heard are the
ones in the table unless it is full) and `Answered` (after the answer nothing is
under way that could change the table).

### Endpoints

`StartsAreNeverRefused` from `Fit`: created names are distinct, none is built in,
there are no more than `MaxCustom`, and during a start the table is what was added so
far. It uses `MaxCustom <= MaxEndpoints - Len(Builtins)`, the range Kconfig gives
`NETWORK_PROV_MAX_CUSTOM_ENDPOINTS` (0 to 3, of 8 with 5 built in). `InstancesAreAlive` from `Alive` (the transport has the manager's
instance or none, also between the stores of start and stop),
`SessionsAreTheRequests` from `Owned` (the open session is the one the console
remembers or is about to, unless start wiped its id), `HandlersGetTheirCtx` from `Matching` (an
entry with a handler has its ctx, but for the one being replaced).

### SoftAp and Ble

`BodiesAreWhole` from `Buffer`: the shared buffer has a connected owner while it is
not empty, and whoever does not hold it has sent nothing. `SessionsAreOwn` from
`Cookies`: nobody holds, sends or has latched a cookie of somebody else's session.
`SoftApConstants` keeps the model's word for "no request" out of `Resources`.

`LooksAgree` from `Looking`: UUID and manufacturer data agree from `build_service`
and `build_adv` on, for the setters run only where neither is in use.
`InstanceIsUsable` from `Allocated`: `g_pc` dangles only after a failed start, and a
start that succeeds finds the connection slot free, so no callback still works on a
dangling instance. `AnswersAreFresh` from `AnswersOwn` and `SessionFresh`: cached
answers and session are the current connection's, and gone once `disconnected` ran.

### Only model-checked

* Liveness, which needs fairness and `ENABLED`: `AttemptEnds`, `AutoStopHappens`,
  `CallsReturn`, `OutcomeReported`, `RequestAnswered`, `NotWedged`, `Discoverable`, and
  the fairness part of `TrialSpec`.
* That the code departs from what its comments say: the three violation runs, and the definitions section 3 names
  beside them.

## 5. Not modelled

* Text and coding: version JSON, protobuf, hex, cookie syntax, GATT attribute layout,
  passphrase lengths and dataset TLVs. They appear as accepted or refused requests.
* The protobuf helper (`pb_util.c`): one encode; its failure is a fault in `Session`.
* The fake driver's test controls, disconnect, AP mode and interface glue: setters
  and constant answers.
* Samples and tools: applications of the API, which the modules let call in any order.
* API calls from inside an event callback. A stop or deinit in the END callback of a
  teardown on the workqueue would wait for the work item it runs in.
* A composition of a transport with the config endpoints: a request is one call for
  the transports, and the endpoints see requests of any order and timing.

## 6. Plan

1. Theorems about the histories that runs do not state yet: that success and failure
   of an apply exclude each other in `WifiConfig` as in `ThreadConfig`, and that a
   teardown leaves no endpoint of the service before in protocomm's table.
2. `CredTrial` as a promise of `ThreadConfig` too.
