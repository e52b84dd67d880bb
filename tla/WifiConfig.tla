----------------------------- MODULE WifiConfig -----------------------------
(***************************************************************************)
(* The prov-config endpoint of the Wi-Fi build (wifi_config_handler.c),    *)
(* with the driver behind NET_REQUEST_WIFI_CONNECT (fake_wifi.c), the      *)
(* net_mgmt event queue and the wifi_credentials store.                    *)
(*                                                                         *)
(* Four kinds of threads run this code without a lock: the transport       *)
(* threads that handle requests, the application (a deinit may also be the *)
(* auto-stop's, which is one more such thread), the net_mgmt event thread  *)
(* "ev" and the system workqueue "wq".  A handler is one step up to the    *)
(* next call that can block or leave the module (store, net_mgmt, event    *)
(* callback); pc[t] says where a thread stands between two such steps, and *)
(* nothing restrains how the threads interleave.                           *)
(*                                                                         *)
(* An SSID, passphrase, BSSID and channel are one credential record; the   *)
(* zero-length SSID is NoCred.  gen, inflightGen, seen, connects, tried,   *)
(* out and mishap are history variables: no guard reads them except the    *)
(* bound MaxApplies.                                                       *)
(***************************************************************************)
EXTENDS Naturals, Sequences

CONSTANTS
    Ssids, Psks,     \* network names and passphrases
    NoPsk,           \* the store's "no entry"
    NoCred,          \* zero-length SSID
    Requesters,      \* transport threads: request handlers
    Apps,            \* application threads: manager calls
    Failures,        \* causes a connect can fail with
    Attempts,        \* the wifi_conn_attempts the manager is configured with
    MaxApplies,      \* bound on the number of applies in a behaviour
    QueueLen         \* capacity of the net_mgmt event queue

Cred == [ssid : Ssids, psk : Psks]
Callers == Requesters \cup Apps
Threads == Callers \cup {"ev", "wq"}
Status == {"ok"} \cup Failures                       \* wifi_conn_status

ASSUME ConstantsOK ==
    /\ NoPsk \notin Psks
    /\ NoCred \notin Cred
    /\ {"ev", "wq"} \cap Callers = {}
    /\ Failures \subseteq {"not_found", "wrong_password"}
    /\ Attempts \subseteq Nat
    /\ MaxApplies \in Nat
    /\ QueueLen \in Nat

VARIABLES
    staged,             \* wc.ssid, wc.pass, wc.bssid, wc.channel
    inflight,           \* wc.inflight_*: the snapshot; NoCred = no attempt
    inflightGen,        \* (history) the apply the snapshot belongs to, 0 = none
    attempts_completed, attempt_failed, last_conn_status,
    sta_state, fail_reason,
    attempts_max,       \* 0: a single attempt
    cb_registered,      \* connect-result callback installed: service is up
    retryQ,             \* wc.retry_work is scheduled or queued
    pc,                 \* where each thread is
    seen,               \* (history) the apply a final failure is about
    store,              \* wifi_credentials: survives a reboot
    drv,                \* the driver: queued connect_work and link state
    evq,                \* connect results raised, not yet delivered
    gen, connects, tried,   \* (history) applies, connects of one, its credentials
    out,                \* (history) the last event the application was given
    mishap              \* (history) what happened to the latest apply

cfgVars == <<staged, inflight, inflightGen>>
staVars == <<attempts_completed, attempt_failed, last_conn_status, sta_state, fail_reason>>
svcVars == <<attempts_max, cb_registered, retryQ>>
thrVars == <<pc, seen>>
envVars == <<store, drv, evq>>
hisVars == <<gen, connects, tried, out, mishap>>
vars == <<cfgVars, staVars, svcVars, thrVars, envVars, hisVars>>

\* Zero-initialised statics; sta_state 0 is Connected until the first init.
PowerOn ==
    /\ staged = NoCred /\ inflight = NoCred /\ inflightGen = 0
    /\ attempts_completed = 0 /\ attempt_failed = FALSE
    /\ last_conn_status = "ok"
    /\ sta_state = "Connected" /\ fail_reason = "AuthError"
    /\ attempts_max = 0 /\ cb_registered = FALSE /\ retryQ = FALSE
    /\ pc = [t \in Threads |-> "idle"] /\ seen = [t \in {"ev", "wq"} |-> 0]
    /\ drv = [queued |-> FALSE, gen |-> 0, target |-> NoCred, connected |-> FALSE]
    /\ evq = << >>

Init ==
    /\ PowerOn
    /\ store \in [Ssids -> Psks \cup {NoPsk}]
    /\ gen = 0 /\ connects = 0 /\ tried = NoCred
    /\ out = "none" /\ mishap = {}

-----------------------------------------------------------------------------
\* Helpers.

Goto(t, l) == pc' = [pc EXCEPT ![t] = l]

\* A caller's operation starts: the service is up and the thread is free.
Idle(c) == cb_registered /\ pc[c] = "idle"

emit_event(kind) == out' = kind

clear_inflight == inflight' = NoCred /\ inflightGen' = 0

\* wifi_credentials_delete_by_ssid; a zero-length SSID matches no entry.
Deleted(c) == IF c = NoCred THEN store ELSE [store EXCEPT ![c.ssid] = NoPsk]

\* NET_REQUEST_WIFI_CONNECT accepted: the driver records the target
\* and submits connect_work (a no-op when it is queued already).
ConnectAccepted ==
    /\ inflight # NoCred
    /\ drv' = [queued |-> TRUE, gen |-> inflightGen,
               target |-> inflight, connected |-> drv.connected]
    /\ connects' = connects + 1

\* A thread of S is half-way through a handler that uses wc.  (A caller at
\* "set" has only deleted the old entry for its SSID.)
Overlap(S) == \E u \in S : pc[u] \notin {"idle", "set"}

\* The service is being stopped, or is down.
Stopping == ~cb_registered \/ \E a \in Apps : pc[a] = "deinit_del"

\* What the history notes about a step.
Crossed(S) == IF Overlap(S) THEN {"crossed"} ELSE {}
Orphaned == IF Stopping THEN {"orphaned"} ELSE {}
Stale == IF Head(evq).gen # inflightGen THEN {"stale"} ELSE {}
Lost == IF drv.gen = inflightGen THEN {"lost"} ELSE {}
Erased == IF tried # NoCred /\ store'[tried.ssid] = NoPsk THEN {"erased"} ELSE {}
Note(what) == mishap' = mishap \cup what

\* Mutant: the cause is passed on without mapping it to the two proto reasons.
FinalFailureBegin_Unmapped(t, why) ==
    /\ sta_state' = "ConnectionFailed"
    /\ attempt_failed' = FALSE
    /\ fail_reason' = why
    /\ seen' = [seen EXCEPT ![t] = inflightGen]
    /\ Goto(t, "ff_delete")

\* final_failure(), up to the credential deletion.
FinalFailureBegin(t, why) ==
    /\ sta_state' = "ConnectionFailed"
    /\ attempt_failed' = FALSE
    /\ fail_reason' = IF why = "not_found" THEN "WifiNetworkNotFound" ELSE "AuthError"
    /\ seen' = [seen EXCEPT ![t] = inflightGen]
    /\ Goto(t, "ff_delete")

remaining_attempts ==
    IF attempts_max <= attempts_completed THEN 0 ELSE attempts_max - attempts_completed

\* The answer to CmdGetWifiStatus: the state and the arm that goes with it.
get_status ==
    [state |-> sta_state,
     detail |-> IF sta_state = "ConnectionFailed" THEN fail_reason
                ELSE IF sta_state = "Connecting" /\ attempt_failed THEN "attempt_failed"
                ELSE "none",
     remaining |-> IF sta_state = "Connecting" /\ attempt_failed
                   THEN remaining_attempts ELSE 0]

-----------------------------------------------------------------------------
\* Caller threads: requests and manager calls.

\* CmdSetWifiConfig: stage, nothing else.  Bad lengths change nothing.
do_set_config(c) ==
    /\ Idle(c)
    /\ \E x \in Cred : staged' = x
    /\ Note(Crossed(Callers \ {c}))
    /\ UNCHANGED <<inflight, inflightGen, staVars, svcVars, thrVars, envVars,
                   gen, connects, tried, out>>

\* CmdApplyWifiConfig, first step: drop the previous entry for the SSID.
ApplyDelete(c) ==
    /\ Idle(c) /\ gen < MaxApplies
    /\ store' = Deleted(staged)
    /\ Note(Erased)
    /\ Goto(c, "set")
    /\ UNCHANGED <<cfgVars, staVars, svcVars, seen, drv, evq, gen, connects, tried, out>>

\* network_prov_wifi_config_set_and_apply: stage, then the same apply path.
set_and_apply(c) ==
    /\ Idle(c) /\ gen < MaxApplies
    /\ \E x \in Cred : staged' = x /\ store' = Deleted(x)
    /\ Note(Erased \cup Crossed(Callers \ {c}))
    /\ Goto(c, "set")
    /\ UNCHANGED <<inflight, inflightGen, staVars, svcVars, seen, drv, evq,
                   gen, connects, tried, out>>

\* wifi_credentials_set_personal fails: InternalError, nothing announced.
\* A zero-length SSID is always refused.
ApplyStoreFails(c) ==
    /\ pc[c] = "set"
    /\ Goto(c, "idle")
    /\ UNCHANGED <<cfgVars, staVars, svcVars, seen, envVars, hisVars>>

\* Stored: announce CRED_RECV and report Connecting.
ApplyStore(c) ==
    /\ pc[c] = "set" /\ staged # NoCred
    /\ store' = [store EXCEPT ![staged.ssid] = staged.psk]
    /\ sta_state' = "Connecting"
    /\ emit_event("recv")
    /\ gen' = gen + 1 /\ tried' = staged
    /\ mishap' = Crossed(Threads \ {c}) \cup Orphaned
    /\ Goto(c, "snapshot")
    /\ UNCHANGED <<cfgVars, attempts_completed, attempt_failed, last_conn_status,
                   fail_reason, svcVars, seen, drv, evq, connects>>

\* Mutant: the new credentials inherit the attempts already used.
ApplySnapshot_KeepsCount(c) ==
    /\ pc[c] = "snapshot"
    /\ retryQ' = FALSE
    /\ inflight' = staged
    /\ inflightGen' = IF staged = NoCred THEN 0 ELSE gen
    /\ attempt_failed' = FALSE
    /\ connects' = 0
    /\ Note(Crossed(Threads \ {c}) \cup Orphaned)
    /\ Goto(c, "connect")
    /\ UNCHANGED <<staged, attempts_completed, last_conn_status, sta_state, fail_reason,
                   attempts_max, cb_registered, seen, envVars, gen, tried, out>>

\* Cancel a queued retry, snapshot the parameters, fresh attempt budget.
ApplySnapshot(c) ==
    /\ pc[c] = "snapshot"
    /\ retryQ' = FALSE
    /\ inflight' = staged
    /\ inflightGen' = IF staged = NoCred THEN 0 ELSE gen
    /\ attempts_completed' = 0 /\ attempt_failed' = FALSE
    /\ connects' = 0
    /\ Note(Crossed(Threads \ {c}) \cup Orphaned)
    /\ Goto(c, "connect")
    /\ UNCHANGED <<staged, last_conn_status, sta_state, fail_reason, attempts_max,
                   cb_registered, seen, envVars, gen, tried, out>>

ApplyConnect(c) ==
    /\ pc[c] = "connect"
    /\ ConnectAccepted
    /\ Goto(c, "idle")
    /\ UNCHANGED <<cfgVars, staVars, svcVars, seen, store, evq, gen, tried, out, mishap>>

\* The request is rejected synchronously: failed state, then cleanup.
ApplyConnectRejected(c) ==
    /\ pc[c] = "connect"
    /\ sta_state' = "ConnectionFailed" /\ fail_reason' = "AuthError"
    /\ clear_inflight
    /\ Note(Crossed(Threads \ {c}))
    /\ Goto(c, "sync_fail")
    /\ UNCHANGED <<staged, attempts_completed, attempt_failed, last_conn_status,
                   svcVars, seen, envVars, gen, connects, tried, out>>

ApplySyncFail(c) ==
    /\ pc[c] = "sync_fail"
    /\ store' = Deleted(staged)
    /\ emit_event("fail")
    /\ Goto(c, "idle")
    /\ UNCHANGED <<cfgVars, staVars, svcVars, seen, drv, evq, gen, connects, tried, mishap>>

\* CmdCtrlWifiReset, CmdCtrlWifiReprov, network_prov_mgr_reset_wifi_sm_state_*.
config_reset(c) ==
    /\ Idle(c)
    /\ clear_inflight
    /\ retryQ' = FALSE
    /\ staged' = NoCred
    /\ attempts_completed' = 0 /\ attempt_failed' = FALSE
    /\ sta_state' = "Disconnected" /\ fail_reason' = "AuthError"
    /\ Note(Crossed(Threads \ {c}))
    /\ UNCHANGED <<last_conn_status, attempts_max, cb_registered, thrVars, envVars,
                   gen, connects, tried, out>>

\* Mutant: init leaves the reported state as it was.
config_init_KeepsState(c) ==
    /\ ~cb_registered /\ pc[c] = "idle"
    /\ \E n \in Attempts : attempts_max' = n
    /\ attempts_completed' = 0 /\ attempt_failed' = FALSE
    /\ retryQ' = FALSE
    /\ cb_registered' = TRUE
    /\ Note(Crossed(Threads \ {c}))
    /\ UNCHANGED <<cfgVars, sta_state, last_conn_status, fail_reason, thrVars, envVars,
                   gen, connects, tried, out>>

\* network_prov_wifi_config_init, from start_provisioning.
config_init(c) ==
    /\ ~cb_registered /\ pc[c] = "idle"
    /\ sta_state' = "Disconnected"
    /\ \E n \in Attempts : attempts_max' = n
    /\ attempts_completed' = 0 /\ attempt_failed' = FALSE
    /\ retryQ' = FALSE
    /\ cb_registered' = TRUE
    /\ Note(Crossed(Threads \ {c}))
    /\ UNCHANGED <<cfgVars, last_conn_status, fail_reason, thrVars, envVars,
                   gen, connects, tried, out>>

\* Mutant: deinit forgets the queued retry.
DeinitClear_NoCancel(c) ==
    /\ Idle(c)
    /\ clear_inflight
    /\ Note(Crossed(Threads \ {c}))
    /\ Goto(c, "deinit_del")
    /\ UNCHANGED <<staged, staVars, svcVars, seen, envVars, gen, connects, tried, out>>

\* network_prov_wifi_config_deinit: drop the snapshot and cancel the retry ...
DeinitClear(c) ==
    /\ Idle(c)
    /\ clear_inflight
    /\ retryQ' = FALSE
    /\ Note(Crossed(Threads \ {c}))
    /\ Goto(c, "deinit_del")
    /\ UNCHANGED <<staged, staVars, attempts_max, cb_registered, seen, envVars,
                   gen, connects, tried, out>>

\* ... then remove the callback, which waits for a callback that is running.
DeinitUnregister(c) ==
    /\ pc[c] = "deinit_del" /\ pc["ev"] = "idle"
    /\ cb_registered' = FALSE
    /\ Goto(c, "idle")
    /\ UNCHANGED <<cfgVars, staVars, attempts_max, retryQ, seen, envVars, hisVars>>

\* network_prov_mgr_reset_wifi_provisioning: the application erases the store.
erase_all(c) ==
    /\ pc[c] = "idle"
    /\ store' = [s \in Ssids |-> NoPsk]
    /\ Note(Erased)
    /\ UNCHANGED <<cfgVars, staVars, svcVars, thrVars, drv, evq, gen, connects, tried, out>>

-----------------------------------------------------------------------------
\* The driver's connect_work, on the system workqueue: raise the result.  The
\* event queue is bounded and shared with every other network event: a result
\* that finds it full is dropped.
connect_work_fn ==
    /\ drv.queued /\ pc["wq"] = "idle"
    /\ \E s \in Status :
         /\ drv' = [queued |-> FALSE, gen |-> drv.gen,
                    target |-> drv.target, connected |-> (s = "ok")]
         /\ \/ /\ Len(evq) < QueueLen
               /\ evq' = Append(evq, [status |-> s, gen |-> drv.gen])
               /\ UNCHANGED mishap
            \/ evq' = evq /\ Note(Lost)
    /\ UNCHANGED <<cfgVars, staVars, svcVars, thrVars, store, gen, connects, tried, out>>

\* The net_mgmt event thread delivers the oldest result.
Deliver(status) ==
    /\ evq # << >> /\ pc["ev"] = "idle"
    /\ status = Head(evq).status
    /\ evq' = Tail(evq)

\* Nobody listens, or no attempt is pending: the result is ignored.
ResultIgnored ==
    /\ \E s \in Status : Deliver(s)
    /\ ~cb_registered \/ inflight = NoCred
    /\ UNCHANGED <<cfgVars, staVars, svcVars, thrVars, store, drv, hisVars>>

ResultSuccess ==
    /\ Deliver("ok")
    /\ cb_registered /\ inflight # NoCred
    /\ sta_state' = "Connected"
    /\ attempt_failed' = FALSE
    /\ clear_inflight
    /\ emit_event("success")
    /\ Note(Stale \cup Crossed(Threads \ {"ev"}))
    /\ UNCHANGED <<staged, attempts_completed, last_conn_status, fail_reason, svcVars,
                   thrVars, store, drv, gen, connects, tried>>

\* Mutant: one retry too many.
ResultRetry_OneMore(s) ==
    /\ Deliver(s) /\ s # "ok"
    /\ cb_registered /\ inflight # NoCred
    /\ attempts_completed < attempts_max
    /\ last_conn_status' = s
    /\ attempts_completed' = attempts_completed + 1
    /\ attempt_failed' = TRUE
    /\ sta_state' = "Connecting"
    /\ retryQ' = TRUE
    /\ Note(Stale \cup Crossed(Threads \ {"ev"}))
    /\ UNCHANGED <<cfgVars, fail_reason, attempts_max, cb_registered, thrVars, store, drv,
                   gen, connects, tried, out>>

\* Mutant: every failed attempt is announced, also when a retry follows.
ResultRetry_Announces(s) ==
    /\ Deliver(s) /\ s # "ok"
    /\ cb_registered /\ inflight # NoCred
    /\ attempts_completed + 1 < attempts_max
    /\ last_conn_status' = s
    /\ attempts_completed' = attempts_completed + 1
    /\ attempt_failed' = TRUE
    /\ sta_state' = "Connecting"
    /\ retryQ' = TRUE
    /\ emit_event("fail")
    /\ Note(Stale \cup Crossed(Threads \ {"ev"}))
    /\ UNCHANGED <<cfgVars, fail_reason, attempts_max, cb_registered, thrVars, store, drv,
                   gen, connects, tried>>

\* A failure with attempts left: stay Connecting and schedule a retry.
ResultRetry(s) ==
    /\ Deliver(s) /\ s # "ok"
    /\ cb_registered /\ inflight # NoCred
    /\ attempts_completed + 1 < attempts_max
    /\ last_conn_status' = s
    /\ attempts_completed' = attempts_completed + 1
    /\ attempt_failed' = TRUE
    /\ sta_state' = "Connecting"
    /\ retryQ' = TRUE
    /\ Note(Stale \cup Crossed(Threads \ {"ev"}))
    /\ UNCHANGED <<cfgVars, fail_reason, attempts_max, cb_registered, thrVars, store, drv,
                   gen, connects, tried, out>>

\* The last attempt failed (attempts_max = 0: the only one).
ResultFinal(s) ==
    /\ Deliver(s) /\ s # "ok"
    /\ cb_registered /\ inflight # NoCred
    /\ ~(attempts_completed + 1 < attempts_max)
    /\ last_conn_status' = s
    /\ attempts_completed' = IF attempts_max > 0 THEN attempts_completed + 1
                                                ELSE attempts_completed
    /\ FinalFailureBegin("ev", s)
    /\ Note(Stale \cup Crossed(Threads \ {"ev"}))
    /\ UNCHANGED <<cfgVars, svcVars, store, drv, gen, connects, tried, out>>

on_connect_result ==
    \/ ResultIgnored
    \/ ResultSuccess
    \/ \E s \in Status : ResultRetry(s) \/ ResultFinal(s)

-----------------------------------------------------------------------------
\* retry_work on the system workqueue: look at the snapshot ...
RetryCheck ==
    /\ retryQ /\ pc["wq"] = "idle"
    /\ retryQ' = FALSE
    /\ IF inflight = NoCred THEN UNCHANGED pc ELSE Goto("wq", "connect")
    /\ UNCHANGED <<cfgVars, staVars, attempts_max, cb_registered, seen, envVars, hisVars>>

\* ... then connect from it, as it is by now.
RetryConnect ==
    /\ pc["wq"] = "connect"
    /\ ConnectAccepted
    /\ Goto("wq", "idle")
    /\ UNCHANGED <<cfgVars, staVars, svcVars, seen, store, evq, gen, tried, out, mishap>>

\* Mutant: a rejected retry is only logged.
RetryRejected_LogOnly ==
    /\ pc["wq"] = "connect"
    /\ Goto("wq", "idle")
    /\ UNCHANGED <<cfgVars, staVars, svcVars, seen, envVars, hisVars>>

RetryRejected ==
    /\ pc["wq"] = "connect"
    /\ FinalFailureBegin("wq", last_conn_status)
    /\ Note(Crossed(Threads \ {"wq"}))
    /\ UNCHANGED <<cfgVars, attempts_completed, last_conn_status, svcVars, envVars,
                   gen, connects, tried, out>>

\* Mutant: delete by the staged SSID.
FinalFailureDelete_ByStaged(t) ==
    /\ pc[t] = "ff_delete"
    /\ store' = Deleted(staged)
    /\ Goto(t, "ff_clear")
    /\ UNCHANGED <<cfgVars, staVars, svcVars, seen, drv, evq, hisVars>>

\* final_failure, in whichever thread runs it: delete by the snapshot ...
FinalFailureDelete(t) ==
    /\ pc[t] = "ff_delete"
    /\ store' = Deleted(inflight)
    /\ Goto(t, "ff_clear")
    /\ UNCHANGED <<cfgVars, staVars, svcVars, seen, drv, evq, hisVars>>

\* ... then drop the snapshot and report CRED_FAIL.
FinalFailureClear(t) ==
    /\ pc[t] = "ff_clear"
    /\ clear_inflight
    /\ emit_event("fail")
    /\ seen' = [seen EXCEPT ![t] = 0]
    /\ Note(Crossed(Threads \ {t}))
    /\ Goto(t, "idle")
    /\ UNCHANGED <<staged, staVars, svcVars, envVars, gen, connects, tried>>

\* Power loss or reset: RAM, driver and queues are lost, the store is not.
Reboot ==
    /\ staged' = NoCred /\ clear_inflight
    /\ attempts_completed' = 0 /\ attempt_failed' = FALSE
    /\ last_conn_status' = "ok"
    /\ sta_state' = "Connected" /\ fail_reason' = "AuthError"
    /\ attempts_max' = 0 /\ cb_registered' = FALSE /\ retryQ' = FALSE
    /\ pc' = [t \in Threads |-> "idle"] /\ seen' = [t \in {"ev", "wq"} |-> 0]
    /\ drv' = [queued |-> FALSE, gen |-> 0, target |-> NoCred, connected |-> FALSE]
    /\ evq' = << >>
    /\ connects' = 0 /\ tried' = NoCred
    /\ out' = "none" /\ mishap' = {}
    /\ UNCHANGED <<store, gen>>

-----------------------------------------------------------------------------
\* The rest of an operation a caller has begun.
CallerStep(c) ==
    \/ ApplyStoreFails(c) \/ ApplyStore(c) \/ ApplySnapshot(c)
    \/ ApplyConnect(c) \/ ApplyConnectRejected(c) \/ ApplySyncFail(c)
    \/ DeinitUnregister(c)

\* The handlers a client's requests reach (prov-config and prov-ctrl) ...
Request(c) == do_set_config(c) \/ ApplyDelete(c) \/ config_reset(c)

\* ... and the calls of the application.
AppCall(c) ==
    \/ set_and_apply(c) \/ config_reset(c)
    \/ config_init(c) \/ DeinitClear(c) \/ erase_all(c)

retry_work_handler == RetryCheck \/ RetryConnect \/ RetryRejected
final_failure(t) == FinalFailureDelete(t) \/ FinalFailureClear(t)

EventThread == on_connect_result \/ final_failure("ev")
Workqueue == connect_work_fn \/ retry_work_handler \/ final_failure("wq")

Next ==
    \/ \E c \in Requesters : Request(c)
    \/ \E c \in Apps : AppCall(c)
    \/ \E c \in Callers : CallerStep(c)
    \/ EventThread
    \/ Workqueue
    \/ Reboot

\* Work that was begun or queued is eventually done: the kernel schedules
\* every thread, the driver answers an accepted request, and the retry delay
\* elapses.  An answer may still be lost, and nothing obliges a client to send
\* a request.
Fairness ==
    /\ \A c \in Callers : WF_vars(CallerStep(c))
    /\ WF_vars(EventThread)
    /\ WF_vars(connect_work_fn)
    /\ WF_vars(retry_work_handler \/ final_failure("wq"))

Spec == Init /\ [][Next]_vars /\ Fairness

-----------------------------------------------------------------------------
\* Properties.

CallerPcs == {"idle", "set", "snapshot", "connect", "sync_fail", "deinit_del"}
WorkerPcs == {"idle", "connect", "ff_delete", "ff_clear"}
Mishaps == {"stale", "crossed", "lost", "orphaned", "erased"}

CfgOK ==
    /\ staged \in Cred \cup {NoCred}
    /\ inflight \in Cred \cup {NoCred}
    /\ inflightGen \in Nat
StaOK ==
    /\ attempts_completed \in Nat
    /\ attempt_failed \in BOOLEAN
    /\ last_conn_status \in Status
    /\ sta_state \in {"Connected", "Connecting", "Disconnected", "ConnectionFailed"}
    /\ fail_reason \in {"AuthError", "WifiNetworkNotFound"}
SvcOK == attempts_max \in Nat /\ cb_registered \in BOOLEAN /\ retryQ \in BOOLEAN
PcOK ==
    /\ pc \in [Threads -> CallerPcs \cup WorkerPcs]
    /\ \A c \in Callers : pc[c] \in CallerPcs
    /\ \A c \in Callers : pc[c] = "deinit_del" => c \in Apps
    /\ \A t \in {"ev", "wq"} : pc[t] \in WorkerPcs
SeenOK == seen \in [{"ev", "wq"} -> Nat]
StoreOK == store \in [Ssids -> Psks \cup {NoPsk}]
DrvOK == drv \in [queued : BOOLEAN, gen : Nat,
                  target : Cred \cup {NoCred}, connected : BOOLEAN]
EvqOK == evq \in Seq([status : Status, gen : Nat])
HisOK ==
    /\ gen \in Nat /\ connects \in Nat
    /\ tried \in Cred \cup {NoCred}
    /\ out \in {"none", "recv", "success", "fail"}
MishapOK == mishap \subseteq Mishaps

\* Every variable has its type: the wc struct, the positions of the threads,
\* the store, the driver and the queue of undelivered results.
TypeOK ==
    /\ CfgOK /\ StaOK /\ SvcOK /\ PcOK /\ SeenOK
    /\ StoreOK /\ DrvOK /\ EvqOK /\ HisOK /\ MishapOK

\* The retry budget: an attempt in flight that is not being given up has
\* attempts left, whichever mix of late results, resets, re-applies and
\* restarts led here, and a status poll in mid-retry never reports zero
\* attempts remaining (on_connect_result, encode_get_status).
BudgetRespected ==
    /\ attempts_max > 0 /\ inflight # NoCred /\ pc["ev"] = "idle"
         => attempts_completed < attempts_max
    /\ get_status.detail = "attempt_failed" => get_status.remaining > 0

\* What the history may say about the latest apply:
\*   crossed   a handler that uses wc ran into one that was half-way;
\*   stale     the result of an earlier apply was taken for its own;
\*   lost      its result was dropped by the full event queue;
\*   orphaned  it was announced or snapshotted while the service stopped;
\*   erased    the application or a later apply removed its entry.
Untouched == mishap \cap {"crossed", "stale", "orphaned"} = {}

\* Something that will resolve the attempt in flight.
Wakeup ==
    \/ drv.queued
    \/ evq # << >>
    \/ retryQ
    \/ pc["wq"] \in {"connect", "ff_delete", "ff_clear"}
    \/ pc["ev"] \in {"ff_delete", "ff_clear"}
    \/ \E c \in Callers : pc[c] \in {"snapshot", "connect"}

\* No lost wakeup: while the callback is installed, a snapshot in flight has a
\* driver answer, an event, a retry or a failing handler on its way, whatever
\* applies, resets, stops and late results overlap.  Only two things leave it
\* waiting for nobody: the event queue dropped its result, or the snapshot was
\* taken behind a stop (ApplySnapshot, on_connect_result, retry_work_handler).
NoLostWakeup ==
    cb_registered /\ inflight # NoCred /\ mishap \cap {"lost", "orphaned"} = {} => Wakeup

\* With the service down no retry is pending, so init never re-initialises a
\* queued retry_work, unless a snapshot was taken behind the stop (deinit's
\* clear-then-cancel against results and retries, k_work_init_delayable).
RetryIdleWhenStopped == ~cb_registered /\ "orphaned" \notin mishap => ~retryQ

\* A stored entry disappears only while its SSID is in flight, applied or just
\* refused, or when the application erases the store: however applies, failures
\* and stops overlap, a failed attempt never takes another network's entry with
\* it.  A synchronous refusal deletes by the staged SSID and is only safe while
\* no other thread has restaged it (final_failure, do_apply_config).
OthersUntouched ==
    [][\A s \in Ssids :
         store[s] # NoPsk /\ store'[s] = NoPsk =>
            \/ inflight # NoCred /\ inflight.ssid = s
            \/ \E c \in Callers : pc[c] = "sync_fail" /\ (tried.ssid = s \/ "crossed" \in mishap)
            \/ \E c \in Callers : pc[c] = "idle" /\ pc'[c] = "set" /\ staged'.ssid = s
            \/ \A r \in Ssids : store'[r] = NoPsk]_vars

\* A reported Connected is about the network the driver joined, with the
\* credentials of the latest apply, and these are stored unless somebody erased
\* them since.  Results of abandoned attempts that arrive while nothing is in
\* flight do not change that (encode_get_status, on_connect_result).
ConnectedIsReal ==
    cb_registered /\ sta_state = "Connected" /\ Untouched
      => /\ drv.connected /\ drv.target = tried
         /\ "erased" \notin mishap => store[tried.ssid] = tried.psk

\* The attempts of one apply: never more connect requests than
\* wifi_conn_attempts allows (0 = one), and an asynchronous CRED_FAIL only
\* after all of them were made (network_prov_mgr.h, wifi_conn_attempts).
AttemptsExact ==
    LET allowed == IF attempts_max = 0 THEN 1 ELSE attempts_max
    IN  Untouched =>
          /\ inflightGen = gen /\ inflight # NoCred => connects <= allowed
          /\ pc["ev"] = "ff_clear" => connects = allowed

\* The cleanup of a failed attempt leaves the credentials of a newer apply
\* in the store.
QuickRetrySafe ==
    [][\A t \in {"ev", "wq"} :
         pc[t] = "ff_delete" /\ pc'[t] = "ff_clear" /\ seen[t] # inflightGen
            => store' = store]_vars

\* The next three do not hold of the code; they are kept to be tried with TLC.
\* A failed connection erases no stored credentials (violated by every final
\* failure, which deletes the entry of its SSID).
FailureKeepsStore ==
    [][\A t \in Threads :
         pc[t] \in {"ff_delete", "sync_fail"} /\ pc'[t] # pc[t] => store' = store]_vars

\* The result of an earlier apply does not change the state reported for the
\* attempt that is in flight by then (violated: only an empty snapshot tells
\* on_connect_result that a result is stale).
StaleIgnored ==
    [][cb_registered' /\ evq # << >> /\ evq' = Tail(evq) /\ Head(evq).gen # inflightGen
         => sta_state' = sta_state]_vars

\* No retry issues a connect request once the service is down (violated by an
\* apply that takes its snapshot behind deinit).
NoRetryAfterStop ==
    [][pc["wq"] = "connect" /\ connects' > connects => cb_registered]_vars

\* An attempt ends: its result, its retries or its failure clear the snapshot,
\* or a newer apply replaces it, unless its result is dropped or its snapshot
\* was taken behind a stop (there is no connect timeout).
AttemptEnds ==
    \A g \in 1..MaxApplies :
      inflightGen = g ~> inflightGen # g \/ mishap \cap {"lost", "orphaned"} # {}

-----------------------------------------------------------------------------
\* What the application is promised about credentials, by the last event it
\* was given; "void" once something happened the endpoint does not guard against.
Spoilt == mishap \cap {"crossed", "stale", "lost", "orphaned"} # {}

TrialPhase ==
    IF Spoilt THEN "void"
    ELSE IF Stopping \/ sta_state = "Disconnected" THEN "idle"
    ELSE CASE out = "recv" -> "trying"
           [] out = "success" -> "succeeded"
           [] out = "fail" -> "failed"
           [] OTHER -> "idle"

Trial == INSTANCE CredTrial WITH phase <- TrialPhase, cred <- tried

\* The endpoint implements CredTrial: every announced trial ends in exactly one
\* outcome, and ends unless abandoned, superseded or spoilt (CRED_RECV /
\* CRED_SUCCESS / CRED_FAIL).
TrialSpec == Trial!Spec
=============================================================================
