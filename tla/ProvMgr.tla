------------------------------ MODULE ProvMgr ------------------------------
(***************************************************************************)
(* The manager's lifecycle (network_prov_mgr.c): init, start, stop,        *)
(* deinit, auto-stop and wait, with the three threads that meet there:     *)
(* the application thread "app", the thread that reports a connection      *)
(* result "ev", and the system workqueue "wq" that runs teardown_work.     *)
(*                                                                         *)
(* A call is one step up to the next point where it blocks or leaves the   *)
(* module: k_work_cancel_delayable_sync, the transport's start and stop,   *)
(* removing the net_mgmt callback, the event callback.  The transport and  *)
(* the network-type endpoints are up or down; a protocomm instance is the  *)
(* number of the start that allocated it.                                  *)
(***************************************************************************)
EXTENDS Naturals, FiniteSets

CONSTANTS
    MaxStarts,      \* bound on the number of starts in a behaviour
    MaxSuccesses,   \* bound on the number of reported connections
    LongGrace       \* TRUE: teardown delays outlast a call in progress

ASSUME MgrConstants ==
    /\ MaxStarts \in Nat
    /\ MaxSuccesses \in Nat
    /\ LongGrace \in BOOLEAN

VARIABLES
    inited, started,
    auto_stop,
    cleanup_delay,  \* cleanup_delay_ms > 0
    done,           \* the semaphore network_prov_mgr_wait takes, 0 or 1
    work,           \* teardown_work is scheduled
    mgr_pc,         \* mgr.pc: a protocomm instance, 0 = NULL
    live,           \* instances allocated and not yet deleted
    transport,      \* the instance the transport serves, 0 = down
    netUp,          \* config/scan handlers initialised, callback installed
    pc,             \* where each thread is
    deiniting,      \* the teardown in "app" belongs to mgr_deinit
    starts, ups, ends, successes,   \* (history) starts begun, completed, ended; ...
    won,            \* (history) starts during which a connection succeeded
    due,            \* (history) starts whose success found the service started
    owed,           \* (history) starts the application asked to stop
    late,           \* (history) the latest opt-out came between check and schedule
    waited          \* (history) the start current when wait last returned

confVars == <<inited, auto_stop, cleanup_delay>>
svcVars == <<started, mgr_pc, live, transport, netUp>>
hisVars == <<starts, ups, ends, successes, won, due, owed, late, waited>>
vars == <<confVars, svcVars, done, work, pc, deiniting, hisVars>>

Init ==
    /\ inited = FALSE /\ auto_stop = FALSE /\ cleanup_delay = FALSE
    /\ started = FALSE /\ mgr_pc = 0 /\ live = {} /\ transport = 0 /\ netUp = FALSE
    /\ done = 0 /\ work = FALSE
    /\ pc = [t \in {"app", "ev", "wq"} |-> "idle"] /\ deiniting = FALSE
    /\ starts = 0 /\ ups = 0 /\ ends = 0 /\ successes = 0 /\ waited = 0
    /\ won = {} /\ due = {} /\ owed = {} /\ late = FALSE

Goto(t, l) == pc' = [pc EXCEPT ![t] = l]

InTeardown(t) == pc[t] \in {"td_stop", "td_deinit", "td_delete", "td_end"}

-----------------------------------------------------------------------------
\* network_prov_mgr_init.
mgr_init ==
    /\ pc["app"] = "idle" /\ ~inited
    /\ auto_stop' = TRUE /\ cleanup_delay' = FALSE
    /\ done' = 0
    /\ work' \in {FALSE, work}     \* re-initialising a queued work is undefined
    /\ inited' \in BOOLEAN         \* FALSE: settings_subsys_init failed
    /\ UNCHANGED <<svcVars, pc, deiniting, hisVars>>

\* network_prov_mgr_start_provisioning: protocomm, security, endpoints ...
StartBuild ==
    /\ pc["app"] = "idle" /\ inited /\ ~started /\ starts < MaxStarts
    /\ starts' = starts + 1
    /\ mgr_pc' = starts + 1 /\ live' = live \cup {starts + 1}
    /\ netUp' = TRUE
    /\ Goto("app", "starting")
    /\ UNCHANGED <<confVars, started, transport, done, work, deiniting, ups, ends,
                   successes, won, due, owed, late, waited>>

\* ... then the transport: clients may be served from here on ...
StartScheme ==
    /\ pc["app"] = "starting"
    /\ transport' = mgr_pc
    /\ Goto("app", "started")
    /\ UNCHANGED <<confVars, started, mgr_pc, live, netUp, done, work, deiniting, hisVars>>

\* ... and NETWORK_PROV_START.
StartEnd ==
    /\ pc["app"] = "started"
    /\ started' = TRUE
    /\ ups' = ups + 1
    /\ Goto("app", "idle")
    /\ UNCHANGED <<confVars, mgr_pc, live, transport, netUp, done, work, deiniting, starts,
                   ends, successes, won, due, owed, late, waited>>

\* Mutant: the failed start keeps its protocomm instance.
StartFails_Leak ==
    /\ pc["app"] = "starting" /\ pc["ev"] = "idle"
    /\ netUp' = FALSE
    /\ mgr_pc' = 0
    /\ Goto("app", "idle")
    /\ UNCHANGED <<confVars, started, live, transport, done, work, deiniting, hisVars>>

\* An endpoint or the transport cannot be set up: unwind.
StartFails ==
    /\ pc["app"] = "starting" /\ pc["ev"] = "idle"
    /\ netUp' = FALSE
    /\ live' = live \ {mgr_pc}
    /\ mgr_pc' = 0
    /\ Goto("app", "idle")
    /\ UNCHANGED <<confVars, started, transport, done, work, deiniting, hisVars>>

-----------------------------------------------------------------------------
\* do_teardown, in the application thread or on the workqueue.

\* Where a thread goes once do_teardown has returned.
Returned(t) == IF t = "app" /\ deiniting THEN "deinit_end" ELSE "idle"

\* The early return: a service that is not running is not torn down.
Teardown(t) == Goto(t, IF started THEN "td_stop" ELSE Returned(t))

\* scheme->stop()
TeardownTransport(t) ==
    /\ pc[t] = "td_stop"
    /\ transport' = 0
    /\ Goto(t, "td_deinit")
    /\ UNCHANGED <<confVars, started, mgr_pc, live, netUp, done, work, deiniting, hisVars>>

\* net_endpoints_deinit(): waits for a result callback that is running.
TeardownEndpoints(t) ==
    /\ pc[t] = "td_deinit" /\ pc["ev"] = "idle"
    /\ netUp' = FALSE
    /\ Goto(t, "td_delete")
    /\ UNCHANGED <<confVars, started, mgr_pc, live, transport, done, work, deiniting,
                   hisVars>>

\* Mutant: the service still counts as started after its teardown.
TeardownDelete_KeepsStarted(t) ==
    /\ pc[t] = "td_delete"
    /\ live' = live \ {mgr_pc}
    /\ mgr_pc' = 0
    /\ Goto(t, "td_end")
    /\ UNCHANGED <<confVars, started, transport, netUp, done, work, deiniting, hisVars>>

\* protocomm_delete, mgr.pc = NULL, started = false.
TeardownDelete(t) ==
    /\ pc[t] = "td_delete"
    /\ live' = live \ {mgr_pc}
    /\ mgr_pc' = 0
    /\ started' = FALSE
    /\ Goto(t, "td_end")
    /\ UNCHANGED <<confVars, transport, netUp, done, work, deiniting, hisVars>>

\* NETWORK_PROV_END
TeardownEnd(t) ==
    /\ pc[t] = "td_end"
    /\ ends' = ends + 1
    /\ Goto(t, Returned(t))
    /\ UNCHANGED <<confVars, svcVars, done, work, deiniting, starts, ups, successes, won,
                   due, owed, late, waited>>

do_teardown(t) ==
    \/ TeardownTransport(t) \/ TeardownEndpoints(t) \/ TeardownDelete(t)
    \/ TeardownEnd(t)

\* teardown_work fires once its delay has elapsed.
teardown_work_fn ==
    /\ work /\ pc["wq"] = "idle"
    /\ LongGrace => pc["app"] \in {"idle", "waiting"}
    /\ work' = FALSE
    /\ Teardown("wq")
    /\ UNCHANGED <<confVars, svcVars, done, deiniting, hisVars>>

-----------------------------------------------------------------------------
\* network_prov_mgr_stop_provisioning: cancel the scheduled teardown ...
StopCancel ==
    /\ pc["app"] = "idle" /\ started
    /\ work' = FALSE
    /\ owed' = owed \cup {starts}
    /\ Goto("app", "stop_sync")
    /\ UNCHANGED <<confVars, svcVars, done, deiniting, starts, ups, ends, successes,
                   won, due, late, waited>>

\* Mutant: does not wait for a teardown that is already running.
StopSync_NoWait ==
    /\ pc["app"] = "stop_sync"
    /\ \/ cleanup_delay /\ work' = TRUE /\ Goto("app", "idle")
       \/ ~cleanup_delay /\ work' = work /\ Teardown("app")
    /\ UNCHANGED <<confVars, svcVars, done, deiniting, hisVars>>

\* ... wait for one that runs (_sync), then defer the teardown or do it now.
StopSync ==
    /\ pc["app"] = "stop_sync" /\ pc["wq"] = "idle"
    /\ \/ cleanup_delay /\ work' = TRUE /\ Goto("app", "idle")
       \/ ~cleanup_delay /\ work' = work /\ Teardown("app")
    /\ UNCHANGED <<confVars, svcVars, done, deiniting, hisVars>>

\* network_prov_mgr_deinit: the same, then the manager itself.
DeinitCancel ==
    /\ pc["app"] = "idle" /\ inited
    /\ work' = FALSE
    /\ deiniting' = TRUE
    /\ owed' = IF started THEN owed \cup {starts} ELSE owed
    /\ Goto("app", "deinit_sync")
    /\ UNCHANGED <<confVars, svcVars, done, starts, ups, ends, successes,
                   won, due, late, waited>>

DeinitSync ==
    /\ pc["app"] = "deinit_sync" /\ pc["wq"] = "idle"
    /\ Teardown("app")
    /\ UNCHANGED <<confVars, svcVars, done, work, deiniting, hisVars>>

\* NETWORK_PROV_DEINIT
DeinitEnd ==
    /\ pc["app"] = "deinit_end"
    /\ inited' = FALSE /\ deiniting' = FALSE
    /\ Goto("app", "idle")
    /\ UNCHANGED <<auto_stop, cleanup_delay, svcVars, done, work, hisVars>>

\* network_prov_mgr_disable_auto_stop: cancels teardown_work, not _sync.
disable_auto_stop ==
    /\ pc["app"] = "idle" /\ inited
    /\ auto_stop' = FALSE
    /\ cleanup_delay' \in BOOLEAN
    /\ work' = FALSE
    /\ late' = (pc["ev"] = "autostop_schedule")
    /\ UNCHANGED <<inited, svcVars, done, pc, deiniting, starts, ups, ends, successes, won,
                   due, owed, waited>>

\* network_prov_mgr_wait: block until the semaphore is given.
WaitBegin ==
    /\ pc["app"] = "idle" /\ started
    /\ Goto("app", "waiting")
    /\ UNCHANGED <<confVars, svcVars, done, work, deiniting, hisVars>>

WaitReturns ==
    /\ pc["app"] = "waiting" /\ done = 1
    /\ done' = 0
    /\ waited' = starts
    /\ Goto("app", "idle")
    /\ UNCHANGED <<confVars, svcVars, work, deiniting, starts, ups, ends, successes, won,
                   due, owed, late>>

-----------------------------------------------------------------------------
\* Mutant: a counting semaphore without the limit of one.
SuccessGive_Counting ==
    /\ pc["ev"] = "idle" /\ netUp /\ successes < MaxSuccesses
    /\ pc["app"] = "starting" => ups > 0
    /\ successes' = successes + 1
    /\ done' = done + 1
    /\ won' = won \cup {starts}
    /\ Goto("ev", "autostop_check")
    /\ UNCHANGED <<confVars, svcVars, work, deiniting, starts, ups, ends, due, owed, late,
                   waited>>

\* network_prov_emit_event(NETWORK_PROV_CRED_SUCCESS): give the semaphore,
\* whether or not the start has returned yet (before the transport is up, only
\* an attempt left over from an earlier service can succeed) ...
SuccessGive ==
    /\ pc["ev"] = "idle" /\ netUp /\ successes < MaxSuccesses
    /\ pc["app"] = "starting" => ups > 0
    /\ successes' = successes + 1
    /\ done' = 1
    /\ won' = won \cup {starts}
    /\ Goto("ev", "autostop_check")
    /\ UNCHANGED <<confVars, svcVars, work, deiniting, starts, ups, ends, due, owed, late,
                   waited>>

\* Mutant: auto-stop ignores that the application opted out.
SuccessCheck_Always ==
    /\ pc["ev"] = "autostop_check"
    /\ Goto("ev", IF started THEN "autostop_schedule" ELSE "idle")
    /\ due' = IF started THEN due \cup {starts} ELSE due
    /\ UNCHANGED <<confVars, svcVars, done, work, deiniting, starts, ups, ends, successes,
                   won, owed, late, waited>>

\* Mutant: the opt-out is tested the wrong way round.
SuccessCheck_Inverted ==
    /\ pc["ev"] = "autostop_check"
    /\ Goto("ev", IF started /\ ~auto_stop THEN "autostop_schedule" ELSE "idle")
    /\ due' = IF started THEN due \cup {starts} ELSE due
    /\ UNCHANGED <<confVars, svcVars, done, work, deiniting, starts, ups, ends, successes,
                   won, owed, late, waited>>

\* ... look whether the service is up and may be stopped ...
SuccessCheck ==
    /\ pc["ev"] = "autostop_check"
    /\ Goto("ev", IF started /\ auto_stop THEN "autostop_schedule" ELSE "idle")
    /\ due' = IF started THEN due \cup {starts} ELSE due
    /\ UNCHANGED <<confVars, svcVars, done, work, deiniting, starts, ups, ends, successes,
                   won, owed, late, waited>>

\* Mutant: a teardown that is queued or runs is flushed before the new one.
SuccessSchedule_Flush ==
    /\ pc["ev"] = "autostop_schedule" /\ pc["wq"] = "idle"
    /\ work' = TRUE
    /\ Goto("ev", "idle")
    /\ UNCHANGED <<confVars, svcVars, done, deiniting, hisVars>>

\* ... then schedule its teardown, whatever has happened since.
SuccessSchedule ==
    /\ pc["ev"] = "autostop_schedule"
    /\ work' = TRUE
    /\ Goto("ev", "idle")
    /\ UNCHANGED <<confVars, svcVars, done, deiniting, hisVars>>

emit_success == SuccessGive \/ SuccessCheck \/ SuccessSchedule

-----------------------------------------------------------------------------
\* What the application may call, and the rest of a call it has made.
AppCall ==
    \/ mgr_init \/ StartBuild \/ StopCancel \/ DeinitCancel
    \/ disable_auto_stop \/ WaitBegin

AppStep ==
    \/ StartScheme \/ StartEnd \/ StartFails \/ StopSync \/ DeinitSync \/ DeinitEnd
    \/ WaitReturns \/ do_teardown("app")

Next == AppCall \/ AppStep \/ emit_success \/ teardown_work_fn \/ do_teardown("wq")

\* A call that was begun proceeds, a reported result is processed, and a
\* scheduled teardown fires and completes.
Fairness ==
    /\ WF_vars(AppStep)
    /\ WF_vars(SuccessCheck \/ SuccessSchedule)
    /\ WF_vars(teardown_work_fn)
    /\ WF_vars(do_teardown("wq"))

Spec == Init /\ [][Next]_vars /\ Fairness

-----------------------------------------------------------------------------
\* Properties.

Pcs == {"idle", "starting", "started", "stop_sync", "deinit_sync", "deinit_end", "waiting",
        "autostop_check", "autostop_schedule", "td_stop", "td_deinit", "td_delete", "td_end"}

\* Every variable of the manager has its type; the semaphore is binary.
TypeOK ==
    /\ inited \in BOOLEAN /\ started \in BOOLEAN
    /\ auto_stop \in BOOLEAN /\ cleanup_delay \in BOOLEAN
    /\ done \in 0..1 /\ work \in BOOLEAN
    /\ mgr_pc \in Nat /\ live \subseteq Nat /\ transport \in Nat /\ netUp \in BOOLEAN
    /\ pc \in [{"app", "ev", "wq"} -> Pcs] /\ deiniting \in BOOLEAN
    /\ starts \in Nat /\ ups \in Nat /\ ends \in Nat /\ successes \in Nat
    /\ won \subseteq Nat /\ due \subseteq Nat /\ owed \subseteq Nat
    /\ late \in BOOLEAN /\ waited \in Nat

\* Two threads are never both inside do_teardown: stop and deinit wait for a
\* running teardown_work before they tear down themselves.
TeardownExclusive == ~(InTeardown("app") /\ InTeardown("wq"))

\* A protocomm instance that is allocated is the one mgr.pc names: none leaks
\* in a failed start and none is referenced after protocomm_delete.
InstanceOwned == live = {mgr_pc} \ {0}

\* NETWORK_PROV_END is reported exactly once for each NETWORK_PROV_START,
\* whether stop, deinit, a deferred stop or auto-stop ends the service.
EndOncePerStart ==
    ups = ends + (IF started THEN 1 ELSE 0)
               + Cardinality({t \in {"app", "wq"} : pc[t] = "td_end"})

\* The workqueue starts to tear the service down.
AutoTeardown == pc["wq"] = "idle" /\ pc'["wq"] = "td_stop"

\* Opting out works for an application that never calls stop: once auto-stop is
\* disabled, no teardown comes from the workqueue, whatever succeeds when and
\* whatever was scheduled before, unless the opt-out fell between a success's
\* check and its k_work_schedule (disable_auto_stop, network_prov_emit_event).
OptOutKept == [][AutoTeardown => auto_stop \/ owed # {} \/ late]_vars

\* An opt-out drops every auto-stop of an earlier success.  Does not hold of
\* the code, for the opt-out that OptOutKept leaves out.
OptOutDropsAutoStop == [][AutoTeardown => auto_stop \/ owed # {}]_vars

\* Auto-stop happens: once a success has found the service started, it goes down
\* unless the application opts out (network_prov_emit_event, teardown_work_fn).
AutoStopHappens ==
    (started /\ auto_stop /\ starts \in due) ~> (~started \/ ~auto_stop)

\* Every call of the application returns, network_prov_mgr_wait excepted:
\* stop and deinit wait for a teardown on the workqueue, a teardown waits for
\* the thread that reports results, and none of them waits in a circle.
CallsReturn ==
    (pc["app"] \notin {"idle", "waiting"}) ~> (pc["app"] \in {"idle", "waiting"})

\* wait returns only when the service it waits for has completed
\* provisioning.
WaitMeansSuccess == waited # 0 => waited \in won
=============================================================================
