---------------------------- MODULE ThreadConfig ----------------------------
(***************************************************************************)
(* The prov-config endpoint of the Thread build (thread_config_handler.c). *)
(* A dataset is committed to OpenThread, and the attach callback on the    *)
(* OpenThread thread "ot", the attach timeout on the workqueue "wq" and    *)
(* the applying thread "req" itself race to claim the outcome of the apply *)
(* with atomic_cas on tc.pending.                                          *)
(*                                                                         *)
(* OpenThread is modelled by what the handler sees of it: whether Thread   *)
(* is enabled, whether the role is an attached one, the committed dataset, *)
(* and a pending state-change notification.                                *)
(***************************************************************************)
EXTENDS Naturals

CONSTANTS
    Datasets, NoData,  \* Operational Datasets; none
    MaxApplies,        \* bound on the number of applies in a behaviour
    Schedules          \* values of preempt, a subset of BOOLEAN

ASSUME ThreadConstants ==
    /\ NoData \notin Datasets
    /\ MaxApplies \in Nat
    /\ Schedules \subseteq BOOLEAN

Threads == {"req", "ot", "wq"}

VARIABLES
    dataset,           \* tc.dataset and tc.dataset_staged
    state, fail_reason,
    pending,           \* tc.pending: outcome of an apply not yet claimed
    cb_registered,
    delayed, queued,   \* tc.attach_timeout: counting down; handed to wq
    enabled, attached, active, notify,   \* OpenThread
    pc,
    preempt,           \* other threads run between a claim and its report
    gen,               \* (history) applies so far
    owner,             \* (history) the apply tc.pending stands for
    seen,              \* (history) the apply a thread applies or has claimed
    outcomes           \* (history) outcomes reported for each apply

cfgVars == <<dataset, state, fail_reason, pending, cb_registered>>
timVars == <<delayed, queued>>
otVars == <<enabled, attached, active, notify>>
hisVars == <<gen, owner, seen, outcomes>>
vars == <<cfgVars, timVars, otVars, pc, preempt, hisVars>>

Init ==
    /\ dataset = NoData /\ state = "Attached" /\ fail_reason = "DatasetInvalid"
    /\ pending = FALSE /\ cb_registered = FALSE
    /\ delayed = FALSE /\ queued = FALSE
    /\ enabled = FALSE /\ attached = FALSE /\ active = NoData /\ notify = FALSE
    /\ pc = [t \in Threads |-> "idle"] /\ preempt \in Schedules
    /\ gen = 0 /\ owner = 0 /\ seen = [t \in Threads |-> 0]
    /\ outcomes = [g \in 1..MaxApplies |-> 0]

Goto(t, l) == pc' = [pc EXCEPT ![t] = l]

Claimed(t) == pc[t] \in {"claimed_ok", "claimed_fail"}
Turn(t) == preempt \/ \A u \in Threads \ {t} : ~Claimed(u)

Idle == cb_registered /\ pc["req"] = "idle" /\ Turn("req")

\* k_work_cancel_delayable(&tc.attach_timeout)
CancelTimeout == delayed' = FALSE /\ queued' = FALSE

Reported(g) == outcomes' = [outcomes EXCEPT ![g] = @ + 1]

-----------------------------------------------------------------------------
\* CmdSetThreadConfig, or the staging half of set_and_apply.
do_set_config ==
    /\ Idle
    /\ \E d \in Datasets : dataset' = d
    /\ UNCHANGED <<state, fail_reason, pending, cb_registered, timVars, otVars, pc, preempt,
                   hisVars>>

\* CmdApplyThreadConfig: commit the dataset and enable Thread.
ApplyCommit ==
    /\ Idle /\ dataset # NoData /\ gen < MaxApplies
    /\ active' = dataset
    /\ enabled' = TRUE
    /\ gen' = gen + 1 /\ seen' = [seen EXCEPT !["req"] = gen + 1]
    /\ Goto("req", "committed")
    /\ UNCHANGED <<cfgVars, timVars, attached, notify, preempt, owner, outcomes>>

\* OpenThread rejects the dataset (or cannot be enabled with it): CRED_RECV
\* and CRED_FAIL at once.
ApplyRejected ==
    /\ Idle /\ dataset # NoData /\ gen < MaxApplies
    /\ active' \in {active, dataset}
    /\ state' = "AttachingFailed" /\ fail_reason' = "DatasetInvalid"
    /\ gen' = gen + 1 /\ Reported(gen + 1)
    /\ UNCHANGED <<dataset, pending, cb_registered, timVars, enabled, attached, notify, pc,
                   preempt, owner, seen>>

\* CRED_RECV; the outcome is open from here on.
ApplyPending ==
    /\ pc["req"] = "committed" /\ Turn("req")
    /\ state' = "Attaching"
    /\ pending' = TRUE /\ owner' = seen["req"]
    /\ Goto("req", "recheck")
    /\ UNCHANGED <<dataset, fail_reason, cb_registered, timVars, otVars, preempt, gen, seen,
                   outcomes>>

\* Mutant: the timeout does not look at tc.pending.
Claim_Unchecked(t, l) ==
    pending' = FALSE /\ seen' = [seen EXCEPT ![t] = owner] /\ Goto(t, l)

\* on_attached and attach_timeout_fn: atomic_cas(&tc.pending, 1, 0).
Claim(t, l) ==
    IF pending
    THEN pending' = FALSE /\ seen' = [seen EXCEPT ![t] = owner] /\ Goto(t, l)
    ELSE UNCHANGED <<pending, seen>> /\ Goto(t, "idle")

\* Mutant: only the callback reports an attach.
ApplyRecheck_Never ==
    /\ pc["req"] = "recheck" /\ Turn("req")
    /\ Goto("req", "arm") /\ UNCHANGED <<pending, seen>>
    /\ UNCHANGED <<dataset, state, fail_reason, cb_registered, timVars, otVars, preempt,
                   gen, owner, outcomes>>

\* Already attached?  Report now, else start the timeout.
ApplyRecheck ==
    /\ pc["req"] = "recheck" /\ Turn("req")
    /\ IF attached THEN Claim("req", "claimed_ok")
                   ELSE Goto("req", "arm") /\ UNCHANGED <<pending, seen>>
    /\ UNCHANGED <<dataset, state, fail_reason, cb_registered, timVars, otVars, preempt,
                   gen, owner, outcomes>>

\* Mutant: k_work_schedule-like, no timeout for an apply that follows one.
ApplyArm_OnlyFirst ==
    /\ pc["req"] = "arm" /\ Turn("req")
    /\ delayed' = (delayed \/ seen["req"] = 1)
    /\ Goto("req", "idle")
    /\ UNCHANGED <<cfgVars, queued, otVars, preempt, gen, owner, seen, outcomes>>

\* k_work_reschedule: the countdown restarts; a run already queued stays so.
ApplyArm ==
    /\ pc["req"] = "arm" /\ Turn("req")
    /\ delayed' = TRUE
    /\ Goto("req", "idle")
    /\ UNCHANGED <<cfgVars, queued, otVars, preempt, gen, owner, seen, outcomes>>

\* CmdCtrlThreadReset and CmdCtrlThreadReprov: forget the apply ...
ResetForget ==
    /\ Idle
    /\ CancelTimeout
    /\ dataset' = NoData
    /\ pending' = FALSE
    /\ state' = "Dettached"
    /\ \E l \in {"disable", "erase"} : Goto("req", l)
    /\ UNCHANGED <<fail_reason, cb_registered, otVars, preempt, hisVars>>

\* ... and disable Thread; network_prov_mgr_reset_wifi_provisioning also
\* erases the committed dataset, which may fail.
ResetDisable ==
    /\ pc["req"] \in {"disable", "erase"} /\ Turn("req")
    /\ enabled' = FALSE
    /\ attached' = FALSE /\ notify' = (notify \/ attached)
    /\ active' \in IF pc["req"] = "erase" THEN {active, NoData} ELSE {active}
    /\ Goto("req", "idle")
    /\ UNCHANGED <<cfgVars, timVars, preempt, hisVars>>

\* network_prov_thread_config_init; the callback may fail to register.
config_init ==
    /\ ~cb_registered /\ pc["req"] = "idle" /\ Turn("req")
    /\ dataset' = NoData /\ state' = "Dettached" /\ fail_reason' = "DatasetInvalid"
    /\ pending' = FALSE
    /\ CancelTimeout
    /\ cb_registered' \in BOOLEAN
    /\ UNCHANGED <<otVars, pc, preempt, hisVars>>

\* network_prov_thread_config_deinit: cancel the timeout ...
DeinitCancel ==
    /\ Idle
    /\ CancelTimeout
    /\ Goto("req", "unregister")
    /\ UNCHANGED <<cfgVars, otVars, preempt, hisVars>>

\* ... and unregister, which waits for a callback that is running.
DeinitUnregister ==
    /\ pc["req"] = "unregister" /\ Turn("req") /\ pc["ot"] = "idle"
    /\ cb_registered' = FALSE
    /\ Goto("req", "idle")
    /\ UNCHANGED <<dataset, state, fail_reason, pending, timVars, otVars, preempt, hisVars>>

-----------------------------------------------------------------------------
\* OpenThread changes its role and raises a state-change notification.
RoleChange ==
    /\ \/ enabled /\ ~attached /\ active # NoData /\ attached' = TRUE
       \/ attached /\ attached' = FALSE
    /\ notify' = TRUE
    /\ UNCHANGED <<cfgVars, timVars, enabled, active, pc, preempt, hisVars>>

\* ot_state_changed: the role is read when the callback runs.
ot_state_changed ==
    /\ notify /\ pc["ot"] = "idle" /\ Turn("ot")
    /\ notify' = FALSE
    /\ IF cb_registered /\ attached THEN Claim("ot", "claimed_ok")
                                    ELSE UNCHANGED <<pending, seen, pc>>
    /\ UNCHANGED <<dataset, state, fail_reason, cb_registered, timVars, enabled, attached,
                   active, preempt, gen, owner, outcomes>>

\* on_attached after its claim: Attached, cancel the timeout, CRED_SUCCESS.
on_attached(t) ==
    /\ pc[t] = "claimed_ok" /\ Turn(t)
    /\ state' = "Attached"
    /\ CancelTimeout
    /\ Reported(seen[t])
    /\ Goto(t, "idle")
    /\ UNCHANGED <<dataset, fail_reason, pending, cb_registered, otVars, preempt, gen,
                   owner, seen>>

\* The countdown ends and the kernel hands attach_timeout to the workqueue.
TimeoutExpires ==
    /\ delayed
    /\ delayed' = FALSE /\ queued' = TRUE
    /\ UNCHANGED <<cfgVars, otVars, pc, preempt, hisVars>>

attach_timeout_fn ==
    /\ queued /\ pc["wq"] = "idle" /\ Turn("wq")
    /\ queued' = FALSE
    /\ Claim("wq", "claimed_fail")
    /\ UNCHANGED <<dataset, state, fail_reason, cb_registered, delayed, otVars, preempt,
                   gen, owner, outcomes>>

\* Mutant: the failure is reported with the Wi-Fi reason.
TimeoutReport_WifiReason ==
    /\ pc["wq"] = "claimed_fail" /\ Turn("wq")
    /\ state' = "AttachingFailed" /\ fail_reason' = "WifiNetworkNotFound"
    /\ Reported(seen["wq"])
    /\ Goto("wq", "idle")
    /\ UNCHANGED <<dataset, pending, cb_registered, timVars, otVars, preempt, gen, owner,
                   seen>>

\* attach_timeout_fn after its claim: AttachingFailed, CRED_FAIL.
TimeoutReport ==
    /\ pc["wq"] = "claimed_fail" /\ Turn("wq")
    /\ state' = "AttachingFailed" /\ fail_reason' = "ThreadNetworkNotFound"
    /\ Reported(seen["wq"])
    /\ Goto("wq", "idle")
    /\ UNCHANGED <<dataset, pending, cb_registered, timVars, otVars, preempt, gen, owner,
                   seen>>

-----------------------------------------------------------------------------
Call ==
    \/ do_set_config \/ ApplyCommit \/ ApplyRejected \/ ResetForget
    \/ config_init \/ DeinitCancel

RequestStep ==
    \/ ApplyPending \/ ApplyRecheck \/ ApplyArm \/ ResetDisable \/ DeinitUnregister
    \/ on_attached("req")

OpenThread == ot_state_changed \/ on_attached("ot")
Workqueue == attach_timeout_fn \/ TimeoutReport

Next == Call \/ RequestStep \/ RoleChange \/ OpenThread \/ TimeoutExpires \/ Workqueue

\* Threads that have work run, and the 30 s countdown ends.  OpenThread is
\* not obliged to attach.
Fairness ==
    /\ WF_vars(RequestStep) /\ WF_vars(OpenThread)
    /\ WF_vars(Workqueue) /\ WF_vars(TimeoutExpires)

Spec == Init /\ [][Next]_vars /\ Fairness

-----------------------------------------------------------------------------
\* Properties.

Pcs == {"idle", "committed", "recheck", "arm", "disable", "erase", "unregister",
        "claimed_ok", "claimed_fail"}

\* Every variable of the endpoint and of the OpenThread abstraction has its
\* type.
TypeOK ==
    /\ dataset \in Datasets \cup {NoData} /\ active \in Datasets \cup {NoData}
    /\ state \in {"Attached", "Attaching", "Dettached", "AttachingFailed"}
    /\ fail_reason \in {"DatasetInvalid", "ThreadNetworkNotFound"}
    /\ pending \in BOOLEAN /\ cb_registered \in BOOLEAN
    /\ delayed \in BOOLEAN /\ queued \in BOOLEAN
    /\ enabled \in BOOLEAN /\ attached \in BOOLEAN /\ notify \in BOOLEAN
    /\ pc \in [Threads -> Pcs] /\ preempt \in BOOLEAN
    /\ gen \in 0..MaxApplies /\ owner \in 0..MaxApplies
    /\ seen \in [Threads -> 0..MaxApplies]
    /\ outcomes \in [1..MaxApplies -> Nat]

\* At most one of success and failure is reported for an apply, however the
\* callback, the timeout and the re-check race (atomic_cas on tc.pending).
OutcomeOnce == \A g \in 1..MaxApplies : outcomes[g] <= 1

\* An attach is never missed: while an outcome is open and the node is
\* attached, a notification or the re-check of the apply will report it, also
\* when the attach came before tc.pending was set.
AttachNotMissed ==
    cb_registered /\ pending /\ attached => notify \/ pc["req"] = "recheck"

\* An open outcome is eventually claimed unless the service goes down
\* (attach_timeout), where a thread that has claimed one reports it before
\* another thread runs.  A preempted on_attached may cancel the timeout of a
\* later apply, which then stays open.
OutcomeReported ==
    (pending /\ cb_registered /\ ~preempt) ~> (~pending \/ ~cb_registered)
=============================================================================
