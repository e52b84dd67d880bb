-------------------------------- MODULE Ble --------------------------------
(***************************************************************************)
(* The BLE transport (protocomm_ble.c): the GATT service of one            *)
(* characteristic per endpoint, advertising, and the connection callbacks, *)
(* which are registered statically and run whether or not provisioning is  *)
(* started.                                                                *)
(*                                                                         *)
(* The application thread starts and stops the transport; app is where it  *)
(* is.  bt is where the Bluetooth thread is, which runs the callbacks one  *)
(* at a time, each from its read of g_pc to its end.  The stack is         *)
(* external: one connection slot, which keeps bt_le_adv_start from         *)
(* succeeding while it is taken, and which is released some time after the *)
(* disconnected callback.  A protocomm instance is the number of the start *)
(* that allocated it; connections are numbered too, and an answer or a     *)
(* session is the number of the connection it belongs to; 0 is none.       *)
(***************************************************************************)
EXTENDS Naturals

CONSTANTS
    Eps,            \* endpoints
    Looks,          \* values of the service UUID and the manufacturer data
    MaxStarts,      \* bound on the number of starts in a behaviour
    MaxConns        \* bound on the number of connections

ASSUME BleConstants == Looks # {} /\ MaxStarts \in Nat /\ MaxConns \in Nat

VARIABLES
    app, bt,
    g_pc, live,     \* the transport's instance; instances not deleted
    svc_registered,
    uuid, mfg,      \* service_uuid, mfg_data
    gatt_uuid,      \* the UUID the characteristics were built from
    sd_mfg,         \* the manufacturer data the scan response was built for
    resp,           \* ep_io[].resp, 0 for resp_len = 0
    adv,            \* advertising
    conn, link,     \* the connection slot; the link is up
    recycling,      \* the slot was released and recycled is due
    inst, ep,       \* the callback's g_pc and endpoint
    sess,           \* protocomm's session
    starts, conns,  \* (history) starts and connections so far
    failed,         \* (history) the last start failed
    overtaken,      \* (history) the instance was taken from under a callback
    stranded        \* (history) advertising could not be restarted

svcVars == <<g_pc, live, svc_registered>>
lookVars == <<uuid, mfg, gatt_uuid, sd_mfg>>
linkVars == <<adv, conn, link, recycling>>
cbVars == <<inst, ep>>
hisVars == <<starts, conns, failed, overtaken, stranded>>
vars == <<app, bt, svcVars, lookVars, resp, linkVars, cbVars, sess, hisVars>>

NoEp == "none"
NoResp == [e \in Eps |-> 0]

Init ==
    /\ app = "down" /\ bt = "idle"
    /\ g_pc = 0 /\ live = {} /\ svc_registered = FALSE
    /\ uuid \in Looks /\ mfg = uuid /\ gatt_uuid = uuid /\ sd_mfg = uuid
    /\ resp = NoResp
    /\ adv = FALSE /\ conn = 0 /\ link = FALSE /\ recycling = FALSE
    /\ inst = 0 /\ ep = NoEp /\ sess = 0
    /\ starts = 0 /\ conns = 0 /\ failed = FALSE /\ overtaken = FALSE
    /\ stranded = FALSE

-----------------------------------------------------------------------------
Setting == app \in {"down", "up"}

\* Mutant: the UUID may be set at any time.
set_service_uuid_Always(u) ==
    /\ Setting
    /\ uuid' = u
    /\ UNCHANGED <<app, bt, svcVars, mfg, gatt_uuid, sd_mfg, resp, linkVars, cbVars, sess,
                   hisVars>>

\* network_prov_scheme_ble_set_service_uuid
set_service_uuid(u) ==
    /\ Setting /\ ~svc_registered
    /\ uuid' = u
    /\ UNCHANGED <<app, bt, svcVars, mfg, gatt_uuid, sd_mfg, resp, linkVars, cbVars, sess,
                   hisVars>>

\* network_prov_scheme_ble_set_mfg_data
set_mfg_data(m) ==
    /\ Setting /\ ~svc_registered
    /\ mfg' = m
    /\ UNCHANGED <<app, bt, svcVars, uuid, gatt_uuid, sd_mfg, resp, linkVars, cbVars, sess,
                   hisVars>>

\* network_prov_ble_start of a new instance ...
StartEnable ==
    /\ app = "down" /\ starts < MaxStarts
    /\ starts' = starts + 1
    /\ g_pc' = starts + 1 /\ live' = live \cup {starts + 1} /\ sess' = 0
    /\ app' = "enable"
    /\ UNCHANGED <<bt, svc_registered, lookVars, resp, linkVars, cbVars, conns, failed,
                   overtaken, stranded>>

\* ... bt_enable, then build_service ...
build_service ==
    /\ app = "enable"
    /\ gatt_uuid' = uuid
    /\ resp' = NoResp
    /\ app' = "register"
    /\ UNCHANGED <<bt, svcVars, uuid, mfg, sd_mfg, linkVars, cbVars, sess, hisVars>>

\* The scan response carries the manufacturer data of this moment.
build_adv == sd_mfg' = mfg

\* ... bt_gatt_service_register, which refuses a service that is registered,
\* then build_adv ...
StartRegister ==
    /\ app = "register" /\ ~svc_registered
    /\ svc_registered' = TRUE
    /\ build_adv
    /\ app' = "advertise"
    /\ UNCHANGED <<bt, g_pc, live, uuid, mfg, gatt_uuid, resp, linkVars, cbVars, sess,
                   hisVars>>

\* ... and bt_le_adv_start: EALREADY and ENOMEM are errors here.
StartAdvertise ==
    /\ app = "advertise" /\ ~adv /\ conn = 0
    /\ adv' = TRUE
    /\ failed' = FALSE /\ stranded' = FALSE
    /\ app' = "up"
    /\ UNCHANGED <<bt, svcVars, lookVars, resp, conn, link, recycling, cbVars, sess, starts,
                   conns, overtaken>>

\* A step fails: start returns, and the manager deletes the instance without
\* a stop of the transport.
StartFails ==
    /\ app \in {"enable", "register", "advertise"}
    /\ live' = live \ {g_pc}
    /\ failed' = TRUE /\ overtaken' = (bt # "idle")
    /\ app' = "down"
    /\ UNCHANGED <<bt, g_pc, svc_registered, lookVars, resp, linkVars, cbVars, sess, starts,
                   conns, stranded>>

\* network_prov_ble_stop: bt_le_adv_stop ...
StopAdv ==
    /\ app = "up"
    /\ adv' = FALSE
    /\ app' = "unregister"
    /\ UNCHANGED <<bt, svcVars, lookVars, resp, conn, link, recycling, cbVars, sess, hisVars>>

\* ... bt_gatt_service_unregister; a central stays connected ...
StopUnregister ==
    /\ app = "unregister"
    /\ svc_registered' = FALSE
    /\ app' = "forget"
    /\ UNCHANGED <<bt, g_pc, live, lookVars, resp, linkVars, cbVars, sess, hisVars>>

\* Mutant: g_pc is kept.
StopForget_KeepsPc ==
    /\ app = "forget"
    /\ overtaken' = (bt # "idle")
    /\ app' = "delete"
    /\ UNCHANGED <<bt, svcVars, lookVars, resp, linkVars, cbVars, sess, starts, conns, failed,
                   stranded>>

\* ... g_pc = NULL ...
StopForget ==
    /\ app = "forget"
    /\ g_pc' = 0
    /\ overtaken' = (bt # "idle")
    /\ app' = "delete"
    /\ UNCHANGED <<bt, live, svc_registered, lookVars, resp, linkVars, cbVars, sess, starts,
                   conns, failed, stranded>>

\* ... and the manager's protocomm_delete, which closes the session.
StopDelete ==
    /\ app = "delete"
    /\ live' = live \ {starts}
    /\ sess' = 0
    /\ app' = "down"
    /\ UNCHANGED <<bt, g_pc, svc_registered, lookVars, resp, linkVars, cbVars, hisVars>>

-----------------------------------------------------------------------------
\* A callback begins with the g_pc of this moment, and ends.
Begin(l) == bt = "idle" /\ bt' = l /\ inst' = g_pc
End == bt' = "idle" /\ inst' = 0 /\ ep' = NoEp /\ overtaken' = FALSE

\* A central connects; the stack stops advertising.
Connect ==
    /\ adv /\ conn = 0 /\ conns < MaxConns
    /\ Begin("connected")
    /\ adv' = FALSE
    /\ conns' = conns + 1 /\ conn' = conns + 1 /\ link' = TRUE
    /\ UNCHANGED <<app, svcVars, lookVars, resp, recycling, ep, sess, starts, failed,
                   overtaken, stranded>>

\* A connection that fails takes the slot too, and connected does nothing.
ConnectFails ==
    /\ adv /\ conn = 0 /\ conns < MaxConns /\ bt = "idle"
    /\ adv' = FALSE
    /\ conns' = conns + 1 /\ conn' = conns + 1
    /\ UNCHANGED <<app, bt, svcVars, lookVars, resp, link, recycling, cbVars, sess, starts,
                   failed, overtaken, stranded>>

connected ==
    /\ bt = "connected"
    /\ sess' = IF inst = 0 THEN sess ELSE conn
    /\ End
    /\ UNCHANGED <<app, svcVars, lookVars, resp, linkVars, starts, conns, failed, stranded>>

\* The link is lost or closed.
LinkLost ==
    /\ link
    /\ Begin("disconnected")
    /\ link' = FALSE
    /\ UNCHANGED <<app, svcVars, lookVars, resp, adv, conn, recycling, ep, sess, hisVars>>

\* Mutant: the cached answers are kept.
disconnected_KeepsAnswers ==
    /\ bt = "disconnected"
    /\ sess' = IF inst = 0 THEN sess ELSE 0
    /\ End
    /\ UNCHANGED <<app, svcVars, lookVars, resp, linkVars, starts, conns, failed, stranded>>

disconnected ==
    /\ bt = "disconnected"
    /\ sess' = IF inst = 0 THEN sess ELSE 0
    /\ resp' = NoResp
    /\ End
    /\ UNCHANGED <<app, svcVars, lookVars, linkVars, starts, conns, failed, stranded>>

\* The stack releases the slot of a connection that is over.
Release ==
    /\ conn # 0 /\ ~link /\ bt = "idle"
    /\ conn' = 0
    /\ recycling' = TRUE
    /\ UNCHANGED <<app, bt, svcVars, lookVars, resp, adv, link, cbVars, sess, hisVars>>

\* Mutant: the test of svc_registered is the wrong way round.
recycled_Inverted ==
    /\ bt = "idle" /\ recycling
    /\ recycling' = FALSE
    /\ bt' = IF svc_registered THEN "idle" ELSE "readvertise"
    /\ UNCHANGED <<app, svcVars, lookVars, resp, adv, conn, link, cbVars, sess, hisVars>>

\* recycled: is there a service ...
recycled ==
    /\ bt = "idle" /\ recycling
    /\ recycling' = FALSE
    /\ bt' = IF svc_registered THEN "readvertise" ELSE "idle"
    /\ UNCHANGED <<app, svcVars, lookVars, resp, adv, conn, link, cbVars, sess, hisVars>>

\* ... to advertise?  EALREADY is as good as a success.
Readvertise ==
    /\ bt = "readvertise" /\ (adv \/ conn = 0)
    /\ adv' = TRUE
    /\ stranded' = FALSE
    /\ End
    /\ UNCHANGED <<app, svcVars, lookVars, resp, conn, link, recycling, sess, starts, conns,
                   failed>>

\* bt_le_adv_start refuses: recycled logs it and leaves it at that.  With the
\* slot taken again the next recycled has another try, otherwise nobody has.
ReadvertiseFails ==
    /\ bt = "readvertise" /\ ~adv
    /\ stranded' = (conn = 0)
    /\ End
    /\ UNCHANGED <<app, svcVars, lookVars, resp, linkVars, sess, starts, conns, failed>>

\* write_ep: the central writes a request; a prepared write is only queued.
Write(e) ==
    /\ link /\ svc_registered
    /\ Begin("write") /\ ep' = e
    /\ UNCHANGED <<app, svcVars, lookVars, resp, linkVars, sess, hisVars>>

\* protocomm_req_handle has returned: the answer is cached for read_ep, or
\* there is none (an error, an answer that is too long or empty).
write_ep ==
    /\ bt = "write"
    /\ \E r \in IF inst = 0 THEN {0} ELSE {0, conn} : resp' = [resp EXCEPT ![ep] = r]
    /\ End
    /\ UNCHANGED <<app, svcVars, lookVars, linkVars, sess, starts, conns, failed, stranded>>

-----------------------------------------------------------------------------
App ==
    \/ \E l \in Looks : set_service_uuid(l) \/ set_mfg_data(l)
    \/ StartEnable \/ build_service \/ StartRegister \/ StartAdvertise \/ StartFails
    \/ StopAdv \/ StopUnregister \/ StopForget \/ StopDelete

Central == Connect \/ ConnectFails \/ LinkLost \/ \E e \in Eps : Write(e)

Callbacks ==
    \/ connected \/ disconnected \/ recycled \/ Readvertise \/ ReadvertiseFails \/ write_ep

Next == App \/ Central \/ Callbacks \/ Release

\* The Bluetooth thread runs its callbacks and releases the slot of a
\* connection that is over.  No central is obliged to do anything.
Fairness == WF_vars(Callbacks) /\ WF_vars(Release)

Spec == Init /\ [][Next]_vars /\ Fairness

-----------------------------------------------------------------------------
\* Properties.

\* The session and the cached answers that a connected central can reach are
\* its own: what an earlier central left is gone before the next one reads,
\* whatever stops, starts and lost links come in between (disconnected,
\* build_service).
AnswerFresh ==
    link /\ svc_registered /\ bt # "connected"
      => sess \in {0, conn} /\ \A e \in Eps : resp[e] \in {0, conn}

\* A callback works on an instance that is allocated, unless stop overtook it
\* or the last start failed: the callbacks of a central that is still there
\* after a stop find no instance (network_prov_ble_stop).
InstanceUsed ==
    bt # "idle" /\ inst # 0 /\ ~overtaken /\ ~failed => inst \in live

\* What is advertised and what the GATT table holds agree: neither the UUID
\* nor the manufacturer data changes between their use by build_service and
\* by build_adv and the end of the service (the guards of the setters).
LooksInSync == svc_registered /\ app = "up" => gatt_uuid = uuid /\ sd_mfg = mfg

\* A started service can be found again: once a central is gone, or its
\* connection failed, advertising resumes, unless the stack refused to restart
\* it, which nothing retries (recycled).
Discoverable ==
    (app = "up" /\ ~adv /\ ~link) ~> (adv \/ link \/ app # "up" \/ stranded)

\* A stopped transport does not advertise (network_prov_ble_stop).  Does not
\* hold of the code: a stop may come between the two statements of recycled.
StopEndsAdvertising == app = "down" /\ ~failed => ~adv

\* The GATT service is registered only while provisioning is started, being
\* started or being stopped (svc_registered).
RegisteredMeansStarted == svc_registered => app # "down"
=============================================================================
