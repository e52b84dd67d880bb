----------------------------- MODULE Endpoints -----------------------------
(***************************************************************************)
(* What lies between a transport and the endpoint handlers: the manager's  *)
(* custom endpoints and app info (network_prov_mgr.c), protocomm's         *)
(* endpoint table, dispatch and session (protocomm.c) with Security 0      *)
(* (security0.c), and the console transport (protocomm_console.c).         *)
(*                                                                         *)
(* "app" is the application's thread, which builds, starts and stops the   *)
(* service and registers handlers; "sh" is the shell thread, which runs    *)
(* net_prov commands.  Nothing locks one against the other.  A protocomm   *)
(* instance is the number of the start that allocated it.  A registration  *)
(* is a number, which stands for both its handler and its ctx; 0 is NULL.  *)
(***************************************************************************)
EXTENDS Naturals, Sequences

CONSTANTS
    Names,          \* names an application tries for its endpoints
    Ids,            \* session ids of the console client
    MaxCustom,      \* CONFIG_NETWORK_PROV_MAX_CUSTOM_ENDPOINTS
    MaxEndpoints,   \* PROTOCOMM_MAX_ENDPOINTS
    MaxStarts,      \* bound on the number of starts in a behaviour
    MaxRegs         \* bound on the number of registrations

Builtins == <<"proto-ver", "prov-session", "prov-scan", "prov-config", "prov-ctrl">>
BuiltinNames == {Builtins[i] : i \in DOMAIN Builtins}

\* The range of MAX_CUSTOM_ENDPOINTS in Kconfig.
ASSUME EndpointConstants ==
    /\ MaxEndpoints \in Nat /\ MaxCustom \in 0..MaxEndpoints - Len(Builtins)
    /\ MaxStarts \in Nat /\ MaxRegs \in Nat

VARIABLES
    inited, started,
    app_info,       \* the section of set_app_info: "none" or "own"
    custom,         \* mgr.custom: the created endpoints [name, handler, ctx]
    mgr_pc, live,   \* mgr.pc; instances allocated and not deleted
    table,          \* the instance's endpoint names, in the order added
    version,        \* version_json, by the app section in it
    sess,           \* sec_ctx: {} is NULL, {id} one opened for that id
    g_pc, cur_session, have_session,   \* protocomm_console.c
    pc,
    req,            \* the command's arguments [ep, id]
    inst, slot,     \* protocomm_req_handle's pc, the trampoline's e
    fn, arg,        \* the handler that is called and its ctx
    starts, regs,   \* (history) starts and registrations so far
    overtaken,      \* (history) the transport was stopped under the request
    raced,          \* (history) the registration changed under the trampoline
    wiped           \* (history) a start overwrote the id of the open session

mgrVars == <<inited, started, app_info, custom>>
insVars == <<mgr_pc, live, table, version>>
conVars == <<g_pc, cur_session, have_session>>
reqVars == <<req, inst, slot, fn, arg>>
hisVars == <<starts, regs, overtaken, raced, wiped>>
vars == <<mgrVars, insVars, sess, conVars, pc, reqVars, hisVars>>

NoReq == [ep |-> "", id |-> 0]

Init ==
    /\ inited = FALSE /\ started = FALSE /\ app_info = "none" /\ custom = <<>>
    /\ mgr_pc = 0 /\ live = {} /\ table = <<>> /\ version = "none" /\ sess = {}
    /\ g_pc = 0 /\ cur_session = 0 /\ have_session = FALSE
    /\ pc = [t \in {"app", "sh"} |-> "idle"]
    /\ req = NoReq /\ inst = 0 /\ slot = 0 /\ fn = 0 /\ arg = 0
    /\ starts = 0 /\ regs = 0 /\ overtaken = FALSE /\ raced = FALSE
    /\ wiped = FALSE

Goto(t, l) == pc' = [pc EXCEPT ![t] = l]

Created == {custom[i].name : i \in DOMAIN custom}

-----------------------------------------------------------------------------
\* network_prov_mgr_init; settings_subsys_init may fail.
mgr_init ==
    /\ pc["app"] = "idle" /\ ~inited
    /\ app_info' = "none" /\ custom' = <<>>
    /\ inited' \in BOOLEAN
    /\ raced' = (raced \/ pc["sh"] = "call")
    /\ UNCHANGED <<started, insVars, sess, conVars, pc, reqVars, starts, regs, overtaken,
                   wiped>>

\* network_prov_mgr_deinit of a manager that is stopped; one that is not is
\* stopped first.
mgr_deinit ==
    /\ pc["app"] = "idle" /\ inited /\ ~started
    /\ inited' = FALSE
    /\ UNCHANGED <<started, app_info, custom, insVars, sess, conVars, pc, reqVars, hisVars>>

\* Mutant: a built-in name is not refused.
endpoint_create_AnyName(n) ==
    /\ pc["app"] = "idle" /\ inited /\ ~started
    /\ n \notin Created /\ Len(custom) < MaxCustom
    /\ custom' = Append(custom, [name |-> n, handler |-> 0, ctx |-> 0])
    /\ UNCHANGED <<inited, started, app_info, insVars, sess, conVars, pc, reqVars, hisVars>>

\* network_prov_mgr_endpoint_create, where it is not refused.
endpoint_create(n) ==
    /\ pc["app"] = "idle" /\ inited /\ ~started
    /\ n \notin BuiltinNames \cup Created /\ Len(custom) < MaxCustom
    /\ custom' = Append(custom, [name |-> n, handler |-> 0, ctx |-> 0])
    /\ UNCHANGED <<inited, started, app_info, insVars, sess, conVars, pc, reqVars, hisVars>>

\* network_prov_mgr_set_app_info: a section that does not fit clears the one
\* before it.
set_app_info ==
    /\ pc["app"] = "idle" /\ inited /\ ~started
    /\ app_info' \in {"own", "none"}
    /\ UNCHANGED <<inited, started, custom, insVars, sess, conVars, pc, reqVars, hisVars>>

\* A request is past the trampoline's check of this entry.
InUse(i) == pc["sh"] = "call" /\ slot = i

\* Mutant: the handler is published before its ctx.
endpoint_register_HandlerFirst(i) ==
    /\ \/ /\ pc["app"] = "idle" /\ started /\ regs < MaxRegs
          /\ regs' = regs + 1
          /\ custom' = [custom EXCEPT ![i].handler = regs + 1]
          /\ raced' = (raced \/ InUse(i))
          /\ Goto("app", IF custom[i].handler = 0 THEN "register" ELSE "replace")
       \/ /\ pc["app"] \in {"register", "replace"} /\ custom[i].handler = regs
          /\ custom' = [custom EXCEPT ![i].ctx = regs]
          /\ Goto("app", "idle")
          /\ UNCHANGED <<regs, raced>>
    /\ UNCHANGED <<inited, started, app_info, insVars, sess, conVars, reqVars, starts,
                   overtaken, wiped>>

\* network_prov_mgr_endpoint_register: ctx, then the handler, for an endpoint
\* without a handler or in place of the one it has.
endpoint_register(i) ==
    /\ \/ /\ pc["app"] = "idle" /\ started /\ regs < MaxRegs
          /\ regs' = regs + 1
          /\ custom' = [custom EXCEPT ![i].ctx = regs + 1]
          /\ raced' = (raced \/ InUse(i))
          /\ Goto("app", IF custom[i].handler = 0 THEN "register" ELSE "replace")
       \/ /\ pc["app"] \in {"register", "replace"} /\ custom[i].ctx = regs
          /\ custom' = [custom EXCEPT ![i].handler = regs]
          /\ Goto("app", "idle")
          /\ UNCHANGED <<regs, raced>>
    /\ UNCHANGED <<inited, started, app_info, insVars, sess, conVars, reqVars, starts,
                   overtaken, wiped>>

\* network_prov_mgr_endpoint_unregister: the handler, then ctx.
endpoint_unregister(i) ==
    /\ \/ /\ pc["app"] = "idle" /\ custom[i].handler # 0
          /\ custom' = [custom EXCEPT ![i].handler = 0]
          /\ raced' = (raced \/ InUse(i))
          /\ Goto("app", "unregister")
       \/ /\ pc["app"] = "unregister" /\ custom[i].handler = 0
          /\ custom' = [custom EXCEPT ![i].ctx = 0]
          /\ Goto("app", "idle")
          /\ UNCHANGED raced
    /\ UNCHANGED <<inited, started, app_info, insVars, sess, conVars, reqVars, starts, regs,
                   overtaken, wiped>>

-----------------------------------------------------------------------------
\* network_prov_mgr_start_provisioning: protocomm_new, build_version_json ...
StartNew ==
    /\ pc["app"] = "idle" /\ inited /\ ~started /\ starts < MaxStarts
    /\ starts' = starts + 1
    /\ mgr_pc' = starts + 1 /\ live' = live \cup {starts + 1}
    /\ table' = <<>> /\ version' = app_info /\ sess' = {}
    /\ Goto("app", "add")
    /\ UNCHANGED <<mgrVars, conVars, reqVars, regs, overtaken, raced, wiped>>

ToAdd == Builtins \o [i \in DOMAIN custom |-> custom[i].name]

\* add_ep
MayAdd(n) == n \notin {table[i] : i \in DOMAIN table} /\ Len(table) < MaxEndpoints

\* ... set_version, set_security, net_endpoints_init, the custom endpoints ...
StartAdd ==
    /\ pc["app"] = "add" /\ Len(table) < Len(ToAdd)
    /\ MayAdd(ToAdd[Len(table) + 1])
    /\ table' = Append(table, ToAdd[Len(table) + 1])
    /\ UNCHANGED <<mgrVars, mgr_pc, live, version, sess, conVars, pc, reqVars, hisVars>>

\* ... network_prov_console_start: the transport has its instance ...
StartScheme ==
    /\ pc["app"] = "add" /\ Len(table) = Len(ToAdd)
    /\ g_pc' = mgr_pc
    /\ wiped' = FALSE
    /\ Goto("app", "forget")
    /\ UNCHANGED <<mgrVars, insVars, sess, cur_session, have_session, reqVars, starts, regs,
                   overtaken, raced>>

\* ... no session ...
StartForget ==
    /\ pc["app"] = "forget"
    /\ have_session' = FALSE
    /\ Goto("app", "reset")
    /\ UNCHANGED <<mgrVars, insVars, sess, g_pc, cur_session, reqVars, hisVars>>

\* ... and no id; a command may have been quicker.
StartReset ==
    /\ pc["app"] = "reset"
    /\ cur_session' = 0
    /\ wiped' = (cur_session # 0 /\ (have_session \/ pc["sh"] = "confirm"))
    /\ started' = TRUE
    /\ Goto("app", "idle")
    /\ UNCHANGED <<inited, app_info, custom, insVars, sess, g_pc, have_session, reqVars,
                   starts, regs, overtaken, raced>>

\* An endpoint cannot be added, or the network's handlers not initialised:
\* unwind.
StartFails ==
    /\ pc["app"] = "add"
    /\ live' = live \ {mgr_pc} /\ mgr_pc' = 0
    /\ Goto("app", "idle")
    /\ UNCHANGED <<mgrVars, table, version, sess, conVars, reqVars, hisVars>>

InProtocomm == pc["sh"] \in {"dispatch", "handler", "trampoline", "call"}

\* do_teardown: network_prov_console_stop closes the session ...
StopClose ==
    /\ pc["app"] = "idle" /\ started
    /\ sess' = {}
    /\ overtaken' = (overtaken \/ InProtocomm)
    /\ Goto("app", "stop")
    /\ UNCHANGED <<mgrVars, insVars, conVars, reqVars, starts, regs, raced, wiped>>

\* Mutant: the instance is deleted before the transport lets go of it.
StopConsole_DeleteFirst ==
    /\ pc["app"] = "stop"
    /\ IF mgr_pc \in live THEN live' = live \ {mgr_pc} /\ UNCHANGED <<g_pc, pc, overtaken>>
       ELSE /\ g_pc' = 0 /\ UNCHANGED live
            /\ overtaken' = (overtaken \/ InProtocomm)
            /\ Goto("app", "release")
    /\ UNCHANGED <<mgrVars, mgr_pc, table, version, sess, cur_session, have_session, reqVars,
                   starts, regs, raced, wiped>>

\* ... lets go of the instance ...
StopConsole ==
    /\ pc["app"] = "stop"
    /\ g_pc' = 0
    /\ overtaken' = (overtaken \/ InProtocomm)
    /\ Goto("app", "release")
    /\ UNCHANGED <<mgrVars, insVars, sess, cur_session, have_session, reqVars, starts, regs,
                   raced, wiped>>

\* ... and forgets the session ...
StopForget ==
    /\ pc["app"] = "release"
    /\ have_session' = FALSE
    /\ Goto("app", "delete")
    /\ UNCHANGED <<mgrVars, insVars, sess, g_pc, cur_session, reqVars, hisVars>>

\* ... which protocomm_delete frees.
StopDelete ==
    /\ pc["app"] = "delete"
    /\ live' = live \ {mgr_pc} /\ mgr_pc' = 0 /\ sess' = {}
    /\ started' = FALSE
    /\ Goto("app", "idle")
    /\ UNCHANGED <<inited, app_info, custom, table, version, conVars, reqVars, hisVars>>

-----------------------------------------------------------------------------
\* cmd_net_prov: parse the arguments ...
CmdParse ==
    /\ pc["sh"] = "idle" /\ g_pc # 0
    /\ \E n \in BuiltinNames \cup Names, i \in Ids : req' = [ep |-> n, id |-> i]
    /\ Goto("sh", "session")
    /\ UNCHANGED <<mgrVars, insVars, sess, conVars, inst, slot, fn, arg, hisVars>>

\* Mutant: only the first command opens a session.
CmdSession_OnlyFirst ==
    /\ pc["sh"] = "session"
    /\ IF ~have_session
       THEN /\ sess' = IF g_pc = 0 THEN sess ELSE {req.id}
            /\ Goto("sh", "remember")
       ELSE UNCHANGED sess /\ Goto("sh", "enter")
    /\ UNCHANGED <<mgrVars, insVars, conVars, reqVars, hisVars>>

\* ... open a session for a new id (protocomm_open_session, sec0_init) ...
CmdSession ==
    /\ pc["sh"] = "session"
    /\ IF ~have_session \/ req.id # cur_session
       THEN /\ sess' = IF g_pc = 0 THEN sess ELSE {req.id}
            /\ Goto("sh", "remember")
       ELSE UNCHANGED sess /\ Goto("sh", "enter")
    /\ UNCHANGED <<mgrVars, insVars, conVars, reqVars, hisVars>>

\* ... whose id it remembers ...
CmdRemember ==
    /\ pc["sh"] = "remember"
    /\ cur_session' = req.id
    /\ wiped' = FALSE
    /\ Goto("sh", "confirm")
    /\ UNCHANGED <<mgrVars, insVars, sess, g_pc, have_session, reqVars, starts, regs,
                   overtaken, raced>>

CmdConfirm ==
    /\ pc["sh"] = "confirm"
    /\ have_session' = TRUE
    /\ Goto("sh", "enter")
    /\ UNCHANGED <<mgrVars, insVars, sess, g_pc, cur_session, reqVars, hisVars>>

\* The command returns, with an answer or an error.
Return ==
    /\ Goto("sh", "idle")
    /\ req' = NoReq /\ inst' = 0 /\ slot' = 0 /\ fn' = 0 /\ arg' = 0
    /\ overtaken' = FALSE /\ raced' = FALSE
    /\ UNCHANGED <<mgrVars, insVars, sess, conVars, starts, regs, wiped>>

\* ... and pass g_pc, which may be NULL by now, to protocomm_req_handle.
CmdEnter ==
    /\ pc["sh"] = "enter" /\ g_pc # 0
    /\ inst' = g_pc
    /\ Goto("sh", "dispatch")
    /\ UNCHANGED <<mgrVars, insVars, sess, conVars, req, slot, fn, arg, hisVars>>

CmdNoService ==
    /\ pc["sh"] = "enter" /\ g_pc = 0
    /\ Return

\* protocomm_req_handle runs no handler: ENOENT, the version, the handshake
\* (sec0_handshake keeps no state), EACCES; or the instance is gone.
Answered(n) ==
    \/ inst # mgr_pc
    \/ n \notin {table[i] : i \in DOMAIN table}
    \/ n \in {"proto-ver", "prov-session"}
    \/ sess = {}

DispatchAnswered ==
    /\ pc["sh"] = "dispatch" /\ Answered(req.ep)
    /\ Return

\* handle_data: the request goes to a built-in handler or to the trampoline.
DispatchData ==
    /\ pc["sh"] = "dispatch" /\ ~Answered(req.ep)
    /\ Goto("sh", IF req.ep \in BuiltinNames THEN "handler" ELSE "trampoline")
    /\ \E i \in 0..Len(custom) :
         /\ IF i = 0 THEN req.ep \in BuiltinNames ELSE custom[i].name = req.ep
         /\ slot' = i
    /\ UNCHANGED <<mgrVars, insVars, sess, conVars, req, inst, fn, arg, hisVars>>

\* The entry the trampoline looks at; mgr_init may have cleared it.
Entry(i) == IF i \in DOMAIN custom THEN custom[i] ELSE [name |-> "", handler |-> 0, ctx |-> 0]

\* custom_trampoline: without a handler, ENOTSUP ...
TrampolineEmpty ==
    /\ pc["sh"] = "trampoline" /\ Entry(slot).handler = 0
    /\ Return

\* ... with one ...
TrampolineCheck ==
    /\ pc["sh"] = "trampoline" /\ Entry(slot).handler # 0
    /\ fn' = Entry(slot).handler
    /\ raced' = (pc["app"] = "replace")
    /\ Goto("sh", "call")
    /\ UNCHANGED <<mgrVars, insVars, sess, conVars, req, inst, slot, arg, starts, regs,
                   overtaken, wiped>>

\* ... call it: the compiler may or may not load e->handler again.
TrampolineCall ==
    /\ pc["sh"] = "call"
    /\ fn' \in {fn, Entry(slot).handler}
    /\ arg' = Entry(slot).ctx
    /\ Goto("sh", "handler")
    /\ UNCHANGED <<mgrVars, insVars, sess, conVars, req, inst, slot, hisVars>>

\* A handler returns; its answer goes through sec0_passthrough.
HandlerReturns ==
    /\ pc["sh"] = "handler"
    /\ Return

-----------------------------------------------------------------------------
App ==
    \/ mgr_init \/ mgr_deinit \/ set_app_info
    \/ \E n \in BuiltinNames \cup Names : endpoint_create(n)
    \/ \E i \in DOMAIN custom : endpoint_register(i) \/ endpoint_unregister(i)
    \/ StartNew \/ StartAdd \/ StartScheme \/ StartForget \/ StartReset \/ StartFails
    \/ StopClose \/ StopConsole \/ StopForget \/ StopDelete

Shell ==
    \/ CmdParse \/ CmdSession \/ CmdRemember \/ CmdConfirm \/ CmdEnter \/ CmdNoService
    \/ DispatchAnswered \/ DispatchData
    \/ TrampolineEmpty \/ TrampolineCheck \/ TrampolineCall \/ HandlerReturns

Next == App \/ Shell

Spec == Init /\ [][Next]_vars

-----------------------------------------------------------------------------
\* Properties.

\* A start is never refused for its endpoints: whatever the application was
\* allowed to create, the names are distinct and fit protocomm's table
\* (network_prov_mgr_endpoint_create against add_ep).
EndpointsFit ==
    pc["app"] = "add" /\ Len(table) < Len(ToAdd) => MayAdd(ToAdd[Len(table) + 1])

\* A custom handler is called with the ctx it was registered with, and never
\* through NULL, when a request races its registration; only replacing or
\* removing a registration in use can come between the trampoline's check and
\* its call (network_prov_mgr_endpoint_register, custom_trampoline).
CtxMatches == pc["sh"] = "handler" /\ slot # 0 /\ ~raced => fn # 0 /\ fn = arg

\* A request works on an instance that is allocated, unless the transport was
\* stopped while it was already inside protocomm: one that comes between the
\* steps of a teardown finds the transport down (do_teardown, cmd_net_prov).
InstanceAlive == InProtocomm /\ ~overtaken => inst \in live /\ inst = mgr_pc

\* A data handler only runs in a session that was opened for the request's
\* own session_id and on the instance that serves it, however start, stop and
\* a change of the id come together; only a start that wipes the id of a
\* session opened before its last store can come in between (cmd_net_prov,
\* protocomm_open_session).
DataInSession == pc["sh"] \in {"handler", "trampoline", "call"} /\ ~overtaken
SessionOwnId == DataInSession /\ ~wiped => sess = {req.id}

\* A new session_id resets the session, so that a data handler never runs in
\* the session of another id (cmd_net_prov).  Does not hold of the code: a start
\* may wipe the id of a session that is open already.
NewIdNewSession == DataInSession => sess = {req.id}
=============================================================================
