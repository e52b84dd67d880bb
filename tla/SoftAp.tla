------------------------------- MODULE SoftAp -------------------------------
(***************************************************************************)
(* The SoftAP transport (protocomm_softap.c): the access point, and the    *)
(* HTTP callbacks that collect a request's body, tie it to a session by    *)
(* its cookie and hand it to protocomm.                                    *)
(*                                                                         *)
(* The HTTP server is external.  Its one thread runs the callbacks of all  *)
(* clients, one at a time; it lets one client at a time into a resource,   *)
(* shows a request's headers in the first callback only, and reports       *)
(* ABORTED when a connection that holds a resource is closed, by the       *)
(* client, after a callback's error, by its inactivity timeout or when the *)
(* server stops, which it does some time after http_server_stop.  The      *)
(* application thread starts and stops the transport meanwhile.            *)
(*                                                                         *)
(* A body is the sequence of its chunks <<request, chunk number>>.  Random *)
(* session ids are numbered, so two never coincide; 0 is no cookie.        *)
(***************************************************************************)
EXTENDS Naturals, Sequences

CONSTANTS
    Clients, NoClient,
    Resources,      \* endpoints (URIs)
    MaxChunks,      \* callbacks a body may take
    BufLen,         \* REQ_BUF_LEN, in chunks
    MaxStarts,      \* bound on the number of starts in a behaviour
    MaxRequests     \* bound on the number of HTTP requests

ASSUME SoftApConstants ==
    /\ NoClient \notin Clients
    /\ "none" \notin Resources
    /\ MaxChunks \in Nat \ {0} /\ BufLen \in Nat
    /\ MaxStarts \in Nat /\ MaxRequests \in Nat

VARIABLES
    ap, dhcp,       \* the access point is enabled, its DHCP server runs
    g_pc,           \* 0 = NULL, else the number of a start
    running,        \* the HTTP server accepts connections
    stopping,       \* http_server_stop was called, the server has yet to act
    req_buf, req_client, req_cookie, session_valid, session_id,
    sess, owner,    \* protocomm's session and the client it was opened for
    srv, cur,       \* the server thread is in a FINAL callback; whose
    conn,           \* each client's request under way; svc: the start it met
    jar,            \* each client's cookie
    app,            \* where the application thread is
    starts, reqs    \* (history) starts, requests so far

apVars == <<ap, dhcp>>
httpVars == <<running, stopping>>
bufVars == <<req_buf, req_client, req_cookie>>
sesVars == <<session_valid, session_id, sess, owner>>
srvVars == <<srv, cur>>
hisVars == <<starts, reqs>>
vars == <<apVars, g_pc, httpVars, bufVars, sesVars, srvVars, conn, jar, app, hisVars>>

NoConn == [res |-> "none"]

Init ==
    /\ ap = FALSE /\ dhcp = FALSE /\ g_pc = 0 /\ running = FALSE /\ stopping = FALSE
    /\ req_buf = <<>> /\ req_client = NoClient /\ req_cookie = 0
    /\ session_valid = FALSE /\ session_id = 0 /\ sess = 0 /\ owner = NoClient
    /\ srv = "idle" /\ cur = NoClient
    /\ conn = [c \in Clients |-> NoConn] /\ jar = [c \in Clients |-> 0]
    /\ app = "down" /\ starts = 0 /\ reqs = 0

Active(c) == conn[c] # NoConn
CloseConn(c) == conn' = [conn EXCEPT ![c] = NoConn]

-----------------------------------------------------------------------------
\* network_prov_softap_start: softap_ap_start ...
StartAp ==
    /\ app = "down" /\ starts < MaxStarts
    /\ starts' = starts + 1
    /\ dhcp' = TRUE /\ ap' = TRUE
    /\ app' = "ap"
    /\ UNCHANGED <<g_pc, httpVars, bufVars, sesVars, srvVars, conn, jar, reqs>>

\* ... which may fail before or after the DHCP server was started ...
StartApFails ==
    /\ app = "down" /\ starts < MaxStarts
    /\ starts' = starts + 1
    /\ dhcp' \in {dhcp, TRUE}
    /\ UNCHANGED <<ap, g_pc, httpVars, bufVars, sesVars, srvVars, conn, jar, app, reqs>>

\* ... then network_prov_softap_http_start.
HttpReset ==
    /\ app = "ap"
    /\ g_pc' = starts
    /\ req_buf' = <<>> /\ req_client' = NoClient /\ req_cookie' = 0
    /\ session_valid' = FALSE

StartHttp ==
    /\ HttpReset
    /\ running' = TRUE
    /\ app' = "up"
    /\ UNCHANGED <<apVars, stopping, session_id, sess, owner, srvVars, conn, jar, hisVars>>

\* http_server_start fails: the access point and g_pc stay as they are.
StartHttpFails ==
    /\ HttpReset
    /\ app' = "down"
    /\ UNCHANGED <<apVars, httpVars, session_id, sess, owner, srvVars, conn, jar, hisVars>>

\* network_prov_softap_http_stop: stop the server, drop the session ...
StopHttp ==
    /\ app = "up"
    /\ running' = FALSE /\ stopping' = TRUE
    /\ session_valid' = FALSE
    /\ app' = "stop"
    /\ UNCHANGED <<apVars, g_pc, bufVars, session_id, sess, owner, srvVars, conn, jar,
                   hisVars>>

\* ... forget the instance; softap_ap_stop; the manager deletes the instance.
StopAp ==
    /\ app = "stop"
    /\ g_pc' = 0
    /\ dhcp' = FALSE /\ ap' = FALSE
    /\ sess' = 0
    /\ app' = "down"
    /\ UNCHANGED <<httpVars, bufVars, session_valid, session_id, owner, srvVars, conn, jar,
                   hisVars>>

-----------------------------------------------------------------------------
\* A client's request on a resource nobody holds, with the cookie of its jar
\* or without, in a number of chunks.
Request(c) ==
    /\ running /\ ~stopping /\ srv = "idle" /\ ~Active(c) /\ reqs < MaxRequests
    /\ reqs' = reqs + 1
    /\ \E r \in Resources, n \in 1..MaxChunks, k \in {0, jar[c]} :
         /\ \A d \in Clients : conn[d].res # r
         /\ conn' = [conn EXCEPT ![c] =
              [res |-> r, id |-> reqs + 1, chunks |-> n, sent |-> 0, cookie |-> k,
               svc |-> starts]]
    /\ UNCHANGED <<apVars, g_pc, httpVars, bufVars, sesVars, srvVars, jar, app, starts>>

\* The server calls prov_http_handler with the next chunk of c's body.
Callback(c) == srv = "idle" /\ Active(c)

\* req_client is another client: EBUSY, and the server closes the connection.
HandlerBusy(c) ==
    /\ Callback(c) /\ req_client \notin {NoClient, c}
    /\ CloseConn(c)
    /\ UNCHANGED <<apVars, g_pc, httpVars, bufVars, sesVars, srvVars, jar, app, hisVars>>

\* The callback gets past the test of req_client.
Admitted(c) == Callback(c) /\ req_client \in {NoClient, c}

\* The body is too long: forget the request; ENOMEM, the connection is closed.
HandlerOverflow(c) ==
    /\ Admitted(c) /\ Len(req_buf) + 1 > BufLen
    /\ req_buf' = <<>> /\ req_cookie' = 0 /\ req_client' = NoClient
    /\ CloseConn(c)
    /\ UNCHANGED <<apVars, g_pc, httpVars, sesVars, srvVars, jar, app, hisVars>>

\* get_cookie_session, in the first callback and unless the server could not
\* capture the headers: what req_cookie may be after it.
Captured(c) == IF conn[c].sent = 0 THEN {conn[c].cookie, req_cookie} ELSE {req_cookie}

\* Capture the cookie and accumulate the body.
Accumulate(c) ==
    /\ Admitted(c) /\ Len(req_buf) + 1 <= BufLen
    /\ req_client' = c
    /\ req_cookie' \in Captured(c)
    /\ req_buf' = Append(req_buf, <<conn[c].id, conn[c].sent + 1>>)
    /\ conn' = [conn EXCEPT ![c].sent = @ + 1]

\* HTTP_SERVER_REQUEST_DATA_MORE
HandlerMore(c) ==
    /\ Accumulate(c) /\ conn[c].sent + 1 < conn[c].chunks
    /\ UNCHANGED <<apVars, g_pc, httpVars, sesVars, srvVars, jar, app, hisVars>>

\* HTTP_SERVER_REQUEST_DATA_FINAL
HandlerFinal(c) ==
    /\ Accumulate(c) /\ conn[c].sent + 1 = conn[c].chunks
    /\ srv' = "session" /\ cur' = c
    /\ UNCHANGED <<apVars, g_pc, httpVars, sesVars, jar, app, hisVars>>

\* start_new_session: with g_pc NULL there is nothing to open.
start_new_session ==
    /\ session_id' = session_id + 1
    /\ session_valid' = TRUE
    /\ IF g_pc = 0 THEN UNCHANGED <<sess, owner>>
                   ELSE sess' = session_id + 1 /\ owner' = cur

\* Mutant: any cookie continues a valid session.
ensure_session_AnyCookie ==
    IF req_cookie # 0 /\ session_valid
    THEN UNCHANGED sesVars ELSE start_new_session

ensure_session ==
    IF req_cookie # 0 /\ session_valid /\ req_cookie = session_id
    THEN UNCHANGED sesVars ELSE start_new_session

FinalSession ==
    /\ srv = "session"
    /\ ensure_session
    /\ req_cookie' = 0 /\ req_client' = NoClient
    /\ srv' = "handle"
    /\ UNCHANGED <<apVars, g_pc, httpVars, req_buf, cur, conn, jar, app, hisVars>>

\* protocomm_req_handle returns and the answer is sent: with the cookie, if
\* it was a success that fits; the client may be gone.
FinalReply ==
    /\ srv = "handle"
    /\ req_buf' = <<>>
    /\ jar' \in {jar} \cup IF g_pc = 0 THEN {} ELSE {[jar EXCEPT ![cur] = session_id]}
    /\ srv' = "idle" /\ cur' = NoClient
    /\ CloseConn(cur)
    /\ UNCHANGED <<apVars, g_pc, httpVars, req_client, req_cookie, sesVars, app, hisVars>>

\* Mutant: the owner is not released.
aborted_KeepsClient(c) ==
    IF req_client = c
    THEN req_buf' = <<>> /\ req_cookie' = 0 /\ UNCHANGED req_client
    ELSE UNCHANGED bufVars

\* Mutant: the body is not dropped.
aborted_KeepsBody(c) ==
    IF req_client = c
    THEN req_client' = NoClient /\ req_cookie' = 0 /\ UNCHANGED req_buf
    ELSE UNCHANGED bufVars

\* prov_http_handler with ABORTED (or COMPLETE).
aborted(c) ==
    IF req_client = c
    THEN req_buf' = <<>> /\ req_client' = NoClient /\ req_cookie' = 0
    ELSE UNCHANGED bufVars

\* The client closes its connection, or the server's inactivity timeout does.
Close(c) ==
    /\ srv = "idle" /\ Active(c)
    /\ aborted(c)
    /\ CloseConn(c)
    /\ UNCHANGED <<apVars, g_pc, httpVars, sesVars, srvVars, jar, app, hisVars>>

\* The server thread acts on http_server_stop once it has closed everyone.
ServerStops ==
    /\ srv = "idle" /\ stopping /\ \A c \in Clients : ~Active(c)
    /\ stopping' = FALSE
    /\ UNCHANGED <<apVars, g_pc, running, bufVars, sesVars, srvVars, conn, jar, app, hisVars>>

-----------------------------------------------------------------------------
App == StartAp \/ StartApFails \/ StartHttp \/ StartHttpFails \/ StopHttp \/ StopAp

Callbacks(c) == HandlerBusy(c) \/ HandlerOverflow(c) \/ HandlerMore(c) \/ HandlerFinal(c)

Next ==
    \/ App
    \/ \E c \in Clients : Request(c) \/ Callbacks(c) \/ Close(c)
    \/ FinalSession \/ FinalReply \/ ServerStops

\* The server thread finishes a callback it is in, and closes a connection
\* that stays silent.  No client is obliged to send the rest of its body.
Fairness ==
    /\ WF_vars(FinalSession) /\ WF_vars(FinalReply)
    /\ \A c \in Clients : WF_vars(Close(c))

Spec == Init /\ [][Next]_vars /\ Fairness

-----------------------------------------------------------------------------
\* Properties.

\* What protocomm is given is the whole body of one request, its chunks in
\* order and nothing else, however the callbacks of several clients, closed
\* connections and overflows come in between (req_client, req_len).  A body
\* that a stop and a start cut in two is the exception.
BodyWhole ==
    srv # "idle" /\ conn[cur].svc = starts
      => req_buf = [i \in 1..conn[cur].chunks |-> <<conn[cur].id, i>>]

\* A request runs in a session that was opened for its own client, never in
\* one it has no cookie for, also when the headers of a request could not be
\* captured after another client's request was cut off (ensure_session).
SessionOwn == srv = "handle" /\ sess # 0 => owner = cur

\* A client that stops half-way does not lock the others out for good: the
\* shared buffer is released (ABORTED callback).
NotWedged == (req_client # NoClient) ~> (req_client = NoClient)
=============================================================================
