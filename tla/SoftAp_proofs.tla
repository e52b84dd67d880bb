---------------------------- MODULE SoftAp_proofs ----------------------------
(***************************************************************************)
(* Safety of the SoftAP transport, for every set of clients and resources, *)
(* every buffer and body length and every number of starts and requests:   *)
(* what protocomm is given is the whole body of one request, in a session  *)
(* that was opened for its own client.                                     *)
(***************************************************************************)
EXTENDS SoftAp, SequenceTheorems, TLAPS

\* A request under way.
Conn == [res : Resources, id : Nat, chunks : Nat, sent : Nat, cookie : Nat, svc : Nat]

ConnOK == conn \in [Clients -> Conn \cup {NoConn}]
BufOK ==
    /\ req_buf \in Seq(Nat \X Nat)
    /\ req_client \in Clients \cup {NoClient}
    /\ req_cookie \in Nat
CountOK == session_id \in Nat /\ starts \in Nat /\ reqs \in Nat
WhoOK == cur \in Clients \cup {NoClient} /\ jar \in [Clients -> Nat]

\* The variables that the invariants below speak of have their types.
Types == ConnOK /\ BufOK /\ CountOK /\ WhoOK

\* A request under way is told from none by its resource.
LEMMA ConnActive ==
    ASSUME ConnOK, NEW c \in Clients
    PROVE  /\ Active(c) <=> conn[c] \in Conn
           /\ Active(c) => /\ conn[c].id \in Nat /\ conn[c].sent \in Nat
                           /\ conn[c].cookie \in Nat /\ conn[c].svc \in Nat
BY SoftApConstants DEF ConnOK, Active, Conn, NoConn

\* Closing a connection leaves the others as they are.
LEMMA CloseEffect ==
    ASSUME ConnOK, NEW c \in Clients, CloseConn(c)
    PROVE  /\ ConnOK'
           /\ ~Active(c)'
           /\ \A d \in Clients : d # c => conn'[d] = conn[d]
BY DEF ConnOK, CloseConn, Active

\* What one more chunk of c's body does.
LEMMA AccumulateEffect ==
    ASSUME Types, NEW c \in Clients, Accumulate(c)
    PROVE  /\ Active(c) /\ Active(c)' /\ srv = "idle"
           /\ conn[c] \in Conn
           /\ req_client \in {NoClient, c} /\ req_client' = c
           /\ req_cookie' \in {conn[c].cookie, req_cookie}
           /\ req_buf' = Append(req_buf, <<conn[c].id, conn[c].sent + 1>>)
           /\ conn'[c] \in Conn
           /\ conn'[c].sent = conn[c].sent + 1
           /\ conn'[c].id = conn[c].id /\ conn'[c].chunks = conn[c].chunks
           /\ conn'[c].cookie = conn[c].cookie /\ conn'[c].svc = conn[c].svc
           /\ \A d \in Clients : d # c => conn'[d] = conn[d]
           /\ ConnOK' /\ BufOK'
<1>1. conn[c] \in Conn
  BY ConnActive DEF Types, Accumulate, Admitted, Callback
<1>2. conn' = [conn EXCEPT ![c].sent = @ + 1]
  BY DEF Accumulate
<1>3. /\ conn'[c] = [conn[c] EXCEPT !.sent = @ + 1]
      /\ \A d \in Clients : d # c => conn'[d] = conn[d]
      /\ DOMAIN conn' = Clients
  BY <1>2 DEF Types, ConnOK
<1>4. /\ conn'[c] \in Conn
      /\ conn'[c].sent = conn[c].sent + 1
      /\ conn'[c].id = conn[c].id /\ conn'[c].chunks = conn[c].chunks
      /\ conn'[c].cookie = conn[c].cookie /\ conn'[c].svc = conn[c].svc
  BY <1>1, <1>3 DEF Conn
<1>5. ConnOK'
  BY <1>2, <1>3, <1>4 DEF Types, ConnOK
<1>6. /\ req_client \in {NoClient, c} /\ req_client' = c
      /\ req_cookie' \in {conn[c].cookie, req_cookie}
      /\ req_buf' = Append(req_buf, <<conn[c].id, conn[c].sent + 1>>)
  BY DEF Accumulate, Admitted, Captured
<1>7. BufOK'
  <2>1. <<conn[c].id, conn[c].sent + 1>> \in Nat \X Nat /\ conn[c].cookie \in Nat
    BY <1>1 DEF Conn
  <2> QED
    BY <1>6, <2>1 DEF Types, BufOK
<1>8. Active(c) /\ srv = "idle"
  BY DEF Accumulate, Admitted, Callback
<1>9. Active(c)'
  BY <1>4, SoftApConstants DEF Active, Conn, NoConn
<1> QED
  BY <1>1, <1>3, <1>4, <1>5, <1>6, <1>7, <1>8, <1>9

\* Every action keeps the types.
LEMMA TypesStep == Types /\ [Next]_vars => Types'
<1> SUFFICES ASSUME Types, [Next]_vars PROVE Types'
  OBVIOUS
<1>1. CASE StartAp
  BY <1>1 DEF StartAp, Types, ConnOK, BufOK, CountOK, WhoOK, apVars, httpVars, bufVars,
      sesVars, srvVars, hisVars
<1>2. CASE StartApFails
  BY <1>2 DEF StartApFails, Types, ConnOK, BufOK, CountOK, WhoOK, apVars, httpVars,
      bufVars, sesVars, srvVars, hisVars
<1>3. CASE StartHttp
  BY <1>3 DEF StartHttp, Types, ConnOK, BufOK, CountOK, WhoOK, HttpReset, apVars,
      httpVars, bufVars, sesVars, srvVars, hisVars
<1>4. CASE StartHttpFails
  BY <1>4 DEF StartHttpFails, Types, ConnOK, BufOK, CountOK, WhoOK, HttpReset, apVars,
      httpVars, bufVars, sesVars, srvVars, hisVars
<1>5. CASE StopHttp
  BY <1>5 DEF StopHttp, Types, ConnOK, BufOK, CountOK, WhoOK, apVars, httpVars, bufVars,
      sesVars, srvVars, hisVars
<1>6. CASE StopAp
  BY <1>6 DEF StopAp, Types, ConnOK, BufOK, CountOK, WhoOK, apVars, httpVars, bufVars,
      sesVars, srvVars, hisVars
<1>7. ASSUME NEW c \in Clients, Request(c) PROVE Types'
  <2>1. PICK r \in Resources, n \in 1..MaxChunks, k \in {0, jar[c]} :
          conn' = [conn EXCEPT ![c] =
             [res |-> r, id |-> reqs + 1, chunks |-> n, sent |-> 0, cookie |-> k,
              svc |-> starts]]
    BY <1>7 DEF Request
  <2>2. [res |-> r, id |-> reqs + 1, chunks |-> n, sent |-> 0, cookie |-> k,
         svc |-> starts] \in Conn
    BY SoftApConstants DEF Conn, Types, CountOK, WhoOK
  <2>3. ConnOK'
    BY <2>1, <2>2 DEF Types, ConnOK
  <2> QED
    BY <1>7, <2>3 DEF Request, Types, BufOK, CountOK, WhoOK, bufVars, sesVars, srvVars, hisVars
<1>8. ASSUME NEW c \in Clients, HandlerBusy(c) PROVE Types'
  BY <1>8, CloseEffect DEF HandlerBusy, Types, BufOK, CountOK, WhoOK, bufVars, sesVars,
      srvVars, hisVars
<1>9. ASSUME NEW c \in Clients, HandlerOverflow(c) PROVE Types'
  BY <1>9, CloseEffect DEF HandlerOverflow, Types, BufOK, CountOK, WhoOK, sesVars, srvVars, hisVars
<1>10. ASSUME NEW c \in Clients, HandlerMore(c) PROVE Types'
  BY <1>10, AccumulateEffect DEF HandlerMore, Types, CountOK, WhoOK, sesVars, srvVars, hisVars
<1>11. ASSUME NEW c \in Clients, HandlerFinal(c) PROVE Types'
  BY <1>11, AccumulateEffect DEF HandlerFinal, Types, CountOK, WhoOK, sesVars, srvVars, hisVars
<1>12. CASE FinalSession
  BY <1>12 DEF FinalSession, Types, ConnOK, BufOK, CountOK, WhoOK, ensure_session,
      start_new_session, apVars, httpVars, bufVars, sesVars, srvVars, hisVars
<1>13. CASE FinalReply
  <2>1. ConnOK'
    BY <1>13 DEF FinalReply, CloseConn, Types, ConnOK
  <2>2. jar' \in [Clients -> Nat]
    BY <1>13 DEF FinalReply, Types, CountOK, WhoOK
  <2> QED
    BY <1>13, <2>1, <2>2 DEF FinalReply, Types, BufOK, CountOK, WhoOK, sesVars, hisVars
<1>14. ASSUME NEW c \in Clients, Close(c) PROVE Types'
  <2>1. BufOK'
    <3>1. CASE req_client = c
      BY <1>14, <3>1 DEF Close, aborted, Types, BufOK
    <3>2. CASE req_client # c
      BY <1>14, <3>2 DEF Close, aborted, Types, BufOK, bufVars
    <3> QED
      BY <3>1, <3>2
  <2>2. ConnOK'
    BY <1>14, CloseEffect DEF Close, Types
  <2> QED
    BY <1>14, <2>1, <2>2 DEF Close, Types, CountOK, WhoOK, sesVars, srvVars, hisVars
<1>15. CASE ServerStops
  BY <1>15 DEF ServerStops, Types, ConnOK, BufOK, CountOK, WhoOK, apVars, httpVars,
      bufVars, sesVars, srvVars, hisVars
<1>16. CASE UNCHANGED vars
  BY <1>16 DEF Types, ConnOK, BufOK, CountOK, WhoOK, vars, apVars, httpVars, bufVars,
      sesVars, srvVars, hisVars
<1> QED
  BY <1>1, <1>2, <1>3, <1>4, <1>5, <1>6, <1>7, <1>8, <1>9, <1>10, <1>11, <1>12, <1>13,
      <1>14, <1>15, <1>16 DEF Next, App, Callbacks

\* ... so they hold in every reachable state.
LEMMA TypesHold == Spec => []Types
<1>1. Init => Types
  BY DEF Init, Types, ConnOK, BufOK, CountOK, WhoOK
<1> QED
  BY <1>1, TypesStep, PTL DEF Spec

-----------------------------------------------------------------------------
\* The first n chunks of the body of request g.
Body(g, n) == [i \in 1..n |-> <<g, i>>]

\* A body of the current service: not one that a restart has cut in two.
Current(c) == Active(c) /\ conn[c].svc = starts

\* Who holds the shared buffer: the client whose body is being collected, or
\* the one whose request is being handled.
Holds(c) == req_client = c \/ (srv # "idle" /\ cur = c)

\* BodyWhole made inductive.  The buffer has an owner while it is not empty,
\* the owner is connected, a restart resets the buffer before requests of the
\* new service arrive, and whoever does not hold the buffer has sent nothing.
Buffer ==
    /\ srv \in {"idle", "session", "handle"}
    /\ running => app = "up"
    /\ req_client = NoClient /\ srv = "idle" => req_buf = << >>
    /\ req_client # NoClient => Active(req_client)
    /\ srv = "session" => req_client \in {NoClient, cur}
    /\ srv = "handle" => req_client = NoClient
    /\ srv # "idle" => /\ cur \in Clients /\ Active(cur)
                       /\ conn[cur].sent = conn[cur].chunks
    /\ \A c \in Clients : Active(c) =>
         conn[c].svc <= starts /\ (app = "ap" => conn[c].svc < starts)
    /\ \A c \in Clients : Current(c) /\ Holds(c) =>
         req_buf = Body(conn[c].id, conn[c].sent)
    /\ \A c \in Clients : Current(c) /\ ~Holds(c) => conn[c].sent = 0

\* One more chunk.
LEMMA BodyAppend ==
    ASSUME NEW g \in Nat, NEW n \in Nat
    PROVE  Append(Body(g, n), <<g, n + 1>>) = Body(g, n + 1)
<1>1. /\ Body(g, n) \in Seq(Nat \X Nat) /\ Len(Body(g, n)) = n
      /\ \A i \in 1..n : Body(g, n)[i] = <<g, i>>
  BY DEF Body
<1>2. /\ Append(Body(g, n), <<g, n + 1>>) \in Seq(Nat \X Nat)
      /\ Len(Append(Body(g, n), <<g, n + 1>>)) = n + 1
      /\ \A i \in 1..n : Append(Body(g, n), <<g, n + 1>>)[i] = Body(g, n)[i]
      /\ Append(Body(g, n), <<g, n + 1>>)[n + 1] = <<g, n + 1>>
  BY <1>1
<1>3. \A i \in 1..n + 1 : Append(Body(g, n), <<g, n + 1>>)[i] = <<g, i>>
  <2> TAKE i \in 1..n + 1
  <2>1. i \in 1..n \/ i = n + 1
    OBVIOUS
  <2> QED
    BY <1>1, <1>2, <2>1
<1>4. /\ Body(g, n + 1) \in Seq(Nat \X Nat) /\ Len(Body(g, n + 1)) = n + 1
      /\ \A i \in 1..n + 1 : Body(g, n + 1)[i] = <<g, i>>
  BY DEF Body
<1> QED
  BY <1>2, <1>3, <1>4, SeqEqual

\* The empty body.
LEMMA BodyEmpty == \A g \in Nat : Body(g, 0) = << >>
BY DEF Body

\* A chunk is appended to the part of the body that is there already.
LEMMA AccumulateBody ==
    ASSUME Types, Buffer, NEW c \in Clients, Accumulate(c), conn[c].svc = starts
    PROVE  req_buf' = Body(conn[c].id, conn[c].sent + 1)
<1> USE AccumulateEffect
<1>1. Current(c) /\ srv = "idle" /\ conn[c].id \in Nat /\ conn[c].sent \in Nat
  BY DEF Accumulate, Admitted, Callback, Current, Conn
<1>2. req_buf = Body(conn[c].id, conn[c].sent)
  <2>1. CASE req_client = c
    BY <1>1, <2>1 DEF Buffer, Holds
  <2>2. CASE req_client # c
    BY <1>1, <2>2, BodyEmpty, SoftApConstants DEF Buffer, Holds
  <2> QED
    BY <2>1, <2>2
<1> QED
  BY <1>1, <1>2, BodyAppend

\* A restart empties the buffer when every request under way is an old one.
LEMMA ResetBuffer ==
    ASSUME Types, Buffer, HttpReset, UNCHANGED <<srvVars, conn, starts>>,
           app' # "ap", running' => app' = "up"
    PROVE  Buffer'
<1>1. \A c \in Clients : Active(c)' <=> Active(c)
  BY DEF Active
<1>2. \A c \in Clients : ~Current(c)'
  BY <1>1, ConnActive DEF Types, CountOK, Buffer, HttpReset, Current
<1>3. srv # "idle" => /\ cur' \in Clients /\ Active(cur)'
                      /\ conn'[cur'].sent = conn'[cur'].chunks
  BY DEF Buffer, Active, srvVars
<1> QED
  BY <1>1, <1>2, <1>3 DEF Buffer, HttpReset, srvVars

\* Every action keeps the buffer with its owner (prov_http_handler).
LEMMA BufferStep == Types /\ Buffer /\ [Next]_vars => Buffer'
<1> SUFFICES ASSUME Types, Buffer, [Next]_vars PROVE Buffer'
  OBVIOUS
<1>1. CASE StartAp
  <2>1. \A c \in Clients : (Active(c)' <=> Active(c)) /\ ~Current(c)'
    BY <1>1, ConnActive DEF StartAp, Types, CountOK, Buffer, Active, Current
  <2> QED
    BY <1>1, <2>1, ConnActive DEF StartAp, Types, CountOK, Buffer, Active, httpVars,
        bufVars, srvVars
<1>2. CASE StartApFails
  <2>1. \A c \in Clients : (Active(c)' <=> Active(c)) /\ ~Current(c)'
    BY <1>2, ConnActive DEF StartApFails, Types, CountOK, Buffer, Active, Current
  <2> QED
    BY <1>2, <2>1, ConnActive DEF StartApFails, Types, CountOK, Buffer, Active,
        httpVars, bufVars, srvVars
<1>3. CASE StartHttp
  BY <1>3, ResetBuffer DEF StartHttp, hisVars
<1>4. CASE StartHttpFails
  BY <1>4, ResetBuffer DEF StartHttpFails, HttpReset, Buffer, httpVars, hisVars
<1>5. CASE StopHttp
  BY <1>5, SoftApConstants DEF StopHttp, Types, Buffer, Current, Holds, Active, apVars,
      httpVars, bufVars, sesVars, srvVars, hisVars
<1>6. CASE StopAp
  BY <1>6, SoftApConstants DEF StopAp, Types, Buffer, Current, Holds, Active, apVars,
      httpVars, bufVars, sesVars, srvVars, hisVars
<1>7. ASSUME NEW c \in Clients, Request(c) PROVE Buffer'
  <2>1. PICK r \in Resources, n \in 1..MaxChunks, k \in {0, jar[c]} :
          conn' = [conn EXCEPT ![c] =
             [res |-> r, id |-> reqs + 1, chunks |-> n, sent |-> 0, cookie |-> k,
              svc |-> starts]]
    BY <1>7 DEF Request
  <2>2. /\ conn'[c].svc = starts /\ conn'[c].sent = 0
        /\ \A d \in Clients : d # c => conn'[d] = conn[d]
    BY <2>1 DEF Types, ConnOK
  <2>3. /\ srv = "idle" /\ ~Active(c) /\ app = "up" /\ starts' = starts /\ app' = app
        /\ UNCHANGED <<httpVars, bufVars, srvVars>>
    BY <1>7 DEF Request, Buffer
  <2>4. \A d \in Clients : d # c => (Active(d)' <=> Active(d)) /\ (Current(d)' <=> Current(d))
    BY <2>2, <2>3 DEF Active, Current
  <2>5. req_client # c /\ \A d \in Clients : Holds(d)' <=> Holds(d)
    BY <2>3, SoftApConstants DEF Buffer, Holds, bufVars, srvVars
  <2>6. ~Holds(c)
    BY <2>3, <2>5 DEF Holds
  <2>7. \A d \in Clients : Current(d)' /\ Holds(d)' =>
           req_buf' = Body(conn'[d].id, conn'[d].sent)
    BY <2>2, <2>3, <2>4, <2>5, <2>6 DEF Buffer, bufVars
  <2>8. \A d \in Clients : Current(d)' /\ ~Holds(d)' => conn'[d].sent = 0
    BY <2>2, <2>4, <2>5 DEF Buffer
  <2>9. \A d \in Clients : Active(d)' =>
          conn'[d].svc <= starts' /\ (app' = "ap" => conn'[d].svc < starts')
    BY <2>2, <2>3, <2>4 DEF Buffer, Types, CountOK
  <2> QED
    BY <2>3, <2>4, <2>5, <2>7, <2>8, <2>9 DEF Types, BufOK, Buffer, httpVars, bufVars, srvVars
<1>8. ASSUME NEW c \in Clients, HandlerBusy(c) PROVE Buffer'
  BY <1>8, SoftApConstants DEF HandlerBusy, Types, Buffer, Current, Holds, Active,
      Callback, CloseConn, apVars, httpVars, bufVars, sesVars, srvVars, hisVars
<1>9. ASSUME NEW c \in Clients, HandlerOverflow(c) PROVE Buffer'
  <2>1. CloseConn(c) /\ srv = "idle" /\ Active(c)
    BY <1>9 DEF HandlerOverflow, Admitted, Callback
  <2>2. ~Active(c)' /\ \A d \in Clients : d # c => conn'[d] = conn[d]
    BY <2>1, CloseEffect DEF Types
  <2>3. \A d \in Clients : d # c => (Active(d)' <=> Active(d)) /\ (Current(d)' <=> Current(d))
    BY <1>9, <2>2 DEF HandlerOverflow, Active, Current, hisVars
  <2>4. \A d \in Clients : Current(d)' => d # c
    BY <2>2 DEF Current
  <2>5. /\ req_client' = NoClient /\ req_buf' = << >> /\ req_client \in {NoClient, c}
        /\ UNCHANGED <<httpVars, srvVars, app, hisVars>>
    BY <1>9 DEF HandlerOverflow, Admitted
  <2>6. \A d \in Clients : ~Holds(d)' /\ (d # c => ~Holds(d))
    BY <2>1, <2>5, SoftApConstants DEF Holds, srvVars
  <2>7. \A d \in Clients : Current(d)' /\ ~Holds(d)' => conn'[d].sent = 0
    BY <2>2, <2>3, <2>4, <2>6 DEF Buffer
  <2>8. \A d \in Clients : Active(d)' =>
          conn'[d].svc <= starts' /\ (app' = "ap" => conn'[d].svc < starts')
    BY <2>2, <2>3, <2>5 DEF Buffer, hisVars
  <2> QED
    BY <2>1, <2>5, <2>6, <2>7, <2>8 DEF Buffer, httpVars, srvVars
<1>10. ASSUME NEW c \in Clients, HandlerMore(c) PROVE Buffer'
  <2> USE AccumulateEffect
  <2>1. Accumulate(c) /\ starts' = starts /\ app' = app /\ running' = running
    BY <1>10 DEF HandlerMore, httpVars, hisVars
  <2>2. /\ \A d \in Clients : Active(d)' <=> Active(d)
        /\ \A d \in Clients : conn'[d].svc = conn[d].svc
    BY <2>1 DEF Active
  <2>3. \A d \in Clients : Current(d)' <=> Current(d)
    BY <2>1, <2>2 DEF Current
  <2>4. \A d \in Clients : Holds(d)' <=> d = c
    BY <1>10, <2>1, SoftApConstants DEF HandlerMore, Holds, srvVars
  <2>5. \A d \in Clients : Current(d)' /\ Holds(d)' =>
           req_buf' = Body(conn'[d].id, conn'[d].sent)
    BY <2>1, <2>3, <2>4, AccumulateBody DEF Current
  <2>6. \A d \in Clients : Current(d)' /\ ~Holds(d)' => conn'[d].sent = 0
    BY <2>1, <2>3, <2>4, SoftApConstants DEF Buffer, Holds
  <2> QED
    BY <1>10, <2>1, <2>2, <2>5, <2>6, SoftApConstants DEF HandlerMore, Buffer, srvVars, hisVars
<1>11. ASSUME NEW c \in Clients, HandlerFinal(c) PROVE Buffer'
  <2> USE AccumulateEffect
  <2>1. Accumulate(c) /\ starts' = starts /\ app' = app /\ running' = running
    BY <1>11 DEF HandlerFinal, httpVars, hisVars
  <2>2. /\ \A d \in Clients : Active(d)' <=> Active(d)
        /\ \A d \in Clients : conn'[d].svc = conn[d].svc
    BY <2>1 DEF Active
  <2>3. \A d \in Clients : Current(d)' <=> Current(d)
    BY <2>1, <2>2 DEF Current
  <2>4. \A d \in Clients : Holds(d)' <=> d = c
    BY <1>11, <2>1, SoftApConstants DEF HandlerFinal, Holds, srvVars
  <2>5. \A d \in Clients : Current(d)' /\ Holds(d)' =>
           req_buf' = Body(conn'[d].id, conn'[d].sent)
    BY <2>1, <2>3, <2>4, AccumulateBody DEF Current
  <2>6. \A d \in Clients : Current(d)' /\ ~Holds(d)' => conn'[d].sent = 0
    BY <2>1, <2>3, <2>4, SoftApConstants DEF Buffer, Holds
  <2> QED
    BY <1>11, <2>1, <2>2, <2>5, <2>6, SoftApConstants DEF HandlerFinal, Buffer, srvVars, hisVars
<1>12. CASE FinalSession
  BY <1>12, SoftApConstants DEF FinalSession, Types, Buffer, Current, Holds, Active,
      ensure_session, start_new_session, apVars, httpVars, bufVars, sesVars, srvVars,
      hisVars
<1>13. CASE FinalReply
  <2>1. /\ cur \in Clients /\ CloseConn(cur) /\ req_client = NoClient /\ req_client' = NoClient
        /\ srv' = "idle" /\ req_buf' = << >> /\ starts' = starts /\ app' = app /\ running' = running
    BY <1>13 DEF FinalReply, Buffer, httpVars, hisVars
  <2>2. conn'[cur] = NoConn /\ \A d \in Clients : d # cur => conn'[d] = conn[d]
    BY <2>1 DEF Types, ConnOK, CloseConn
  <2>3. \A d \in Clients : Active(d)' => d # cur /\ Active(d)
    BY <2>2 DEF Active
  <2>4. \A d \in Clients : Current(d)' => ~Holds(d)' /\ Current(d) /\ ~Holds(d)
    BY <2>1, <2>2, <2>3, SoftApConstants DEF Current, Holds
  <2>5. \A d \in Clients : Current(d)' => conn'[d].sent = 0
    BY <2>2, <2>3, <2>4 DEF Buffer, Current
  <2>6. \A d \in Clients : Active(d)' =>
          conn'[d].svc <= starts' /\ (app' = "ap" => conn'[d].svc < starts')
    BY <2>1, <2>2, <2>3 DEF Buffer
  <2> QED
    BY <2>1, <2>4, <2>5, <2>6 DEF Buffer
<1>14. ASSUME NEW c \in Clients, Close(c) PROVE Buffer'
  <2>1. CloseConn(c) /\ srv = "idle" /\ Active(c)
    BY <1>14 DEF Close
  <2>2. ~Active(c)' /\ \A d \in Clients : d # c => conn'[d] = conn[d]
    BY <2>1, CloseEffect DEF Types
  <2>3. \A d \in Clients : d # c => (Active(d)' <=> Active(d)) /\ (Current(d)' <=> Current(d))
    BY <1>14, <2>2 DEF Close, Active, Current, hisVars
  <2>4. \A d \in Clients : Current(d)' => d # c
    BY <2>2 DEF Current
  <2>5. /\ req_client' \in {NoClient, req_client} /\ req_client' # c
        /\ req_client' = NoClient => req_buf' = << >>
        /\ req_client' # NoClient => req_buf' = req_buf
        /\ req_client # c => req_client' = req_client
    BY <1>14, <2>1, SoftApConstants DEF Close, aborted, bufVars, Buffer
  <2>6. \A d \in Clients : Current(d)' /\ Holds(d)' =>
           req_buf' = Body(conn'[d].id, conn'[d].sent)
    BY <1>14, <2>2, <2>3, <2>4, <2>5, SoftApConstants DEF Close, Buffer, Holds, srvVars
  <2>7. \A d \in Clients : Current(d)' /\ ~Holds(d)' => conn'[d].sent = 0
    BY <1>14, <2>1, <2>2, <2>3, <2>4, <2>5, SoftApConstants DEF Close, Buffer, Holds, srvVars
  <2> QED
    BY <1>14, <2>1, <2>2, <2>3, <2>5, <2>6, <2>7 DEF Close, Types, BufOK, Buffer,
        httpVars, srvVars, hisVars
<1>15. CASE ServerStops
  BY <1>15, SoftApConstants DEF ServerStops, Types, Buffer, Current, Holds, Active,
      apVars, httpVars, bufVars, sesVars, srvVars, hisVars
<1>16. CASE UNCHANGED vars
  BY <1>16, SoftApConstants DEF Types, Buffer, Current, Holds, Active, vars, apVars,
      httpVars, bufVars, sesVars, srvVars, hisVars
<1> QED
  BY <1>1, <1>2, <1>3, <1>4, <1>5, <1>6, <1>7, <1>8, <1>9, <1>10, <1>11, <1>12, <1>13,
      <1>14, <1>15, <1>16 DEF Next, App, Callbacks

\* What protocomm is given is the whole body of one request and nothing else,
\* unless a stop and a start came between its parts.
THEOREM BodiesAreWhole == Spec => []BodyWhole
<1>1. Init => Buffer
  BY DEF Init, Buffer, Current, Active
<1>2. Types /\ Buffer => BodyWhole
  BY ConnActive DEF Types, Buffer, BodyWhole, Body, Current, Holds
<1> QED
  BY <1>1, <1>2, BufferStep, TypesHold, PTL DEF Spec

-----------------------------------------------------------------------------
\* Client c may present the cookie k: if it is the one of the session that is
\* open, the session is c's.
Rightful(c, k) ==
    /\ k <= session_id
    /\ k # 0 /\ k = session_id /\ sess # 0 => owner = c

\* SessionOwn made inductive: nobody holds, sends or has latched a cookie of
\* somebody else's session.
Cookies ==
    /\ app = "ap" => starts # 0
    /\ g_pc = 0 => sess = 0
    /\ sess # 0 => sess = session_id
    /\ req_client = NoClient => req_cookie = 0
    /\ req_client # NoClient => Rightful(req_client, req_cookie)
    /\ \A c \in Clients : Rightful(c, jar[c])
    /\ \A c \in Clients : Active(c) => Rightful(c, conn[c].cookie)
    /\ srv = "handle" /\ sess # 0 => owner = cur

\* Every action keeps cookies with their owners (ensure_session,
\* start_new_session).
LEMMA CookiesStep == Types /\ Buffer /\ Cookies /\ [Next]_vars => Cookies'
<1> SUFFICES ASSUME Types, Buffer, Cookies, [Next]_vars PROVE Cookies'
  OBVIOUS
<1>1. CASE StartAp
  BY <1>1, SoftApConstants DEF StartAp, Types, CountOK, Buffer, Cookies, Rightful, Active,
      apVars, httpVars, bufVars, sesVars, srvVars, hisVars
<1>2. CASE StartApFails
  BY <1>2, SoftApConstants DEF StartApFails, Types, Buffer, Cookies, Rightful, Active,
      apVars, httpVars, bufVars, sesVars, srvVars, hisVars
<1>3. CASE StartHttp
  <2>1. /\ g_pc' = starts /\ starts # 0 /\ starts' = starts /\ app' # "ap"
        /\ req_client' = NoClient /\ req_cookie' = 0
        /\ UNCHANGED <<session_id, sess, owner, srv, cur, conn, jar>>
    BY <1>3 DEF StartHttp, HttpReset, Cookies, srvVars, hisVars
  <2> QED
    BY <2>1 DEF Cookies, Rightful, Active
<1>4. CASE StartHttpFails
  <2>1. /\ g_pc' = starts /\ starts # 0 /\ starts' = starts /\ app' # "ap"
        /\ req_client' = NoClient /\ req_cookie' = 0
        /\ UNCHANGED <<session_id, sess, owner, srv, cur, conn, jar>>
    BY <1>4 DEF StartHttpFails, HttpReset, Cookies, srvVars, hisVars
  <2> QED
    BY <2>1 DEF Cookies, Rightful, Active
<1>5. CASE StopHttp
  BY <1>5, SoftApConstants DEF StopHttp, Types, Buffer, Cookies, Rightful, Active,
      apVars, httpVars, bufVars, sesVars, srvVars, hisVars
<1>6. CASE StopAp
  BY <1>6, SoftApConstants DEF StopAp, Types, Buffer, Cookies, Rightful, Active, apVars,
      httpVars, bufVars, sesVars, srvVars, hisVars
<1>7. ASSUME NEW c \in Clients, Request(c) PROVE Cookies'
  <2>1. PICK r \in Resources, n \in 1..MaxChunks, k \in {0, jar[c]} :
          conn' = [conn EXCEPT ![c] =
             [res |-> r, id |-> reqs + 1, chunks |-> n, sent |-> 0, cookie |-> k,
              svc |-> starts]]
    BY <1>7 DEF Request
  <2>2. conn'[c].cookie = k /\ \A d \in Clients : d # c => conn'[d] = conn[d]
    BY <2>1 DEF Types, ConnOK
  <2>3. UNCHANGED <<g_pc, req_client, req_cookie, session_id, sess, owner, srv, cur, jar,
                    app, starts>>
    BY <1>7 DEF Request, bufVars, sesVars, srvVars
  <2>4. \A d \in Clients : \A m : Rightful(d, m)' <=> Rightful(d, m)
    BY <2>3 DEF Rightful
  <2>5. Rightful(c, k)
    BY DEF Cookies, Rightful, Types, CountOK
  <2>6. \A d \in Clients : Active(d)' => Rightful(d, conn'[d].cookie)
    BY <2>2, <2>5 DEF Cookies, Active
  <2> QED
    BY <2>3, <2>4, <2>6 DEF Cookies, Types, BufOK
<1>8. ASSUME NEW c \in Clients, HandlerBusy(c) PROVE Cookies'
  BY <1>8, SoftApConstants DEF HandlerBusy, Types, Buffer, Cookies, Rightful, Active,
      Callback, CloseConn, apVars, httpVars, bufVars, sesVars, srvVars, hisVars
<1>9. ASSUME NEW c \in Clients, HandlerOverflow(c) PROVE Cookies'
  BY <1>9, SoftApConstants DEF HandlerOverflow, Types, Buffer, Cookies, Rightful,
      Active, Admitted, Callback, CloseConn, apVars, httpVars, bufVars, sesVars,
      srvVars, hisVars
<1>10. ASSUME NEW c \in Clients, HandlerMore(c) PROVE Cookies'
  <2>1. /\ Accumulate(c)
        /\ UNCHANGED <<g_pc, session_id, sess, owner, jar, app, starts>>
    BY <1>10 DEF HandlerMore, sesVars, hisVars
  <2>2. \A d \in Clients : \A m : Rightful(d, m)' <=> Rightful(d, m)
    BY <2>1 DEF Rightful
  <2>3. \A d \in Clients : conn'[d].cookie = conn[d].cookie /\ (Active(d)' <=> Active(d))
    BY <2>1, AccumulateEffect DEF Active
  <2>4. Rightful(c, req_cookie')
    <3>1. req_cookie' \in {conn[c].cookie, req_cookie} /\ req_client \in {NoClient, c} /\ Active(c)
      BY <2>1, AccumulateEffect
    <3>2. Rightful(c, 0)
      BY DEF Rightful, Types, CountOK
    <3> QED
      BY <3>1, <3>2, SoftApConstants DEF Cookies
  <2>5. req_client' = c /\ srv' # "handle" /\ c # NoClient
    BY <1>10, <2>1, AccumulateEffect, SoftApConstants DEF HandlerMore, srvVars
  <2> QED
    BY <2>1, <2>2, <2>3, <2>4, <2>5 DEF Cookies
<1>11. ASSUME NEW c \in Clients, HandlerFinal(c) PROVE Cookies'
  <2>1. /\ Accumulate(c)
        /\ UNCHANGED <<g_pc, session_id, sess, owner, jar, app, starts>>
    BY <1>11 DEF HandlerFinal, sesVars, hisVars
  <2>2. \A d \in Clients : \A m : Rightful(d, m)' <=> Rightful(d, m)
    BY <2>1 DEF Rightful
  <2>3. \A d \in Clients : conn'[d].cookie = conn[d].cookie /\ (Active(d)' <=> Active(d))
    BY <2>1, AccumulateEffect DEF Active
  <2>4. Rightful(c, req_cookie')
    <3>1. req_cookie' \in {conn[c].cookie, req_cookie} /\ req_client \in {NoClient, c} /\ Active(c)
      BY <2>1, AccumulateEffect
    <3>2. Rightful(c, 0)
      BY DEF Rightful, Types, CountOK
    <3> QED
      BY <3>1, <3>2, SoftApConstants DEF Cookies
  <2>5. req_client' = c /\ srv' # "handle" /\ c # NoClient
    BY <1>11, <2>1, AccumulateEffect, SoftApConstants DEF HandlerFinal, srvVars
  <2> QED
    BY <2>1, <2>2, <2>3, <2>4, <2>5 DEF Cookies
<1>12. CASE FinalSession
  <2>1. /\ srv = "session" /\ srv' = "handle" /\ req_cookie' = 0 /\ req_client' = NoClient
        /\ UNCHANGED <<g_pc, cur, conn, jar, app, starts>> /\ ensure_session
    BY <1>12 DEF FinalSession, hisVars
  <2>2. CASE UNCHANGED sesVars /\ req_cookie # 0 /\ req_cookie = session_id
    <3>1. req_client = cur /\ Rightful(cur, req_cookie)
      BY <2>1, <2>2 DEF Buffer, Cookies
    <3> QED
      BY <2>1, <2>2, <3>1 DEF Cookies, Rightful, Active, sesVars
  <2>3. CASE start_new_session
    <3>1. session_id' = session_id + 1 /\ session_id \in Nat
      BY <2>3 DEF start_new_session, Types, CountOK
    <3>2. sess' # 0 => sess' = session_id' /\ owner' = cur' /\ g_pc' # 0
      BY <2>1, <2>3 DEF start_new_session, Cookies
    <3>3. \A d \in Clients, m \in Nat : m <= session_id => Rightful(d, m)'
      BY <3>1 DEF Rightful
    <3>4. \A d \in Clients : Rightful(d, jar[d])'
      BY <2>1, <3>3 DEF Cookies, Rightful, Types, WhoOK
    <3>5. \A d \in Clients : Active(d)' => Rightful(d, conn[d].cookie)'
      BY <2>1, <3>3, ConnActive DEF Cookies, Rightful, Types, Active
    <3> QED
      BY <2>1, <3>2, <3>4, <3>5 DEF Cookies
  <2> QED
    BY <2>1, <2>2, <2>3 DEF ensure_session
<1>13. CASE FinalReply
  <2>1. /\ cur \in Clients /\ CloseConn(cur) /\ srv' = "idle"
        /\ req_client = NoClient /\ srv = "handle"
        /\ UNCHANGED <<g_pc, req_client, req_cookie, session_id, sess, owner, app, starts>>
        /\ jar' = jar \/ jar' = [jar EXCEPT ![cur] = session_id]
    BY <1>13 DEF FinalReply, Buffer, sesVars, hisVars
  <2>2. \A d \in Clients : \A m : Rightful(d, m)' <=> Rightful(d, m)
    BY <2>1 DEF Rightful
  <2>3. \A d \in Clients : Rightful(d, jar'[d])
    <3>1. Rightful(cur, session_id)
      BY <2>1 DEF Cookies, Rightful, Types, CountOK
    <3> QED
      BY <2>1, <3>1 DEF Cookies, Types, WhoOK
  <2>4. \A d \in Clients : Active(d)' => Active(d) /\ conn'[d] = conn[d]
    BY <2>1 DEF CloseConn, Types, ConnOK, Active
  <2> QED
    BY <2>1, <2>2, <2>3, <2>4 DEF Cookies
<1>14. ASSUME NEW c \in Clients, Close(c) PROVE Cookies'
  BY <1>14, SoftApConstants DEF Close, Types, Buffer, Cookies, Rightful, Active,
      aborted, CloseConn, apVars, httpVars, bufVars, sesVars, srvVars, hisVars
<1>15. CASE ServerStops
  BY <1>15, SoftApConstants DEF ServerStops, Types, Buffer, Cookies, Rightful, Active,
      apVars, httpVars, bufVars, sesVars, srvVars, hisVars
<1>16. CASE UNCHANGED vars
  BY <1>16, SoftApConstants DEF Types, Buffer, Cookies, Rightful, Active, vars, apVars,
      httpVars, bufVars, sesVars, srvVars, hisVars
<1> QED
  BY <1>1, <1>2, <1>3, <1>4, <1>5, <1>6, <1>7, <1>8, <1>9, <1>10, <1>11, <1>12, <1>13,
      <1>14, <1>15, <1>16 DEF Next, App, Callbacks

\* A request runs in a session that was opened for its own client.
THEOREM SessionsAreOwn == Spec => []SessionOwn
<1>1. Init => Buffer /\ Cookies
  BY DEF Init, Buffer, Cookies, Rightful, Current, Active
<1>2. Cookies => SessionOwn
  BY DEF Cookies, SessionOwn
<1> QED
  BY <1>1, <1>2, BufferStep, CookiesStep, TypesHold, PTL DEF Spec
=============================================================================
