--------------------------- MODULE Session_proofs ---------------------------
(***************************************************************************)
(* Safety of the Security 1 session, for every set of clients, every       *)
(* number of handshakes and every number of messages in transit: the peer  *)
(* of an established session has proved possession under the key in use,   *)
(* and both ends stay at the same offset of the shared keystream, so that  *)
(* no handler runs on a garbled request and no client reads a garbled      *)
(* answer.                                                                 *)
(***************************************************************************)
EXTENDS Session, TLAPS

Kinds == {"cmd0", "cmd1", "resp0", "resp1", "data", "err"}

\* The sets of security contexts, client states and messages.
Context == [state : {"none", "init", "cmd0", "done"}, peer : 0..runs,
            slot : 0..derived, key : Key, pos : Nat]

State == [phase : {"off", "wait0", "wait1", "up", "wait", "failed"},
          run : 0..runs, token : 0..runs, key : Key, pos : 0..MaxPos]

Message == [to : {"device", "client"}, c : Clients, run : 1..runs, token : 1..runs,
            kind : Kinds, key : Key, pos : Nat, len : {0, 1}, peer : 0..runs]

DeviceTypes ==
    /\ cur \in 0..runs /\ derived \in Nat /\ runs \in 0..MaxRuns
    /\ ctx \in Context /\ keys \subseteq 1..derived

\* A client that has begun has a run and a transport session, and one that
\* waits for an answer has left room for it in the keystream.
ClientTypes ==
    /\ cl \in [Clients -> State]
    /\ \A c \in Clients :
         /\ cl[c].phase # "off" \/ cl[c].run # 0 => cl[c].run # 0 /\ cl[c].token # 0
         /\ cl[c].phase = "wait1" => cl[c].pos = 1
         /\ cl[c].phase = "wait" => cl[c].pos < MaxPos

\* TypeOK made inductive.
Types == DeviceTypes /\ ClientTypes /\ net \subseteq Message /\ intact \in BOOLEAN

\* Response0 carries a key of its client, and Command1 proves one, under the
\* right PoP only for a client that knows it.
Vouched(m) ==
    /\ m.kind = "resp0" => m.key # NoKey /\ m.key.c = m.c
    /\ m.kind = "cmd1" => m.key # NoKey /\ (m.key.pop = TRUE => m.key.c \in Knows)

\* ProvenPeer made inductive: the device's key is derived with the PoP and
\* still in its slot, and every proof in transit is its sender's own.
Proof ==
    /\ ctx.key # NoKey => ctx.key.pop = TRUE /\ ctx.key.n \in keys
    /\ \A m \in net : Vouched(m)
    /\ ProvenPeer

\* Transport sessions and runs belong to one client each, and a message in
\* transit that has the client's current session is of its current run, and
\* the other way round.
Routed ==
    /\ \A c, d \in Clients :
         /\ cl[c].token = cl[d].token /\ cl[c].token # 0 => c = d
         /\ cl[c].run = cl[d].run /\ cl[c].run # 0 => c = d
    /\ \A c \in Clients, m \in net :
         m.token = cl[c].token \/ m.run = cl[c].run
           => m.c = c /\ m.token = cl[c].token /\ m.run = cl[c].run

\* At most one message of a transport session is in transit, and none while
\* the client is free to send.
Solo ==
    /\ \A m, o \in net : m.token = o.token => m = o
    /\ \A c \in Clients, m \in net : cl[c].phase = "up" => m.token # cl[c].token

\* The messages of the established session the device serves stand where its
\* keystream stands: a request at its offset, an answer just before it.
Aligned ==
    ctx.state = "done" =>
      \A m \in net : m.token = cur =>
        /\ m.kind = "data" /\ m.to = "device" => m.key = ctx.key /\ m.pos = ctx.pos
        /\ m.kind = "data" /\ m.to = "client" => m.key = ctx.key /\ m.pos + m.len = ctx.pos
        /\ m.kind = "resp1" => m.key = ctx.key /\ m.pos + 1 = ctx.pos

\* A client that waits for an answer stands just after its request, and where
\* the answer was encrypted.
Expecting ==
    \A c \in Clients, m \in net :
      m.run = cl[c].run /\ cl[c].phase = "wait" /\ m.kind = "data" =>
        /\ m.to = "device" => m.key = cl[c].key /\ m.pos + m.len = cl[c].pos
        /\ m.to = "client" /\ (m.len = 1 \/ (m.token = cur /\ ctx.state = "done"))
             => m.key = cl[c].key /\ m.pos = cl[c].pos

Stepping == Aligned /\ Expecting /\ LockStep /\ RequestIntact

-----------------------------------------------------------------------------
\* Types.

\* The invariant gives every variable its type.
LEMMA TypesImply == Types => TypeOK
<1> SUFFICES ASSUME Types PROVE TypeOK
  OBVIOUS
<1>1. \A m \in net : m.key \in Key /\ m.pos \in Nat
  BY DEF Types, Message
<1> QED
  BY <1>1 DEF Types, TypeOK, DeviceTypes, ClientTypes, Context, State

\* The numbers of keys and of runs only grow, and with them the sets.
LEMMA Grows ==
    ASSUME Types, derived' \in Nat, derived <= derived', runs' \in Nat, runs <= runs'
    PROVE  Key \subseteq Key' /\ State \subseteq State' /\ Message \subseteq Message'
<1>1. derived \in Nat /\ runs \in Nat
  BY SessionConstants DEF Types, DeviceTypes
<1>2. 0..runs \subseteq 0..runs' /\ 1..runs \subseteq 1..runs' /\ 1..derived \subseteq 1..derived'
  BY <1>1
<1>3. Key \subseteq Key'
  BY <1>2 DEF Key
<1> QED
  BY <1>2, <1>3 DEF State, Message

\* A step that leaves the clients alone keeps their types.
LEMMA ClientsStay ==
    ASSUME Types, derived' \in Nat, derived <= derived', runs' = runs, cl' = cl
    PROVE  ClientTypes'
<1>1. runs \in Nat
  BY SessionConstants DEF Types, DeviceTypes
<1>2. State \subseteq State'
  BY <1>1, Grows
<1> QED
  BY <1>2 DEF Types, ClientTypes

\* A message that is taken out of transit leaves messages.
LEMMA Taken ==
    ASSUME Types, derived' = derived, runs' = runs, net' \subseteq net
    PROVE  net' \subseteq Message'
<1>1. runs \in Nat /\ derived \in Nat
  BY SessionConstants DEF Types, DeviceTypes
<1>2. Message \subseteq Message'
  BY <1>1, Grows
<1> QED
  BY <1>2 DEF Types

\* A response takes the place of the request it answers.
LEMMA Responded ==
    ASSUME Types, derived' \in Nat, derived <= derived', runs' = runs,
           NEW m \in net, NEW kind \in Kinds, NEW key \in Key', NEW pos \in Nat,
           NEW len \in {0, 1}, net' = (net \ {m}) \cup {Response(m, kind, key, pos, len)}
    PROVE  net' \subseteq Message'
<1>1. runs \in Nat
  BY SessionConstants DEF Types, DeviceTypes
<1>2. Message \subseteq Message' /\ m \in Message
  BY <1>1, Grows DEF Types
<1>3. ctx.peer \in 0..runs
  BY DEF Types, DeviceTypes, Context
<1>4. Response(m, kind, key, pos, len) \in Message'
  BY <1>2, <1>3 DEF Response, Message
<1> QED
  BY <1>2, <1>4 DEF Types

\* An error takes the place of the request it answers.
LEMMA Refused ==
    ASSUME Types, derived' \in Nat, derived <= derived', runs' = runs,
           NEW m \in net, Refuse(m)
    PROVE  net' \subseteq Message'
<1>1. NoKey \in Key'
  BY DEF Key
<1> QED
  BY <1>1, Responded DEF Refuse, Kinds

\* An answer takes the place of the request it answers and moves the
\* keystream on.
LEMMA AnswerTypes ==
    ASSUME Types, derived' = derived, runs' = runs,
           NEW m \in net, NEW p \in Nat, Answer(m, p)
    PROVE  net' \subseteq Message' /\ ctx' \in Context'
<1>1. derived \in Nat /\ Key' = Key /\ ctx \in Context
  BY DEF Types, DeviceTypes, Key
<1>2. ctx.key \in Key'
  BY <1>1 DEF Context
<1>3. ASSUME NEW len \in Lens,
             net' = (net \ {m}) \cup {Response(m, "data", ctx.key, p, len)},
             ctx' = [ctx EXCEPT !.pos = p + len]
      PROVE  net' \subseteq Message' /\ ctx' \in Context'
  <2>1. len \in {0, 1} /\ p + len \in Nat
    BY SessionConstants
  <2>2. net' \subseteq Message'
    BY <1>1, <1>2, <1>3, <2>1, Responded DEF Kinds
  <2> QED
    BY <1>1, <1>3, <2>1, <2>2 DEF Context
<1>4. CASE Refuse(m) /\ ctx' = [ctx EXCEPT !.pos = p]
  <2>1. net' \subseteq Message'
    BY <1>1, <1>4, Refused
  <2> QED
    BY <1>1, <1>4, <2>1 DEF Context
<1> QED
  BY <1>3, <1>4 DEF Answer

\* Opening and closing a transport session keeps the types.
LEMMA SessionTypes ==
    ASSUME Types, (\E m \in Requests : open_session(m.token)) \/ close_session
    PROVE  Types'
<1>1. derived' = derived /\ runs' = runs /\ cl' = cl /\ net' = net /\ intact' = intact
  BY DEF open_session, close_session
<1>2. derived \in Nat /\ Key' = Key /\ NoKey \in Key
  BY <1>1 DEF Types, DeviceTypes, Key
<1>3. ClientTypes' /\ net' \subseteq Message'
  BY <1>1, <1>2, ClientsStay, Taken
<1>4. NoCtx \in Context' /\ [NoCtx EXCEPT !.state = "init"] \in Context'
  BY <1>1, <1>2, SessionConstants DEF NoCtx, Context, Types, DeviceTypes
<1>5. ctx' \in Context'
  BY <1>4 DEF open_session, close_session, sec1_init
<1>6. cur' \in 0..runs
  BY SessionConstants DEF open_session, close_session, Requests, Types, DeviceTypes, Message
<1>7. keys' \subseteq keys
  BY DEF open_session, close_session, sec1_cleanup
<1>8. intact' \in BOOLEAN
  BY <1>1 DEF Types
<1> QED
  BY <1>1, <1>3, <1>5, <1>6, <1>7, <1>8 DEF Types, DeviceTypes

\* So does every handler of the device.
LEMMA HandlerTypes ==
    ASSUME Types, NEW m \in Requests, protocomm_req_handle(m)
    PROVE  Types'
<1> USE DEF Types, DeviceTypes
<1>0. m \in net /\ m \in Message /\ ctx \in Context /\ derived \in Nat /\ runs \in Nat
  BY SessionConstants DEF Requests
<1>1. cur' = cur /\ cl' = cl /\ runs' = runs
  BY DEF protocomm_req_handle, sec1_handshake, handle_cmd0, Cmd0Fails, Cmd1Verified,
         Cmd1Mismatch, HandshakeRefused, handle_data, EmptyRequest, DataRefused, devVars
<1>2. intact' \in BOOLEAN
  BY Zenon DEF protocomm_req_handle, sec1_handshake, handle_cmd0, Cmd0Fails, Cmd1Verified,
         Cmd1Mismatch, HandshakeRefused, handle_data, EmptyRequest, DataRefused, InStepWith
<1>3. ASSUME derived' = derived, keys' = keys, ctx' \in Context, net' \subseteq Message'
      PROVE  Types'
  <2>1. ctx' \in Context'
    BY <1>1, <1>3 DEF Context, Key
  <2>2. ClientTypes'
    BY <1>0, <1>1, <1>3, ClientsStay
  <2> QED
    BY <1>1, <1>2, <1>3, <2>1, <2>2
<1>4. ASSUME derived' = derived + 1, keys' = keys \cup {derived + 1}, ctx' \in Context',
             net' \subseteq Message'
      PROVE  Types'
  <2>1. ClientTypes'
    BY <1>0, <1>1, <1>4, ClientsStay
  <2> QED
    BY <1>0, <1>1, <1>2, <1>4, <2>1
<1>5. NoKey \in Key'
  BY DEF Key
<1>6. CASE handle_cmd0(m)
  <2>1. DeviceKey(m) \in Key'
    BY <1>0, <1>1, <1>6 DEF handle_cmd0, DeviceKey, Key, Message
  <2>2. Armed(m) \in Context'
    BY <1>0, <1>1, <1>6, <2>1 DEF handle_cmd0, Armed, Context, Message
  <2>3. net' \subseteq Message'
    BY <1>0, <1>1, <1>6, <2>1, Responded, Refused DEF handle_cmd0, Kinds
  <2> QED
    BY <1>4, <1>6, <2>2, <2>3 DEF handle_cmd0
<1>7. CASE Cmd0Fails(m)
  <2>1. m.run \in 0..runs
    BY <1>0 DEF Message
  <2>2. net' \subseteq Message'
    BY <1>0, <1>1, <1>7, Refused DEF Cmd0Fails
  <2>3. CASE /\ ctx' \in {[ctx EXCEPT !.peer = m.run], [ctx EXCEPT !.peer = m.run, !.slot = 0]}
             /\ UNCHANGED <<keys, derived>>
    <3>1. ctx' = [state |-> ctx.state, peer |-> m.run, slot |-> ctx.slot, key |-> ctx.key,
                  pos |-> ctx.pos]
            \/ ctx' = [state |-> ctx.state, peer |-> m.run, slot |-> 0, key |-> ctx.key,
                       pos |-> ctx.pos]
      BY <1>0, <2>3 DEF Context
    <3>2. ctx' \in Context
      BY <1>0, <2>1, <3>1 DEF Context
    <3> QED
      BY <1>3, <2>2, <2>3, <3>2
  <2>4. CASE /\ ctx' = [ctx EXCEPT !.peer = m.run, !.slot = derived + 1, !.key = NoKey,
                                   !.pos = 0]
             /\ keys' = keys \cup {derived + 1}
             /\ derived' = derived + 1
    <3>1. ctx' = [state |-> ctx.state, peer |-> m.run, slot |-> derived + 1, key |-> NoKey,
                  pos |-> 0]
      BY <1>0, <2>4 DEF Context
    <3>2. derived + 1 \in 0..derived' /\ m.run \in 0..runs'
            /\ ctx.state \in {"none", "init", "cmd0", "done"}
      BY <1>0, <1>1, <2>1, <2>4 DEF Context
    <3>3. ctx' \in Context'
      BY <1>5, <3>1, <3>2 DEF Context
    <3> QED
      BY <1>4, <2>2, <2>4, <3>3
  <2> QED
    BY <1>7, <2>3, <2>4 DEF Cmd0Fails
<1>8. CASE Cmd1Verified(m)
  <2>0. ctx' = [state |-> "done", peer |-> ctx.peer, slot |-> ctx.slot, key |-> ctx.key,
                pos |-> ctx.pos + 2]
    BY <1>0, <1>8 DEF Cmd1Verified, Context
  <2>1. ctx' \in Context
    BY <1>0, <2>0 DEF Context
  <2>2. ctx.key \in Key' /\ ctx.pos + 1 \in Nat
    BY <1>0, <1>1, <1>8 DEF Cmd1Verified, Context, Key
  <2>3. net' \subseteq Message'
    BY <1>0, <1>1, <1>8, <2>2, Responded, Refused DEF Cmd1Verified, Kinds
  <2> QED
    BY <1>3, <1>8, <2>1, <2>3 DEF Cmd1Verified
<1>9. CASE Cmd1Mismatch(m)
  <2>1. ctx' \in Context
    BY <1>0, <1>9 DEF Cmd1Mismatch, Context
  <2>2. net' \subseteq Message'
    BY <1>0, <1>1, <1>9, Refused DEF Cmd1Mismatch
  <2> QED
    BY <1>3, <1>9, <2>1, <2>2 DEF Cmd1Mismatch
<1>10. CASE HandshakeRefused(m) \/ DataRefused(m)
  <2>1. Refuse(m) /\ UNCHANGED devVars
    BY <1>10 DEF HandshakeRefused, DataRefused
  <2>2. net' \subseteq Message'
    BY <1>0, <1>1, <2>1, Refused DEF devVars
  <2> QED
    BY <1>3, <1>0, <2>1, <2>2 DEF devVars
<1>11. CASE handle_data(m)
  <2>1. ctx.pos + 1 \in Nat
    BY <1>0 DEF Context
  <2>2. net' \subseteq Message' /\ ctx' \in Context'
    BY <1>0, <1>1, <1>11, <2>1, AnswerTypes DEF handle_data
  <2>3. ctx' \in Context
    BY <1>1, <1>11, <2>2 DEF handle_data, Context, Key
  <2> QED
    BY <1>3, <1>11, <2>2, <2>3 DEF handle_data
<1>12. CASE EmptyRequest(m)
  <2>1. ctx.pos \in Nat
    BY <1>0 DEF Context
  <2>2. net' \subseteq Message' /\ ctx' \in Context'
    BY <1>0, <1>1, <1>12, <2>1, AnswerTypes DEF EmptyRequest
  <2>3. ctx' \in Context
    BY <1>1, <1>12, <2>2 DEF EmptyRequest, Context, Key
  <2> QED
    BY <1>3, <1>12, <2>2, <2>3 DEF EmptyRequest
<1> QED
  BY <1>6, <1>7, <1>8, <1>9, <1>10, <1>11, <1>12 DEF protocomm_req_handle, sec1_handshake

\* A client's request is a message.
LEMMA RequestTypes ==
    ASSUME NEW c \in Clients, NEW r, NEW kind \in Kinds, NEW key \in Key', NEW pos \in Nat,
           NEW len \in {0, 1}, runs' \in Nat, r.run \in 1..runs', r.token \in 1..runs'
    PROVE  Request(c, r, kind, key, pos, len) \in Message'
<1>1. 0 \in 0..runs'
  OBVIOUS
<1> QED
  BY <1>1 DEF Request, Message

\* A client that sends keeps the types.
LEMMA Sent ==
    ASSUME Types, derived' = derived, runs' \in 0..MaxRuns, runs <= runs',
           UNCHANGED <<devVars, intact>>,
           NEW c \in Clients, NEW r \in State', NEW m \in Message', NEW S \in SUBSET net,
           cl' = [cl EXCEPT ![c] = r], net' = S \cup {m},
           r.run # 0 /\ r.token # 0,
           r.phase = "wait1" => r.pos = 1,
           r.phase = "wait" => r.pos < MaxPos
    PROVE  Types'
<1>1. runs \in Nat /\ runs' \in Nat /\ derived \in Nat
  BY SessionConstants DEF Types, DeviceTypes
<1>2. State \subseteq State' /\ Message \subseteq Message' /\ Key \subseteq Key'
  BY <1>1, Grows
<1>3. ClientTypes'
  BY <1>2 DEF Types, ClientTypes
<1>4. net' \subseteq Message'
  BY <1>2 DEF Types
<1>5. ctx \in Context'
  BY <1>1, <1>2 DEF devVars, Types, DeviceTypes, Context
<1>6. DeviceTypes'
  BY <1>1, <1>5 DEF devVars, Types, DeviceTypes
<1>7. intact' \in BOOLEAN
  BY DEF Types
<1> QED
  BY <1>3, <1>4, <1>6, <1>7 DEF Types

\* A client that only receives keeps the types.
LEMMA Received ==
    ASSUME Types, UNCHANGED <<devVars, runs, intact>>, net' \subseteq net,
           NEW c \in Clients, NEW r \in State, cl' = [cl EXCEPT ![c] = r],
           r.phase \notin {"off", "wait1", "wait"}, r.run # 0 /\ r.token # 0
    PROVE  Types'
<1>1. Key' = Key /\ State' = State /\ Context' = Context /\ Message' = Message
  BY DEF devVars, Key, State, Context, Message
<1>2. ClientTypes'
  BY <1>1 DEF Types, ClientTypes
<1>3. DeviceTypes'
  BY <1>1 DEF devVars, Types, DeviceTypes
<1>4. intact' \in BOOLEAN
  BY DEF Types
<1> QED
  BY <1>1, <1>2, <1>3, <1>4 DEF Types

\* Every step of a client keeps the types.
LEMMA ClientStepTypes ==
    ASSUME Types, NEW c \in Clients, Client(c)
    PROVE  Types'
<1>0. cl[c] \in State /\ runs \in Nat /\ derived \in Nat /\ NoKey \in Key /\ MaxPos \in Nat
  BY SessionConstants DEF Types, DeviceTypes, ClientTypes, Key
<1>1. CASE ClientCmd0(c)
  <2>1. derived' = derived /\ runs' = runs + 1 /\ runs' \in 0..MaxRuns
    BY <1>0, <1>1, SessionConstants DEF ClientCmd0, devVars
  <2>2. PICK t \in {runs + 1} \cup ({cl[c].token} \ {0}) :
          LET r == [phase |-> "wait0", run |-> runs + 1, token |-> t, key |-> NoKey, pos |-> 0]
          IN  Send(c, r, Request(c, r, "cmd0", NoKey, 0, 1))
    BY <1>1 DEF ClientCmd0
  <2> DEFINE r == [phase |-> "wait0", run |-> runs + 1, token |-> t, key |-> NoKey, pos |-> 0]
             m == Request(c, r, "cmd0", NoKey, 0, 1)
  <2>3. t \in 1..runs' /\ runs + 1 \in 1..runs' /\ NoKey \in Key'
    BY <1>0, <2>1 DEF State, Key
  <2>4. r \in State'
    BY <1>0, <2>3 DEF State
  <2>5. m \in Message'
    BY <1>0, <2>1, <2>3, RequestTypes DEF Kinds
  <2>6. cl' = [cl EXCEPT ![c] = r] /\ net' = net \cup {m}
    BY <2>2 DEF Send
  <2>7. r.phase = "wait0" /\ r.run # 0 /\ r.token # 0
    BY <1>0, <2>3
  <2>8. UNCHANGED <<devVars, intact>>
    BY <1>1 DEF ClientCmd0
  <2> HIDE DEF r, m
  <2>12. net \in SUBSET net /\ runs <= runs'
    BY <1>0, <2>1
  <2> QED
    BY <2>12, <1>0, <2>1, <2>4, <2>5, <2>6, <2>7, <2>8, Sent
<1>2. CASE ClientData(c)
  <2>1. derived' = derived /\ runs' = runs /\ Key' = Key /\ State' = State
    BY <1>2 DEF ClientData, devVars, Key, State
  <2>2. PICK len \in Lens :
          Send(c, [cl[c] EXCEPT !.phase = "wait", !.pos = @ + len],
               Request(c, cl[c], "data", cl[c].key, cl[c].pos, len))
    BY <1>2 DEF ClientData
  <2> DEFINE r == [cl[c] EXCEPT !.phase = "wait", !.pos = @ + len]
             m == Request(c, cl[c], "data", cl[c].key, cl[c].pos, len)
  <2>3. len \in {0, 1}
    BY SessionConstants
  <2>4. cl[c].run \in 1..runs /\ cl[c].token \in 1..runs /\ cl[c].pos + 2 <= MaxPos
    BY <1>0, <1>2 DEF ClientData, Types, ClientTypes, State
  <2>5. cl[c].key \in Key /\ cl[c].pos \in Nat
    BY <1>0 DEF State
  <2>6. r = [phase |-> "wait", run |-> cl[c].run, token |-> cl[c].token, key |-> cl[c].key,
             pos |-> cl[c].pos + len]
    <3>1. PICK s \in State : s = cl[c]
      BY <1>0
    <3>2. PICK x : x = [s EXCEPT !.phase = "wait", !.pos = @ + len]
      OBVIOUS
    <3>3. x = [phase |-> "wait", run |-> s.run, token |-> s.token, key |-> s.key,
               pos |-> s.pos + len]
      BY <3>2 DEF State
    <3> QED
      BY <3>1, <3>2, <3>3
  <2>7. r \in State'
    BY <1>0, <2>1, <2>3, <2>4, <2>5, <2>6 DEF State
  <2>8. m \in Message'
    BY <1>0, <2>1, <2>3, <2>4, <2>5, RequestTypes DEF Kinds
  <2>9. cl' = [cl EXCEPT ![c] = r] /\ net' = net \cup {m}
    BY <2>2 DEF Send
  <2>10. r.phase = "wait" /\ r.run # 0 /\ r.token # 0 /\ r.pos < MaxPos
    BY <1>0, <2>3, <2>4, <2>5, <2>6
  <2>11. UNCHANGED <<devVars, intact>> /\ runs' \in 0..MaxRuns
    BY <1>2 DEF ClientData, Types, DeviceTypes
  <2> HIDE DEF r, m
  <2>12. net \in SUBSET net /\ runs <= runs'
    BY <1>0, <2>1
  <2> QED
    BY <2>12, <1>0, <2>1, <2>7, <2>8, <2>9, <2>10, <2>11, Sent
<1>3. ASSUME NEW m \in net, RecvResp0(c, m) PROVE Types'
  <2> DEFINE k == [m.key EXCEPT !.pop = (c \in Knows)]
             r == [cl[c] EXCEPT !.phase = "wait1", !.key = k, !.pos = 1]
             q == Request(c, cl[c], "cmd1", k, 0, 1)
  <2>1. derived' = derived /\ runs' = runs /\ Key' = Key /\ State' = State
    BY <1>3 DEF RecvResp0, devVars, Key, State
  <2>2. k \in Key
    <3>1. (c \in Knows) = TRUE \/ (c \in Knows) = FALSE
      OBVIOUS
    <3>2. m.key \in Key
      BY DEF Types, Message
    <3>3. CASE m.key = NoKey
      BY <3>3, <1>0 DEF NoKey
    <3>4. CASE m.key \in [n : 1..derived, c : Clients, run : 1..runs, pop : BOOLEAN]
      BY <3>1, <3>4 DEF Key
    <3> QED
      BY <3>2, <3>3, <3>4 DEF Key
  <2>3. cl[c].run \in 1..runs /\ cl[c].token \in 1..runs
    BY <1>0, <1>3 DEF RecvResp0, Awaits, Types, ClientTypes, State
  <2>4. r = [phase |-> "wait1", run |-> cl[c].run, token |-> cl[c].token, key |-> k, pos |-> 1]
    <3>1. PICK s \in State : s = cl[c]
      BY <1>0
    <3>2. PICK x : x = [s EXCEPT !.phase = "wait1", !.key = k, !.pos = 1]
      OBVIOUS
    <3>3. x = [phase |-> "wait1", run |-> s.run, token |-> s.token, key |-> k, pos |-> 1]
      <4> HIDE DEF k
      <4> QED
        BY <3>2 DEF State
    <3> QED
      BY <3>1, <3>2, <3>3
  <2>5. r \in State'
    BY <1>0, <2>1, <2>2, <2>3, <2>4, SessionConstants DEF State
  <2>6. q \in Message'
    BY <1>0, <2>1, <2>2, <2>3, RequestTypes DEF Kinds
  <2>7. cl' = [cl EXCEPT ![c] = r] /\ net' = (net \ {m}) \cup {q}
    BY <1>3 DEF RecvResp0
  <2>8. r.phase = "wait1" /\ r.run # 0 /\ r.token # 0 /\ r.pos = 1
    BY <1>0, <2>3, <2>4
  <2>9. UNCHANGED <<devVars, intact>> /\ runs' \in 0..MaxRuns
    BY <1>3 DEF RecvResp0, Types, DeviceTypes
  <2> HIDE DEF r, q
  <2>12. net \ {m} \in SUBSET net /\ runs <= runs'
    BY <1>0, <2>1
  <2> QED
    BY <2>12, <1>0, <2>1, <2>5, <2>6, <2>7, <2>8, <2>9, Sent
<1>4. ASSUME NEW m \in net, RecvResp1(c, m) PROVE Types'
  <2>1. PICK s \in State : s = cl[c]
    BY <1>0
  <2>2. s.run # 0 /\ s.token # 0 /\ s.phase = "wait1" /\ s.pos = 1
    BY <1>4, <2>1 DEF RecvResp1, Awaits, Types, ClientTypes
  <2>3. PICK r \in State : /\ cl' = [cl EXCEPT ![c] = r] /\ r.phase \in {"up", "failed"}
                           /\ r.run = s.run /\ r.token = s.token
    <3>1. CASE cl' = [cl EXCEPT ![c].phase = "failed"]
      <4>1. PICK r : r = [s EXCEPT !.phase = "failed"]
        OBVIOUS
      <4>2. r \in State /\ r.phase = "failed" /\ r.run = s.run /\ r.token = s.token
        BY <4>1 DEF State
      <4>3. cl' = [cl EXCEPT ![c] = r]
        BY <2>1, <3>1, <4>1
      <4> QED
        BY <4>2, <4>3
    <3>2. CASE cl' = [cl EXCEPT ![c].phase = "up", ![c].pos = @ + 1]
      <4>1. PICK r : r = [s EXCEPT !.phase = "up", !.pos = s.pos + 1]
        OBVIOUS
      <4>2. s.pos + 1 \in 0..MaxPos
        BY <2>2, SessionConstants
      <4>3. r \in State /\ r.phase = "up" /\ r.run = s.run /\ r.token = s.token
        BY <4>1, <4>2 DEF State
      <4>4. cl' = [cl EXCEPT ![c] = r]
        BY <1>0, <2>1, <3>2, <4>1 DEF State, Types, ClientTypes
      <4> QED
        BY <4>3, <4>4
    <3> QED
      BY <1>4, <3>1, <3>2 DEF RecvResp1
  <2>5. UNCHANGED <<devVars, runs, intact>> /\ net' \subseteq net
    BY <1>4 DEF RecvResp1
  <2> QED
    BY <2>2, <2>3, <2>5, Received
<1>5. ASSUME NEW m \in net, RecvData(c, m) PROVE Types'
  <2>1. PICK s \in State : s = cl[c]
    BY <1>0
  <2>2. s.run # 0 /\ s.token # 0 /\ s.pos < MaxPos /\ m.len \in {0, 1}
    BY <1>5, <2>1 DEF RecvData, Awaits, Types, ClientTypes, Message
  <2>3. PICK r : cl' = [cl EXCEPT ![c] = r] /\ r = [s EXCEPT !.phase = "up", !.pos = s.pos + m.len]
    BY <1>0, <1>5, <2>1 DEF RecvData, State
  <2>4. s.pos + m.len \in 0..MaxPos
    BY <1>0, <2>2 DEF State
  <2>5. r \in State /\ r.phase = "up" /\ r.run = s.run /\ r.token = s.token
    BY <2>3, <2>4 DEF State
  <2>6. UNCHANGED <<devVars, runs, intact>> /\ net' \subseteq net
    BY <1>5 DEF RecvData
  <2> QED
    BY <2>2, <2>3, <2>5, <2>6, Received
<1>6. ASSUME NEW m \in net, RecvErr(c, m) PROVE Types'
  <2>1. PICK s \in State : s = cl[c]
    BY <1>0
  <2>2. s.run # 0
    BY <1>6, <2>1 DEF RecvErr, Types, Message
  <2>3. s.token # 0
    BY <2>1, <2>2 DEF Types, ClientTypes
  <2>5. PICK r : cl' = [cl EXCEPT ![c] = r] /\ r = [s EXCEPT !.phase = "failed"]
    BY <1>0, <1>6, <2>1 DEF RecvErr, State
  <2>6. r \in State /\ r.phase = "failed" /\ r.run = s.run /\ r.token = s.token
    BY <2>5 DEF State
  <2>7. UNCHANGED <<devVars, runs, intact>> /\ net' \subseteq net
    BY <1>6 DEF RecvErr
  <2> QED
    BY <2>2, <2>3, <2>5, <2>6, <2>7, Received
<1>7. CASE Timeout(c)
  <2>1. PICK s \in State : s = cl[c]
    BY <1>0
  <2>2. s.run # 0 /\ s.token # 0
    BY <1>7, <2>1 DEF Timeout, Types, ClientTypes
  <2>3. PICK r : cl' = [cl EXCEPT ![c] = r] /\ r = [s EXCEPT !.phase = "failed"]
    BY <1>0, <1>7, <2>1 DEF Timeout, State
  <2>4. r \in State /\ r.phase = "failed" /\ r.run = s.run /\ r.token = s.token
    BY <2>3 DEF State
  <2>5. UNCHANGED <<devVars, runs, intact>> /\ net' \subseteq net
    BY <1>7 DEF Timeout
  <2> QED
    BY <2>2, <2>3, <2>4, <2>5, Received
<1> QED
  BY <1>1, <1>2, <1>3, <1>4, <1>5, <1>6, <1>7 DEF Client

\* Every step keeps the types.
LEMMA TypesStep == Types /\ [Next]_vars => Types'
<1> SUFFICES ASSUME Types, [Next]_vars PROVE Types'
  OBVIOUS
<1>1. CASE UNCHANGED vars
  <2>1. Key' = Key
    BY <1>1 DEF vars, Key
  <2> QED
    BY <1>1, <2>1 DEF vars, Types, DeviceTypes, ClientTypes, Context, State, Message
<1>2. ASSUME NEW m \in net, Lose(m) PROVE Types'
  <2>1. net' \subseteq net /\ UNCHANGED <<devVars, cl, runs, intact>>
    BY <1>2 DEF Lose
  <2>2. Key' = Key /\ State' = State /\ Context' = Context /\ Message' = Message
    BY <2>1 DEF devVars, Key, State, Context, Message
  <2>3. intact' \in BOOLEAN
    BY <2>1 DEF Types
  <2> QED
    BY <2>1, <2>2, <2>3 DEF devVars, Types, DeviceTypes, ClientTypes
<1> QED
  BY <1>1, <1>2, SessionTypes, HandlerTypes, ClientStepTypes DEF Next, Device

\* The types hold initially.
LEMMA TypesInit == Init => Types
<1> SUFFICES ASSUME Init PROVE Types
  OBVIOUS
<1>1. NoKey \in Key
  BY DEF Key
<1>2. 0 \in 0..runs /\ 0 \in 0..derived /\ 0 \in 0..MaxPos /\ 0 \in 0..MaxRuns
  BY SessionConstants DEF Init
<1>3. ctx \in Context
  BY <1>1, <1>2 DEF Init, NoCtx, Context
<1>4. cl \in [Clients -> State]
  BY <1>1, <1>2 DEF Init, State
<1> QED
  BY <1>2, <1>3, <1>4 DEF Init, Types, DeviceTypes, ClientTypes

\* Every variable has its type in every reachable state: sec1_handshake and
\* handle_data leave a whole context, clients stay within their keystream.
THEOREM TypeCorrect == Spec => []TypeOK
BY TypesInit, TypesStep, TypesImply, PTL DEF Spec

-----------------------------------------------------------------------------
\* Proof of possession.

\* A response goes to the sender of the request, in its run and session.
LEMMA ResponseFields ==
    ASSUME Types, NEW m \in net, NEW kind, NEW key, NEW pos, NEW len, NEW r,
           r = Response(m, kind, key, pos, len)
    PROVE  /\ r.to = "client" /\ r.c = m.c /\ r.run = m.run /\ r.token = m.token
           /\ r.kind = kind /\ r.key = key /\ r.pos = pos /\ r.len = len
<1>1. m \in Message
  BY DEF Types
<1> QED
  BY <1>1 DEF Response, Message

\* A request is its sender's, of its run and session.
LEMMA RequestFields ==
    ASSUME NEW c, NEW r, NEW kind, NEW key, NEW pos, NEW len, NEW m,
           m = Request(c, r, kind, key, pos, len)
    PROVE  /\ m.to = "device" /\ m.c = c /\ m.run = r.run /\ m.token = r.token
           /\ m.kind = kind /\ m.key = key /\ m.pos = pos /\ m.len = len
BY DEF Request

\* What a handshake's first request does.
LEMMA Cmd0Effect ==
    ASSUME Types, NEW c \in Clients, ClientCmd0(c)
    PROVE  /\ \A d \in Clients \ {c} : cl'[d] = cl[d]
           /\ cl'[c].phase = "wait0" /\ cl'[c].run = runs + 1
           /\ \/ cl'[c].token = runs + 1
              \/ /\ cl'[c].token = cl[c].token /\ cl[c].token # 0
                 /\ \A x \in net : x.token # cl[c].token
           /\ \E m : /\ net' = net \cup {m} /\ m.to = "device" /\ m.kind = "cmd0" /\ m.c = c
                     /\ m.run = cl'[c].run /\ m.token = cl'[c].token
<1>1. PICK t \in {runs + 1} \cup {u \in {cl[c].token} \ {0} : \A m \in net : m.token # u} :
        LET r == [phase |-> "wait0", run |-> runs + 1, token |-> t, key |-> NoKey, pos |-> 0]
        IN  Send(c, r, Request(c, r, "cmd0", NoKey, 0, 1))
  BY DEF ClientCmd0
<1>2. PICK r : r = [phase |-> "wait0", run |-> runs + 1, token |-> t, key |-> NoKey, pos |-> 0]
  OBVIOUS
<1>3. PICK m : m = Request(c, r, "cmd0", NoKey, 0, 1)
  OBVIOUS
<1>4. cl' = [cl EXCEPT ![c] = r] /\ net' = net \cup {m}
  BY <1>1, <1>2, <1>3 DEF Send
<1>5. cl'[c] = r /\ \A d \in Clients \ {c} : cl'[d] = cl[d]
  BY <1>4 DEF Types, ClientTypes
<1>6. /\ m.to = "device" /\ m.c = c /\ m.kind = "cmd0" /\ m.run = r.run /\ m.token = r.token
  BY <1>3, RequestFields
<1>7. r.phase = "wait0" /\ r.run = runs + 1 /\ r.token = t
  BY <1>2
<1> QED
  BY <1>1, <1>4, <1>5, <1>6, <1>7

\* What a data request does.
LEMMA DataEffect ==
    ASSUME Types, NEW c \in Clients, ClientData(c)
    PROVE  /\ \A d \in Clients \ {c} : cl'[d] = cl[d]
           /\ cl[c].phase = "up" /\ cl'[c].phase = "wait" /\ cl'[c].key = cl[c].key
           /\ cl'[c].run = cl[c].run /\ cl'[c].token = cl[c].token
           /\ \E m : /\ net' = net \cup {m} /\ m.to = "device" /\ m.kind = "data" /\ m.c = c
                     /\ m.run = cl[c].run /\ m.token = cl[c].token
                     /\ m.key = cl[c].key /\ m.pos = cl[c].pos /\ cl'[c].pos = m.pos + m.len
<1>1. PICK len \in Lens :
        Send(c, [cl[c] EXCEPT !.phase = "wait", !.pos = @ + len],
             Request(c, cl[c], "data", cl[c].key, cl[c].pos, len))
  BY DEF ClientData
<1>2. PICK s \in State : s = cl[c]
  BY DEF Types, ClientTypes
<1>3. PICK r : r = [s EXCEPT !.phase = "wait", !.pos = @ + len]
  OBVIOUS
<1>4. /\ r.phase = "wait" /\ r.run = s.run /\ r.token = s.token /\ r.key = s.key
      /\ r.pos = s.pos + len
  BY <1>3 DEF State
<1>5. PICK m : m = Request(c, s, "data", s.key, s.pos, len)
  OBVIOUS
<1>6. cl' = [cl EXCEPT ![c] = r] /\ net' = net \cup {m}
  BY <1>1, <1>2, <1>3, <1>5 DEF Send
<1>7. cl'[c] = r /\ \A d \in Clients \ {c} : cl'[d] = cl[d]
  BY <1>6 DEF Types, ClientTypes
<1>8. /\ m.to = "device" /\ m.c = c /\ m.kind = "data" /\ m.run = s.run /\ m.token = s.token
      /\ m.key = s.key /\ m.pos = s.pos /\ m.len = len
  BY <1>5, RequestFields
<1>9. cl[c].phase = "up"
  BY DEF ClientData
<1> QED
  BY <1>2, <1>4, <1>6, <1>7, <1>8, <1>9

\* The key a client derives from Response0.
ClientKey(c, m) == [m.key EXCEPT !.pop = (c \in Knows)]

\* What a client does with Response0.
LEMMA Resp0Effect ==
    ASSUME Types, NEW c \in Clients, NEW m \in net, RecvResp0(c, m)
    PROVE  /\ m.c = c /\ m.run = cl[c].run /\ m.kind = "resp0"
           /\ \A d \in Clients \ {c} : cl'[d] = cl[d]
           /\ cl'[c].phase = "wait1" /\ cl'[c].run = cl[c].run /\ cl'[c].token = cl[c].token
           /\ \E q : /\ net' = (net \ {m}) \cup {q} /\ q.to = "device" /\ q.kind = "cmd1"
                     /\ q.c = c /\ q.run = cl[c].run /\ q.token = cl[c].token
                     /\ q.key = ClientKey(c, m)
<1>1. PICK s \in State : s = cl[c]
  BY DEF Types, ClientTypes
<1>2. PICK k : k = ClientKey(c, m)
  OBVIOUS
<1>3. PICK r : r = [s EXCEPT !.phase = "wait1", !.key = k, !.pos = 1]
  OBVIOUS
<1>4. r.phase = "wait1" /\ r.run = s.run /\ r.token = s.token
  BY <1>3 DEF State
<1>5. PICK q : q = Request(c, s, "cmd1", k, 0, 1)
  OBVIOUS
<1>6. cl' = [cl EXCEPT ![c] = r] /\ net' = (net \ {m}) \cup {q}
  BY <1>1, <1>2, <1>3, <1>5 DEF RecvResp0, ClientKey
<1>7. cl'[c] = r /\ \A d \in Clients \ {c} : cl'[d] = cl[d]
  BY <1>6 DEF Types, ClientTypes
<1>8. /\ q.to = "device" /\ q.c = c /\ q.kind = "cmd1" /\ q.run = s.run /\ q.token = s.token
      /\ q.key = k
  BY <1>5, RequestFields
<1>9. m.c = c /\ m.run = cl[c].run /\ m.kind = "resp0"
  BY DEF RecvResp0, Awaits
<1> QED
  BY <1>1, <1>2, <1>4, <1>6, <1>7, <1>8, <1>9

\* An answer of a data handler says nothing about a key.
LEMMA AnswerProof ==
    ASSUME Types, NEW m \in net, NEW p \in Nat, ctx.pos <= p, Answer(m, p)
    PROVE  /\ \E r : /\ net' = (net \ {m}) \cup {r} /\ r.kind \in {"data", "err"}
           /\ ctx'.pos >= ctx.pos /\ ctx'.key = ctx.key /\ ctx'.state = ctx.state
<1>1. ctx \in Context
  BY DEF Types, DeviceTypes
<1>2. ASSUME NEW len \in Lens,
             net' = (net \ {m}) \cup {Response(m, "data", ctx.key, p, len)},
             ctx' = [ctx EXCEPT !.pos = p + len]
      PROVE  /\ \E r : /\ net' = (net \ {m}) \cup {r} /\ r.kind \in {"data", "err"}
             /\ ctx'.pos >= ctx.pos /\ ctx'.key = ctx.key /\ ctx'.state = ctx.state
  <2>1. Response(m, "data", ctx.key, p, len).kind = "data"
    BY ResponseFields
  <2>2. len \in Nat
    BY SessionConstants
  <2> QED
    BY <1>1, <1>2, <2>1, <2>2 DEF Context
<1>3. CASE Refuse(m) /\ ctx' = [ctx EXCEPT !.pos = p]
  <2>1. Response(m, "err", NoKey, 0, 0).kind = "err"
    BY ResponseFields
  <2> QED
    BY <1>1, <1>3, <2>1 DEF Context, Refuse
<1> QED
  BY <1>2, <1>3 DEF Answer

\* Every handler of the device keeps the proof (handle_cmd0, handle_cmd1,
\* handle_data).
LEMMA HandlerProof ==
    ASSUME Types, Proof, NEW m \in Requests, protocomm_req_handle(m)
    PROVE  Proof'
<1>0. m \in net /\ m \in Message /\ ctx \in Context /\ derived \in Nat /\ Vouched(m)
  BY DEF Requests, Types, DeviceTypes, Proof
<1>1. ASSUME NEW r, net' = (net \ {m}) \cup {r}, r.kind \notin {"resp0", "cmd1"}
      PROVE  \A x \in net' : Vouched(x)
  BY <1>1 DEF Proof, Vouched
<1>2. ASSUME Refuse(m) PROVE \A x \in net' : Vouched(x)
  <2>1. Response(m, "err", NoKey, 0, 0).kind = "err"
    BY <1>0, ResponseFields
  <2> QED
    BY <1>1, <1>2, <2>1 DEF Refuse
<1>3. ASSUME \A x \in net' : Vouched(x), keys \subseteq keys', ctx'.state = ctx.state,
             ctx'.key \in {ctx.key, NoKey},
             ctx'.key # NoKey => ctx'.pos >= ctx.pos /\ ctx'.pos \in Nat
      PROVE  Proof'
  <2>1. ctx.pos \in Nat
    BY <1>0 DEF Context
  <2>2. ctx'.key # NoKey => ctx'.key.pop = TRUE /\ ctx'.key.n \in keys'
    BY <1>3 DEF Proof
  <2>3. ProvenPeer'
    BY <1>3, <2>1 DEF Proof, ProvenPeer
  <2> QED
    BY <1>3, <2>2, <2>3 DEF Proof, Vouched
<1>4. CASE handle_cmd0(m)
  <2>1. /\ ctx'.key = DeviceKey(m) /\ ctx'.state = "cmd0"
        /\ DeviceKey(m).n = derived + 1 /\ DeviceKey(m).c = m.c /\ DeviceKey(m).pop = TRUE
    BY <1>4 DEF handle_cmd0, Armed, DeviceKey
  <2>2. DeviceKey(m) # NoKey
    BY <1>0 DEF DeviceKey, NoKey
  <2>3. \A x \in net' : Vouched(x)
    <3>1. CASE net' = (net \ {m}) \cup {Response(m, "resp0", DeviceKey(m), 0, 0)}
      <4>1. PICK r : r = Response(m, "resp0", DeviceKey(m), 0, 0)
        OBVIOUS
      <4>2. r.kind = "resp0" /\ r.key = DeviceKey(m) /\ r.c = m.c
        BY <1>0, <4>1, ResponseFields
      <4>3. Vouched(r)
        BY <2>1, <2>2, <4>2 DEF Vouched
      <4> QED
        BY <3>1, <4>1, <4>3 DEF Proof
    <3> QED
      BY <1>2, <1>4, <3>1 DEF handle_cmd0
  <2>4. derived + 1 \in keys'
    BY <1>4 DEF handle_cmd0
  <2> QED
    BY <2>1, <2>3, <2>4 DEF Proof, ProvenPeer, Vouched
<1>5. CASE Cmd0Fails(m)
  <2>1. keys \subseteq keys' /\ ctx'.state = ctx.state
    BY <1>0, <1>5 DEF Cmd0Fails, Context
  <2>2. (ctx'.key = ctx.key /\ ctx'.pos = ctx.pos) \/ ctx'.key = NoKey
    BY <1>0, <1>5 DEF Cmd0Fails, Context
  <2>3. \A x \in net' : Vouched(x)
    BY <1>2, <1>5 DEF Cmd0Fails
  <2>4. ctx.pos \in Nat
    BY <1>0 DEF Context
  <2> QED
    BY <1>3, <2>1, <2>2, <2>3, <2>4
<1>6. CASE Cmd1Verified(m)
  <2>1. m.key = ctx.key /\ ctx.key # NoKey /\ m.kind = "cmd1"
    BY <1>6 DEF Cmd1Verified, Arrives, InStepWith
  <2>2. ctx'.key = ctx.key /\ ctx'.pos = ctx.pos + 2 /\ keys' = keys /\ ctx.pos \in Nat
    BY <1>0, <1>6 DEF Cmd1Verified, Context
  <2>3. ctx.key.c \in Knows
    BY <1>0, <2>1 DEF Proof, Vouched
  <2>4. \A x \in net' : Vouched(x)
    <3>1. CASE net' = (net \ {m}) \cup {Response(m, "resp1", ctx.key, ctx.pos + 1, 1)}
      <4>1. Response(m, "resp1", ctx.key, ctx.pos + 1, 1).kind = "resp1"
        BY <1>0, ResponseFields
      <4> QED
        BY <1>1, <3>1, <4>1
    <3> QED
      BY <1>2, <1>6, <3>1 DEF Cmd1Verified
  <2> QED
    BY <2>2, <2>3, <2>4 DEF Proof, ProvenPeer, Vouched
<1>7. CASE Cmd1Mismatch(m)
  <2>1. ctx'.key = ctx.key /\ ctx'.pos = ctx.pos + 1 /\ ctx.pos \in Nat /\ ctx'.state = ctx.state
    BY <1>0, <1>7 DEF Cmd1Mismatch, Context
  <2> QED
    BY <1>2, <1>3, <1>7, <2>1 DEF Cmd1Mismatch
<1>8. CASE HandshakeRefused(m) \/ DataRefused(m)
  <2>1. Refuse(m) /\ UNCHANGED devVars
    BY <1>8 DEF HandshakeRefused, DataRefused
  <2>2. ctx.pos \in Nat
    BY <1>0 DEF Context
  <2> QED
    BY <1>2, <1>3, <2>1, <2>2 DEF devVars
<1>9. CASE handle_data(m) \/ EmptyRequest(m)
  <2>1. ctx.pos \in Nat
    BY <1>0 DEF Context
  <2>2. keys' = keys /\ (Answer(m, ctx.pos) \/ Answer(m, ctx.pos + 1))
    BY <1>9 DEF handle_data, EmptyRequest
  <2>3. /\ \E r : net' = (net \ {m}) \cup {r} /\ r.kind \in {"data", "err"}
        /\ ctx'.pos >= ctx.pos /\ ctx'.key = ctx.key /\ ctx'.state = ctx.state
    BY <1>0, <2>1, <2>2, AnswerProof
  <2>4. ctx'.pos \in Nat
    BY HandlerTypes DEF Types, DeviceTypes, Context
  <2> QED
    BY <1>1, <1>3, <2>2, <2>3, <2>4
<1> QED
  BY <1>4, <1>5, <1>6, <1>7, <1>8, <1>9 DEF protocomm_req_handle, sec1_handshake

\* Every step keeps the proof.
LEMMA ProofStep == Types /\ Proof /\ [Next]_vars => Proof'
<1> SUFFICES ASSUME Types, Proof, [Next]_vars PROVE Proof'
  OBVIOUS
<1>1. ASSUME UNCHANGED devVars, \A m \in net' : Vouched(m) PROVE Proof'
  BY <1>1 DEF Proof, ProvenPeer, Vouched, devVars
<1>2. ASSUME UNCHANGED devVars, net' \subseteq net PROVE Proof'
  BY <1>1, <1>2 DEF Proof
<1>3. ASSUME UNCHANGED devVars, NEW m, net' \subseteq net \cup {m}, Vouched(m) PROVE Proof'
  BY <1>1, <1>3 DEF Proof
<1>4. ASSUME NEW t, open_session(t) \/ close_session PROVE Proof'
  <2>1. ctx'.key = NoKey /\ net' = net
    BY <1>4 DEF open_session, close_session, sec1_init, NoCtx
  <2> QED
    BY <2>1 DEF Proof, ProvenPeer, Vouched
<1>5. ASSUME NEW c \in Clients, ClientCmd0(c) PROVE Proof'
  <2>1. PICK m : net' = net \cup {m} /\ m.kind = "cmd0"
    BY <1>5, Cmd0Effect
  <2> QED
    BY <1>3, <1>5, <2>1 DEF ClientCmd0, Vouched
<1>6. ASSUME NEW c \in Clients, ClientData(c) PROVE Proof'
  <2>1. PICK m : net' = net \cup {m} /\ m.kind = "data"
    BY <1>6, DataEffect
  <2> QED
    BY <1>3, <1>6, <2>1 DEF ClientData, Vouched
<1>7. ASSUME NEW c \in Clients, NEW m \in net, RecvResp0(c, m) PROVE Proof'
  <2>1. m.key # NoKey /\ m.key.c = c /\ m.key \in Key
    BY <1>7 DEF RecvResp0, Awaits, Proof, Vouched, Types, Message
  <2>2. PICK k : k = ClientKey(c, m)
    OBVIOUS
  <2>3. m.key \in [n : 1..derived, c : Clients, run : 1..runs, pop : BOOLEAN]
    BY <2>1 DEF Key
  <2>4. k.n = m.key.n /\ k.c = c /\ k.pop = (c \in Knows)
    BY <2>1, <2>2, <2>3 DEF ClientKey
  <2>5. k # NoKey
    BY <2>3, <2>4 DEF NoKey
  <2>6. PICK q : net' = (net \ {m}) \cup {q} /\ q.kind = "cmd1" /\ q.key = k
    BY <1>7, <2>2, Resp0Effect
  <2>7. Vouched(q)
    BY <2>4, <2>5, <2>6 DEF Vouched
  <2> QED
    BY <1>3, <1>7, <2>6, <2>7 DEF RecvResp0
<1>8. ASSUME NEW c \in Clients, NEW m \in net,
             RecvResp1(c, m) \/ RecvData(c, m) \/ RecvErr(c, m)
      PROVE  Proof'
  BY <1>2, <1>8 DEF RecvResp1, RecvData, RecvErr
<1>9. ASSUME NEW c \in Clients, Timeout(c) PROVE Proof'
  BY <1>2, <1>9 DEF Timeout
<1>10. ASSUME NEW m \in net, Lose(m) PROVE Proof'
  BY <1>2, <1>10 DEF Lose
<1>11. CASE UNCHANGED vars
  BY <1>2, <1>11 DEF vars, devVars
<1> QED
  BY <1>4, <1>5, <1>6, <1>7, <1>8, <1>9, <1>10, <1>11, HandlerProof DEF Next, Client, Device

\* An established session with a working cipher belongs to a client that has
\* proved possession under the key in use, whatever was lost or failed.
THEOREM PeerIsProven == Spec => []ProvenPeer
<1>1. Init => Proof
  BY DEF Init, NoCtx, Proof, ProvenPeer
<1>2. Proof => ProvenPeer
  BY DEF Proof
<1> QED
  BY <1>1, <1>2, TypesInit, TypesStep, ProofStep, PTL DEF Spec

-----------------------------------------------------------------------------
\* One message at a time.

\* What a client does with the other answers: it keeps its run, its session
\* and its key, and is free to send again only when the answer fits.
LEMMA RecvEffect ==
    ASSUME Types, NEW c \in Clients, NEW m \in net,
           RecvResp1(c, m) \/ RecvData(c, m) \/ RecvErr(c, m)
    PROVE  /\ m.c = c /\ m.run = cl[c].run /\ m.to = "client" /\ net' = net \ {m}
           /\ \A d \in Clients \ {c} : cl'[d] = cl[d]
           /\ cl'[c].run = cl[c].run /\ cl'[c].token = cl[c].token /\ cl'[c].key = cl[c].key
           /\ \/ cl'[c].phase = "failed"
              \/ /\ cl'[c].phase = "up" /\ m.kind = "resp1" /\ m.key = cl[c].key
                 /\ m.pos = cl[c].pos /\ cl'[c].pos = cl[c].pos + 1
              \/ /\ cl'[c].phase = "up" /\ cl[c].phase = "wait" /\ m.kind = "data"
                 /\ cl'[c].pos = cl[c].pos + m.len
<1>1. cl \in [Clients -> State] /\ cl[c] \in State
  BY DEF Types, ClientTypes
<1>2. m.c = c /\ m.run = cl[c].run /\ m.to = "client" /\ net' = net \ {m}
  BY DEF RecvResp1, RecvData, RecvErr, Awaits, Responses
<1>3. CASE cl' = [cl EXCEPT ![c].phase = "failed"]
  <2>1. /\ \A d \in Clients \ {c} : cl'[d] = cl[d]
        /\ cl'[c].run = cl[c].run /\ cl'[c].token = cl[c].token /\ cl'[c].key = cl[c].key
        /\ cl'[c].phase = "failed"
    BY <1>1, <1>3 DEF State
  <2> QED
    BY <1>2, <2>1
<1>4. CASE /\ cl' = [cl EXCEPT ![c].phase = "up", ![c].pos = @ + 1]
           /\ m.key = cl[c].key /\ m.pos = cl[c].pos /\ RecvResp1(c, m)
  <2>1. /\ \A d \in Clients \ {c} : cl'[d] = cl[d]
        /\ cl'[c].run = cl[c].run /\ cl'[c].token = cl[c].token /\ cl'[c].key = cl[c].key
        /\ cl'[c].phase = "up" /\ cl'[c].pos = cl[c].pos + 1
    BY <1>1, <1>4 DEF State
  <2> QED
    BY <1>2, <1>4, <2>1 DEF RecvResp1, Awaits
<1>5. CASE RecvData(c, m)
  <2>1. /\ \A d \in Clients \ {c} : cl'[d] = cl[d]
        /\ cl'[c].run = cl[c].run /\ cl'[c].token = cl[c].token /\ cl'[c].key = cl[c].key
        /\ cl'[c].phase = "up" /\ cl'[c].pos = cl[c].pos + m.len
    BY <1>1, <1>5 DEF State, RecvData
  <2> QED
    BY <1>2, <1>5, <2>1 DEF RecvData, Awaits
<1> QED
  BY <1>3, <1>4, <1>5 DEF RecvResp1, RecvErr

\* What giving up does.
LEMMA TimeoutEffect ==
    ASSUME Types, NEW c \in Clients, Timeout(c)
    PROVE  /\ \A d \in Clients \ {c} : cl'[d] = cl[d]
           /\ cl'[c].run = cl[c].run /\ cl'[c].token = cl[c].token
           /\ cl'[c].phase = "failed" /\ net' = net
<1>1. cl \in [Clients -> State] /\ cl[c] \in State
  BY DEF Types, ClientTypes
<1> QED
  BY <1>1 DEF Timeout, State

\* What the handlers of the device do: one answer takes the place of the
\* request.
LEMMA Handled ==
    ASSUME Types, NEW m \in Requests, protocomm_req_handle(m)
    PROVE  /\ cur' = cur /\ cl' = cl /\ runs' = runs /\ m.token = cur
           /\ \E r : /\ net' = (net \ {m}) \cup {r} /\ r.to = "client"
                     /\ r.c = m.c /\ r.run = m.run /\ r.token = m.token
<1>1. cur' = cur /\ cl' = cl /\ runs' = runs /\ m.token = cur
  BY DEF protocomm_req_handle, sec1_handshake, handle_cmd0, Cmd0Fails, Cmd1Verified,
         Cmd1Mismatch, HandshakeRefused, handle_data, EmptyRequest, DataRefused, devVars,
         Arrives
<1>2. \E kind, key, pos, len : net' = (net \ {m}) \cup {Response(m, kind, key, pos, len)}
  BY DEF protocomm_req_handle, sec1_handshake, handle_cmd0, Cmd0Fails, Cmd1Verified,
         Cmd1Mismatch, HandshakeRefused, handle_data, EmptyRequest, DataRefused, Refuse,
         Answer
<1>3. m \in net
  BY DEF Requests
<1> QED
  BY <1>1, <1>2, <1>3, ResponseFields

\* Every step keeps the messages with their clients.
LEMMA RoutedStep == Types /\ Routed /\ [Next]_vars => Routed'
<1> SUFFICES ASSUME Types, Routed, [Next]_vars PROVE Routed'
  OBVIOUS
<1>0. /\ runs \in Nat
      /\ \A m \in net : m.run \in 1..runs /\ m.token \in 1..runs
      /\ \A c \in Clients : cl[c].run \in 0..runs /\ cl[c].token \in 0..runs
  BY SessionConstants DEF Types, DeviceTypes, ClientTypes, Message, State
<1>1. ASSUME \A c \in Clients : cl'[c].run = cl[c].run /\ cl'[c].token = cl[c].token,
             net' \subseteq net
      PROVE  Routed'
  BY <1>1 DEF Routed
<1>2. ASSUME \A c \in Clients : cl'[c].run = cl[c].run /\ cl'[c].token = cl[c].token,
             NEW m \in net, NEW r, net' = (net \ {m}) \cup {r},
             r.c = m.c /\ r.run = m.run /\ r.token = m.token
      PROVE  Routed'
  BY <1>2 DEF Routed
<1>3. ASSUME NEW c \in Clients, ClientCmd0(c) PROVE Routed'
  <2>1. PICK m : /\ net' = net \cup {m} /\ m.c = c
                 /\ m.run = cl'[c].run /\ m.token = cl'[c].token
    BY <1>3, Cmd0Effect
  <2>2. \A d \in Clients \ {c} : cl'[d] = cl[d] /\ cl'[d].run # cl'[c].run
    BY <1>0, <1>3, Cmd0Effect
  <2>3. \A d \in Clients \ {c} : cl'[d].token # cl'[c].token
    BY <1>0, <1>3, Cmd0Effect DEF Routed
  <2>4. \A x \in net : x.run # cl'[c].run /\ x.token # cl'[c].token
    BY <1>0, <1>3, Cmd0Effect
  <2>5. /\ \A d, e \in Clients :
             /\ cl'[d].token = cl'[e].token /\ cl'[d].token # 0 => d = e
             /\ cl'[d].run = cl'[e].run /\ cl'[d].run # 0 => d = e
    BY <2>2, <2>3 DEF Routed
  <2>6. ASSUME NEW d \in Clients, NEW x \in net', x.token = cl'[d].token \/ x.run = cl'[d].run
        PROVE  x.c = d /\ x.token = cl'[d].token /\ x.run = cl'[d].run
    BY <2>1, <2>2, <2>3, <2>4, <2>6 DEF Routed
  <2> QED
    BY <2>5, <2>6 DEF Routed
<1>4. ASSUME NEW c \in Clients, ClientData(c) PROVE Routed'
  <2>1. PICK m : /\ net' = net \cup {m} /\ m.c = c /\ m.run = cl[c].run
                 /\ m.token = cl[c].token
    BY <1>4, DataEffect
  <2>2. \A d \in Clients : cl'[d].run = cl[d].run /\ cl'[d].token = cl[d].token
    BY <1>4, DataEffect
  <2>3. cl[c].run # 0 /\ cl[c].token # 0
    BY <1>4, DataEffect DEF Types, ClientTypes
  <2> QED
    BY <2>1, <2>2, <2>3 DEF Routed
<1>5. ASSUME NEW c \in Clients, NEW m \in net, RecvResp0(c, m) PROVE Routed'
  <2>1. \A d \in Clients : cl'[d].run = cl[d].run /\ cl'[d].token = cl[d].token
    BY <1>5, Resp0Effect
  <2>2. PICK q : /\ net' = (net \ {m}) \cup {q} /\ q.c = c /\ q.run = cl[c].run
                 /\ q.token = cl[c].token
    BY <1>5, Resp0Effect
  <2>3. m.c = c /\ m.run = cl[c].run /\ m.token = cl[c].token
    BY <1>5, Resp0Effect DEF Routed
  <2> QED
    BY <1>2, <2>1, <2>2, <2>3
<1>6. ASSUME NEW c \in Clients, NEW m \in net,
             RecvResp1(c, m) \/ RecvData(c, m) \/ RecvErr(c, m)
      PROVE  Routed'
  <2>1. \A d \in Clients : cl'[d].run = cl[d].run /\ cl'[d].token = cl[d].token
    BY <1>6, RecvEffect
  <2>2. net' \subseteq net
    BY <1>6, RecvEffect
  <2> QED
    BY <1>1, <2>1, <2>2
<1>7. ASSUME NEW c \in Clients, Timeout(c) PROVE Routed'
  <2>1. \A d \in Clients : cl'[d].run = cl[d].run /\ cl'[d].token = cl[d].token
    BY <1>7, TimeoutEffect
  <2> QED
    BY <1>1, <1>7, <2>1, TimeoutEffect
<1>8. ASSUME NEW m \in Requests, protocomm_req_handle(m) PROVE Routed'
  <2>1. m \in net
    BY DEF Requests
  <2> QED
    BY <1>2, <1>8, <2>1, Handled
<1>9. CASE cl' = cl /\ net' \subseteq net
  BY <1>1, <1>9
<1> QED
  BY <1>3, <1>4, <1>5, <1>6, <1>7, <1>8, <1>9
  DEF Next, Client, Device, open_session, close_session, Lose, vars

\* Every step keeps one message per transport session at most.
LEMMA SoloStep == Types /\ Routed /\ Solo /\ [Next]_vars => Solo'
<1> SUFFICES ASSUME Types, Routed, Solo, [Next]_vars PROVE Solo'
  OBVIOUS
<1>0. /\ runs \in Nat
      /\ \A m \in net : m.run \in 1..runs /\ m.token \in 1..runs
      /\ \A c \in Clients : cl[c].run \in 0..runs /\ cl[c].token \in 0..runs
  BY SessionConstants DEF Types, DeviceTypes, ClientTypes, Message, State
<1>1. ASSUME cl' = cl, net' \subseteq net PROVE Solo'
  BY <1>1 DEF Solo
<1>2. ASSUME NEW c \in Clients, ClientCmd0(c) PROVE Solo'
  <2>1. PICK m : net' = net \cup {m} /\ m.run = cl'[c].run /\ m.token = cl'[c].token
    BY <1>2, Cmd0Effect
  <2>2. \A x \in net : x.token # cl'[c].token
    BY <1>0, <1>2, Cmd0Effect
  <2>3. \A d \in Clients \ {c} : cl'[d] = cl[d] /\ cl'[d].token # cl'[c].token
    BY <1>0, <1>2, Cmd0Effect DEF Routed
  <2>4. cl'[c].phase # "up"
    BY <1>2, Cmd0Effect
  <2> QED
    BY <2>1, <2>2, <2>3, <2>4 DEF Solo
<1>3. ASSUME NEW c \in Clients, ClientData(c) PROVE Solo'
  <2>1. PICK m : net' = net \cup {m} /\ m.token = cl[c].token
    BY <1>3, DataEffect
  <2>2. \A x \in net : x.token # cl[c].token
    BY <1>3, DataEffect DEF Solo
  <2>3. \A d \in Clients \ {c} : cl'[d] = cl[d] /\ cl[d].token # cl[c].token
    <3>1. cl[c].token # 0
      BY <1>3, DataEffect DEF Types, ClientTypes
    <3> QED
      BY <1>3, <3>1, DataEffect DEF Routed
  <2>4. cl'[c].phase # "up"
    BY <1>3, DataEffect
  <2> QED
    BY <2>1, <2>2, <2>3, <2>4 DEF Solo
<1>4. ASSUME NEW c \in Clients, NEW m \in net, RecvResp0(c, m) PROVE Solo'
  <2>1. \A d \in Clients \ {c} : cl'[d] = cl[d]
    BY <1>4, Resp0Effect
  <2>2. PICK q : net' = (net \ {m}) \cup {q} /\ q.token = cl[c].token
    BY <1>4, Resp0Effect
  <2>3. m.token = cl[c].token
    BY <1>4, Resp0Effect DEF Routed
  <2>4. cl'[c].phase # "up"
    BY <1>4, Resp0Effect
  <2> QED
    BY <2>1, <2>2, <2>3, <2>4 DEF Solo
<1>5. ASSUME NEW c \in Clients, NEW m \in net,
             RecvResp1(c, m) \/ RecvData(c, m) \/ RecvErr(c, m)
      PROVE  Solo'
  <2>1. /\ \A d \in Clients \ {c} : cl'[d] = cl[d]
        /\ net' = net \ {m} /\ cl'[c].token = cl[c].token
    BY <1>5, RecvEffect
  <2>2. m.token = cl[c].token
    BY <1>5, RecvEffect DEF Routed
  <2>3. \A x \in net' : x.token # cl[c].token
    BY <2>1, <2>2 DEF Solo
  <2> QED
    BY <2>1, <2>3 DEF Solo
<1>6. ASSUME NEW c \in Clients, Timeout(c) PROVE Solo'
  BY <1>6, TimeoutEffect DEF Solo
<1>7. ASSUME NEW m \in Requests, protocomm_req_handle(m) PROVE Solo'
  <2>1. PICK r : net' = (net \ {m}) \cup {r} /\ r.token = m.token
    BY <1>7, Handled
  <2>2. cl' = cl /\ m \in net
    BY <1>7, Handled DEF Requests
  <2> QED
    BY <2>1, <2>2 DEF Solo
<1>8. CASE cl' = cl /\ net' \subseteq net
  BY <1>1, <1>8
<1> QED
  BY <1>2, <1>3, <1>4, <1>5, <1>6, <1>7, <1>8
  DEF Next, Client, Device, open_session, close_session, Lose, vars

-----------------------------------------------------------------------------
\* The shared keystream.

\* A handler of the device keeps both ends in step if its answer does.
LEMMA AnswerStepping ==
    ASSUME Types, Solo, Stepping, NEW m \in net, NEW r,
           m.token = cur /\ cur' = cur /\ cl' = cl /\ intact' = TRUE,
           net' = (net \ {m}) \cup {r},
           r.to = "client" /\ r.c = m.c /\ r.run = m.run /\ r.token = m.token,
           r.kind = "resp1" => r.key = ctx'.key /\ r.pos + 1 = ctx'.pos,
           r.kind = "data" /\ ctx'.state = "done" => r.key = ctx'.key /\ r.pos + r.len = ctx'.pos,
           \A c \in Clients :
             /\ r.kind = "data" /\ m.run = cl[c].run /\ cl[c].phase = "wait"
             /\ r.len = 1 \/ ctx'.state = "done"
             => r.key = cl[c].key /\ r.pos = cl[c].pos
    PROVE  Stepping'
<1>1. \A x \in net \ {m} : x.token # cur
  BY DEF Solo
<1>2. Aligned'
  BY <1>1 DEF Aligned
<1>3. LockStep'
  BY DEF Solo, LockStep
<1>4. Expecting'
  BY <1>1 DEF Stepping, Expecting
<1> QED
  BY <1>2, <1>3, <1>4 DEF Stepping, RequestIntact

\* A refused request keeps both ends in step.
LEMMA RefuseStepping ==
    ASSUME Types, Solo, Stepping, NEW m \in Requests, Refuse(m),
           m.token = cur /\ cur' = cur /\ cl' = cl /\ intact' = TRUE
    PROVE  Stepping'
<1>1. m \in net
  BY DEF Requests
<1>2. PICK r : r = Response(m, "err", NoKey, 0, 0)
  OBVIOUS
<1>3. /\ r.to = "client" /\ r.c = m.c /\ r.run = m.run /\ r.token = m.token /\ r.kind = "err"
  BY <1>1, <1>2, ResponseFields
<1> QED
  BY <1>1, <1>2, <1>3, AnswerStepping DEF Refuse

\* An answered data request keeps both ends in step: the answer is encrypted
\* with the keystream after what the request took.
LEMMA DataStepping ==
    ASSUME Types, Solo, Stepping, NEW m \in Requests, Arrives(m, "data"),
           NEW p \in Nat, Answer(m, p), p = ctx.pos + m.len,
           cur' = cur /\ cl' = cl /\ intact' = TRUE
    PROVE  Stepping'
<1>0. m \in net /\ m.to = "device" /\ m.kind = "data" /\ m.token = cur /\ ctx \in Context
  BY DEF Requests, Arrives, Types, DeviceTypes
<1>1. CASE Refuse(m)
  BY <1>0, <1>1, RefuseStepping
<1>2. ASSUME NEW len \in Lens, len = 1 => ctx.state = "done",
             net' = (net \ {m}) \cup {Response(m, "data", ctx.key, p, len)},
             ctx' = [ctx EXCEPT !.pos = p + len]
      PROVE  Stepping'
  <2>1. PICK r : r = Response(m, "data", ctx.key, p, len)
    OBVIOUS
  <2>2. /\ r.to = "client" /\ r.c = m.c /\ r.run = m.run /\ r.token = m.token
        /\ r.kind = "data" /\ r.key = ctx.key /\ r.pos = p /\ r.len = len
    BY <1>0, <2>1, ResponseFields
  <2>3. ctx'.key = ctx.key /\ ctx'.pos = p + len /\ ctx'.state = ctx.state
    BY <1>0, <1>2 DEF Context
  <2>4. ASSUME NEW c \in Clients, m.run = cl[c].run, cl[c].phase = "wait", ctx.state = "done"
        PROVE  r.key = cl[c].key /\ r.pos = cl[c].pos
    <3>1. m.key = cl[c].key /\ m.pos + m.len = cl[c].pos
      BY <1>0, <2>4 DEF Stepping, Expecting
    <3>2. m.key = ctx.key /\ m.pos = ctx.pos
      BY <1>0, <2>4 DEF Stepping, Aligned
    <3> QED
      BY <2>2, <3>1, <3>2
  <2> QED
    BY <1>0, <1>2, <2>1, <2>2, <2>3, <2>4, AnswerStepping
<1> QED
  BY <1>1, <1>2 DEF Answer

\* Every handler of the device keeps both ends in step.
LEMMA HandlerStepping ==
    ASSUME Types, Solo, Stepping, NEW m \in Requests, protocomm_req_handle(m)
    PROVE  Stepping'
<1>0. m \in net /\ m \in Message /\ m.to = "device" /\ m.token = cur /\ ctx \in Context
  BY Handled DEF Requests, Types, DeviceTypes
<1>1. cur' = cur /\ cl' = cl /\ intact = TRUE
  BY Handled DEF Stepping, RequestIntact, Types
<1>2. CASE handle_data(m)
  <2>1. m.key = ctx.key /\ m.pos = ctx.pos
    BY <1>0, <1>2 DEF handle_data, Arrives, Stepping, Aligned
  <2>2. InStepWith(m)
    BY <1>2, <2>1 DEF handle_data, InStepWith
  <2>3. intact' = TRUE
    BY <1>2, <2>2 DEF handle_data
  <2>4. ctx.pos + 1 \in Nat /\ ctx.pos + 1 = ctx.pos + m.len
    BY <1>0, <1>2 DEF handle_data, Context
  <2> QED
    BY <1>1, <1>2, <2>3, <2>4, DataStepping DEF handle_data
<1>3. CASE EmptyRequest(m)
  <2>1. ctx.pos \in Nat /\ ctx.pos = ctx.pos + m.len
    BY <1>0, <1>3 DEF EmptyRequest, Context
  <2> QED
    BY <1>1, <1>3, <2>1, DataStepping DEF EmptyRequest
<1>4. CASE Refuse(m) /\ intact' = intact
  BY <1>0, <1>1, <1>4, RefuseStepping
<1>5. CASE handle_cmd0(m) /\ ~Refuse(m)
  <2>1. PICK r : r = Response(m, "resp0", DeviceKey(m), 0, 0)
    OBVIOUS
  <2>2. /\ r.to = "client" /\ r.c = m.c /\ r.run = m.run /\ r.token = m.token
        /\ r.kind = "resp0"
    BY <1>0, <2>1, ResponseFields
  <2>3. net' = (net \ {m}) \cup {r} /\ intact' = TRUE
    BY <1>1, <1>5, <2>1 DEF handle_cmd0
  <2> QED
    BY <1>0, <1>1, <2>2, <2>3, AnswerStepping
<1>6. CASE Cmd1Verified(m) /\ ~Refuse(m)
  <2>1. PICK r : r = Response(m, "resp1", ctx.key, ctx.pos + 1, 1)
    OBVIOUS
  <2>2. /\ r.to = "client" /\ r.c = m.c /\ r.run = m.run /\ r.token = m.token
        /\ r.kind = "resp1" /\ r.key = ctx.key /\ r.pos = ctx.pos + 1
    BY <1>0, <2>1, ResponseFields
  <2>3. net' = (net \ {m}) \cup {r} /\ intact' = TRUE
    BY <1>1, <1>6, <2>1 DEF Cmd1Verified
  <2>4. ctx'.key = ctx.key /\ ctx'.pos = ctx.pos + 2 /\ ctx.pos \in Nat
    BY <1>0, <1>6 DEF Cmd1Verified, Context
  <2> QED
    BY <1>0, <1>1, <2>2, <2>3, <2>4, AnswerStepping
<1> QED
  BY <1>2, <1>3, <1>4, <1>5, <1>6
  DEF protocomm_req_handle, sec1_handshake, handle_cmd0, Cmd0Fails, Cmd1Verified,
      Cmd1Mismatch, HandshakeRefused, DataRefused

\* Every step keeps both ends in step.
LEMMA SteppingStep == Types /\ Routed /\ Solo /\ Stepping /\ [Next]_vars => Stepping'
<1> SUFFICES ASSUME Types, Routed, Solo, Stepping, [Next]_vars PROVE Stepping'
  OBVIOUS
<1>0. \A x \in net : x.pos \in Nat /\ x.len \in Nat
  BY DEF Types, Message
<1>1. ASSUME NEW t, open_session(t) \/ close_session PROVE Stepping'
  <2>1. ctx'.state # "done" /\ net' = net /\ cl' = cl /\ intact' = intact
    BY <1>1 DEF open_session, close_session, sec1_init, NoCtx
  <2>2. Expecting'
    BY <2>1 DEF Stepping, Expecting
  <2> QED
    BY <2>1, <2>2 DEF Stepping, Aligned, LockStep, RequestIntact
<1>2. ASSUME NEW c \in Clients, ClientCmd0(c) PROVE Stepping'
  <2>1. PICK m : net' = net \cup {m} /\ m.kind = "cmd0"
    BY <1>2, Cmd0Effect
  <2>2. UNCHANGED devVars /\ intact' = intact
    BY <1>2 DEF ClientCmd0
  <2>3. cl'[c].phase = "wait0" /\ \A d \in Clients \ {c} : cl'[d] = cl[d]
    BY <1>2, Cmd0Effect
  <2>4. Aligned'
    BY <2>1, <2>2 DEF devVars, Stepping, Aligned
  <2>5. Expecting'
    BY <2>1, <2>2, <2>3 DEF devVars, Stepping, Expecting
  <2>6. LockStep'
    BY <2>2, <2>3 DEF devVars, Stepping, LockStep
  <2> QED
    BY <2>2, <2>4, <2>5, <2>6 DEF Stepping, RequestIntact
<1>3. ASSUME NEW c \in Clients, ClientData(c) PROVE Stepping'
  <2>1. PICK m : /\ net' = net \cup {m} /\ m.to = "device" /\ m.kind = "data"
                 /\ m.run = cl[c].run /\ m.token = cl[c].token /\ m.key = cl[c].key
                 /\ m.pos = cl[c].pos /\ cl'[c].pos = m.pos + m.len
    BY <1>3, DataEffect
  <2>2. UNCHANGED devVars /\ intact' = intact
    BY <1>3 DEF ClientData
  <2>3. /\ cl[c].phase = "up" /\ cl'[c].phase = "wait" /\ cl'[c].key = cl[c].key
        /\ cl'[c].run = cl[c].run /\ \A d \in Clients \ {c} : cl'[d] = cl[d]
    BY <1>3, DataEffect
  <2>4. Aligned'
    BY <2>1, <2>2, <2>3 DEF devVars, Stepping, Aligned, LockStep
  <2>5. cl[c].run # 0
    BY <2>3 DEF Types, ClientTypes
  <2>6. \A d \in Clients \ {c} : cl[d].run # m.run
    BY <2>1, <2>5 DEF Routed
  <2>7. \A x \in net : x.run # cl[c].run
    BY <2>3 DEF Routed, Solo
  <2>8. Expecting'
    BY <2>1, <2>2, <2>3, <2>6, <2>7 DEF devVars, Stepping, Expecting
  <2>9. LockStep'
    BY <2>2, <2>3 DEF devVars, Stepping, LockStep
  <2> QED
    BY <2>2, <2>4, <2>8, <2>9 DEF Stepping, RequestIntact
<1>4. ASSUME NEW c \in Clients, NEW m \in net, RecvResp0(c, m) PROVE Stepping'
  <2>1. PICK q : net' = (net \ {m}) \cup {q} /\ q.kind = "cmd1"
    BY <1>4, Resp0Effect
  <2>2. UNCHANGED devVars /\ intact' = intact
    BY <1>4 DEF RecvResp0
  <2>3. cl'[c].phase = "wait1" /\ \A d \in Clients \ {c} : cl'[d] = cl[d]
    BY <1>4, Resp0Effect
  <2>4. Aligned'
    BY <2>1, <2>2 DEF devVars, Stepping, Aligned
  <2>5. Expecting'
    BY <2>1, <2>2, <2>3 DEF devVars, Stepping, Expecting
  <2>6. LockStep'
    BY <2>2, <2>3 DEF devVars, Stepping, LockStep
  <2> QED
    BY <2>2, <2>4, <2>5, <2>6 DEF Stepping, RequestIntact
<1>5. ASSUME NEW c \in Clients, NEW m \in net,
             RecvResp1(c, m) \/ RecvData(c, m) \/ RecvErr(c, m)
      PROVE  Stepping'
  <2>1. /\ m.run = cl[c].run /\ m.to = "client" /\ net' = net \ {m}
        /\ \A d \in Clients \ {c} : cl'[d] = cl[d]
        /\ cl'[c].token = cl[c].token /\ cl'[c].key = cl[c].key
        /\ cl'[c].phase \in {"up", "failed"}
    BY <1>5, RecvEffect
  <2>2. UNCHANGED devVars /\ intact' = intact
    BY <1>5 DEF RecvResp1, RecvData, RecvErr
  <2>3. m.token = cl[c].token
    BY <2>1 DEF Routed
  <2>4. ASSUME cl'[c].phase = "up", cl[c].token = cur, ctx.state = "done"
        PROVE  ctx.key = cl[c].key /\ ctx.pos = cl'[c].pos
    <3>1. CASE m.kind = "resp1" /\ m.key = cl[c].key /\ m.pos = cl[c].pos
               /\ cl'[c].pos = cl[c].pos + 1
      BY <2>3, <2>4, <3>1 DEF Stepping, Aligned
    <3>2. CASE m.kind = "data" /\ cl[c].phase = "wait" /\ cl'[c].pos = cl[c].pos + m.len
      <4>1. m.key = ctx.key /\ m.pos + m.len = ctx.pos
        BY <2>1, <2>3, <2>4, <3>2 DEF Stepping, Aligned
      <4>2. m.key = cl[c].key /\ m.pos = cl[c].pos
        BY <2>1, <2>3, <2>4, <3>2 DEF Stepping, Expecting
      <4> QED
        BY <3>2, <4>1, <4>2
    <3> QED
      BY <1>5, <2>4, <3>1, <3>2, RecvEffect
  <2>5. Aligned'
    BY <2>1, <2>2 DEF devVars, Stepping, Aligned
  <2>6. Expecting'
    BY <2>1, <2>2 DEF devVars, Stepping, Expecting
  <2>7. LockStep'
    BY <2>1, <2>2, <2>4 DEF devVars, Stepping, LockStep
  <2> QED
    BY <2>2, <2>5, <2>6, <2>7 DEF Stepping, RequestIntact
<1>6. ASSUME NEW c \in Clients, Timeout(c) PROVE Stepping'
  <2>1. /\ cl'[c].phase = "failed" /\ net' = net
        /\ \A d \in Clients \ {c} : cl'[d] = cl[d]
    BY <1>6, TimeoutEffect
  <2>2. UNCHANGED devVars /\ intact' = intact
    BY <1>6 DEF Timeout
  <2> QED
    BY <2>1, <2>2 DEF devVars, Stepping, Aligned, Expecting, LockStep, RequestIntact
<1>7. CASE UNCHANGED <<devVars, cl, intact>> /\ net' \subseteq net
  BY <1>7 DEF devVars, Stepping, Aligned, Expecting, LockStep, RequestIntact
<1> QED
  BY <1>1, <1>2, <1>3, <1>4, <1>5, <1>6, <1>7, HandlerStepping
  DEF Next, Client, Device, Lose, vars, devVars

\* All of it holds in every reachable state.
LEMMA SteppingHolds == Spec => [](Types /\ Routed /\ Solo /\ Stepping)
<1>1. Init => Routed /\ Solo /\ Stepping
  BY DEF Init, NoCtx, Routed, Solo, Stepping, Aligned, Expecting, LockStep, RequestIntact
<1> QED
  BY <1>1, TypesInit, TypesStep, RoutedStep, SoloStep, SteppingStep, PTL DEF Spec

\* Both ends of an established session stand at the same offset of the same
\* keystream whenever the client may send (ctr_xform, handle_data).
THEOREM EndsInStep == Spec => []LockStep
<1>1. Stepping => LockStep
  BY DEF Stepping
<1> QED
  BY <1>1, SteppingHolds, PTL

\* No data handler runs on a request that decrypted to something else than
\* the client sent.
THEOREM RequestsAreIntact == Spec => []RequestIntact
<1>1. Stepping => RequestIntact
  BY DEF Stepping
<1> QED
  BY <1>1, SteppingHolds, PTL

\* The answer a client waits for decrypts to what the device sent.
THEOREM RepliesAreIntact == Spec => []ReplyIntact
<1>1. Stepping => ReplyIntact
  BY DEF Stepping, Expecting, ReplyIntact, Awaits, Responses
<1> QED
  BY <1>1, SteppingHolds, PTL
=============================================================================
