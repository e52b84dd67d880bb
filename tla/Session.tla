------------------------------ MODULE Session ------------------------------
(***************************************************************************)
(* The protocomm session under Security 1 (protocomm.c, security1.c): the  *)
(* Curve25519 handshake, the one AES-CTR keystream both directions share,  *)
(* and the transport session it lives in, against clients whose requests   *)
(* and answers may be lost, delayed past a timeout, or answered with an    *)
(* error.                                                                  *)
(*                                                                         *)
(* A key is the record of what it was derived from; the device key pair    *)
(* and device_random of one Command0 are its number n.  The keystream is   *)
(* counted in messages.  Data under the wrong key or at the wrong offset   *)
(* decrypts to something the peer did not send.  A transport session is a  *)
(* token: the SoftAP cookie, the console's session_id, the BLE connection. *)
(***************************************************************************)
EXTENDS Naturals, FiniteSets

CONSTANTS
    Clients,
    Knows,          \* the clients that know the proof-of-possession
    Lens,           \* lengths of a data request or response: 0, 1 (non-empty)
    MaxRuns,        \* bound on the number of handshakes
    MaxPos,         \* bound on the keystream a client uses; a handshake uses 2
    MaxNet,         \* bound on the messages in transit
    Faults          \* TRUE: PSA calls and allocations may fail

ASSUME SessionConstants ==
    /\ Knows \subseteq Clients
    /\ Lens \subseteq {0, 1}
    /\ MaxRuns \in Nat /\ MaxPos \in Nat \ {0, 1} /\ MaxNet \in Nat
    /\ Faults \in BOOLEAN

NoKey == [n |-> 0]       \* cipher operation not set up
NoCtx == [state |-> "none", peer |-> 0, slot |-> 0, key |-> NoKey, pos |-> 0]

VARIABLES
    cur,        \* the transport session the device serves, 0 = none
    ctx,        \* struct sec1_ctx: state, client_pubkey, session_key, cipher
    keys,       \* PSA slots that hold a session key
    derived,    \* session keys derived so far
    cl,         \* the clients
    runs,       \* handshakes begun so far; a run number is a client public key
    net,        \* messages in transit
    intact      \* (history) the last data handler got what the client sent

vars == <<cur, ctx, keys, derived, cl, runs, net, intact>>
devVars == <<cur, ctx, keys, derived>>

Init ==
    /\ cur = 0 /\ ctx = NoCtx /\ keys = {} /\ derived = 0
    /\ cl = [c \in Clients |->
               [phase |-> "off", run |-> 0, token |-> 0, key |-> NoKey, pos |-> 0]]
    /\ runs = 0 /\ net = {}
    /\ intact = TRUE

-----------------------------------------------------------------------------
\* Messages.

Request(c, r, kind, key, pos, len) ==
    [to |-> "device", c |-> c, run |-> r.run, token |-> r.token,
     kind |-> kind, key |-> key, pos |-> pos, len |-> len, peer |-> 0]

Response(m, kind, key, pos, len) ==
    [m EXCEPT !.to = "client", !.kind = kind, !.key = key, !.pos = pos, !.len = len,
              !.peer = ctx.peer]

Requests == {m \in net : m.to = "device"}
Responses == {m \in net : m.to = "client"}

\* The device answers the request m with an error.
Refuse(m) == net' = (net \ {m}) \cup {Response(m, "err", NoKey, 0, 0)}

-----------------------------------------------------------------------------
\* The transport session.

\* Mutant: the context is not zeroed, session_key refers to a slot not imported.
sec1_init_NotZeroed == {[NoCtx EXCEPT !.state = "init", !.slot = derived + 1]}

\* sec1_init: a fresh context and device key pair; it may fail.
sec1_init ==
    {[NoCtx EXCEPT !.state = "init"]} \cup (IF Faults THEN {NoCtx} ELSE {})

\* sec1_cleanup destroys the session key the context still refers to.
sec1_cleanup == keys \ {ctx.slot}

\* Mutant: a new transport session keeps the security context.
open_session_Keeps(t) ==
    /\ t # cur
    /\ ctx' \in IF ctx = NoCtx THEN sec1_init ELSE {ctx}
    /\ keys' = keys
    /\ cur' = t
    /\ UNCHANGED <<derived, cl, runs, net, intact>>

\* A request of another transport session (or a new connection) drops the
\* current security context and opens a fresh one.
open_session(t) ==
    /\ t # cur
    /\ keys' = sec1_cleanup
    /\ ctx' \in sec1_init
    /\ cur' = t
    /\ UNCHANGED <<derived, cl, runs, net, intact>>

\* Disconnect, transport stop, protocomm_delete.
close_session ==
    /\ cur # 0
    /\ keys' = sec1_cleanup
    /\ ctx' = NoCtx
    /\ cur' = 0
    /\ UNCHANGED <<derived, cl, runs, net, intact>>

\* A request of the session the device serves.
Arrives(m, kind) == m \in Requests /\ m.kind = kind /\ m.token = cur

-----------------------------------------------------------------------------
\* prov-session: the handshake.

\* The session key of a Command0, as the device derives it.
DeviceKey(m) == [n |-> derived + 1, c |-> m.c, run |-> m.run, pop |-> TRUE]

\* The context after derive_session_key succeeded.
Armed(m) == [state |-> "cmd0", peer |-> m.run, slot |-> derived + 1,
             key |-> DeviceKey(m), pos |-> 0]

\* Mutant: Command0 rekeys the stream but leaves an established state alone.
handle_cmd0_KeepsDone(m) ==
    /\ Arrives(m, "cmd0") /\ ctx # NoCtx
    /\ derived' = derived + 1
    /\ keys' = keys \cup {derived + 1}
    /\ ctx' = [Armed(m) EXCEPT !.state = IF ctx.state = "done" THEN "done" ELSE "cmd0"]
    /\ \/ net' = (net \ {m}) \cup {Response(m, "resp0", DeviceKey(m), 0, 0)}
       \/ Faults /\ Refuse(m)
    /\ UNCHANGED <<cur, cl, runs, intact>>

\* Command0: new key, new keystream, verification outstanding.  With Faults
\* the answer may fail to encode.
handle_cmd0(m) ==
    /\ Arrives(m, "cmd0") /\ ctx # NoCtx
    /\ derived' = derived + 1
    /\ keys' = keys \cup {derived + 1}
    /\ ctx' = Armed(m)
    /\ \/ net' = (net \ {m}) \cup {Response(m, "resp0", DeviceKey(m), 0, 0)}
       \/ Faults /\ Refuse(m)
    /\ UNCHANGED <<cur, cl, runs, intact>>

\* Command0 fails half-way: client_pubkey is overwritten already; the import
\* may have cleared session_key; the cipher may be new but not set up.
Cmd0Fails(m) ==
    /\ Faults /\ Arrives(m, "cmd0") /\ ctx # NoCtx
    /\ \/ /\ ctx' \in {[ctx EXCEPT !.peer = m.run],
                       [ctx EXCEPT !.peer = m.run, !.slot = 0]}
          /\ UNCHANGED <<keys, derived>>
       \/ /\ ctx' = [ctx EXCEPT !.peer = m.run, !.slot = derived + 1,
                                !.key = NoKey, !.pos = 0]
          /\ keys' = keys \cup {derived + 1}
          /\ derived' = derived + 1
    /\ Refuse(m)
    /\ UNCHANGED <<cur, cl, runs, intact>>

\* What was encrypted with m's key at m's offset decrypts correctly here.
InStepWith(m) == ctx.key # NoKey /\ m.key = ctx.key /\ m.pos = ctx.pos

\* Command1 with the proof: answer with ours, session established.
Cmd1Verified(m) ==
    /\ Arrives(m, "cmd1") /\ ctx.state = "cmd0" /\ InStepWith(m)
    /\ ctx' = [ctx EXCEPT !.pos = @ + 2, !.state = "done"]
    /\ \/ net' = (net \ {m}) \cup {Response(m, "resp1", ctx.key, ctx.pos + 1, 1)}
       \/ Faults /\ Refuse(m)
    /\ UNCHANGED <<cur, keys, derived, cl, runs, intact>>

\* Command1 with anything else: refused, but its keystream is used up.
Cmd1Mismatch(m) ==
    /\ Arrives(m, "cmd1") /\ ctx.state = "cmd0" /\ ctx.key # NoKey /\ ~InStepWith(m)
    /\ ctx' = [ctx EXCEPT !.pos = @ + 1]
    /\ Refuse(m)
    /\ UNCHANGED <<cur, keys, derived, cl, runs, intact>>

\* No context, Command1 out of order, or a cipher that is not set up.
HandshakeRefused(m) ==
    /\ \/ Arrives(m, "cmd0") /\ ctx = NoCtx
       \/ Arrives(m, "cmd1") /\ (ctx.state # "cmd0" \/ ctx.key = NoKey)
    /\ Refuse(m)
    /\ UNCHANGED <<devVars, cl, runs, intact>>

sec1_handshake(m) ==
    handle_cmd0(m) \/ Cmd0Fails(m) \/ Cmd1Verified(m) \/ Cmd1Mismatch(m) \/ HandshakeRefused(m)

-----------------------------------------------------------------------------
\* Data endpoints.

\* Mutant: the answer is encrypted from a copy of the cipher state.
Answer_OwnCounter(m, p) ==
    \/ \E len \in Lens :
         /\ len = 1 => ctx.state = "done" /\ ctx.key # NoKey
         /\ net' = (net \ {m}) \cup {Response(m, "data", ctx.key, p, len)}
         /\ ctx' = [ctx EXCEPT !.pos = p]
    \/ Refuse(m) /\ ctx' = [ctx EXCEPT !.pos = p]

\* Mutant: the answer is encrypted with the request's part of the keystream.
Answer_SameOffset(m, p) ==
    \/ \E len \in Lens :
         /\ len = 1 => ctx.state = "done" /\ ctx.key # NoKey
         /\ net' = (net \ {m}) \cup {Response(m, "data", ctx.key, ctx.pos, len)}
         /\ ctx' = [ctx EXCEPT !.pos = p + len]
    \/ Refuse(m) /\ ctx' = [ctx EXCEPT !.pos = p]

\* The handler ran and the keystream stands at p: an answer is encrypted
\* with the next of it, an empty answer takes none; the handler may fail,
\* and so may encrypting outside an established session.
Answer(m, p) ==
    \/ \E len \in Lens :
         /\ len = 1 => ctx.state = "done" /\ ctx.key # NoKey
         /\ net' = (net \ {m}) \cup {Response(m, "data", ctx.key, p, len)}
         /\ ctx' = [ctx EXCEPT !.pos = p + len]
    \/ Refuse(m) /\ ctx' = [ctx EXCEPT !.pos = p]

\* handle_data: decrypt, run the endpoint's handler on the plaintext, encrypt.
handle_data(m) ==
    /\ Arrives(m, "data") /\ m.len = 1
    /\ ctx.state = "done" /\ ctx.key # NoKey
    /\ intact' = InStepWith(m)
    /\ Answer(m, ctx.pos + 1)
    /\ UNCHANGED <<cur, keys, derived, cl, runs>>

\* An empty request has nothing to decrypt: the handler runs all the same.
EmptyRequest(m) ==
    /\ Arrives(m, "data") /\ m.len = 0 /\ ctx # NoCtx
    /\ intact' = TRUE
    /\ Answer(m, ctx.pos)
    /\ UNCHANGED <<cur, keys, derived, cl, runs>>

\* No session, no established session, no cipher, or (with Faults) no memory
\* for the plaintext: the handler does not run.
DataRefused(m) ==
    /\ Arrives(m, "data")
    /\ \/ ctx = NoCtx
       \/ m.len = 1 /\ (ctx.state # "done" \/ ctx.key = NoKey \/ Faults)
    /\ Refuse(m)
    /\ UNCHANGED <<devVars, cl, runs, intact>>

protocomm_req_handle(m) ==
    sec1_handshake(m) \/ handle_data(m) \/ EmptyRequest(m) \/ DataRefused(m)

-----------------------------------------------------------------------------
\* The clients, one request at a time.  After an error, a timeout or an answer
\* that does not verify a client starts over with a new handshake.

Send(c, r, m) == cl' = [cl EXCEPT ![c] = r] /\ net' = net \cup {m}

\* A handshake in a new transport session, or again in the one the client has
\* when nothing of that is in transit any more.
ClientCmd0(c) ==
    /\ cl[c].phase \in {"off", "up", "failed"}
    /\ runs < MaxRuns /\ Cardinality(net) < MaxNet
    /\ runs' = runs + 1
    /\ \E t \in {runs + 1} \cup {u \in {cl[c].token} \ {0} : \A m \in net : m.token # u} :
         LET r == [phase |-> "wait0", run |-> runs + 1, token |-> t, key |-> NoKey, pos |-> 0]
         IN  Send(c, r, Request(c, r, "cmd0", NoKey, 0, 1))
    /\ UNCHANGED <<devVars, intact>>

ClientData(c) ==
    /\ cl[c].phase = "up" /\ cl[c].pos + 2 <= MaxPos /\ Cardinality(net) < MaxNet
    /\ \E len \in Lens :
         Send(c, [cl[c] EXCEPT !.phase = "wait", !.pos = @ + len],
              Request(c, cl[c], "data", cl[c].key, cl[c].pos, len))
    /\ UNCHANGED <<devVars, runs, intact>>

Awaits(c, phase, m, kind) ==
    m \in Responses /\ m.c = c /\ m.run = cl[c].run /\ m.kind = kind /\ cl[c].phase = phase

\* Response0: derive the key with the client's own idea of the PoP, prove it.
RecvResp0(c, m) ==
    /\ Awaits(c, "wait0", m, "resp0")
    /\ LET k == [m.key EXCEPT !.pop = (c \in Knows)]
       IN  /\ cl' = [cl EXCEPT ![c].phase = "wait1", ![c].key = k, ![c].pos = 1]
           /\ net' = (net \ {m}) \cup {Request(c, cl[c], "cmd1", k, 0, 1)}
    /\ UNCHANGED <<devVars, runs, intact>>

\* Response1: the device's proof must decrypt to the client's public key.
RecvResp1(c, m) ==
    /\ Awaits(c, "wait1", m, "resp1")
    /\ cl' = IF m.key = cl[c].key /\ m.pos = cl[c].pos /\ m.peer = cl[c].run
             THEN [cl EXCEPT ![c].phase = "up", ![c].pos = @ + 1]
             ELSE [cl EXCEPT ![c].phase = "failed"]
    /\ net' = net \ {m}
    /\ UNCHANGED <<devVars, runs, intact>>

RecvData(c, m) ==
    /\ Awaits(c, "wait", m, "data")
    /\ cl' = [cl EXCEPT ![c].phase = "up", ![c].pos = @ + m.len]
    /\ net' = net \ {m}
    /\ UNCHANGED <<devVars, runs, intact>>

RecvErr(c, m) ==
    /\ m \in Responses /\ m.c = c /\ m.run = cl[c].run /\ m.kind = "err"
    /\ cl' = [cl EXCEPT ![c].phase = "failed"]
    /\ net' = net \ {m}
    /\ UNCHANGED <<devVars, runs, intact>>

\* The client gives up waiting; its request or the answer may still arrive.
Timeout(c) ==
    /\ cl[c].phase \in {"wait0", "wait1", "wait"}
    /\ cl' = [cl EXCEPT ![c].phase = "failed"]
    /\ UNCHANGED <<devVars, runs, net, intact>>

\* A message is lost, or an answer nobody waits for is thrown away.
Lose(m) ==
    /\ net' = net \ {m}
    /\ UNCHANGED <<devVars, cl, runs, intact>>

Client(c) ==
    \/ ClientCmd0(c) \/ ClientData(c) \/ Timeout(c)
    \/ \E m \in net : RecvResp0(c, m) \/ RecvResp1(c, m) \/ RecvData(c, m) \/ RecvErr(c, m)

Device ==
    \/ \E m \in Requests : open_session(m.token) \/ protocomm_req_handle(m)
    \/ close_session

Next == (\E c \in Clients : Client(c)) \/ Device \/ (\E m \in net : Lose(m))

Spec == Init /\ [][Next]_vars

-----------------------------------------------------------------------------
\* Properties.

Key == [n : 1..derived, c : Clients, run : 1..runs, pop : BOOLEAN] \cup {NoKey}

\* The security context, the clients and the messages in transit have their
\* types; a message under a key has an offset in its keystream.
TypeOK ==
    /\ cur \in 0..runs /\ derived \in Nat /\ runs \in 0..MaxRuns
    /\ ctx \in [state : {"none", "init", "cmd0", "done"}, peer : 0..runs,
                slot : 0..derived, key : Key, pos : Nat]
    /\ keys \subseteq 1..derived
    /\ cl \in [Clients -> [phase : {"off", "wait0", "wait1", "up", "wait", "failed"},
                           run : 0..runs, token : 0..runs, key : Key, pos : 0..MaxPos]]
    /\ \A m \in net : m.key \in Key /\ m.pos \in Nat
    /\ intact \in BOOLEAN

\* Both ends of an established session stand at the same offset of the same
\* keystream whenever the client may send: the handshake, refused requests,
\* failed handlers, empty messages, late requests and re-handshakes never
\* leave them apart (ctr_xform, handle_data).
LockStep ==
    \A c \in Clients :
      cl[c].phase = "up" /\ cl[c].token = cur /\ ctx.state = "done"
        => ctx.key = cl[c].key /\ ctx.pos = cl[c].pos

\* A data handler is never run on a request that decrypted to something the
\* client did not send, whatever was lost, late, or reset in between.
RequestIntact == intact

\* The answer a client waits for was encrypted at the offset where the client
\* decrypts it.
ReplyIntact ==
    \A c \in Clients, m \in net :
      Awaits(c, "wait", m, "data") /\ m.len = 1
        => m.key = cl[c].key /\ m.pos = cl[c].pos

\* An established session with a working cipher belongs to a client that has
\* proved possession under exactly that key: both proofs have passed through
\* its keystream, also after re-handshakes and Command0s that failed half-way,
\* and the key it uses has not been destroyed (sec1_handshake, sec1_cleanup).
ProvenPeer ==
    ctx.state = "done" /\ ctx.key # NoKey
      => ctx.key.c \in Knows /\ ctx.pos >= 2 /\ ctx.key.n \in keys
=============================================================================
