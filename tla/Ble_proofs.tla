----------------------------- MODULE Ble_proofs -----------------------------
(***************************************************************************)
(* Safety of the BLE transport, for every set of endpoints and every       *)
(* number of starts and connections: what is advertised is what the GATT   *)
(* table holds, callbacks work on an allocated instance, and a central     *)
(* never reaches what an earlier one left.                                 *)
(***************************************************************************)
EXTENDS Ble, TLAPS

\* Starts and connections are counted from 1, and an answer is cached for
\* each endpoint.
Counters == starts \in Nat /\ conns \in Nat /\ conn \in Nat /\ resp \in [Eps -> Nat]

\* Every action keeps the counters.
LEMMA CountersStep == Counters /\ [Next]_vars => Counters'
<1> SUFFICES ASSUME Counters, [Next]_vars PROVE Counters'
  OBVIOUS
<1>1. ASSUME NEW l \in Looks, set_service_uuid(l) PROVE Counters'
  BY <1>1 DEF set_service_uuid, Counters, Setting, svcVars, lookVars, linkVars, cbVars,
      hisVars
<1>2. ASSUME NEW l \in Looks, set_mfg_data(l) PROVE Counters'
  BY <1>2 DEF set_mfg_data, Counters, Setting, svcVars, lookVars, linkVars, cbVars,
      hisVars
<1>3. CASE StartEnable
  BY <1>3 DEF StartEnable, Counters, svcVars, lookVars, linkVars, cbVars, hisVars
<1>4. CASE build_service
  BY <1>4 DEF build_service, Counters, NoResp, svcVars, lookVars, linkVars, cbVars,
      hisVars
<1>5. CASE StartRegister
  BY <1>5 DEF StartRegister, Counters, build_adv, svcVars, lookVars, linkVars, cbVars,
      hisVars
<1>6. CASE StartAdvertise
  BY <1>6 DEF StartAdvertise, Counters, svcVars, lookVars, linkVars, cbVars, hisVars
<1>7. CASE StartFails
  BY <1>7 DEF StartFails, Counters, svcVars, lookVars, linkVars, cbVars, hisVars
<1>8. CASE StopAdv
  BY <1>8 DEF StopAdv, Counters, svcVars, lookVars, linkVars, cbVars, hisVars
<1>9. CASE StopUnregister
  BY <1>9 DEF StopUnregister, Counters, svcVars, lookVars, linkVars, cbVars, hisVars
<1>10. CASE StopForget
  BY <1>10 DEF StopForget, Counters, svcVars, lookVars, linkVars, cbVars, hisVars
<1>11. CASE StopDelete
  BY <1>11 DEF StopDelete, Counters, svcVars, lookVars, linkVars, cbVars, hisVars
<1>12. CASE Connect
  BY <1>12 DEF Connect, Counters, Begin, svcVars, lookVars, linkVars, cbVars, hisVars
<1>13. CASE ConnectFails
  BY <1>13 DEF ConnectFails, Counters, svcVars, lookVars, linkVars, cbVars, hisVars
<1>14. CASE connected
  BY <1>14 DEF connected, Counters, End, svcVars, lookVars, linkVars, cbVars, hisVars
<1>15. CASE LinkLost
  BY <1>15 DEF LinkLost, Counters, Begin, svcVars, lookVars, linkVars, cbVars, hisVars
<1>16. CASE disconnected
  BY <1>16 DEF disconnected, Counters, End, NoResp, svcVars, lookVars, linkVars, cbVars,
      hisVars
<1>17. CASE Release
  BY <1>17 DEF Release, Counters, svcVars, lookVars, linkVars, cbVars, hisVars
<1>18. CASE recycled
  BY <1>18 DEF recycled, Counters, svcVars, lookVars, linkVars, cbVars, hisVars
<1>19. CASE Readvertise
  BY <1>19 DEF Readvertise, Counters, End, svcVars, lookVars, linkVars, cbVars, hisVars
<1>20. CASE ReadvertiseFails
  BY <1>20 DEF ReadvertiseFails, Counters, End, svcVars, lookVars, linkVars, cbVars,
      hisVars
<1>21. ASSUME NEW e \in Eps, Write(e) PROVE Counters'
  BY <1>21 DEF Write, Counters, Begin, svcVars, lookVars, linkVars, cbVars, hisVars
<1>22. CASE write_ep
  <2>1. PICK r \in {0, conn} : resp' = [resp EXCEPT ![ep] = r]
    BY <1>22 DEF write_ep
  <2>2. resp' = [f \in Eps |-> IF f = ep THEN r ELSE resp[f]]
    BY <2>1 DEF Counters
  <2>3. r \in Nat
    BY DEF Counters
  <2>4. resp' \in [Eps -> Nat]
    BY <2>2, <2>3 DEF Counters
  <2> QED
    BY <1>22, <2>4 DEF write_ep, Counters, linkVars
<1>23. CASE UNCHANGED vars
  BY <1>23 DEF Counters, vars, svcVars, lookVars, linkVars, cbVars, hisVars
<1> QED
  BY <1>1, <1>2, <1>3, <1>4, <1>5, <1>6, <1>7, <1>8, <1>9, <1>10, <1>11, <1>12, <1>13,
      <1>14, <1>15, <1>16, <1>17, <1>18, <1>19, <1>20, <1>21, <1>22, <1>23 DEF Next,
      App, Central, Callbacks

\* The positions between the first step of a start and the step that forgets
\* the instance again.
Serving == {"enable", "register", "advertise", "up", "unregister", "forget"}

\* The thread positions agree with the transport's state: g_pc is set while
\* the service is registered, also after a failed start, a stop has
\* unregistered it before it forgets g_pc, and a central's callbacks run
\* while its slot is taken.
Positions ==
    /\ app \in Serving => g_pc # 0
    /\ app \in {"advertise", "up"} => svc_registered
    /\ app \in {"forget", "delete"} => ~svc_registered
    /\ svc_registered => g_pc # 0
    /\ link => conn # 0
    /\ bt \in {"connected", "write"} => link
    /\ bt = "disconnected" => conn # 0 /\ ~link
    /\ inst # 0 => bt \in {"connected", "disconnected", "write"}

\* Every action keeps them in agreement (network_prov_ble_start and _stop).
LEMMA PositionsStep == Counters /\ Positions /\ [Next]_vars => Positions'
<1> SUFFICES ASSUME Counters, Positions, [Next]_vars PROVE Positions'
  OBVIOUS
<1> USE DEF Serving
<1>1. ASSUME NEW l \in Looks, set_service_uuid(l) PROVE Positions'
  BY <1>1 DEF set_service_uuid, Counters, Positions, Setting, svcVars, lookVars,
      linkVars, cbVars, hisVars
<1>2. ASSUME NEW l \in Looks, set_mfg_data(l) PROVE Positions'
  BY <1>2 DEF set_mfg_data, Counters, Positions, Setting, svcVars, lookVars, linkVars,
      cbVars, hisVars
<1>3. CASE StartEnable
  BY <1>3 DEF StartEnable, Counters, Positions, svcVars, lookVars, linkVars, cbVars,
      hisVars
<1>4. CASE build_service
  BY <1>4 DEF build_service, Counters, Positions, NoResp, svcVars, lookVars, linkVars,
      cbVars, hisVars
<1>5. CASE StartRegister
  BY <1>5 DEF StartRegister, Counters, Positions, build_adv, svcVars, lookVars,
      linkVars, cbVars, hisVars
<1>6. CASE StartAdvertise
  BY <1>6 DEF StartAdvertise, Counters, Positions, svcVars, lookVars, linkVars, cbVars,
      hisVars
<1>7. CASE StartFails
  BY <1>7 DEF StartFails, Counters, Positions, svcVars, lookVars, linkVars, cbVars,
      hisVars
<1>8. CASE StopAdv
  BY <1>8 DEF StopAdv, Counters, Positions, svcVars, lookVars, linkVars, cbVars, hisVars
<1>9. CASE StopUnregister
  BY <1>9 DEF StopUnregister, Counters, Positions, svcVars, lookVars, linkVars, cbVars,
      hisVars
<1>10. CASE StopForget
  BY <1>10 DEF StopForget, Counters, Positions, svcVars, lookVars, linkVars, cbVars,
      hisVars
<1>11. CASE StopDelete
  BY <1>11 DEF StopDelete, Counters, Positions, svcVars, lookVars, linkVars, cbVars,
      hisVars
<1>12. CASE Connect
  BY <1>12 DEF Connect, Counters, Positions, Begin, svcVars, lookVars, linkVars, cbVars,
      hisVars
<1>13. CASE ConnectFails
  BY <1>13 DEF ConnectFails, Counters, Positions, svcVars, lookVars, linkVars, cbVars,
      hisVars
<1>14. CASE connected
  BY <1>14 DEF connected, Counters, Positions, End, svcVars, lookVars, linkVars, cbVars,
      hisVars
<1>15. CASE LinkLost
  BY <1>15 DEF LinkLost, Counters, Positions, Begin, svcVars, lookVars, linkVars,
      cbVars, hisVars
<1>16. CASE disconnected
  BY <1>16 DEF disconnected, Counters, Positions, End, NoResp, svcVars, lookVars,
      linkVars, cbVars, hisVars
<1>17. CASE Release
  BY <1>17 DEF Release, Counters, Positions, svcVars, lookVars, linkVars, cbVars,
      hisVars
<1>18. CASE recycled
  BY <1>18 DEF recycled, Counters, Positions, svcVars, lookVars, linkVars, cbVars,
      hisVars
<1>19. CASE Readvertise
  BY <1>19 DEF Readvertise, Counters, Positions, End, svcVars, lookVars, linkVars,
      cbVars, hisVars
<1>20. CASE ReadvertiseFails
  BY <1>20 DEF ReadvertiseFails, Counters, Positions, End, svcVars, lookVars, linkVars,
      cbVars, hisVars
<1>21. ASSUME NEW e \in Eps, Write(e) PROVE Positions'
  BY <1>21 DEF Write, Counters, Positions, Begin, svcVars, lookVars, linkVars, cbVars,
      hisVars
<1>22. CASE write_ep
  BY <1>22 DEF write_ep, Counters, Positions, End, svcVars, lookVars, linkVars, cbVars,
      hisVars
<1>23. CASE UNCHANGED vars
  BY <1>23 DEF Counters, Positions, vars, svcVars, lookVars, linkVars, cbVars, hisVars
<1> QED
  BY <1>1, <1>2, <1>3, <1>4, <1>5, <1>6, <1>7, <1>8, <1>9, <1>10, <1>11, <1>12, <1>13,
      <1>14, <1>15, <1>16, <1>17, <1>18, <1>19, <1>20, <1>21, <1>22, <1>23 DEF Next,
      App, Central, Callbacks

\* Both hold in every reachable state.
LEMMA PositionsHold == Spec => [](Counters /\ Positions)
<1>1. Init => Counters /\ Positions
  BY DEF Init, NoResp, Counters, Positions, Serving
<1> QED
  BY <1>1, CountersStep, PositionsStep, PTL DEF Spec

-----------------------------------------------------------------------------
\* LooksInSync made inductive: the UUID agrees from build_service on and the
\* manufacturer data from build_adv on; the setters run only where neither
\* is in use.
Looking ==
    /\ app \in {"register", "advertise", "up"} => gatt_uuid = uuid
    /\ app \in {"advertise", "up"} => sd_mfg = mfg

\* Every action keeps the two in agreement.
LEMMA LookingStep == Positions /\ Looking /\ [Next]_vars => Looking'
<1> SUFFICES ASSUME Positions, Looking, [Next]_vars PROVE Looking'
  OBVIOUS
<1>1. ASSUME NEW l \in Looks, set_service_uuid(l) PROVE Looking'
  BY <1>1 DEF set_service_uuid, Positions, Looking, Setting, svcVars, lookVars,
      linkVars, cbVars, hisVars
<1>2. ASSUME NEW l \in Looks, set_mfg_data(l) PROVE Looking'
  BY <1>2 DEF set_mfg_data, Positions, Looking, Setting, svcVars, lookVars, linkVars,
      cbVars, hisVars
<1>3. CASE StartEnable
  BY <1>3 DEF StartEnable, Positions, Looking, svcVars, lookVars, linkVars, cbVars,
      hisVars
<1>4. CASE build_service
  BY <1>4 DEF build_service, Positions, Looking, NoResp, svcVars, lookVars, linkVars,
      cbVars, hisVars
<1>5. CASE StartRegister
  BY <1>5 DEF StartRegister, Positions, Looking, build_adv, svcVars, lookVars, linkVars,
      cbVars, hisVars
<1>6. CASE StartAdvertise
  BY <1>6 DEF StartAdvertise, Positions, Looking, svcVars, lookVars, linkVars, cbVars,
      hisVars
<1>7. CASE StartFails
  BY <1>7 DEF StartFails, Positions, Looking, svcVars, lookVars, linkVars, cbVars,
      hisVars
<1>8. CASE StopAdv
  BY <1>8 DEF StopAdv, Positions, Looking, svcVars, lookVars, linkVars, cbVars, hisVars
<1>9. CASE StopUnregister
  BY <1>9 DEF StopUnregister, Positions, Looking, svcVars, lookVars, linkVars, cbVars,
      hisVars
<1>10. CASE StopForget
  BY <1>10 DEF StopForget, Positions, Looking, svcVars, lookVars, linkVars, cbVars,
      hisVars
<1>11. CASE StopDelete
  BY <1>11 DEF StopDelete, Positions, Looking, svcVars, lookVars, linkVars, cbVars,
      hisVars
<1>12. CASE Connect
  BY <1>12 DEF Connect, Positions, Looking, Begin, svcVars, lookVars, linkVars, cbVars,
      hisVars
<1>13. CASE ConnectFails
  BY <1>13 DEF ConnectFails, Positions, Looking, svcVars, lookVars, linkVars, cbVars,
      hisVars
<1>14. CASE connected
  BY <1>14 DEF connected, Positions, Looking, End, svcVars, lookVars, linkVars, cbVars,
      hisVars
<1>15. CASE LinkLost
  BY <1>15 DEF LinkLost, Positions, Looking, Begin, svcVars, lookVars, linkVars, cbVars,
      hisVars
<1>16. CASE disconnected
  BY <1>16 DEF disconnected, Positions, Looking, End, NoResp, svcVars, lookVars,
      linkVars, cbVars, hisVars
<1>17. CASE Release
  BY <1>17 DEF Release, Positions, Looking, svcVars, lookVars, linkVars, cbVars, hisVars
<1>18. CASE recycled
  BY <1>18 DEF recycled, Positions, Looking, svcVars, lookVars, linkVars, cbVars,
      hisVars
<1>19. CASE Readvertise
  BY <1>19 DEF Readvertise, Positions, Looking, End, svcVars, lookVars, linkVars,
      cbVars, hisVars
<1>20. CASE ReadvertiseFails
  BY <1>20 DEF ReadvertiseFails, Positions, Looking, End, svcVars, lookVars, linkVars,
      cbVars, hisVars
<1>21. ASSUME NEW e \in Eps, Write(e) PROVE Looking'
  BY <1>21 DEF Write, Positions, Looking, Begin, svcVars, lookVars, linkVars, cbVars,
      hisVars
<1>22. CASE write_ep
  BY <1>22 DEF write_ep, Positions, Looking, End, svcVars, lookVars, linkVars, cbVars,
      hisVars
<1>23. CASE UNCHANGED vars
  BY <1>23 DEF Positions, Looking, vars, svcVars, lookVars, linkVars, cbVars, hisVars
<1> QED
  BY <1>1, <1>2, <1>3, <1>4, <1>5, <1>6, <1>7, <1>8, <1>9, <1>10, <1>11, <1>12, <1>13,
      <1>14, <1>15, <1>16, <1>17, <1>18, <1>19, <1>20, <1>21, <1>22, <1>23 DEF Next,
      App, Central, Callbacks

\* What is advertised is what the GATT table and the scan response were built
\* from, whenever the application calls the setters.
THEOREM LooksAgree == Spec => []LooksInSync
<1>1. Init => Looking
  BY DEF Init, Looking
<1>2. Looking => LooksInSync
  BY DEF Looking, LooksInSync
<1> QED
  BY <1>1, <1>2, LookingStep, PositionsHold, PTL DEF Spec

-----------------------------------------------------------------------------
\* InstanceUsed made inductive: g_pc names an allocated instance from start to
\* stop, is NULL after a stop, and dangles only after a failed start.  A start
\* that succeeds finds the slot free, so no callback still works on the
\* instance of the failed one.
Allocated ==
    /\ app \in Serving => g_pc \in live
    /\ app = "delete" => g_pc = 0 /\ (inst # 0 => overtaken)
    /\ app = "down" /\ ~failed => g_pc = 0
    /\ inst # 0 /\ ~overtaken /\ ~failed => inst \in live
    /\ app \in Serving \cup {"delete", "down"}

\* Every action keeps the instance of a running callback allocated.
LEMMA AllocatedStep == Positions /\ Allocated /\ [Next]_vars => Allocated'
<1> SUFFICES ASSUME Positions, Allocated, [Next]_vars PROVE Allocated'
  OBVIOUS
<1> USE DEF Serving
<1>1. ASSUME NEW l \in Looks, set_service_uuid(l) PROVE Allocated'
  BY <1>1 DEF set_service_uuid, Positions, Allocated, Setting, svcVars, lookVars,
      linkVars, cbVars, hisVars
<1>2. ASSUME NEW l \in Looks, set_mfg_data(l) PROVE Allocated'
  BY <1>2 DEF set_mfg_data, Positions, Allocated, Setting, svcVars, lookVars, linkVars,
      cbVars, hisVars
<1>3. CASE StartEnable
  BY <1>3 DEF StartEnable, Positions, Allocated, svcVars, lookVars, linkVars, cbVars,
      hisVars
<1>4. CASE build_service
  BY <1>4 DEF build_service, Positions, Allocated, NoResp, svcVars, lookVars, linkVars,
      cbVars, hisVars
<1>5. CASE StartRegister
  BY <1>5 DEF StartRegister, Positions, Allocated, build_adv, svcVars, lookVars,
      linkVars, cbVars, hisVars
<1>6. CASE StartAdvertise
  BY <1>6 DEF StartAdvertise, Positions, Allocated, svcVars, lookVars, linkVars, cbVars,
      hisVars
<1>7. CASE StartFails
  BY <1>7 DEF StartFails, Positions, Allocated, svcVars, lookVars, linkVars, cbVars,
      hisVars
<1>8. CASE StopAdv
  BY <1>8 DEF StopAdv, Positions, Allocated, svcVars, lookVars, linkVars, cbVars,
      hisVars
<1>9. CASE StopUnregister
  BY <1>9 DEF StopUnregister, Positions, Allocated, svcVars, lookVars, linkVars, cbVars,
      hisVars
<1>10. CASE StopForget
  BY <1>10 DEF StopForget, Positions, Allocated, svcVars, lookVars, linkVars, cbVars,
      hisVars
<1>11. CASE StopDelete
  BY <1>11 DEF StopDelete, Positions, Allocated, svcVars, lookVars, linkVars, cbVars,
      hisVars
<1>12. CASE Connect
  BY <1>12 DEF Connect, Positions, Allocated, Begin, svcVars, lookVars, linkVars,
      cbVars, hisVars
<1>13. CASE ConnectFails
  BY <1>13 DEF ConnectFails, Positions, Allocated, svcVars, lookVars, linkVars, cbVars,
      hisVars
<1>14. CASE connected
  BY <1>14 DEF connected, Positions, Allocated, End, svcVars, lookVars, linkVars,
      cbVars, hisVars
<1>15. CASE LinkLost
  BY <1>15 DEF LinkLost, Positions, Allocated, Begin, svcVars, lookVars, linkVars,
      cbVars, hisVars
<1>16. CASE disconnected
  BY <1>16 DEF disconnected, Positions, Allocated, End, NoResp, svcVars, lookVars,
      linkVars, cbVars, hisVars
<1>17. CASE Release
  BY <1>17 DEF Release, Positions, Allocated, svcVars, lookVars, linkVars, cbVars,
      hisVars
<1>18. CASE recycled
  BY <1>18 DEF recycled, Positions, Allocated, svcVars, lookVars, linkVars, cbVars,
      hisVars
<1>19. CASE Readvertise
  BY <1>19 DEF Readvertise, Positions, Allocated, End, svcVars, lookVars, linkVars,
      cbVars, hisVars
<1>20. CASE ReadvertiseFails
  BY <1>20 DEF ReadvertiseFails, Positions, Allocated, End, svcVars, lookVars, linkVars,
      cbVars, hisVars
<1>21. ASSUME NEW e \in Eps, Write(e) PROVE Allocated'
  BY <1>21 DEF Write, Positions, Allocated, Begin, svcVars, lookVars, linkVars, cbVars,
      hisVars
<1>22. CASE write_ep
  BY <1>22 DEF write_ep, Positions, Allocated, End, svcVars, lookVars, linkVars, cbVars,
      hisVars
<1>23. CASE UNCHANGED vars
  BY <1>23 DEF Positions, Allocated, vars, svcVars, lookVars, linkVars, cbVars, hisVars
<1> QED
  BY <1>1, <1>2, <1>3, <1>4, <1>5, <1>6, <1>7, <1>8, <1>9, <1>10, <1>11, <1>12, <1>13,
      <1>14, <1>15, <1>16, <1>17, <1>18, <1>19, <1>20, <1>21, <1>22, <1>23 DEF Next,
      App, Central, Callbacks

\* A callback works on an allocated instance, unless stop overtook it or the
\* last start failed.
THEOREM InstanceIsUsable == Spec => []InstanceUsed
<1>1. Init => Allocated
  BY DEF Init, Allocated, Serving
<1>2. Allocated => InstanceUsed
  BY DEF Allocated, InstanceUsed
<1> QED
  BY <1>1, <1>2, AllocatedStep, PositionsHold, PTL DEF Spec

-----------------------------------------------------------------------------
\* AnswerFresh made inductive, for the cached answers: they are the current
\* connection's, and gone once disconnected has run.
AnswersOwn ==
    /\ \A e \in Eps : resp[e] \in {0, conn}
    /\ ~link /\ bt # "disconnected" => \A e \in Eps : resp[e] = 0

\* The same for the session, while the transport has an instance: a callback
\* that began without one finds no session to close.
SessionFresh ==
    g_pc # 0 =>
      /\ sess \in {0, conn}
      /\ ~link => sess = 0 \/ (bt = "disconnected" /\ inst # 0)
      /\ bt = "connected" => sess = 0

\* Every action keeps the answers with their connection (write_ep,
\* disconnected).
LEMMA AnswersStep ==
    Counters /\ Positions /\ AnswersOwn /\ [Next]_vars => AnswersOwn'
<1> SUFFICES ASSUME Counters, Positions, AnswersOwn, [Next]_vars PROVE AnswersOwn'
  OBVIOUS
<1>1. ASSUME NEW l \in Looks, set_service_uuid(l) PROVE AnswersOwn'
  BY <1>1 DEF set_service_uuid, Counters, Positions, AnswersOwn, Setting, svcVars,
      lookVars, linkVars, cbVars, hisVars
<1>2. ASSUME NEW l \in Looks, set_mfg_data(l) PROVE AnswersOwn'
  BY <1>2 DEF set_mfg_data, Counters, Positions, AnswersOwn, Setting, svcVars, lookVars,
      linkVars, cbVars, hisVars
<1>3. CASE StartEnable
  BY <1>3 DEF StartEnable, Counters, Positions, AnswersOwn, svcVars, lookVars, linkVars,
      cbVars, hisVars
<1>4. CASE build_service
  BY <1>4 DEF build_service, Counters, Positions, AnswersOwn, NoResp, svcVars, lookVars,
      linkVars, cbVars, hisVars
<1>5. CASE StartRegister
  BY <1>5 DEF StartRegister, Counters, Positions, AnswersOwn, build_adv, svcVars,
      lookVars, linkVars, cbVars, hisVars
<1>6. CASE StartAdvertise
  BY <1>6 DEF StartAdvertise, Counters, Positions, AnswersOwn, svcVars, lookVars,
      linkVars, cbVars, hisVars
<1>7. CASE StartFails
  BY <1>7 DEF StartFails, Counters, Positions, AnswersOwn, svcVars, lookVars, linkVars,
      cbVars, hisVars
<1>8. CASE StopAdv
  BY <1>8 DEF StopAdv, Counters, Positions, AnswersOwn, svcVars, lookVars, linkVars,
      cbVars, hisVars
<1>9. CASE StopUnregister
  BY <1>9 DEF StopUnregister, Counters, Positions, AnswersOwn, svcVars, lookVars,
      linkVars, cbVars, hisVars
<1>10. CASE StopForget
  BY <1>10 DEF StopForget, Counters, Positions, AnswersOwn, svcVars, lookVars, linkVars,
      cbVars, hisVars
<1>11. CASE StopDelete
  BY <1>11 DEF StopDelete, Counters, Positions, AnswersOwn, svcVars, lookVars, linkVars,
      cbVars, hisVars
<1>12. CASE Connect
  BY <1>12 DEF Connect, Counters, Positions, AnswersOwn, Begin, svcVars, lookVars,
      linkVars, cbVars, hisVars
<1>13. CASE ConnectFails
  BY <1>13 DEF ConnectFails, Counters, Positions, AnswersOwn, svcVars, lookVars,
      linkVars, cbVars, hisVars
<1>14. CASE connected
  BY <1>14 DEF connected, Counters, Positions, AnswersOwn, End, svcVars, lookVars,
      linkVars, cbVars, hisVars
<1>15. CASE LinkLost
  BY <1>15 DEF LinkLost, Counters, Positions, AnswersOwn, Begin, svcVars, lookVars,
      linkVars, cbVars, hisVars
<1>16. CASE disconnected
  BY <1>16 DEF disconnected, Counters, Positions, AnswersOwn, End, NoResp, svcVars,
      lookVars, linkVars, cbVars, hisVars
<1>17. CASE Release
  BY <1>17 DEF Release, Counters, Positions, AnswersOwn, svcVars, lookVars, linkVars,
      cbVars, hisVars
<1>18. CASE recycled
  BY <1>18 DEF recycled, Counters, Positions, AnswersOwn, svcVars, lookVars, linkVars,
      cbVars, hisVars
<1>19. CASE Readvertise
  BY <1>19 DEF Readvertise, Counters, Positions, AnswersOwn, End, svcVars, lookVars,
      linkVars, cbVars, hisVars
<1>20. CASE ReadvertiseFails
  BY <1>20 DEF ReadvertiseFails, Counters, Positions, AnswersOwn, End, svcVars,
      lookVars, linkVars, cbVars, hisVars
<1>21. ASSUME NEW e \in Eps, Write(e) PROVE AnswersOwn'
  BY <1>21 DEF Write, Counters, Positions, AnswersOwn, Begin, svcVars, lookVars,
      linkVars, cbVars, hisVars
<1>22. CASE write_ep
  BY <1>22 DEF write_ep, Counters, Positions, AnswersOwn, End, svcVars, lookVars,
      linkVars, cbVars, hisVars
<1>23. CASE UNCHANGED vars
  BY <1>23 DEF Counters, Positions, AnswersOwn, vars, svcVars, lookVars, linkVars,
      cbVars, hisVars
<1> QED
  BY <1>1, <1>2, <1>3, <1>4, <1>5, <1>6, <1>7, <1>8, <1>9, <1>10, <1>11, <1>12, <1>13,
      <1>14, <1>15, <1>16, <1>17, <1>18, <1>19, <1>20, <1>21, <1>22, <1>23 DEF Next,
      App, Central, Callbacks

\* Every action keeps the session with its connection (connected,
\* disconnected, protocomm_new).
LEMMA SessionStep ==
    Counters /\ Positions /\ SessionFresh /\ [Next]_vars => SessionFresh'
<1> SUFFICES ASSUME Counters, Positions, SessionFresh, [Next]_vars PROVE SessionFresh'
  OBVIOUS
<1>1. ASSUME NEW l \in Looks, set_service_uuid(l) PROVE SessionFresh'
  BY <1>1 DEF set_service_uuid, Counters, Positions, SessionFresh, Setting, svcVars,
      lookVars, linkVars, cbVars, hisVars
<1>2. ASSUME NEW l \in Looks, set_mfg_data(l) PROVE SessionFresh'
  BY <1>2 DEF set_mfg_data, Counters, Positions, SessionFresh, Setting, svcVars,
      lookVars, linkVars, cbVars, hisVars
<1>3. CASE StartEnable
  BY <1>3 DEF StartEnable, Counters, Positions, SessionFresh, svcVars, lookVars,
      linkVars, cbVars, hisVars
<1>4. CASE build_service
  BY <1>4 DEF build_service, Counters, Positions, SessionFresh, NoResp, svcVars,
      lookVars, linkVars, cbVars, hisVars
<1>5. CASE StartRegister
  BY <1>5 DEF StartRegister, Counters, Positions, SessionFresh, build_adv, svcVars,
      lookVars, linkVars, cbVars, hisVars
<1>6. CASE StartAdvertise
  BY <1>6 DEF StartAdvertise, Counters, Positions, SessionFresh, svcVars, lookVars,
      linkVars, cbVars, hisVars
<1>7. CASE StartFails
  BY <1>7 DEF StartFails, Counters, Positions, SessionFresh, svcVars, lookVars,
      linkVars, cbVars, hisVars
<1>8. CASE StopAdv
  BY <1>8 DEF StopAdv, Counters, Positions, SessionFresh, svcVars, lookVars, linkVars,
      cbVars, hisVars
<1>9. CASE StopUnregister
  BY <1>9 DEF StopUnregister, Counters, Positions, SessionFresh, svcVars, lookVars,
      linkVars, cbVars, hisVars
<1>10. CASE StopForget
  BY <1>10 DEF StopForget, Counters, Positions, SessionFresh, svcVars, lookVars,
      linkVars, cbVars, hisVars
<1>11. CASE StopDelete
  BY <1>11 DEF StopDelete, Counters, Positions, SessionFresh, svcVars, lookVars,
      linkVars, cbVars, hisVars
<1>12. CASE Connect
  BY <1>12 DEF Connect, Counters, Positions, SessionFresh, Begin, svcVars, lookVars,
      linkVars, cbVars, hisVars
<1>13. CASE ConnectFails
  BY <1>13 DEF ConnectFails, Counters, Positions, SessionFresh, svcVars, lookVars,
      linkVars, cbVars, hisVars
<1>14. CASE connected
  BY <1>14 DEF connected, Counters, Positions, SessionFresh, End, svcVars, lookVars,
      linkVars, cbVars, hisVars
<1>15. CASE LinkLost
  BY <1>15 DEF LinkLost, Counters, Positions, SessionFresh, Begin, svcVars, lookVars,
      linkVars, cbVars, hisVars
<1>16. CASE disconnected
  BY <1>16 DEF disconnected, Counters, Positions, SessionFresh, End, NoResp, svcVars,
      lookVars, linkVars, cbVars, hisVars
<1>17. CASE Release
  BY <1>17 DEF Release, Counters, Positions, SessionFresh, svcVars, lookVars, linkVars,
      cbVars, hisVars
<1>18. CASE recycled
  BY <1>18 DEF recycled, Counters, Positions, SessionFresh, svcVars, lookVars, linkVars,
      cbVars, hisVars
<1>19. CASE Readvertise
  BY <1>19 DEF Readvertise, Counters, Positions, SessionFresh, End, svcVars, lookVars,
      linkVars, cbVars, hisVars
<1>20. CASE ReadvertiseFails
  BY <1>20 DEF ReadvertiseFails, Counters, Positions, SessionFresh, End, svcVars,
      lookVars, linkVars, cbVars, hisVars
<1>21. ASSUME NEW e \in Eps, Write(e) PROVE SessionFresh'
  BY <1>21 DEF Write, Counters, Positions, SessionFresh, Begin, svcVars, lookVars,
      linkVars, cbVars, hisVars
<1>22. CASE write_ep
  BY <1>22 DEF write_ep, Counters, Positions, SessionFresh, End, svcVars, lookVars,
      linkVars, cbVars, hisVars
<1>23. CASE UNCHANGED vars
  BY <1>23 DEF Counters, Positions, SessionFresh, vars, svcVars, lookVars, linkVars,
      cbVars, hisVars
<1> QED
  BY <1>1, <1>2, <1>3, <1>4, <1>5, <1>6, <1>7, <1>8, <1>9, <1>10, <1>11, <1>12, <1>13,
      <1>14, <1>15, <1>16, <1>17, <1>18, <1>19, <1>20, <1>21, <1>22, <1>23 DEF Next,
      App, Central, Callbacks

\* A connected central reaches its own session and its own answers only,
\* whatever stops, starts and lost links came before.
THEOREM AnswersAreFresh == Spec => []AnswerFresh
<1>1. Init => AnswersOwn /\ SessionFresh
  BY DEF Init, NoResp, AnswersOwn, SessionFresh
<1>2. Positions /\ AnswersOwn /\ SessionFresh => AnswerFresh
  BY DEF Positions, AnswersOwn, SessionFresh, AnswerFresh
<1> QED
  BY <1>1, <1>2, AnswersStep, SessionStep, PositionsHold, PTL DEF Spec
=============================================================================
