--------------------------- MODULE Endpoints_proofs ---------------------------
(***************************************************************************)
(* Safety of the endpoint table, the custom endpoints and the console      *)
(* transport, for every set of names and session ids, every capacity that  *)
(* Kconfig allows and every number of starts and registrations.            *)
(***************************************************************************)
EXTENDS Endpoints, SequenceTheorems, TLAPS

Labels == {"idle", "register", "replace", "unregister", "add", "forget", "reset", "stop",
           "release", "delete", "session", "remember", "confirm", "enter", "dispatch",
           "handler", "trampoline", "call"}

\* The created endpoints are a sequence of entries; registrations and starts
\* are counted.
PcOK == pc \in [{"app", "sh"} -> Labels]
Entries == [name : BuiltinNames \cup Names, handler : Nat, ctx : Nat]
CustomOK == custom \in Seq(Entries)
TableOK == table \in Seq(BuiltinNames \cup Names)
CountOK == starts \in Nat /\ regs \in Nat /\ live \in SUBSET Nat

Types == PcOK /\ CustomOK /\ TableOK /\ CountOK

\* EndpointsFit made inductive: the created names are distinct, none is a
\* built-in one, there are no more than fit, and during a start the table is
\* the part of the list that was added so far.
Fit ==
    /\ Len(custom) <= MaxCustom
    /\ \A i \in DOMAIN custom : custom[i].name \notin BuiltinNames
    /\ \A i, j \in DOMAIN custom : custom[i].name = custom[j].name => i = j
    /\ pc["app"] = "add" =>
         /\ Len(table) <= Len(ToAdd)
         /\ \A i \in DOMAIN table : table[i] = ToAdd[i]

\* InstanceAlive made inductive: the transport has the manager's instance or
\* none, it has one only from the first store of its start to its stop, and a
\* request in protocomm that no stop has overtaken uses the instance the
\* transport has.
Starting == pc["app"] \in {"forget", "reset"}

Alive ==
    /\ g_pc # 0 => /\ g_pc = mgr_pc /\ (started \/ Starting)
                   /\ pc["app"] \notin {"add", "release", "delete"}
    /\ mgr_pc # 0 => mgr_pc \in live
    /\ pc["app"] = "add" \/ Starting => ~started
    /\ pc["app"] = "add" => mgr_pc # 0
    /\ Starting => g_pc # 0
    /\ pc["app"] \in {"stop", "release", "delete"} => started
    /\ InProtocomm /\ ~overtaken => inst # 0 /\ inst = g_pc

\* SessionOwnId made inductive: while the transport is up, the session that
\* is open is the one of the id the console remembers or is about to, unless
\* the start wiped that id.
Owned ==
    /\ pc["app"] = "add" => sess = {}
    /\ Starting => ~wiped
    /\ g_pc # 0 /\ (have_session \/ pc["sh"] = "confirm") /\ pc["sh"] # "remember" /\ ~wiped
         => sess \subseteq {cur_session}
    /\ g_pc # 0 /\ pc["sh"] \in {"remember", "confirm"} => sess \subseteq {req.id}
    /\ g_pc # 0 /\ pc["sh"] \in {"enter", "dispatch"} /\ ~wiped => sess \subseteq {req.id}
    /\ SessionOwnId

\* CtxMatches made inductive: an entry with a handler has the handler's ctx,
\* but for the one that is being replaced, which has the newest ctx; a call
\* that did not race a change still sees the entry it checked.
Matching ==
    /\ \A i \in DOMAIN custom : custom[i].ctx <= regs
    /\ \A i, j \in DOMAIN custom :
         custom[i].ctx = custom[j].ctx /\ custom[i].ctx # 0 => i = j
    /\ pc["app"] \in {"register", "replace"} => regs # 0
    /\ \A i \in DOMAIN custom : custom[i].handler # 0 /\ custom[i].handler # custom[i].ctx =>
         pc["app"] = "replace" /\ custom[i].ctx = regs
    /\ pc["sh"] = "call" /\ ~raced =>
         /\ slot \in DOMAIN custom /\ fn # 0
         /\ fn = custom[slot].handler /\ fn = custom[slot].ctx
    /\ CtxMatches

-----------------------------------------------------------------------------
\* The created endpoints, one by one.
LEMMA EntriesAre ==
    ASSUME CustomOK
    PROVE  /\ Len(custom) \in Nat /\ DOMAIN custom = 1..Len(custom)
           /\ \A j \in DOMAIN custom :
                /\ custom[j] \in Entries /\ custom[j].name \in BuiltinNames \cup Names
                /\ custom[j].handler \in Nat /\ custom[j].ctx \in Nat
<1>1. Len(custom) \in Nat /\ DOMAIN custom = 1..Len(custom)
  BY LenProperties DEF CustomOK
<1>2. \A j \in DOMAIN custom : custom[j] \in Entries
  BY <1>1, ElementOfSeq DEF CustomOK
<1> QED
  BY <1>1, <1>2 DEF Entries

\* Changing a registration's ctx leaves the names, the handlers and the other
\* entries as they are ...
LEMMA CtxUpdate ==
    ASSUME CustomOK, NEW i \in DOMAIN custom, NEW v \in Nat,
           custom' = [custom EXCEPT ![i].ctx = v]
    PROVE  /\ CustomOK' /\ Len(custom') = Len(custom) /\ DOMAIN custom' = DOMAIN custom
           /\ custom'[i].ctx = v
           /\ \A j \in DOMAIN custom :
                /\ custom'[j].name = custom[j].name
                /\ custom'[j].handler = custom[j].handler
                /\ j # i => custom'[j].ctx = custom[j].ctx
<1> DEFINE e == [custom[i] EXCEPT !.ctx = v]
<1>1. /\ custom[i] \in Entries /\ DOMAIN custom = 1..Len(custom)
  BY EntriesAre
<1>2. /\ e \in Entries /\ e.ctx = v
      /\ e.name = custom[i].name /\ e.handler = custom[i].handler
  BY <1>1 DEF Entries
<1>3. custom' = [custom EXCEPT ![i] = e]
  OBVIOUS
<1> HIDE DEF e
<1>4. /\ CustomOK' /\ Len(custom') = Len(custom)
      /\ \A j \in 1..Len(custom) : custom'[j] = IF j = i THEN e ELSE custom[j]
  BY <1>1, <1>2, <1>3, ExceptSeq DEF CustomOK
<1>5. DOMAIN custom' = DOMAIN custom
  BY <1>1, <1>3
<1> QED
  BY <1>1, <1>2, <1>4, <1>5

\* ... and so does changing its handler.
LEMMA HandlerUpdate ==
    ASSUME CustomOK, NEW i \in DOMAIN custom, NEW v \in Nat,
           custom' = [custom EXCEPT ![i].handler = v]
    PROVE  /\ CustomOK' /\ Len(custom') = Len(custom) /\ DOMAIN custom' = DOMAIN custom
           /\ custom'[i].handler = v
           /\ \A j \in DOMAIN custom :
                /\ custom'[j].name = custom[j].name
                /\ custom'[j].ctx = custom[j].ctx
                /\ j # i => custom'[j].handler = custom[j].handler
<1> DEFINE e == [custom[i] EXCEPT !.handler = v]
<1>1. /\ custom[i] \in Entries /\ DOMAIN custom = 1..Len(custom)
  BY EntriesAre
<1>2. /\ e \in Entries /\ e.handler = v
      /\ e.name = custom[i].name /\ e.ctx = custom[i].ctx
  BY <1>1 DEF Entries
<1>3. custom' = [custom EXCEPT ![i] = e]
  OBVIOUS
<1> HIDE DEF e
<1>4. /\ CustomOK' /\ Len(custom') = Len(custom)
      /\ \A j \in 1..Len(custom) : custom'[j] = IF j = i THEN e ELSE custom[j]
  BY <1>1, <1>2, <1>3, ExceptSeq DEF CustomOK
<1>5. DOMAIN custom' = DOMAIN custom
  BY <1>1, <1>3
<1> QED
  BY <1>1, <1>2, <1>4, <1>5

\* A created endpoint has no handler and no ctx yet.
LEMMA CreateEffect ==
    ASSUME CustomOK, NEW n \in BuiltinNames \cup Names, endpoint_create(n)
    PROVE  /\ CustomOK' /\ Len(custom') = Len(custom) + 1
           /\ DOMAIN custom = 1..Len(custom) /\ DOMAIN custom' = 1..Len(custom) + 1
           /\ Len(custom) \in Nat
           /\ \A j \in DOMAIN custom : custom'[j] = custom[j]
           /\ custom'[Len(custom) + 1] = [name |-> n, handler |-> 0, ctx |-> 0]
<1>1. custom' = Append(custom, [name |-> n, handler |-> 0, ctx |-> 0])
  BY DEF endpoint_create
<1>2. [name |-> n, handler |-> 0, ctx |-> 0] \in Entries
  BY DEF Entries
<1>3. /\ CustomOK' /\ Len(custom') = Len(custom) + 1
      /\ \A j \in 1..Len(custom) : custom'[j] = custom[j]
      /\ custom'[Len(custom) + 1] = [name |-> n, handler |-> 0, ctx |-> 0]
  BY <1>1, <1>2, AppendProperties DEF CustomOK
<1>4. DOMAIN custom' = 1..Len(custom')
  BY <1>3, LenProperties DEF CustomOK
<1> QED
  BY <1>3, <1>4, EntriesAre

\* What a start adds: the built-in endpoints, then the created ones.
LEMMA ToAddIs ==
    ASSUME CustomOK
    PROVE  /\ ToAdd \in Seq(BuiltinNames \cup Names) /\ Len(ToAdd) = 5 + Len(custom)
           /\ DOMAIN ToAdd = 1..5 + Len(custom) /\ Len(custom) \in Nat
           /\ DOMAIN custom = 1..Len(custom)
           /\ \A k \in 1..5 : ToAdd[k] = Builtins[k]
           /\ \A k \in DOMAIN ToAdd \ 1..5 : ToAdd[k] = custom[k - 5].name
<1> DEFINE names == [i \in DOMAIN custom |-> custom[i].name]
<1>1. /\ Len(custom) \in Nat /\ DOMAIN custom = 1..Len(custom)
      /\ \A i \in DOMAIN custom : custom[i].name \in BuiltinNames \cup Names
  BY EntriesAre
<1>2. names \in Seq(BuiltinNames \cup Names) /\ Len(names) = Len(custom)
  BY <1>1
<1>3. Builtins \in Seq(BuiltinNames \cup Names) /\ Len(Builtins) = 5
  BY DEF Builtins, BuiltinNames
<1>4. ToAdd = Builtins \o names
  BY DEF ToAdd
<1> HIDE DEF names
<1>5. /\ ToAdd \in Seq(BuiltinNames \cup Names) /\ Len(ToAdd) = 5 + Len(custom)
      /\ \A k \in 1..5 : ToAdd[k] = Builtins[k]
      /\ \A k \in 1..5 + Len(custom) : k > 5 => ToAdd[k] = names[k - 5]
  <2> DEFINE S == BuiltinNames \cup Names
  <2>1. \A s, t \in Seq(S) :
          /\ s \o t \in Seq(S) /\ Len(s \o t) = Len(s) + Len(t)
          /\ \A k \in 1..Len(s) + Len(t) :
               (s \o t)[k] = IF k <= Len(s) THEN s[k] ELSE t[k - Len(s)]
    <3> HIDE DEF S
    <3> QED
      BY ConcatProperties
  <2>2. Builtins \in Seq(S) /\ names \in Seq(S)
    BY <1>2, <1>3
  <2>3. /\ ToAdd \in Seq(S) /\ Len(ToAdd) = Len(Builtins) + Len(names)
        /\ \A k \in 1..Len(Builtins) + Len(names) :
             ToAdd[k] = IF k <= Len(Builtins) THEN Builtins[k] ELSE names[k - Len(Builtins)]
    <3> HIDE DEF S
    <3> QED
      BY <1>4, <2>1, <2>2
  <2>4. ToAdd \in Seq(S) /\ Len(ToAdd) = 5 + Len(custom)
    <3> HIDE DEF S
    <3> QED
      BY <1>2, <1>3, <2>3
  <2>5. \A k \in 1..5 + Len(custom) : ToAdd[k] = IF k <= 5 THEN Builtins[k] ELSE names[k - 5]
    BY <1>2, <1>3, <2>3
  <2>6. \A k \in 1..5 : k \in 1..5 + Len(custom) /\ k <= 5
    BY <1>1
  <2>7. \A k \in 1..5 + Len(custom) : k > 5 => ~(k <= 5)
    BY <1>1
  <2>8. \A k \in 1..5 : ToAdd[k] = Builtins[k]
    BY <2>5, <2>6
  <2>9. \A k \in 1..5 + Len(custom) : k > 5 => ToAdd[k] = names[k - 5]
    BY <2>5, <2>7
  <2> QED
    BY <2>4, <2>8, <2>9
<1>6. DOMAIN ToAdd = 1..5 + Len(custom)
  BY <1>5, LenProperties
<1>7. \A k \in DOMAIN ToAdd \ 1..5 : ToAdd[k] = custom[k - 5].name
  <2> TAKE k \in DOMAIN ToAdd \ 1..5
  <2>1. k \in 1..5 + Len(custom) /\ k > 5 /\ k - 5 \in DOMAIN custom
    BY <1>1, <1>6
  <2> QED
    BY <1>5, <2>1 DEF names
<1> QED
  BY <1>1, <1>5, <1>6, <1>7

\* Distinct names: no two places of the list hold the same one.
LEMMA ToAddDistinct ==
    ASSUME CustomOK, Fit
    PROVE  \A k, m \in DOMAIN ToAdd : ToAdd[k] = ToAdd[m] => k = m
<1> TAKE k, m \in DOMAIN ToAdd
<1> HAVE ToAdd[k] = ToAdd[m]
<1> USE ToAddIs
<1>1. \A a \in 1..5 : Builtins[a] \in BuiltinNames
  BY DEF Builtins, BuiltinNames
<1>2. \A a, b \in 1..5 : Builtins[a] = Builtins[b] => a = b
  BY DEF Builtins
<1>3. \A a \in DOMAIN ToAdd \ 1..5 : a - 5 \in DOMAIN custom /\ ToAdd[a] \notin BuiltinNames
  BY DEF Fit
<1>4. CASE k \in 1..5 /\ m \in 1..5
  BY <1>2, <1>4
<1>5. CASE k \notin 1..5 /\ m \notin 1..5
  <2>1. /\ custom[k - 5].name = custom[m - 5].name
        /\ k - 5 \in DOMAIN custom /\ m - 5 \in DOMAIN custom
    BY <1>3, <1>5
  <2>2. k - 5 = m - 5
    BY <2>1 DEF Fit
  <2> QED
    BY <2>2
<1> QED
  BY <1>1, <1>3, <1>4, <1>5

-----------------------------------------------------------------------------
\* Every action keeps the types.
LEMMA TypesStep == Types /\ [Next]_vars => Types'
<1> SUFFICES ASSUME Types, [Next]_vars PROVE Types'
  OBVIOUS
<1>1. CASE mgr_init
  BY <1>1 DEF mgr_init, Types, PcOK, CustomOK, TableOK, CountOK, insVars
<1>2. CASE mgr_deinit
  BY <1>2 DEF mgr_deinit, Types, PcOK, Labels, CustomOK, TableOK, CountOK, mgrVars,
      insVars, conVars, reqVars, hisVars
<1>3. CASE set_app_info
  BY <1>3 DEF set_app_info, Types, PcOK, Labels, CustomOK, TableOK, CountOK, mgrVars,
      insVars, conVars, reqVars, hisVars
<1>4. ASSUME NEW n \in BuiltinNames \cup Names, endpoint_create(n) PROVE Types'
  <2>1. CustomOK'
    BY <1>4, CreateEffect DEF Types
  <2> QED
    BY <1>4, <2>1 DEF endpoint_create, Types, PcOK, TableOK, CountOK, insVars, hisVars
<1>5. ASSUME NEW i \in DOMAIN custom, endpoint_register(i) PROVE Types'
  <2>1. PcOK' /\ regs' \in Nat /\ UNCHANGED <<insVars, starts>>
    BY <1>5 DEF endpoint_register, Goto, Types, PcOK, Labels, CountOK
  <2>2. CustomOK'
    <3>1. \/ custom' = [custom EXCEPT ![i].ctx = regs + 1]
          \/ custom' = [custom EXCEPT ![i].handler = regs]
      BY <1>5 DEF endpoint_register
    <3> QED
      BY <3>1, CtxUpdate, HandlerUpdate DEF Types, CountOK
  <2> QED
    BY <2>1, <2>2 DEF Types, TableOK, CountOK, insVars
<1>6. ASSUME NEW i \in DOMAIN custom, endpoint_unregister(i) PROVE Types'
  <2>1. PcOK' /\ UNCHANGED <<insVars, starts, regs>>
    BY <1>6 DEF endpoint_unregister, Goto, Types, PcOK, Labels
  <2>2. CustomOK'
    <3>1. \/ custom' = [custom EXCEPT ![i].ctx = 0]
          \/ custom' = [custom EXCEPT ![i].handler = 0]
      BY <1>6 DEF endpoint_unregister
    <3> QED
      BY <3>1, CtxUpdate, HandlerUpdate DEF Types
  <2> QED
    BY <2>1, <2>2 DEF Types, TableOK, CountOK, insVars
<1>7. CASE StartNew
  BY <1>7 DEF StartNew, Types, PcOK, Labels, CustomOK, TableOK, CountOK, Goto, mgrVars,
      insVars, conVars, reqVars, hisVars
<1>8. CASE StartAdd
  <2>1. ToAdd[Len(table) + 1] \in BuiltinNames \cup Names
    BY <1>8, ToAddIs DEF StartAdd, Types, TableOK
  <2>2. TableOK'
    BY <1>8, <2>1 DEF StartAdd, Types, TableOK
  <2> QED
    BY <1>8, <2>2 DEF StartAdd, Types, PcOK, CustomOK, CountOK, mgrVars, hisVars
<1>9. CASE StartScheme
  BY <1>9 DEF StartScheme, Types, PcOK, Labels, CustomOK, TableOK, CountOK, Goto,
      mgrVars, insVars, conVars, reqVars, hisVars
<1>10. CASE StartForget
  BY <1>10 DEF StartForget, Types, PcOK, Labels, CustomOK, TableOK, CountOK, Goto,
      mgrVars, insVars, conVars, reqVars, hisVars
<1>11. CASE StartReset
  BY <1>11 DEF StartReset, Types, PcOK, Labels, CustomOK, TableOK, CountOK, Goto,
      mgrVars, insVars, conVars, reqVars, hisVars
<1>12. CASE StartFails
  BY <1>12 DEF StartFails, Types, PcOK, Labels, CustomOK, TableOK, CountOK, Goto,
      mgrVars, insVars, conVars, reqVars, hisVars
<1>13. CASE StopClose
  BY <1>13 DEF StopClose, Types, PcOK, Labels, CustomOK, TableOK, CountOK, Goto,
      mgrVars, insVars, conVars, reqVars, hisVars
<1>14. CASE StopConsole
  BY <1>14 DEF StopConsole, Types, PcOK, Labels, CustomOK, TableOK, CountOK, Goto,
      mgrVars, insVars, conVars, reqVars, hisVars
<1>15. CASE StopForget
  BY <1>15 DEF StopForget, Types, PcOK, Labels, CustomOK, TableOK, CountOK, Goto,
      mgrVars, insVars, conVars, reqVars, hisVars
<1>16. CASE StopDelete
  BY <1>16 DEF StopDelete, Types, PcOK, Labels, CustomOK, TableOK, CountOK, Goto,
      mgrVars, insVars, conVars, reqVars, hisVars
<1>17. CASE CmdParse
  BY <1>17 DEF CmdParse, Types, PcOK, Labels, CustomOK, TableOK, CountOK, Goto, mgrVars,
      insVars, conVars, reqVars, hisVars
<1>18. CASE CmdSession
  BY <1>18 DEF CmdSession, Types, PcOK, Labels, CustomOK, TableOK, CountOK, Goto,
      mgrVars, insVars, conVars, reqVars, hisVars
<1>19. CASE CmdRemember
  BY <1>19 DEF CmdRemember, Types, PcOK, Labels, CustomOK, TableOK, CountOK, Goto,
      mgrVars, insVars, conVars, reqVars, hisVars
<1>20. CASE CmdConfirm
  BY <1>20 DEF CmdConfirm, Types, PcOK, Labels, CustomOK, TableOK, CountOK, Goto,
      mgrVars, insVars, conVars, reqVars, hisVars
<1>21. CASE CmdEnter
  BY <1>21 DEF CmdEnter, Types, PcOK, Labels, CustomOK, TableOK, CountOK, Goto, mgrVars,
      insVars, conVars, reqVars, hisVars
<1>22. CASE CmdNoService
  BY <1>22 DEF CmdNoService, Types, PcOK, Labels, CustomOK, TableOK, CountOK, Return,
      Goto, mgrVars, insVars, conVars, reqVars, hisVars
<1>23. CASE DispatchAnswered
  BY <1>23 DEF DispatchAnswered, Types, PcOK, Labels, CustomOK, TableOK, CountOK,
      Return, Goto, mgrVars, insVars, conVars, reqVars, hisVars
<1>24. CASE DispatchData
  BY <1>24 DEF DispatchData, Types, PcOK, Labels, CustomOK, TableOK, CountOK, Goto,
      Answered, mgrVars, insVars, conVars, reqVars, hisVars
<1>25. CASE TrampolineEmpty
  BY <1>25 DEF TrampolineEmpty, Types, PcOK, Labels, CustomOK, TableOK, CountOK, Return,
      Goto, mgrVars, insVars, conVars, reqVars, hisVars
<1>26. CASE TrampolineCheck
  BY <1>26 DEF TrampolineCheck, Types, PcOK, Labels, CustomOK, TableOK, CountOK, Goto,
      mgrVars, insVars, conVars, reqVars, hisVars
<1>27. CASE TrampolineCall
  BY <1>27 DEF TrampolineCall, Types, PcOK, Labels, CustomOK, TableOK, CountOK, Goto,
      mgrVars, insVars, conVars, reqVars, hisVars
<1>28. CASE HandlerReturns
  BY <1>28 DEF HandlerReturns, Types, PcOK, Labels, CustomOK, TableOK, CountOK, Return,
      Goto, mgrVars, insVars, conVars, reqVars, hisVars
<1>29. CASE UNCHANGED vars
  BY <1>29 DEF Types, PcOK, Labels, CustomOK, TableOK, CountOK, vars, mgrVars, insVars,
      conVars, reqVars, hisVars
<1> QED
  BY <1>1, <1>2, <1>3, <1>4, <1>5, <1>6, <1>7, <1>8, <1>9, <1>10, <1>11, <1>12, <1>13,
      <1>14, <1>15, <1>16, <1>17, <1>18, <1>19, <1>20, <1>21, <1>22, <1>23, <1>24,
      <1>25, <1>26, <1>27, <1>28, <1>29 DEF Next, App, Shell

\* ... so they hold in every reachable state.
LEMMA TypesHold == Spec => []Types
<1>1. Init => Types
  <2>1. Init => PcOK
    BY DEF Init, PcOK, Labels
  <2> QED
    BY <2>1 DEF Init, Types, CustomOK, TableOK, CountOK
<1> QED
  BY <1>1, TypesStep, PTL DEF Spec

-----------------------------------------------------------------------------
\* The names and the table are left alone.
LEMMA FitKept ==
    ASSUME Fit, UNCHANGED <<custom, table>>, pc'["app"] = "add" => pc["app"] = "add"
    PROVE  Fit'
<1>1. ToAdd' = ToAdd
  BY DEF ToAdd
<1> QED
  BY <1>1 DEF Fit

\* A registration changes no name.
LEMMA FitRegister ==
    ASSUME Fit, CustomOK, NEW i \in DOMAIN custom, NEW v \in Nat, pc'["app"] # "add",
           \/ custom' = [custom EXCEPT ![i].ctx = v]
           \/ custom' = [custom EXCEPT ![i].handler = v]
    PROVE  Fit'
<1>1. /\ Len(custom') = Len(custom) /\ DOMAIN custom' = DOMAIN custom
      /\ \A j \in DOMAIN custom : custom'[j].name = custom[j].name
  BY CtxUpdate, HandlerUpdate
<1> QED
  BY <1>1 DEF Fit

\* Every action keeps the names distinct and the table a part of the list
\* (network_prov_mgr_endpoint_create, network_prov_mgr_start_provisioning).
LEMMA FitStep == Types /\ Fit /\ [Next]_vars => Fit'
<1> SUFFICES ASSUME Types, Fit, [Next]_vars PROVE Fit'
  OBVIOUS
<1>1. CASE mgr_init
  BY <1>1, EndpointConstants DEF mgr_init, Fit, Builtins
<1>2. CASE mgr_deinit
  BY <1>2, FitKept DEF mgr_deinit, Types, PcOK, mgrVars, insVars
<1>3. CASE set_app_info
  BY <1>3, FitKept DEF set_app_info, Types, PcOK, mgrVars, insVars
<1>4. ASSUME NEW n \in BuiltinNames \cup Names, endpoint_create(n) PROVE Fit'
  <2>a. /\ Len(custom) \in Nat /\ Len(custom') = Len(custom) + 1
        /\ DOMAIN custom = 1..Len(custom) /\ DOMAIN custom' = 1..Len(custom) + 1
        /\ \A j \in DOMAIN custom : custom'[j] = custom[j]
        /\ custom'[Len(custom) + 1] = [name |-> n, handler |-> 0, ctx |-> 0]
    BY <1>4, CreateEffect DEF Types
  <2>1. \A j \in DOMAIN custom : custom[j].name # n
    BY <1>4 DEF endpoint_create, Created
  <2>2. n \notin BuiltinNames /\ Len(custom) < MaxCustom /\ pc'["app"] # "add"
    BY <1>4 DEF endpoint_create
  <2>3. \A j \in DOMAIN custom' :
          IF j = Len(custom) + 1 THEN custom'[j].name = n
          ELSE j \in DOMAIN custom /\ custom'[j].name = custom[j].name
    BY <2>a
  <2>4. \A j \in DOMAIN custom' : custom'[j].name \notin BuiltinNames
    BY <2>2, <2>3 DEF Fit
  <2>5. \A j, k \in DOMAIN custom' : custom'[j].name = custom'[k].name => j = k
    BY <2>1, <2>3 DEF Fit
  <2>6. Len(custom') <= MaxCustom
    BY <2>2, <2>a, EndpointConstants DEF Builtins
  <2> QED
    BY <2>2, <2>4, <2>5, <2>6 DEF Fit
<1>5. ASSUME NEW i \in DOMAIN custom, endpoint_register(i) PROVE Fit'
  <2>1. pc'["app"] # "add"
    BY <1>5 DEF endpoint_register, Goto, Types, PcOK
  <2>2. \/ custom' = [custom EXCEPT ![i].ctx = regs + 1]
        \/ custom' = [custom EXCEPT ![i].handler = regs]
    BY <1>5 DEF endpoint_register
  <2> QED
    BY <2>1, <2>2, FitRegister DEF Types, CountOK
<1>6. ASSUME NEW i \in DOMAIN custom, endpoint_unregister(i) PROVE Fit'
  <2>1. pc'["app"] # "add"
    BY <1>6 DEF endpoint_unregister, Goto, Types, PcOK
  <2>2. \/ custom' = [custom EXCEPT ![i].ctx = 0]
        \/ custom' = [custom EXCEPT ![i].handler = 0]
    BY <1>6 DEF endpoint_unregister
  <2> QED
    BY <2>1, <2>2, FitRegister DEF Types
<1>7. CASE StartNew
  <2>1. UNCHANGED custom /\ table' = << >> /\ ToAdd' = ToAdd
    BY <1>7 DEF StartNew, ToAdd, mgrVars
  <2>2. Len(ToAdd') \in Nat
    BY <2>1, ToAddIs DEF Types
  <2> QED
    BY <2>1, <2>2 DEF Fit
<1>8. CASE StartAdd
  <2>1. /\ UNCHANGED custom /\ ToAdd' = ToAdd /\ pc["app"] = "add"
        /\ table' = Append(table, ToAdd[Len(table) + 1])
        /\ Len(table) < Len(ToAdd) /\ Len(table) \in Nat /\ DOMAIN table = 1..Len(table)
    BY <1>8 DEF StartAdd, ToAdd, mgrVars, Types, TableOK
  <2>2. Len(ToAdd) \in Nat /\ ToAdd[Len(table) + 1] \in BuiltinNames \cup Names
    BY <2>1, ToAddIs DEF Types
  <2>3. /\ Len(table') = Len(table) + 1 /\ DOMAIN table' = 1..Len(table) + 1
        /\ \A j \in 1..Len(table) : table'[j] = table[j]
        /\ table'[Len(table) + 1] = ToAdd[Len(table) + 1]
    BY <2>1, <2>2 DEF Types, TableOK
  <2>4. \A j \in DOMAIN table' : table'[j] = ToAdd[j]
    BY <2>1, <2>3 DEF Fit
  <2> QED
    BY <2>1, <2>2, <2>3, <2>4 DEF Fit
<1>9. CASE StartScheme
  BY <1>9, FitKept DEF StartScheme, Types, PcOK, Goto, mgrVars, insVars
<1>10. CASE StartForget
  BY <1>10, FitKept DEF StartForget, Types, PcOK, Goto, mgrVars, insVars
<1>11. CASE StartReset
  BY <1>11, FitKept DEF StartReset, Types, PcOK, Goto, mgrVars, insVars
<1>12. CASE StartFails
  BY <1>12, FitKept DEF StartFails, Types, PcOK, Goto, mgrVars, insVars
<1>13. CASE StopClose
  BY <1>13, FitKept DEF StopClose, Types, PcOK, Goto, mgrVars, insVars
<1>14. CASE StopConsole
  BY <1>14, FitKept DEF StopConsole, Types, PcOK, Goto, mgrVars, insVars
<1>15. CASE StopForget
  BY <1>15, FitKept DEF StopForget, Types, PcOK, Goto, mgrVars, insVars
<1>16. CASE StopDelete
  BY <1>16, FitKept DEF StopDelete, Types, PcOK, Goto, mgrVars, insVars
<1>17. CASE CmdParse
  BY <1>17, FitKept DEF CmdParse, Types, PcOK, Goto, mgrVars, insVars
<1>18. CASE CmdSession
  BY <1>18, FitKept DEF CmdSession, Types, PcOK, Goto, mgrVars, insVars
<1>19. CASE CmdRemember
  BY <1>19, FitKept DEF CmdRemember, Types, PcOK, Goto, mgrVars, insVars
<1>20. CASE CmdConfirm
  BY <1>20, FitKept DEF CmdConfirm, Types, PcOK, Goto, mgrVars, insVars
<1>21. CASE CmdEnter
  BY <1>21, FitKept DEF CmdEnter, Types, PcOK, Goto, mgrVars, insVars
<1>22. CASE CmdNoService
  BY <1>22, FitKept DEF CmdNoService, Types, PcOK, Return, Goto, mgrVars, insVars
<1>23. CASE DispatchAnswered
  BY <1>23, FitKept DEF DispatchAnswered, Types, PcOK, Return, Goto, mgrVars, insVars
<1>24. CASE DispatchData
  BY <1>24, FitKept DEF DispatchData, Types, PcOK, Goto, Answered, mgrVars, insVars
<1>25. CASE TrampolineEmpty
  BY <1>25, FitKept DEF TrampolineEmpty, Types, PcOK, Return, Goto, mgrVars, insVars
<1>26. CASE TrampolineCheck
  BY <1>26, FitKept DEF TrampolineCheck, Types, PcOK, Goto, mgrVars, insVars
<1>27. CASE TrampolineCall
  BY <1>27, FitKept DEF TrampolineCall, Types, PcOK, Goto, mgrVars, insVars
<1>28. CASE HandlerReturns
  BY <1>28, FitKept DEF HandlerReturns, Types, PcOK, Return, Goto, mgrVars, insVars
<1>29. CASE UNCHANGED vars
  BY <1>29, FitKept DEF vars, mgrVars, insVars
<1> QED
  BY <1>1, <1>2, <1>3, <1>4, <1>5, <1>6, <1>7, <1>8, <1>9, <1>10, <1>11, <1>12, <1>13,
      <1>14, <1>15, <1>16, <1>17, <1>18, <1>19, <1>20, <1>21, <1>22, <1>23, <1>24,
      <1>25, <1>26, <1>27, <1>28, <1>29 DEF Next, App, Shell

\* The next name of a start is new to the table, and the table has room.
LEMMA FitMayAdd == Types /\ Fit => EndpointsFit
<1> SUFFICES ASSUME Types, Fit, pc["app"] = "add", Len(table) < Len(ToAdd)
             PROVE  MayAdd(ToAdd[Len(table) + 1])
  BY DEF EndpointsFit
<1> USE ToAddIs
<1>1. /\ Len(table) \in Nat /\ DOMAIN table = 1..Len(table)
      /\ Len(table) + 1 \in DOMAIN ToAdd /\ DOMAIN table \subseteq DOMAIN ToAdd
  BY DEF Types, TableOK
<1>2. \A j \in DOMAIN table : table[j] # ToAdd[Len(table) + 1]
  BY <1>1, ToAddDistinct DEF Types, Fit
<1>3. Len(table) < MaxEndpoints
  BY <1>1, EndpointConstants DEF Types, Fit, Builtins
<1> QED
  BY <1>2, <1>3 DEF MayAdd

\* A start is never refused for the names the application was allowed to
\* create, nor for their number.
THEOREM StartsAreNeverRefused == Spec => []EndpointsFit
<1>1. Init => Fit
  BY EndpointConstants DEF Init, Fit, Builtins
<1> QED
  BY <1>1, FitStep, FitMayAdd, TypesHold, PTL DEF Spec

-----------------------------------------------------------------------------
\* Every action keeps the transport's instance the manager's (do_teardown,
\* network_prov_console_start and _stop).
LEMMA AliveStep == Types /\ Alive /\ [Next]_vars => Alive'
<1> SUFFICES ASSUME Types, Alive, [Next]_vars PROVE Alive'
  OBVIOUS
<1> USE DEF Starting
<1>1. CASE mgr_init
  BY <1>1 DEF mgr_init, Alive, Types, PcOK, Labels, InProtocomm, mgrVars, insVars,
      conVars, reqVars, hisVars
<1>2. CASE mgr_deinit
  BY <1>2 DEF mgr_deinit, Alive, Types, PcOK, Labels, InProtocomm, mgrVars, insVars,
      conVars, reqVars, hisVars
<1>3. CASE set_app_info
  BY <1>3 DEF set_app_info, Alive, Types, PcOK, Labels, InProtocomm, mgrVars, insVars,
      conVars, reqVars, hisVars
<1>4. ASSUME NEW n \in BuiltinNames \cup Names, endpoint_create(n) PROVE Alive'
  BY <1>4 DEF endpoint_create, Alive, Created, Types, PcOK, Labels, InProtocomm,
      mgrVars, insVars, conVars, reqVars, hisVars
<1>5. ASSUME NEW i \in DOMAIN custom, endpoint_register(i) PROVE Alive'
  BY <1>5 DEF endpoint_register, Alive, Goto, InUse, Types, PcOK, Labels, InProtocomm,
      mgrVars, insVars, conVars, reqVars, hisVars
<1>6. ASSUME NEW i \in DOMAIN custom, endpoint_unregister(i) PROVE Alive'
  BY <1>6 DEF endpoint_unregister, Alive, Goto, InUse, Types, PcOK, Labels, InProtocomm,
      mgrVars, insVars, conVars, reqVars, hisVars
<1>7. CASE StartNew
  <2>1. g_pc = 0 /\ mgr_pc' # 0 /\ mgr_pc' \in live' /\ UNCHANGED <<g_pc, started, inst, overtaken>>
    BY <1>7 DEF StartNew, Alive, Types, CountOK, conVars, mgrVars, reqVars
  <2>2. pc'["app"] = "add" /\ pc'["sh"] = pc["sh"] /\ ~started
    BY <1>7 DEF StartNew, Goto, Types, PcOK
  <2> QED
    BY <2>1, <2>2 DEF Alive, InProtocomm
<1>8. CASE StartAdd
  BY <1>8 DEF StartAdd, Alive, Types, PcOK, Labels, InProtocomm, mgrVars, insVars,
      conVars, reqVars, hisVars
<1>9. CASE StartScheme
  BY <1>9 DEF StartScheme, Alive, Goto, Types, PcOK, Labels, InProtocomm, mgrVars,
      insVars, conVars, reqVars, hisVars
<1>10. CASE StartForget
  BY <1>10 DEF StartForget, Alive, Goto, Types, PcOK, Labels, InProtocomm, mgrVars,
      insVars, conVars, reqVars, hisVars
<1>11. CASE StartReset
  BY <1>11 DEF StartReset, Alive, Goto, Types, PcOK, Labels, InProtocomm, mgrVars,
      insVars, conVars, reqVars, hisVars
<1>12. CASE StartFails
  BY <1>12 DEF StartFails, Alive, Goto, Types, PcOK, Labels, InProtocomm, mgrVars,
      insVars, conVars, reqVars, hisVars
<1>13. CASE StopClose
  BY <1>13 DEF StopClose, Alive, Goto, Types, PcOK, Labels, InProtocomm, mgrVars,
      insVars, conVars, reqVars, hisVars
<1>14. CASE StopConsole
  BY <1>14 DEF StopConsole, Alive, Goto, Types, PcOK, Labels, InProtocomm, mgrVars,
      insVars, conVars, reqVars, hisVars
<1>15. CASE StopForget
  BY <1>15 DEF StopForget, Alive, Goto, Types, PcOK, Labels, InProtocomm, mgrVars,
      insVars, conVars, reqVars, hisVars
<1>16. CASE StopDelete
  BY <1>16 DEF StopDelete, Alive, Goto, Types, PcOK, Labels, InProtocomm, mgrVars,
      insVars, conVars, reqVars, hisVars
<1>17. CASE CmdParse
  BY <1>17 DEF CmdParse, Alive, Goto, Types, PcOK, Labels, InProtocomm, mgrVars,
      insVars, conVars, reqVars, hisVars
<1>18. CASE CmdSession
  BY <1>18 DEF CmdSession, Alive, Goto, Types, PcOK, Labels, InProtocomm, mgrVars,
      insVars, conVars, reqVars, hisVars
<1>19. CASE CmdRemember
  BY <1>19 DEF CmdRemember, Alive, Goto, Types, PcOK, Labels, InProtocomm, mgrVars,
      insVars, conVars, reqVars, hisVars
<1>20. CASE CmdConfirm
  BY <1>20 DEF CmdConfirm, Alive, Goto, Types, PcOK, Labels, InProtocomm, mgrVars,
      insVars, conVars, reqVars, hisVars
<1>21. CASE CmdEnter
  BY <1>21 DEF CmdEnter, Alive, Goto, Types, PcOK, Labels, InProtocomm, mgrVars,
      insVars, conVars, reqVars, hisVars
<1>22. CASE CmdNoService
  BY <1>22 DEF CmdNoService, Alive, Return, Goto, Types, PcOK, Labels, InProtocomm,
      mgrVars, insVars, conVars, reqVars, hisVars
<1>23. CASE DispatchAnswered
  BY <1>23 DEF DispatchAnswered, Alive, Return, Goto, Types, PcOK, Labels, InProtocomm,
      mgrVars, insVars, conVars, reqVars, hisVars
<1>24. CASE DispatchData
  BY <1>24 DEF DispatchData, Alive, Goto, Answered, Types, PcOK, Labels, InProtocomm,
      mgrVars, insVars, conVars, reqVars, hisVars
<1>25. CASE TrampolineEmpty
  BY <1>25 DEF TrampolineEmpty, Alive, Return, Goto, Types, PcOK, Labels, InProtocomm,
      mgrVars, insVars, conVars, reqVars, hisVars
<1>26. CASE TrampolineCheck
  BY <1>26 DEF TrampolineCheck, Alive, Goto, Types, PcOK, Labels, InProtocomm, mgrVars,
      insVars, conVars, reqVars, hisVars
<1>27. CASE TrampolineCall
  BY <1>27 DEF TrampolineCall, Alive, Goto, Types, PcOK, Labels, InProtocomm, mgrVars,
      insVars, conVars, reqVars, hisVars
<1>28. CASE HandlerReturns
  BY <1>28 DEF HandlerReturns, Alive, Return, Goto, Types, PcOK, Labels, InProtocomm,
      mgrVars, insVars, conVars, reqVars, hisVars
<1>29. CASE UNCHANGED vars
  BY <1>29 DEF Alive, vars, Types, PcOK, Labels, InProtocomm, mgrVars, insVars, conVars,
      reqVars, hisVars
<1> QED
  BY <1>1, <1>2, <1>3, <1>4, <1>5, <1>6, <1>7, <1>8, <1>9, <1>10, <1>11, <1>12, <1>13,
      <1>14, <1>15, <1>16, <1>17, <1>18, <1>19, <1>20, <1>21, <1>22, <1>23, <1>24,
      <1>25, <1>26, <1>27, <1>28, <1>29 DEF Next, App, Shell

\* A request that no stop has overtaken works on an allocated instance, the
\* manager's.
THEOREM InstancesAreAlive == Spec => []InstanceAlive
<1>1. Init => Alive
  BY DEF Init, Alive, Starting, InProtocomm
<1>2. Alive => InstanceAlive
  BY DEF Alive, InstanceAlive
<1> QED
  BY <1>1, <1>2, AliveStep, TypesHold, PTL DEF Spec

-----------------------------------------------------------------------------
\* Every action keeps the session with its id (cmd_net_prov).
LEMMA OwnedStep == Types /\ Alive /\ Owned /\ [Next]_vars => Owned'
<1> SUFFICES ASSUME Types, Alive, Owned, [Next]_vars PROVE Owned'
  OBVIOUS
<1> USE DEF Starting, DataInSession
<1>1. CASE mgr_init
  BY <1>1 DEF mgr_init, Owned, Types, PcOK, Labels, Alive, SessionOwnId, InProtocomm,
      mgrVars, insVars, conVars, reqVars, hisVars
<1>2. CASE mgr_deinit
  BY <1>2 DEF mgr_deinit, Owned, Types, PcOK, Labels, Alive, SessionOwnId, InProtocomm,
      mgrVars, insVars, conVars, reqVars, hisVars
<1>3. CASE set_app_info
  BY <1>3 DEF set_app_info, Owned, Types, PcOK, Labels, Alive, SessionOwnId,
      InProtocomm, mgrVars, insVars, conVars, reqVars, hisVars
<1>4. ASSUME NEW n \in BuiltinNames \cup Names, endpoint_create(n) PROVE Owned'
  BY <1>4 DEF endpoint_create, Owned, Created, Types, PcOK, Labels, Alive, SessionOwnId,
      InProtocomm, mgrVars, insVars, conVars, reqVars, hisVars
<1>5. ASSUME NEW i \in DOMAIN custom, endpoint_register(i) PROVE Owned'
  BY <1>5 DEF endpoint_register, Owned, Goto, InUse, Types, PcOK, Labels, Alive,
      SessionOwnId, InProtocomm, mgrVars, insVars, conVars, reqVars, hisVars
<1>6. ASSUME NEW i \in DOMAIN custom, endpoint_unregister(i) PROVE Owned'
  BY <1>6 DEF endpoint_unregister, Owned, Goto, InUse, Types, PcOK, Labels, Alive,
      SessionOwnId, InProtocomm, mgrVars, insVars, conVars, reqVars, hisVars
<1>7. CASE StartNew
  BY <1>7 DEF StartNew, Owned, Goto, Types, PcOK, Labels, Alive, SessionOwnId,
      InProtocomm, mgrVars, insVars, conVars, reqVars, hisVars
<1>8. CASE StartAdd
  BY <1>8 DEF StartAdd, Owned, Types, PcOK, Labels, Alive, SessionOwnId, InProtocomm,
      mgrVars, insVars, conVars, reqVars, hisVars
<1>9. CASE StartScheme
  BY <1>9 DEF StartScheme, Owned, Goto, Types, PcOK, Labels, Alive, SessionOwnId,
      InProtocomm, mgrVars, insVars, conVars, reqVars, hisVars
<1>10. CASE StartForget
  BY <1>10 DEF StartForget, Owned, Goto, Types, PcOK, Labels, Alive, SessionOwnId,
      InProtocomm, mgrVars, insVars, conVars, reqVars, hisVars
<1>11. CASE StartReset
  BY <1>11 DEF StartReset, Owned, Goto, Types, PcOK, Labels, Alive, SessionOwnId,
      InProtocomm, mgrVars, insVars, conVars, reqVars, hisVars
<1>12. CASE StartFails
  BY <1>12 DEF StartFails, Owned, Goto, Types, PcOK, Labels, Alive, SessionOwnId,
      InProtocomm, mgrVars, insVars, conVars, reqVars, hisVars
<1>13. CASE StopClose
  BY <1>13 DEF StopClose, Owned, Goto, Types, PcOK, Labels, Alive, SessionOwnId,
      InProtocomm, mgrVars, insVars, conVars, reqVars, hisVars
<1>14. CASE StopConsole
  BY <1>14 DEF StopConsole, Owned, Goto, Types, PcOK, Labels, Alive, SessionOwnId,
      InProtocomm, mgrVars, insVars, conVars, reqVars, hisVars
<1>15. CASE StopForget
  BY <1>15 DEF StopForget, Owned, Goto, Types, PcOK, Labels, Alive, SessionOwnId,
      InProtocomm, mgrVars, insVars, conVars, reqVars, hisVars
<1>16. CASE StopDelete
  BY <1>16 DEF StopDelete, Owned, Goto, Types, PcOK, Labels, Alive, SessionOwnId,
      InProtocomm, mgrVars, insVars, conVars, reqVars, hisVars
<1>17. CASE CmdParse
  BY <1>17 DEF CmdParse, Owned, Goto, Types, PcOK, Labels, Alive, SessionOwnId,
      InProtocomm, mgrVars, insVars, conVars, reqVars, hisVars
<1>18. CASE CmdSession
  BY <1>18 DEF CmdSession, Owned, Goto, Types, PcOK, Labels, Alive, SessionOwnId,
      InProtocomm, mgrVars, insVars, conVars, reqVars, hisVars
<1>19. CASE CmdRemember
  BY <1>19 DEF CmdRemember, Owned, Goto, Types, PcOK, Labels, Alive, SessionOwnId,
      InProtocomm, mgrVars, insVars, conVars, reqVars, hisVars
<1>20. CASE CmdConfirm
  BY <1>20 DEF CmdConfirm, Owned, Goto, Types, PcOK, Labels, Alive, SessionOwnId,
      InProtocomm, mgrVars, insVars, conVars, reqVars, hisVars
<1>21. CASE CmdEnter
  BY <1>21 DEF CmdEnter, Owned, Goto, Types, PcOK, Labels, Alive, SessionOwnId,
      InProtocomm, mgrVars, insVars, conVars, reqVars, hisVars
<1>22. CASE CmdNoService
  BY <1>22 DEF CmdNoService, Owned, Return, Goto, Types, PcOK, Labels, Alive,
      SessionOwnId, InProtocomm, mgrVars, insVars, conVars, reqVars, hisVars
<1>23. CASE DispatchAnswered
  BY <1>23 DEF DispatchAnswered, Owned, Return, Goto, Types, PcOK, Labels, Alive,
      SessionOwnId, InProtocomm, mgrVars, insVars, conVars, reqVars, hisVars
<1>24. CASE DispatchData
  BY <1>24 DEF DispatchData, Owned, Goto, Answered, Types, PcOK, Labels, Alive,
      SessionOwnId, InProtocomm, mgrVars, insVars, conVars, reqVars, hisVars
<1>25. CASE TrampolineEmpty
  BY <1>25 DEF TrampolineEmpty, Owned, Return, Goto, Types, PcOK, Labels, Alive,
      SessionOwnId, InProtocomm, mgrVars, insVars, conVars, reqVars, hisVars
<1>26. CASE TrampolineCheck
  BY <1>26 DEF TrampolineCheck, Owned, Goto, Types, PcOK, Labels, Alive, SessionOwnId,
      InProtocomm, mgrVars, insVars, conVars, reqVars, hisVars
<1>27. CASE TrampolineCall
  BY <1>27 DEF TrampolineCall, Owned, Goto, Types, PcOK, Labels, Alive, SessionOwnId,
      InProtocomm, mgrVars, insVars, conVars, reqVars, hisVars
<1>28. CASE HandlerReturns
  BY <1>28 DEF HandlerReturns, Owned, Return, Goto, Types, PcOK, Labels, Alive,
      SessionOwnId, InProtocomm, mgrVars, insVars, conVars, reqVars, hisVars
<1>29. CASE UNCHANGED vars
  BY <1>29 DEF Owned, vars, Types, PcOK, Labels, Alive, SessionOwnId, InProtocomm,
      mgrVars, insVars, conVars, reqVars, hisVars
<1> QED
  BY <1>1, <1>2, <1>3, <1>4, <1>5, <1>6, <1>7, <1>8, <1>9, <1>10, <1>11, <1>12, <1>13,
      <1>14, <1>15, <1>16, <1>17, <1>18, <1>19, <1>20, <1>21, <1>22, <1>23, <1>24,
      <1>25, <1>26, <1>27, <1>28, <1>29 DEF Next, App, Shell

\* A data handler runs in a session of its own request's id, unless a stop
\* overtook the request.
THEOREM SessionsAreTheRequests == Spec => []SessionOwnId
<1>1. Init => Alive /\ Owned
  BY DEF Init, Alive, Starting, Owned, SessionOwnId, DataInSession, InProtocomm
<1>2. Owned => SessionOwnId
  BY DEF Owned
<1> QED
  BY <1>1, <1>2, AliveStep, OwnedStep, TypesHold, PTL DEF Spec

-----------------------------------------------------------------------------
\* Every action keeps handlers with their ctx (endpoint_register,
\* endpoint_unregister, custom_trampoline).
LEMMA MatchingStep == Types /\ Fit /\ Matching /\ [Next]_vars => Matching'
<1> SUFFICES ASSUME Types, Fit, Matching, [Next]_vars PROVE Matching'
  OBVIOUS
<1>1. CASE mgr_init
  <2>1. /\ custom' = << >> /\ UNCHANGED <<pc, regs, slot, fn, arg>>
        /\ pc["app"] = "idle"
    BY <1>1 DEF mgr_init, reqVars
  <2>2. (raced => raced') /\ (pc["sh"] = "call" => raced')
    BY <1>1 DEF mgr_init
  <2>3. DOMAIN custom' = {}
    BY <2>1
  <2> QED
    BY <2>1, <2>2, <2>3 DEF Matching, CtxMatches
<1>2. CASE mgr_deinit
  BY <1>2 DEF mgr_deinit, Matching, Types, PcOK, Labels, CtxMatches, mgrVars, insVars,
      conVars, reqVars, hisVars
<1>3. CASE set_app_info
  BY <1>3 DEF set_app_info, Matching, Types, PcOK, Labels, CtxMatches, mgrVars, insVars,
      conVars, reqVars, hisVars
<1>4. ASSUME NEW n \in BuiltinNames \cup Names, endpoint_create(n) PROVE Matching'
  <2>a. /\ Len(custom) \in Nat /\ Len(custom') = Len(custom) + 1
        /\ DOMAIN custom = 1..Len(custom) /\ DOMAIN custom' = 1..Len(custom) + 1
        /\ \A j \in DOMAIN custom : custom'[j] = custom[j]
        /\ custom'[Len(custom) + 1] = [name |-> n, handler |-> 0, ctx |-> 0]
    BY <1>4, CreateEffect DEF Types
  <2>1. UNCHANGED <<pc, regs, slot, fn, arg, raced>> /\ pc["app"] = "idle"
    BY <1>4 DEF endpoint_create, reqVars, hisVars
  <2>2. \A j \in DOMAIN custom' :
          IF j = Len(custom) + 1 THEN custom'[j].handler = 0 /\ custom'[j].ctx = 0
                                 ELSE j \in DOMAIN custom /\ custom'[j] = custom[j]
    BY <2>a
  <2>3. \A j \in DOMAIN custom : j \in DOMAIN custom' /\ custom'[j] = custom[j]
    BY <2>a
  <2>4. \A j \in DOMAIN custom' : custom'[j].ctx <= regs'
    BY <2>1, <2>2 DEF Matching, Types, CountOK
  <2>5. \A j, k \in DOMAIN custom' :
          custom'[j].ctx = custom'[k].ctx /\ custom'[j].ctx # 0 => j = k
    BY <2>2 DEF Matching
  <2>6. \A j \in DOMAIN custom' : custom'[j].handler # 0 => custom'[j].handler = custom'[j].ctx
    BY <2>1, <2>2 DEF Matching
  <2> QED
    BY <2>1, <2>3, <2>4, <2>5, <2>6 DEF Matching, CtxMatches
<1>5. ASSUME NEW i \in DOMAIN custom, endpoint_register(i) PROVE Matching'
  <2>1. CASE /\ pc["app"] = "idle" /\ regs' = regs + 1
             /\ custom' = [custom EXCEPT ![i].ctx = regs + 1]
             /\ raced' = (raced \/ InUse(i))
             /\ Goto("app", IF custom[i].handler = 0 THEN "register" ELSE "replace")
    <3>1. /\ pc'["sh"] = pc["sh"] /\ pc'["app"] \in {"register", "replace"}
          /\ pc'["app"] = "register" <=> custom[i].handler = 0
          /\ UNCHANGED <<slot, fn, arg>>
      BY <1>5, <2>1 DEF endpoint_register, Goto, Types, PcOK, reqVars
    <3>2. /\ DOMAIN custom' = DOMAIN custom /\ custom'[i].ctx = regs'
          /\ \A j \in DOMAIN custom : custom'[j].handler = custom[j].handler
                                     /\ (j # i => custom'[j].ctx = custom[j].ctx)
      <4>1. regs + 1 \in Nat /\ CustomOK
        BY DEF Types, CountOK
      <4> QED
        BY <2>1, <4>1, CtxUpdate
    <3>3. regs \in Nat /\ regs' # 0 /\ \A j \in DOMAIN custom : custom[j].ctx \in Nat
      BY <2>1, EntriesAre DEF Types, CountOK
    <3>4. \A j \in DOMAIN custom' : custom'[j].ctx <= regs'
      BY <2>1, <3>2, <3>3 DEF Matching
    <3>5. \A j, k \in DOMAIN custom' :
            custom'[j].ctx = custom'[k].ctx /\ custom'[j].ctx # 0 => j = k
      BY <2>1, <3>2, <3>3 DEF Matching
    <3>6. \A j \in DOMAIN custom' : custom'[j].handler # 0 /\ custom'[j].handler # custom'[j].ctx =>
            pc'["app"] = "replace" /\ custom'[j].ctx = regs'
      BY <2>1, <3>1, <3>2 DEF Matching
    <3>7. pc["sh"] = "call" /\ ~raced' => slot # i /\ ~raced
      BY <2>1 DEF InUse
    <3>8. raced => raced'
      BY <2>1
    <3> QED
      BY <3>1, <3>2, <3>3, <3>4, <3>5, <3>6, <3>7, <3>8 DEF Matching, CtxMatches
  <2>2. CASE /\ pc["app"] \in {"register", "replace"} /\ custom[i].ctx = regs
             /\ custom' = [custom EXCEPT ![i].handler = regs]
             /\ Goto("app", "idle") /\ UNCHANGED <<regs, raced>>
    <3>1. pc'["sh"] = pc["sh"] /\ pc'["app"] = "idle" /\ UNCHANGED <<slot, fn, arg>>
      BY <1>5, <2>2 DEF endpoint_register, Goto, Types, PcOK, reqVars
    <3>2. /\ DOMAIN custom' = DOMAIN custom /\ custom'[i].handler = regs
          /\ \A j \in DOMAIN custom : custom'[j].ctx = custom[j].ctx
                                     /\ (j # i => custom'[j].handler = custom[j].handler)
      BY <2>2, HandlerUpdate DEF Types, CountOK
    <3>3. \A j \in DOMAIN custom' : custom'[j].handler # 0 => custom'[j].handler = custom'[j].ctx
      BY <2>2, <3>2 DEF Matching
    <3>4. \A j \in DOMAIN custom' : custom'[j].ctx <= regs'
      BY <2>2, <3>2 DEF Matching
    <3>5. \A j, k \in DOMAIN custom' :
            custom'[j].ctx = custom'[k].ctx /\ custom'[j].ctx # 0 => j = k
      BY <3>2 DEF Matching
    <3> QED
      BY <2>2, <3>1, <3>2, <3>3, <3>4, <3>5 DEF Matching, CtxMatches
  <2> QED
    BY <1>5, <2>1, <2>2 DEF endpoint_register
<1>6. ASSUME NEW i \in DOMAIN custom, endpoint_unregister(i) PROVE Matching'
  <2>1. CASE /\ pc["app"] = "idle" /\ custom[i].handler # 0
             /\ custom' = [custom EXCEPT ![i].handler = 0]
             /\ raced' = (raced \/ InUse(i)) /\ Goto("app", "unregister")
    <3>1. pc'["sh"] = pc["sh"] /\ pc'["app"] = "unregister" /\ UNCHANGED <<slot, fn, arg, regs>>
      BY <1>6, <2>1 DEF endpoint_unregister, Goto, Types, PcOK, reqVars
    <3>2. /\ DOMAIN custom' = DOMAIN custom /\ custom'[i].handler = 0
          /\ \A j \in DOMAIN custom : custom'[j].ctx = custom[j].ctx
                                     /\ (j # i => custom'[j].handler = custom[j].handler)
      BY <2>1, HandlerUpdate DEF Types
    <3>3. pc["sh"] = "call" /\ ~raced' => slot # i /\ ~raced
      BY <2>1 DEF InUse
    <3>4. raced => raced'
      BY <2>1
    <3> QED
      BY <2>1, <3>1, <3>2, <3>3, <3>4 DEF Matching, CtxMatches
  <2>2. CASE /\ pc["app"] = "unregister" /\ custom[i].handler = 0
             /\ custom' = [custom EXCEPT ![i].ctx = 0]
             /\ Goto("app", "idle") /\ UNCHANGED raced
    <3>1. pc'["sh"] = pc["sh"] /\ pc'["app"] = "idle" /\ UNCHANGED <<slot, fn, arg, regs>>
      BY <1>6, <2>2 DEF endpoint_unregister, Goto, Types, PcOK, reqVars
    <3>2. /\ DOMAIN custom' = DOMAIN custom /\ custom'[i].ctx = 0
          /\ \A j \in DOMAIN custom : custom'[j].handler = custom[j].handler
                                     /\ (j # i => custom'[j].ctx = custom[j].ctx)
      <4>1. 0 \in Nat /\ CustomOK
        BY DEF Types
      <4> QED
        BY <2>2, <4>1, CtxUpdate
    <3>3. \A j \in DOMAIN custom' : custom'[j].ctx <= regs'
      BY <3>1, <3>2 DEF Matching, Types, CountOK
    <3> QED
      BY <2>2, <3>1, <3>2, <3>3 DEF Matching, CtxMatches
  <2> QED
    BY <1>6, <2>1, <2>2 DEF endpoint_unregister
<1>7. CASE StartNew
  BY <1>7 DEF StartNew, Matching, Goto, Types, PcOK, Labels, CtxMatches, mgrVars,
      insVars, conVars, reqVars, hisVars
<1>8. CASE StartAdd
  BY <1>8 DEF StartAdd, Matching, Types, PcOK, Labels, CtxMatches, mgrVars, insVars,
      conVars, reqVars, hisVars
<1>9. CASE StartScheme
  BY <1>9 DEF StartScheme, Matching, Goto, Types, PcOK, Labels, CtxMatches, mgrVars,
      insVars, conVars, reqVars, hisVars
<1>10. CASE StartForget
  BY <1>10 DEF StartForget, Matching, Goto, Types, PcOK, Labels, CtxMatches, mgrVars,
      insVars, conVars, reqVars, hisVars
<1>11. CASE StartReset
  BY <1>11 DEF StartReset, Matching, Goto, Types, PcOK, Labels, CtxMatches, mgrVars,
      insVars, conVars, reqVars, hisVars
<1>12. CASE StartFails
  BY <1>12 DEF StartFails, Matching, Goto, Types, PcOK, Labels, CtxMatches, mgrVars,
      insVars, conVars, reqVars, hisVars
<1>13. CASE StopClose
  BY <1>13 DEF StopClose, Matching, Goto, Types, PcOK, Labels, CtxMatches, mgrVars,
      insVars, conVars, reqVars, hisVars
<1>14. CASE StopConsole
  BY <1>14 DEF StopConsole, Matching, Goto, Types, PcOK, Labels, CtxMatches, mgrVars,
      insVars, conVars, reqVars, hisVars
<1>15. CASE StopForget
  BY <1>15 DEF StopForget, Matching, Goto, Types, PcOK, Labels, CtxMatches, mgrVars,
      insVars, conVars, reqVars, hisVars
<1>16. CASE StopDelete
  BY <1>16 DEF StopDelete, Matching, Goto, Types, PcOK, Labels, CtxMatches, mgrVars,
      insVars, conVars, reqVars, hisVars
<1>17. CASE CmdParse
  BY <1>17 DEF CmdParse, Matching, Goto, Types, PcOK, Labels, CtxMatches, mgrVars,
      insVars, conVars, reqVars, hisVars
<1>18. CASE CmdSession
  BY <1>18 DEF CmdSession, Matching, Goto, Types, PcOK, Labels, CtxMatches, mgrVars,
      insVars, conVars, reqVars, hisVars
<1>19. CASE CmdRemember
  BY <1>19 DEF CmdRemember, Matching, Goto, Types, PcOK, Labels, CtxMatches, mgrVars,
      insVars, conVars, reqVars, hisVars
<1>20. CASE CmdConfirm
  BY <1>20 DEF CmdConfirm, Matching, Goto, Types, PcOK, Labels, CtxMatches, mgrVars,
      insVars, conVars, reqVars, hisVars
<1>21. CASE CmdEnter
  BY <1>21 DEF CmdEnter, Matching, Goto, Types, PcOK, Labels, CtxMatches, mgrVars,
      insVars, conVars, reqVars, hisVars
<1>22. CASE CmdNoService
  BY <1>22 DEF CmdNoService, Matching, Return, Goto, Types, PcOK, Labels, CtxMatches,
      mgrVars, insVars, conVars, reqVars, hisVars
<1>23. CASE DispatchAnswered
  BY <1>23 DEF DispatchAnswered, Matching, Return, Goto, Types, PcOK, Labels,
      CtxMatches, mgrVars, insVars, conVars, reqVars, hisVars
<1>24. CASE DispatchData
  <2>1. PICK i \in 0..Len(custom) :
          /\ IF i = 0 THEN req.ep \in BuiltinNames ELSE custom[i].name = req.ep
          /\ slot' = i
    BY <1>24 DEF DispatchData
  <2>2. req.ep \in BuiltinNames => slot' = 0
    BY <2>1, EntriesAre DEF Types, Fit
  <2>3. /\ UNCHANGED <<custom, regs, fn, arg, raced>> /\ pc'["app"] = pc["app"]
        /\ pc'["sh"] = IF req.ep \in BuiltinNames THEN "handler" ELSE "trampoline"
    BY <1>24 DEF DispatchData, Goto, Types, PcOK, mgrVars, hisVars
  <2> QED
    BY <2>2, <2>3 DEF Matching, CtxMatches
<1>25. CASE TrampolineEmpty
  BY <1>25 DEF TrampolineEmpty, Matching, Return, Goto, Types, PcOK, Labels, CtxMatches,
      mgrVars, insVars, conVars, reqVars, hisVars
<1>26. CASE TrampolineCheck
  <2>1. /\ UNCHANGED <<custom, regs, slot, arg>> /\ pc'["app"] = pc["app"]
        /\ pc'["sh"] = "call" /\ raced' = (pc["app"] = "replace")
        /\ slot \in DOMAIN custom /\ fn' = custom[slot].handler /\ fn' # 0
    BY <1>26 DEF TrampolineCheck, Entry, Goto, Types, PcOK, mgrVars
  <2> QED
    BY <2>1 DEF Matching, CtxMatches
<1>27. CASE TrampolineCall
  <2>1. /\ UNCHANGED <<custom, regs, slot, raced>> /\ pc'["app"] = pc["app"]
        /\ pc["sh"] = "call" /\ pc'["sh"] = "handler"
        /\ fn' \in {fn, Entry(slot).handler} /\ arg' = Entry(slot).ctx
    BY <1>27 DEF TrampolineCall, Goto, Types, PcOK, mgrVars, hisVars
  <2> QED
    BY <2>1 DEF Matching, CtxMatches, Entry
<1>28. CASE HandlerReturns
  BY <1>28 DEF HandlerReturns, Matching, Return, Goto, Types, PcOK, Labels, CtxMatches,
      mgrVars, insVars, conVars, reqVars, hisVars
<1>29. CASE UNCHANGED vars
  BY <1>29 DEF Matching, vars, Types, PcOK, Labels, CtxMatches, mgrVars, insVars,
      conVars, reqVars, hisVars
<1> QED
  BY <1>1, <1>2, <1>3, <1>4, <1>5, <1>6, <1>7, <1>8, <1>9, <1>10, <1>11, <1>12, <1>13,
      <1>14, <1>15, <1>16, <1>17, <1>18, <1>19, <1>20, <1>21, <1>22, <1>23, <1>24,
      <1>25, <1>26, <1>27, <1>28, <1>29 DEF Next, App, Shell

\* A custom handler is called with its own ctx and never through NULL, unless
\* its registration was replaced or removed under the request.
THEOREM HandlersGetTheirCtx == Spec => []CtxMatches
<1>1. Init => Fit /\ Matching
  BY EndpointConstants DEF Init, Fit, Builtins, Matching, CtxMatches
<1>2. Matching => CtxMatches
  BY DEF Matching
<1> QED
  BY <1>1, <1>2, FitStep, MatchingStep, TypesHold, PTL DEF Spec
=============================================================================
