-------------------------------- MODULE Scan --------------------------------
(***************************************************************************)
(* The prov-scan endpoint of both network types.  be is the one that is    *)
(* built in: "wifi" (wifi_scan_handler.c over the driver of fake_wifi.c)   *)
(* or "thread" (thread_scan_handler.c over otThreadDiscover).              *)
(*                                                                         *)
(* "req" is the transport's thread, which runs one request at a time, and  *)
(* "ev" the thread that reports results: the net_mgmt event thread, which  *)
(* works without a lock and is split into its reads and writes of sc, or   *)
(* the OpenThread thread, which holds ts_lock.  A result is the pair of    *)
(* the start its sweep was made for and its number in the sweep.           *)
(* ts.in_progress is written and never read, and left out.                 *)
(***************************************************************************)
EXTENDS Naturals, Sequences

CONSTANTS
    Backends,      \* the network types to model
    MaxEntries,    \* CONFIG_NETWORK_PROV_SCAN_MAX_ENTRIES
    PageSize,      \* ARRAY_SIZE(out->entries)
    MaxFound,      \* results of a sweep
    QueueLen,      \* net_mgmt's event queue
    MaxStarts      \* bound on the number of starts in a behaviour

ASSUME ScanConstants ==
    /\ Backends \subseteq {"wifi", "thread"}
    /\ MaxEntries \in Nat \ {0} /\ PageSize \in Nat \ {0}
    /\ MaxFound \in Nat /\ QueueLen \in Nat \ {0} /\ MaxStarts \in Nat

VARIABLES
    be,
    entries, count, finished,   \* sc, ts
    sem,                        \* scan_done_sem, 0 or 1
    registered,                 \* the endpoint is initialised
    queued,                     \* scan_work submitted, for this start; 0 = no
    sweep, next,                \* the sweep that runs (0 = none), its next result
    evq,                        \* events raised and not yet delivered
    pc,
    cur, slot,                  \* on_scan_result's locals: result, place
    blocking,                   \* the request's flag
    gen,                        \* (history) starts so far
    clean,                      \* (history) nothing was under way when it began
    ok,                         \* (history) ... and it answered a blocking client
    heard,                      \* (history) results of this start delivered
    got, gotAll                 \* (history) what the client has paged in; all

tabVars == <<entries, count, finished>>
drvVars == <<queued, sweep, next, evq>>
evVars == <<cur, slot>>
hisVars == <<gen, clean, ok, heard>>
cliVars == <<got, gotAll>>
vars == <<be, tabVars, sem, registered, drvVars, pc, evVars, blocking, hisVars, cliVars>>

NoEntry == <<0, 0>>
Done == <<0, 1>>
NoEntries == [i \in 1..MaxEntries |-> NoEntry]

Init ==
    /\ be \in Backends
    /\ entries = NoEntries /\ count = 0 /\ finished = FALSE
    /\ sem = 0 /\ registered = FALSE
    /\ queued = 0 /\ sweep = 0 /\ next = 1 /\ evq = <<>>
    /\ pc = [t \in {"req", "ev"} |-> "idle"]
    /\ cur = NoEntry /\ slot = 1 /\ blocking = FALSE
    /\ gen = 0 /\ clean = FALSE /\ ok = FALSE /\ heard = 0
    /\ got = <<>> /\ gotAll = FALSE

Goto(t, l) == pc' = [pc EXCEPT ![t] = l]

Quiet == queued = 0 /\ sweep = 0 /\ evq = <<>> /\ pc["ev"] = "idle"

-----------------------------------------------------------------------------
\* scan_init: the Wi-Fi table is left as it is, the Thread table zeroed.
scan_init ==
    /\ ~registered
    /\ registered' = TRUE
    /\ IF be = "wifi" THEN UNCHANGED tabVars
                      ELSE entries' = NoEntries /\ count' = 0 /\ finished' = FALSE
    /\ clean' = FALSE /\ ok' = FALSE
    /\ UNCHANGED <<be, sem, drvVars, pc, evVars, blocking, gen, heard, cliVars>>

\* scan_deinit, also while a request waits: net_mgmt waits for a callback
\* that runs; an OpenThread sweep goes on and its callbacks still come.
scan_deinit ==
    /\ registered
    /\ be = "wifi" => pc["ev"] = "idle"
    /\ registered' = FALSE
    /\ clean' = FALSE
    /\ UNCHANGED <<be, tabVars, sem, drvVars, pc, evVars, blocking, gen, ok, heard, cliVars>>

-----------------------------------------------------------------------------
\* CmdScan*Start: k_sem_reset ...
Begin ==
    /\ registered /\ pc["req"] = "idle" /\ gen < MaxStarts
    /\ gen' = gen + 1
    /\ clean' = Quiet /\ ok' = FALSE /\ heard' = 0
    /\ got' = <<>> /\ gotAll' = FALSE
    /\ blocking' \in BOOLEAN

\* Mutant: the semaphore is not reset.
StartReset_NoReset ==
    /\ Begin
    /\ Goto("req", "clear")
    /\ UNCHANGED <<be, tabVars, sem, registered, drvVars, evVars>>

StartReset ==
    /\ Begin
    /\ sem' = 0
    /\ Goto("req", "clear")
    /\ UNCHANGED <<be, tabVars, registered, drvVars, evVars>>

\* do_scan_start without a Wi-Fi interface.
StartNoInterface ==
    /\ pc["req"] = "clear" /\ be = "wifi"
    /\ Goto("req", "idle")
    /\ UNCHANGED <<be, tabVars, sem, registered, drvVars, evVars, blocking, hisVars, cliVars>>

\* ... empty the table ...
StartClear ==
    /\ pc["req"] = "clear"
    /\ count' = 0 /\ finished' = FALSE
    /\ Goto("req", "scan")
    /\ UNCHANGED <<be, entries, sem, registered, drvVars, evVars, blocking, hisVars, cliVars>>

\* otThreadDiscover and the callback hold OpenThread's mutex.
MayScan == be = "thread" => pc["ev"] = "idle"

\* k_work_submit(&d->scan_work): a sweep that runs is followed by another.
fake_scan == queued' = gen

\* ... ask for a sweep: the driver's, or otThreadDiscover, which one that
\* still runs keeps busy.
StartScan ==
    /\ pc["req"] = "scan" /\ MayScan
    /\ \/ be = "wifi" /\ fake_scan /\ UNCHANGED <<sweep, next>>
       \/ be = "thread" /\ sweep = 0 /\ sweep' = gen /\ next' = 1 /\ UNCHANGED queued
    /\ Goto("req", IF blocking THEN "wait" ELSE "idle")
    /\ UNCHANGED <<be, tabVars, sem, registered, evq, evVars, blocking, hisVars, cliVars>>

\* The request is refused.
StartFails ==
    /\ pc["req"] = "scan" /\ MayScan
    /\ finished' = TRUE
    /\ Goto("req", "idle")
    /\ UNCHANGED <<be, entries, count, sem, registered, drvVars, evVars, blocking, hisVars,
                   cliVars>>

\* k_sem_take, and the answer Success.
StartDone ==
    /\ pc["req"] = "wait" /\ sem = 1
    /\ sem' = 0
    /\ ok' = clean
    /\ Goto("req", "idle")
    /\ UNCHANGED <<be, tabVars, registered, drvVars, evVars, blocking, gen, clean, heard,
                   cliVars>>

\* Mutant: K_FOREVER.
StartTimeout_Forever ==
    /\ pc["req"] = "wait" /\ sem = 1
    /\ Goto("req", "idle")
    /\ UNCHANGED <<be, tabVars, sem, registered, drvVars, evVars, blocking, hisVars, cliVars>>

\* SCAN_BLOCKING_TIMEOUT: InternalError; the sweep goes on.
StartTimeout ==
    /\ pc["req"] = "wait" /\ sem = 0
    /\ Goto("req", "idle")
    /\ UNCHANGED <<be, tabVars, sem, registered, drvVars, evVars, blocking, hisVars, cliVars>>

Least(S) == CHOOSE m \in S : \A n \in S : m <= n

\* The entries a result request gets: from start, up to count, the answer's
\* array and what was asked for.
Page(start, want) ==
    SubSeq(entries, start + 1, Least({count, start + PageSize, start + want}))

\* CmdScan*Result of a client that pages through the table.
scan_result ==
    /\ registered /\ pc["req"] = "idle" /\ gen > 0 /\ ~gotAll
    /\ \E want \in 1..MaxEntries :
         LET page == Page(Len(got), want) IN
         got' = got \o page /\ gotAll' = (page = <<>>)
    /\ UNCHANGED <<be, tabVars, sem, registered, drvVars, pc, evVars, blocking, hisVars>>

-----------------------------------------------------------------------------
\* scan_work_fn on the workqueue.
WorkBegin ==
    /\ queued # 0 /\ sweep = 0
    /\ sweep' = queued /\ next' = 1
    /\ queued' = 0
    /\ UNCHANGED <<be, tabVars, sem, registered, evq, pc, evVars, blocking, hisVars, cliVars>>

\* An event that still finds the queue full is lost.
Raise(e) == evq' = IF Len(evq) < QueueLen THEN Append(evq, e) ELSE evq

WorkResult ==
    /\ be = "wifi" /\ sweep # 0 /\ next <= MaxFound
    /\ Raise(<<sweep, next>>)
    /\ next' = next + 1
    /\ UNCHANGED <<be, tabVars, sem, registered, queued, sweep, pc, evVars, blocking,
                   hisVars, cliVars>>

WorkDone ==
    /\ be = "wifi" /\ sweep # 0
    /\ Raise(Done)
    /\ sweep' = 0
    /\ UNCHANGED <<be, tabVars, sem, registered, queued, next, pc, evVars, blocking,
                   hisVars, cliVars>>

\* mgmt_event is not called while the callback is not registered.
Ignored ==
    /\ evq # <<>> /\ pc["ev"] = "idle" /\ ~registered
    /\ evq' = Tail(evq)
    /\ UNCHANGED <<be, tabVars, sem, registered, queued, sweep, next, pc, evVars, blocking,
                   hisVars, cliVars>>

Delivered(e) ==
    /\ evq # <<>> /\ pc["ev"] = "idle" /\ registered
    /\ e = Head(evq) /\ evq' = Tail(evq)

Heard(e) == heard' = IF e[1] = gen THEN heard + 1 ELSE heard

\* Mutant: the bound is tested with >.
ResultSlot_OneMore(e) ==
    /\ Delivered(e) /\ e # Done
    /\ Heard(e)
    /\ IF count > MaxEntries THEN UNCHANGED <<pc, evVars>>
       ELSE cur' = e /\ slot' = count + 1 /\ Goto("ev", "bump")
    /\ UNCHANGED <<be, tabVars, sem, registered, queued, sweep, next, blocking, gen, clean,
                   ok, cliVars>>

\* on_scan_result: the table is full, or a slot is taken ...
ResultSlot(e) ==
    /\ Delivered(e) /\ e # Done
    /\ Heard(e)
    /\ IF count >= MaxEntries THEN UNCHANGED <<pc, evVars>>
       ELSE cur' = e /\ slot' = count + 1 /\ Goto("ev", "bump")
    /\ UNCHANGED <<be, tabVars, sem, registered, queued, sweep, next, blocking, gen, clean,
                   ok, cliVars>>

\* ... counted ...
ResultBump ==
    /\ pc["ev"] = "bump"
    /\ count' = slot
    /\ Goto("ev", "fill")
    /\ UNCHANGED <<be, entries, finished, sem, registered, drvVars, evVars, blocking,
                   hisVars, cliVars>>

\* ... and filled.
ResultFill ==
    /\ pc["ev"] = "fill"
    /\ entries' = [entries EXCEPT ![slot] = cur]
    /\ Goto("ev", "idle")
    /\ UNCHANGED <<be, count, finished, sem, registered, drvVars, evVars, blocking, hisVars,
                   cliVars>>

\* NET_EVENT_WIFI_SCAN_DONE: finished ...
DoneFinish(e) ==
    /\ Delivered(e) /\ e = Done
    /\ finished' = TRUE
    /\ Goto("ev", "give")
    /\ UNCHANGED <<be, entries, count, sem, registered, queued, sweep, next, evVars,
                   blocking, hisVars, cliVars>>

\* ... then k_sem_give, in both network types outside any lock.
DoneGive ==
    /\ pc["ev"] = "give"
    /\ sem' = 1
    /\ Goto("ev", "idle")
    /\ UNCHANGED <<be, tabVars, registered, drvVars, evVars, blocking, hisVars, cliVars>>

mgmt_event ==
    \/ \E e \in {evq[i] : i \in DOMAIN evq} : ResultSlot(e) \/ DoneFinish(e)
    \/ ResultBump \/ ResultFill \/ DoneGive

\* discover_cb with a result: the table is changed under ts_lock.
DiscoverResult ==
    /\ be = "thread" /\ sweep # 0 /\ next <= MaxFound /\ pc["ev"] = "idle"
    /\ next' = next + 1
    /\ Heard(<<sweep, next>>)
    /\ IF count >= MaxEntries THEN UNCHANGED <<entries, count>>
       ELSE count' = count + 1 /\ entries' = [entries EXCEPT ![count + 1] = <<sweep, next>>]
    /\ UNCHANGED <<be, finished, sem, registered, queued, sweep, evq, pc, evVars, blocking,
                   gen, clean, ok, cliVars>>

\* discover_cb with NULL: the sweep is over.
DiscoverDone ==
    /\ be = "thread" /\ sweep # 0 /\ pc["ev"] = "idle"
    /\ sweep' = 0
    /\ finished' = TRUE
    /\ Goto("ev", "give")
    /\ UNCHANGED <<be, entries, count, sem, registered, queued, next, evq, evVars, blocking,
                   hisVars, cliVars>>

-----------------------------------------------------------------------------
RequestStep ==
    \/ StartNoInterface \/ StartClear \/ StartScan \/ StartFails
    \/ StartDone \/ StartTimeout

Driver == WorkBegin \/ WorkResult \/ WorkDone
Events == Ignored \/ mgmt_event \/ DiscoverResult \/ DiscoverDone

Next == scan_init \/ scan_deinit \/ StartReset \/ scan_result \/ RequestStep \/ Driver \/ Events

\* A request that has begun goes on and k_sem_take ends with its timeout;
\* the driver, OpenThread and the event threads do their work.
Fairness == WF_vars(RequestStep) /\ WF_vars(Driver) /\ WF_vars(Events)

Spec == Init /\ [][Next]_vars /\ Fairness

-----------------------------------------------------------------------------
\* Properties.

Results == (0..MaxStarts) \X (0..MaxFound)
Pcs == {"idle", "clear", "scan", "wait", "bump", "fill", "give"}

\* Every variable has its type; in particular on_scan_result and discover_cb
\* never count past the end of the table.
TypeOK ==
    /\ be \in Backends
    /\ entries \in [1..MaxEntries -> Results] /\ count \in 0..MaxEntries
    /\ finished \in BOOLEAN /\ sem \in 0..1 /\ registered \in BOOLEAN
    /\ queued \in 0..MaxStarts /\ sweep \in 0..MaxStarts /\ next \in 1..MaxFound + 1
    /\ evq \in Seq(Results \cup {Done}) /\ Len(evq) <= QueueLen
    /\ pc \in [{"req", "ev"} -> Pcs]
    /\ cur \in Results /\ slot \in 1..MaxEntries /\ blocking \in BOOLEAN
    /\ gen \in 0..MaxStarts /\ clean \in BOOLEAN /\ ok \in BOOLEAN /\ heard \in Nat
    /\ got \in Seq(Results) /\ gotAll \in BOOLEAN

\* A blocking start that nothing was under way for, and that answered
\* Success, has finished: the status query that follows says so, and the
\* table holds its own results, in order and all that were delivered and fit,
\* whatever an earlier scan left in the table or in scan_done_sem.  A client
\* that pages through it gets its entries without a gap or a repetition,
\* however many it asks for at a time, and an empty page only after the last.
BlockingComplete ==
    ok => /\ finished
          /\ count = Least({heard, MaxEntries})
          /\ \A i \in 1..count : entries[i][1] = gen
          /\ \A i \in 1..count, j \in 1..count : i < j => entries[i][2] < entries[j][2]
          /\ got = SubSeq(entries, 1, Len(got)) /\ Len(got) <= count
          /\ gotAll => Len(got) = count

\* Every scan request is answered, although SCAN_DONE may be lost in a full
\* event queue or the service torn down while a blocking start waits.
RequestAnswered == (pc["req"] # "idle") ~> (pc["req"] = "idle")
=============================================================================
