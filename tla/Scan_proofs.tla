----------------------------- MODULE Scan_proofs -----------------------------
(***************************************************************************)
(* Safety of the scan endpoints, for both network types, every table, page *)
(* and queue length and every number of starts: the table is never written *)
(* past its end, and a blocking start that was answered with Success left  *)
(* its own results, whole and in order, for the client to page through.    *)
(***************************************************************************)
EXTENDS Scan, SequenceTheorems, TLAPS

\* Events that may be in net_mgmt's queue.
EventSet == Results \cup {Done}

\* TypeOK in two parts, flags and the rest.
Flags ==
    /\ finished \in BOOLEAN /\ registered \in BOOLEAN /\ blocking \in BOOLEAN
    /\ clean \in BOOLEAN /\ ok \in BOOLEAN /\ gotAll \in BOOLEAN

Counts ==
    /\ be \in Backends
    /\ entries \in [1..MaxEntries -> Results] /\ count \in 0..MaxEntries
    /\ sem \in 0..1
    /\ queued \in 0..MaxStarts /\ sweep \in 0..MaxStarts /\ next \in 1..MaxFound + 1
    /\ evq \in Seq(EventSet) /\ Len(evq) <= QueueLen
    /\ pc \in [{"req", "ev"} -> Pcs]
    /\ cur \in Results /\ slot \in 1..MaxEntries
    /\ gen \in 0..MaxStarts /\ heard \in Nat
    /\ got \in Seq(Results)

\* What is under way is of the last start, when nothing was under way before
\* it: the request was queued, is swept, its results are on their way, then
\* Done, then scan_done_sem, one after the other.
Course ==
    /\ be = "thread" => queued = 0 /\ evq = <<>>
    /\ pc["req"] \in {"idle", "clear", "scan", "wait"}
    /\ pc["ev"] \in {"idle", "bump", "fill", "give"}
    /\ gen = 0 => ~clean
    /\ clean =>
         /\ queued \in {0, gen} /\ sweep \in {0, gen}
         /\ queued # 0 => sweep = 0 /\ evq = <<>> /\ pc["ev"] = "idle" /\ sem = 0 /\ heard = 0
         /\ sweep # 0 => pc["ev"] # "give" /\ sem = 0 /\ \A i \in DOMAIN evq : evq[i] # Done
         /\ \A i \in DOMAIN evq :
              /\ evq[i] = Done => i = Len(evq) /\ pc["ev"] # "give" /\ sem = 0
              /\ evq[i] # Done => evq[i][1] = gen
         /\ pc["ev"] \in {"bump", "fill"} => cur[1] = gen /\ sem = 0
         /\ pc["ev"] = "give" => sweep = 0 /\ evq = <<>> /\ finished /\ sem = 0
         /\ sem = 1 => Quiet /\ finished
         /\ pc["req"] \in {"clear", "scan"} => Quiet /\ sem = 0 /\ heard = 0
         /\ pc["req"] = "scan" => count = 0

\* The entries that are filled.
Filled == IF pc["ev"] = "fill" THEN 1..(count - 1) ELSE 1..count

\* A scan is under way, or over and not yet reported.
Active == ~Quiet \/ sem = 1

\* The last start's results stay in order on their way through the driver,
\* the queue and on_scan_result into the table.
TableOrdered ==
    /\ \A i \in Filled : entries[i][1] = gen /\ entries[i][2] < next
    /\ \A i, j \in Filled : i < j => entries[i][2] < entries[j][2]

QueueOrdered ==
    \A j \in DOMAIN evq : evq[j] # Done =>
      /\ evq[j][2] < next
      /\ \A i \in Filled : entries[i][2] < evq[j][2]
      /\ \A i \in DOMAIN evq : i < j => evq[i][2] < evq[j][2]

PendingOrdered ==
    pc["ev"] \in {"bump", "fill"} =>
      /\ cur[2] < next
      /\ \A i \in Filled : entries[i][2] < cur[2]
      /\ \A j \in DOMAIN evq : evq[j] # Done => cur[2] < evq[j][2]

Ordered == TableOrdered /\ QueueOrdered /\ PendingOrdered

\* Every delivered result is in the table, is being put there, or found it
\* full.
Tallied ==
    CASE pc["ev"] = "bump" -> slot = count + 1 /\ heard = slot
      [] pc["ev"] = "fill" -> slot = count /\ heard = slot
      [] OTHER -> count = Least({heard, MaxEntries})

\* All of that while a clean scan is under way.
InHand == clean /\ Active => Ordered /\ Tallied

\* After the answer nothing is under way, and before it the client has no
\* results.
Answered ==
    /\ ok => Quiet /\ pc["req"] = "idle"
    /\ pc["req"] # "idle" => got = <<>> /\ ~gotAll

-----------------------------------------------------------------------------
\* Types.

\* The smaller of two numbers.
LEMMA LeastTwo ==
    ASSUME NEW a \in Nat, NEW b \in Nat
    PROVE  Least({a, b}) = IF a <= b THEN a ELSE b
<1>1. \E m \in {a, b} : \A n \in {a, b} : m <= n
  OBVIOUS
<1> QED
  BY <1>1 DEF Least

\* The same for three.
LEMMA LeastThree ==
    ASSUME NEW a \in Nat, NEW b \in Nat, NEW c \in Nat
    PROVE  LET m == Least({a, b, c})
           IN  m \in {a, b, c} /\ m <= a /\ m <= b /\ m <= c
<1>1. \E m \in {a, b, c} : \A n \in {a, b, c} : m <= n
  <2>1. CASE a <= b /\ a <= c
    BY <2>1
  <2>2. CASE b <= a /\ b <= c
    BY <2>2
  <2>3. CASE c <= a /\ c <= b
    BY <2>3
  <2> QED
    BY <2>1, <2>2, <2>3
<1> QED
  BY <1>1 DEF Least

\* Both parts together are TypeOK.
LEMMA PartsAreTypes == Flags /\ Counts <=> TypeOK
BY DEF Flags, Counts, TypeOK, EventSet

\* Every step keeps the flags.
LEMMA FlagsStep == Flags /\ [Next]_vars => Flags'
<1> SUFFICES ASSUME Flags, [Next]_vars PROVE Flags'
  OBVIOUS
<1>1. CASE scan_init
  BY <1>1 DEF scan_init, Flags, Quiet, Goto, tabVars, drvVars, evVars, hisVars, cliVars
<1>2. CASE scan_deinit
  BY <1>2 DEF scan_deinit, Flags, Quiet, Goto, tabVars, drvVars, evVars, hisVars,
      cliVars
<1>3. CASE StartReset
  BY <1>3 DEF StartReset, Flags, Quiet, Begin, Goto, tabVars, drvVars, evVars, hisVars,
      cliVars
<1>4. CASE scan_result
  BY <1>4 DEF scan_result, Flags, Quiet, Goto, tabVars, drvVars, evVars, hisVars,
      cliVars
<1>5. CASE StartNoInterface
  BY <1>5 DEF StartNoInterface, Flags, Quiet, Goto, tabVars, drvVars, evVars, hisVars,
      cliVars
<1>6. CASE StartClear
  BY <1>6 DEF StartClear, Flags, Quiet, Goto, tabVars, drvVars, evVars, hisVars, cliVars
<1>7. CASE StartScan
  BY <1>7 DEF StartScan, Flags, Quiet, fake_scan, Goto, tabVars, drvVars, evVars,
      hisVars, cliVars
<1>8. CASE StartFails
  BY <1>8 DEF StartFails, Flags, Quiet, Goto, tabVars, drvVars, evVars, hisVars, cliVars
<1>9. CASE StartDone
  BY <1>9 DEF StartDone, Flags, Quiet, Goto, tabVars, drvVars, evVars, hisVars, cliVars
<1>10. CASE StartTimeout
  BY <1>10 DEF StartTimeout, Flags, Quiet, Goto, tabVars, drvVars, evVars, hisVars,
      cliVars
<1>11. CASE WorkBegin
  BY <1>11 DEF WorkBegin, Flags, Quiet, Goto, tabVars, drvVars, evVars, hisVars, cliVars
<1>12. CASE WorkResult
  BY <1>12 DEF WorkResult, Flags, Quiet, Raise, Goto, tabVars, drvVars, evVars, hisVars,
      cliVars
<1>13. CASE WorkDone
  BY <1>13 DEF WorkDone, Flags, Quiet, Raise, Goto, tabVars, drvVars, evVars, hisVars,
      cliVars
<1>14. CASE Ignored
  BY <1>14 DEF Ignored, Flags, Quiet, Goto, tabVars, drvVars, evVars, hisVars, cliVars
<1>15. ASSUME NEW e \in {evq[i] : i \in DOMAIN evq}, ResultSlot(e) PROVE Flags'
  BY <1>15 DEF ResultSlot, Flags, Quiet, Delivered, Heard, Goto, tabVars, drvVars,
      evVars, hisVars, cliVars
<1>16. ASSUME NEW e \in {evq[i] : i \in DOMAIN evq}, DoneFinish(e) PROVE Flags'
  BY <1>16 DEF DoneFinish, Flags, Quiet, Delivered, Goto, tabVars, drvVars, evVars,
      hisVars, cliVars
<1>17. CASE ResultBump
  BY <1>17 DEF ResultBump, Flags, Quiet, Goto, tabVars, drvVars, evVars, hisVars,
      cliVars
<1>18. CASE ResultFill
  BY <1>18 DEF ResultFill, Flags, Quiet, Goto, tabVars, drvVars, evVars, hisVars,
      cliVars
<1>19. CASE DoneGive
  BY <1>19 DEF DoneGive, Flags, Quiet, Goto, tabVars, drvVars, evVars, hisVars, cliVars
<1>20. CASE DiscoverResult
  BY <1>20 DEF DiscoverResult, Flags, Quiet, Heard, Goto, tabVars, drvVars, evVars,
      hisVars, cliVars
<1>21. CASE DiscoverDone
  BY <1>21 DEF DiscoverDone, Flags, Quiet, Goto, tabVars, drvVars, evVars, hisVars,
      cliVars
<1>22. CASE UNCHANGED vars
  BY <1>22 DEF Flags, Quiet, vars, Goto, tabVars, drvVars, evVars, hisVars, cliVars
<1> QED
  BY <1>1, <1>2, <1>3, <1>4, <1>5, <1>6, <1>7, <1>8, <1>9, <1>10, <1>11, <1>12, <1>13,
      <1>14, <1>15, <1>16, <1>17, <1>18, <1>19, <1>20, <1>21, <1>22 DEF Next,
      RequestStep, Driver, Events, mgmt_event

\* A page lies in the table.
LEMMA PageTypes ==
    ASSUME Counts, NEW start \in Nat, NEW want \in Nat
    PROVE  Page(start, want) \in Seq(Results)
<1>1. count \in Nat /\ start + PageSize \in Nat /\ start + want \in Nat
  BY ScanConstants DEF Counts
<1> DEFINE m == Least({count, start + PageSize, start + want})
<1>2. m \in Nat /\ m <= count
  BY <1>1, LeastThree
<1>3. entries \in Seq(Results) /\ Len(entries) = MaxEntries
  BY ScanConstants DEF Counts
<1> HIDE DEF m
<1>4. SubSeq(entries, start + 1, m) \in Seq(Results)
  BY <1>2, <1>3, ScanConstants, SubSeqProperties DEF Counts
<1> QED
  BY <1>4 DEF m, Page

\* The queue holds events, and never more than fit.
LEMMA RaiseTypes ==
    ASSUME evq \in Seq(EventSet), Len(evq) <= QueueLen, NEW e \in EventSet, Raise(e)
    PROVE  evq' \in Seq(EventSet) /\ Len(evq') <= QueueLen
<1>1. /\ Append(evq, e) \in Seq(EventSet)
      /\ Len(Append(evq, e)) = Len(evq) + 1
  BY AppendProperties
<1>2. Len(evq) \in Nat
  BY LenProperties
<1> QED
  BY <1>1, <1>2, ScanConstants DEF Raise

\* An event taken from it is one, and the rest still fits.
LEMMA TailTypes ==
    ASSUME evq \in Seq(EventSet), Len(evq) <= QueueLen, evq # <<>>, evq' = Tail(evq)
    PROVE  evq' \in Seq(EventSet) /\ Len(evq') <= QueueLen /\ Head(evq) \in EventSet
<1>1. /\ Tail(evq) \in Seq(EventSet) /\ Len(Tail(evq)) = Len(evq) - 1
      /\ Head(evq) \in EventSet
  BY HeadTailProperties
<1>2. Len(evq) \in Nat
  BY LenProperties
<1> QED
  BY <1>1, <1>2, ScanConstants

\* Results are pairs of a start and a number in its sweep.
LEMMA ResultTypes ==
    /\ NoEntry \in Results /\ NoEntries \in [1..MaxEntries -> Results]
    /\ Counts /\ next <= MaxFound => <<sweep, next>> \in Results
BY SMTT(30), ScanConstants DEF NoEntry, NoEntries, Results, Counts

\* Every step keeps the rest: on_scan_result and discover_cb stay in the
\* table.
LEMMA CountsStep == Counts /\ [Next]_vars => Counts'
<1> SUFFICES ASSUME Counts, [Next]_vars PROVE Counts'
  OBVIOUS
<1>1. CASE scan_init
  BY <1>1, ResultTypes, ScanConstants DEF scan_init, Counts, tabVars, drvVars, evVars, hisVars,
     cliVars
<1>2. CASE scan_deinit
  BY <1>2 DEF scan_deinit, Counts, Pcs, Goto, tabVars, drvVars, evVars, hisVars, cliVars
<1>3. CASE StartReset
  BY <1>3, ScanConstants DEF StartReset, Counts, Pcs, Begin, Goto, tabVars, drvVars,
      evVars, hisVars, cliVars
<1>4. CASE scan_result
  <2>1. PICK want \in 1..MaxEntries : got' = got \o Page(Len(got), want)
    BY <1>4 DEF scan_result
  <2>2. Page(Len(got), want) \in Seq(Results)
    BY LenProperties, PageTypes DEF Counts
  <2>3. got' \in Seq(Results)
    BY <2>1, <2>2, ConcatProperties DEF Counts
  <2> QED
    BY <1>4, <2>3 DEF scan_result, Counts, tabVars, drvVars, evVars, hisVars
<1>5. CASE StartNoInterface
  BY <1>5 DEF StartNoInterface, Counts, Pcs, Goto, tabVars, drvVars, evVars, hisVars,
      cliVars
<1>6. CASE StartClear
  BY <1>6, ScanConstants DEF StartClear, Goto, Counts, Pcs, drvVars, evVars, hisVars, cliVars
<1>7. CASE StartScan
  BY <1>7, ScanConstants DEF StartScan, Counts, Pcs, fake_scan, Goto, tabVars, drvVars,
      evVars, hisVars, cliVars
<1>8. CASE StartFails
  BY <1>8 DEF StartFails, Counts, Pcs, Goto, tabVars, drvVars, evVars, hisVars, cliVars
<1>9. CASE StartDone
  BY <1>9 DEF StartDone, Counts, Pcs, Goto, tabVars, drvVars, evVars, hisVars, cliVars
<1>10. CASE StartTimeout
  BY <1>10 DEF StartTimeout, Counts, Pcs, Goto, tabVars, drvVars, evVars, hisVars,
      cliVars
<1>11. CASE WorkBegin
  BY <1>11, ScanConstants DEF WorkBegin, Counts, Pcs, Goto, tabVars, drvVars, evVars,
      hisVars, cliVars
<1>12. CASE WorkResult
  <2>1. <<sweep, next>> \in EventSet
    BY <1>12, ResultTypes DEF WorkResult, EventSet
  <2>2. evq' \in Seq(EventSet) /\ Len(evq') <= QueueLen
    BY <1>12, <2>1, RaiseTypes DEF WorkResult, Counts
  <2>3. next' \in 1..MaxFound + 1
    BY <1>12, ScanConstants DEF WorkResult, Counts
  <2> QED
    BY <1>12, <2>2, <2>3 DEF WorkResult, Counts, tabVars, evVars, hisVars, cliVars
<1>13. CASE WorkDone
  <2>1. Done \in EventSet
    BY DEF EventSet
  <2>2. evq' \in Seq(EventSet) /\ Len(evq') <= QueueLen
    BY <1>13, <2>1, RaiseTypes DEF WorkDone, Counts
  <2> QED
    BY <1>13, <2>2, ScanConstants DEF WorkDone, Counts, tabVars, evVars, hisVars, cliVars
<1>14. CASE Ignored
  <2>1. evq' \in Seq(EventSet) /\ Len(evq') <= QueueLen
    BY <1>14, TailTypes DEF Ignored, Counts
  <2> QED
    BY <1>14, <2>1 DEF Ignored, Counts, tabVars, evVars, hisVars, cliVars
<1>15. ASSUME NEW e \in {evq[i] : i \in DOMAIN evq}, ResultSlot(e) PROVE Counts'
  <2>1. evq' \in Seq(EventSet) /\ Len(evq') <= QueueLen /\ Head(evq) \in EventSet
    BY <1>15, TailTypes DEF ResultSlot, Delivered, Counts
  <2>2. e \in Results
    BY <1>15, <2>1 DEF ResultSlot, Delivered, EventSet
  <2>3. cur' \in Results /\ slot' \in 1..MaxEntries
    BY <1>15, <2>2, ScanConstants DEF ResultSlot, Counts, evVars
  <2>4. heard' \in Nat
    BY <1>15 DEF ResultSlot, Heard, Counts
  <2>5. pc' \in [{"req", "ev"} -> Pcs]
    BY <1>15 DEF ResultSlot, Goto, Counts, Pcs
  <2> QED
    BY <1>15, <2>1, <2>3, <2>4, <2>5 DEF ResultSlot, Counts, tabVars, cliVars
<1>16. ASSUME NEW e \in {evq[i] : i \in DOMAIN evq}, DoneFinish(e) PROVE Counts'
  <2>1. evq' \in Seq(EventSet) /\ Len(evq') <= QueueLen
    BY <1>16, TailTypes DEF DoneFinish, Delivered, Counts
  <2> QED
    BY <1>16, <2>1 DEF DoneFinish, Goto, Counts, Pcs, evVars, hisVars, cliVars
<1>17. CASE ResultBump
  BY <1>17 DEF ResultBump, Counts, Pcs, Goto, tabVars, drvVars, evVars, hisVars, cliVars
<1>18. CASE ResultFill
  BY <1>18 DEF ResultFill, Counts, Pcs, Goto, tabVars, drvVars, evVars, hisVars, cliVars
<1>19. CASE DoneGive
  BY <1>19, ScanConstants DEF DoneGive, Counts, Pcs, Goto, tabVars, drvVars, evVars,
      hisVars, cliVars
<1>20. CASE DiscoverResult
  <2>1. <<sweep, next>> \in Results
    BY <1>20, ResultTypes DEF DiscoverResult
  <2>2. PICK r \in Results : r = <<sweep, next>>
    BY <2>1
  <2>4. /\ count' \in 0..MaxEntries
        /\ entries' = entries \/ entries' = [entries EXCEPT ![count + 1] = r]
    BY <1>20, <2>2, ScanConstants DEF DiscoverResult, Counts
  <2>5. entries' \in [1..MaxEntries -> Results]
    BY <2>4 DEF Counts
  <2>3. heard' \in Nat /\ next' \in 1..MaxFound + 1
    BY <1>20, ScanConstants DEF DiscoverResult, Heard, Counts
  <2> QED
    BY <1>20, <2>3, <2>4, <2>5 DEF DiscoverResult, Counts, evVars, cliVars
<1>21. CASE DiscoverDone
  BY <1>21, ScanConstants DEF DiscoverDone, Counts, Pcs, Goto, tabVars, drvVars, evVars,
      hisVars, cliVars
<1>22. CASE UNCHANGED vars
  BY <1>22 DEF Counts, Pcs, vars, Goto, tabVars, drvVars, evVars, hisVars, cliVars
<1> QED
  BY <1>1, <1>2, <1>3, <1>4, <1>5, <1>6, <1>7, <1>8, <1>9, <1>10, <1>11, <1>12, <1>13,
      <1>14, <1>15, <1>16, <1>17, <1>18, <1>19, <1>20, <1>21, <1>22 DEF Next,
      RequestStep, Driver, Events, mgmt_event

\* The types hold initially.
LEMMA TypesInit == Init => Flags /\ Counts
<1> SUFFICES ASSUME Init PROVE Flags /\ Counts
  OBVIOUS
<1>1. NoEntry \in Results
  BY ScanConstants DEF NoEntry, Results
<1>2. Flags
  BY DEF Init, Flags
<1>3. Counts
  BY <1>1, ScanConstants DEF Init, NoEntries, Counts, Pcs
<1> QED
  BY <1>2, <1>3

\* Every variable has its type in every reachable state; in particular no
\* result is ever counted past the end of the table.
THEOREM TypeCorrect == Spec => []TypeOK
BY TypesInit, FlagsStep, CountsStep, PartsAreTypes, PTL DEF Spec

-----------------------------------------------------------------------------
\* The course of a scan.

\* What raising an event does to the queue.
LEMMA Raised ==
    ASSUME evq \in Seq(EventSet), NEW e \in EventSet, Raise(e)
    PROVE  /\ Len(evq) \in Nat /\ DOMAIN evq = 1..Len(evq)
           /\ \/ evq' = evq
              \/ /\ Len(evq') = Len(evq) + 1 /\ DOMAIN evq' = 1..(Len(evq) + 1)
                 /\ evq'[Len(evq) + 1] = e /\ \A i \in 1..Len(evq) : evq'[i] = evq[i]
<1>1. Len(evq) \in Nat /\ DOMAIN evq = 1..Len(evq)
  BY LenProperties
<1>2. /\ Append(evq, e) \in Seq(EventSet) /\ Len(Append(evq, e)) = Len(evq) + 1
      /\ Append(evq, e)[Len(evq) + 1] = e
      /\ \A i \in 1..Len(evq) : Append(evq, e)[i] = evq[i]
  BY AppendProperties
<1>3. DOMAIN Append(evq, e) = 1..(Len(evq) + 1)
  BY <1>2, LenProperties
<1> QED
  BY <1>1, <1>2, <1>3 DEF Raise

\* What taking one does.
LEMMA Dequeued ==
    ASSUME evq \in Seq(EventSet), evq # <<>>, evq' = Tail(evq)
    PROVE  /\ Len(evq) \in Nat \ {0} /\ DOMAIN evq = 1..Len(evq) /\ Head(evq) = evq[1]
           /\ Len(evq') = Len(evq) - 1 /\ DOMAIN evq' = 1..(Len(evq) - 1)
           /\ \A i \in 1..(Len(evq) - 1) : evq'[i] = evq[i + 1]
           /\ Len(evq) = 1 => evq' = <<>>
<1>1. Len(evq) \in Nat /\ DOMAIN evq = 1..Len(evq)
  BY LenProperties
<1>2. /\ Tail(evq) \in Seq(EventSet) /\ Len(Tail(evq)) = Len(evq) - 1
      /\ \A i \in 1..Len(Tail(evq)) : Tail(evq)[i] = evq[i + 1]
  BY HeadTailProperties
<1>3. Len(evq) # 0
  BY EmptySeq
<1>4. Head(evq) = evq[1]
  OBVIOUS
<1>5. DOMAIN Tail(evq) = 1..(Len(evq) - 1)
  BY <1>2, LenProperties
<1>6. Len(Tail(evq)) = 0 => Tail(evq) = <<>>
  BY <1>2, EmptySeq
<1> QED
  BY <1>1, <1>2, <1>3, <1>4, <1>5, <1>6

\* Every step keeps the course.
LEMMA CourseStep == Flags /\ Counts /\ Course /\ [Next]_vars => Course'
<1> SUFFICES ASSUME Flags, Counts, Course, [Next]_vars PROVE Course'
  OBVIOUS
<1>1. CASE scan_init
  BY <1>1 DEF scan_init, Counts, Course, Quiet, Goto, tabVars, drvVars, evVars, hisVars,
      cliVars
<1>2. CASE scan_deinit
  BY <1>2 DEF scan_deinit, Counts, Course, Quiet, Goto, tabVars, drvVars, evVars,
      hisVars, cliVars
<1>3. CASE StartReset
  <2>1. /\ UNCHANGED <<be, queued, sweep, evq, cur>> /\ gen' = gen + 1 /\ sem' = 0 /\ heard' = 0
        /\ (clean' => Quiet) /\ pc' = [pc EXCEPT !["req"] = "clear"]
    BY <1>3 DEF StartReset, Begin, Goto, drvVars, evVars
  <2>2. pc'["req"] = "clear" /\ pc'["ev"] = pc["ev"] /\ gen' # 0
    BY <2>1 DEF Counts
  <2>3. clean' => queued' = 0 /\ sweep' = 0 /\ evq' = <<>> /\ DOMAIN evq' = {} /\ pc'["ev"] = "idle"
    BY <2>1, <2>2 DEF Quiet
  <2> QED
    BY <2>1, <2>2, <2>3 DEF Counts, Course, Quiet
<1>4. CASE scan_result
  BY <1>4 DEF scan_result, Counts, Course, Quiet, Goto, tabVars, drvVars, evVars,
      hisVars, cliVars
<1>5. CASE StartNoInterface
  BY <1>5 DEF StartNoInterface, Counts, Course, Quiet, Goto, tabVars, drvVars, evVars,
      hisVars, cliVars
<1>6. CASE StartClear
  BY <1>6 DEF StartClear, Counts, Course, Quiet, Goto, tabVars, drvVars, evVars,
      hisVars, cliVars
<1>7. CASE StartScan
  BY <1>7, ScanConstants DEF StartScan, Counts, Course, Quiet, fake_scan, Goto, tabVars,
      drvVars, evVars, hisVars, cliVars
<1>8. CASE StartFails
  BY <1>8 DEF StartFails, Counts, Course, Quiet, Goto, tabVars, drvVars, evVars,
      hisVars, cliVars
<1>9. CASE StartDone
  BY <1>9 DEF StartDone, Counts, Course, Quiet, Goto, tabVars, drvVars, evVars, hisVars,
      cliVars
<1>10. CASE StartTimeout
  BY <1>10 DEF StartTimeout, Counts, Course, Quiet, Goto, tabVars, drvVars, evVars,
      hisVars, cliVars
<1>11. CASE WorkBegin
  BY <1>11, ScanConstants DEF WorkBegin, Counts, Course, Quiet, Goto, tabVars, drvVars,
      evVars, hisVars, cliVars
<1>12. CASE WorkResult
  <2>1. <<sweep, next>> \in EventSet
    BY <1>12, ResultTypes DEF WorkResult, EventSet
  <2>2. /\ Len(evq) \in Nat /\ DOMAIN evq = 1..Len(evq)
        /\ \/ evq' = evq
           \/ /\ Len(evq') = Len(evq) + 1 /\ DOMAIN evq' = 1..(Len(evq) + 1)
              /\ evq'[Len(evq) + 1] = <<sweep, next>>
              /\ \A i \in 1..Len(evq) : evq'[i] = evq[i]
    BY <1>12, <2>1, Raised DEF WorkResult, Counts
  <2>3. sweep # 0 => <<sweep, next>> # Done
    BY DEF Done
  <2>4. /\ UNCHANGED <<be, queued, sweep, pc, sem, cur, clean, gen, heard, finished, count>>
        /\ be = "wifi" /\ sweep # 0
    BY <1>12 DEF WorkResult, tabVars, evVars, hisVars
  <2>5. clean => queued = 0 /\ sem = 0 /\ pc["req"] \notin {"clear", "scan"}
    BY <2>4, ScanConstants DEF Counts, Course, Quiet
  <2>7. clean => \A i \in 1..Len(evq) : evq[i] # Done /\ evq[i][1] = gen
    BY <2>2, <2>4 DEF Counts, Course, Quiet
  <2>8. clean => <<sweep, next>>[1] = gen
    BY <2>4 DEF Counts, Course, Quiet
  <2>6. \A i \in DOMAIN evq' : clean => evq'[i] # Done /\ evq'[i][1] = gen
    <3>1. CASE evq' = evq
      BY <2>2, <2>7, <3>1
    <3>2. ASSUME NEW i \in DOMAIN evq', clean, evq' # evq
          PROVE  evq'[i] # Done /\ evq'[i][1] = gen
      <4>1. i \in 1..Len(evq) \/ i = Len(evq) + 1
        BY <2>2, <3>2
      <4> QED
        BY <2>2, <2>3, <2>4, <2>7, <2>8, <3>2, <4>1
    <3> QED
      BY <3>1, <3>2
  <2> QED
    BY <2>4, <2>5, <2>6 DEF Counts, Course, Quiet
<1>13. CASE WorkDone
  <2>1. Done \in EventSet
    BY DEF EventSet
  <2>2. /\ Len(evq) \in Nat /\ DOMAIN evq = 1..Len(evq)
        /\ \/ evq' = evq
           \/ /\ Len(evq') = Len(evq) + 1 /\ DOMAIN evq' = 1..(Len(evq) + 1)
              /\ evq'[Len(evq) + 1] = Done /\ \A i \in 1..Len(evq) : evq'[i] = evq[i]
    BY <1>13, <2>1, Raised DEF WorkDone, Counts
  <2>3. /\ UNCHANGED <<be, queued, pc, sem, cur, clean, gen, heard, finished, count>>
        /\ be = "wifi" /\ sweep # 0 /\ sweep' = 0
    BY <1>13 DEF WorkDone, tabVars, evVars, hisVars
  <2>4. clean => queued = 0 /\ sem = 0 /\ pc["req"] \notin {"clear", "scan"}
                 /\ pc["ev"] # "give"
    BY <2>3, ScanConstants DEF Counts, Course, Quiet
  <2>5. \A i \in DOMAIN evq' : clean =>
          /\ evq'[i] = Done => i = Len(evq')
          /\ evq'[i] # Done => evq'[i][1] = gen
    <3>1. clean => \A i \in 1..Len(evq) : evq[i] # Done /\ evq[i][1] = gen
      BY <2>2, <2>3 DEF Counts, Course, Quiet
    <3>2. ASSUME NEW i \in DOMAIN evq', clean
          PROVE  (evq'[i] = Done => i = Len(evq')) /\ (evq'[i] # Done => evq'[i][1] = gen)
      <4>1. i \in 1..Len(evq) \/ (evq' # evq /\ i = Len(evq) + 1)
        BY <2>2, <3>2
      <4> QED
        BY <2>2, <3>1, <3>2, <4>1
    <3> QED
      BY <3>2
  <2>6. CASE clean
    <3>1. \A i \in DOMAIN evq' :
            /\ evq'[i] = Done => i = Len(evq') /\ pc["ev"] # "give" /\ sem = 0
            /\ evq'[i] # Done => evq'[i][1] = gen
      BY <2>4, <2>5, <2>6
    <3>2. pc["ev"] \in {"bump", "fill"} => cur[1] = gen
      BY <2>6 DEF Course
    <3> QED
      BY <2>3, <2>4, <2>6, <3>1, <3>2 DEF Course, Quiet
  <2>7. CASE ~clean
    BY <2>3, <2>7 DEF Course
  <2> QED
    BY <2>6, <2>7
<1>14. CASE Ignored
  <2>1. /\ Len(evq) \in Nat \ {0} /\ DOMAIN evq = 1..Len(evq) /\ Head(evq) = evq[1]
        /\ Len(evq') = Len(evq) - 1 /\ DOMAIN evq' = 1..(Len(evq) - 1)
        /\ \A i \in 1..(Len(evq) - 1) : evq'[i] = evq[i + 1]
        /\ Len(evq) = 1 => evq' = <<>>
    BY <1>14, Dequeued DEF Ignored, Counts
  <2>2. /\ UNCHANGED <<be, queued, sweep, pc, sem, cur, clean, gen, heard, finished, count>>
        /\ evq # <<>>
    BY <1>14 DEF Ignored, tabVars, evVars, hisVars
  <2>3. \A i \in DOMAIN evq' : clean =>
          /\ evq'[i] = Done => i = Len(evq') /\ pc["ev"] # "give" /\ sem = 0
          /\ evq'[i] # Done => evq'[i][1] = gen
          /\ sweep # 0 => evq'[i] # Done
    <3>1. clean => \A i \in 1..Len(evq) :
            /\ evq[i] = Done => i = Len(evq) /\ pc["ev"] # "give" /\ sem = 0
            /\ evq[i] # Done => evq[i][1] = gen
            /\ sweep # 0 => evq[i] # Done
      BY <2>1, <2>2 DEF Counts, Course, Quiet
    <3>2. ASSUME NEW i \in DOMAIN evq', clean
          PROVE  /\ evq'[i] = Done => i = Len(evq') /\ pc["ev"] # "give" /\ sem = 0
                 /\ evq'[i] # Done => evq'[i][1] = gen
                 /\ sweep # 0 => evq'[i] # Done
      <4>1. PICK j \in 1..Len(evq) : j = i + 1 /\ evq'[i] = evq[j]
        BY <2>1, <3>2
      <4>2. j = Len(evq) => i = Len(evq')
        BY <2>1, <3>2, <4>1
      <4> QED
        BY <3>1, <3>2, <4>1, <4>2
    <3> QED
      BY <3>2
  <2> QED
    BY <2>2, <2>3 DEF Counts, Course, Quiet
<1>15. ASSUME NEW e \in {evq[i] : i \in DOMAIN evq}, ResultSlot(e) PROVE Course'
  <2>1. /\ Len(evq) \in Nat \ {0} /\ DOMAIN evq = 1..Len(evq) /\ Head(evq) = evq[1]
        /\ Len(evq') = Len(evq) - 1 /\ DOMAIN evq' = 1..(Len(evq) - 1)
        /\ \A i \in 1..(Len(evq) - 1) : evq'[i] = evq[i + 1]
        /\ Len(evq) = 1 => evq' = <<>>
    BY <1>15, Dequeued DEF ResultSlot, Delivered, Counts
  <2>2. /\ UNCHANGED <<be, queued, sweep, sem, clean, gen, finished, count>>
        /\ evq # <<>> /\ e = evq[1] /\ e # Done /\ pc["ev"] = "idle"
    BY <1>15, <2>1 DEF ResultSlot, Delivered, tabVars
  <2>3. \A i \in DOMAIN evq' : clean =>
          /\ evq'[i] = Done => i = Len(evq') /\ pc["ev"] # "give" /\ sem = 0
          /\ evq'[i] # Done => evq'[i][1] = gen
          /\ sweep # 0 => evq'[i] # Done
    <3>1. clean => \A i \in 1..Len(evq) :
            /\ evq[i] = Done => i = Len(evq) /\ pc["ev"] # "give" /\ sem = 0
            /\ evq[i] # Done => evq[i][1] = gen
            /\ sweep # 0 => evq[i] # Done
      BY <2>1, <2>2 DEF Counts, Course, Quiet
    <3>2. ASSUME NEW i \in DOMAIN evq', clean
          PROVE  /\ evq'[i] = Done => i = Len(evq') /\ pc["ev"] # "give" /\ sem = 0
                 /\ evq'[i] # Done => evq'[i][1] = gen
                 /\ sweep # 0 => evq'[i] # Done
      <4>1. PICK j \in 1..Len(evq) : j = i + 1 /\ evq'[i] = evq[j]
        BY <2>1, <3>2
      <4>2. j = Len(evq) => i = Len(evq')
        BY <2>1, <3>2, <4>1
      <4> QED
        BY <3>1, <3>2, <4>1, <4>2
    <3> QED
      BY <3>2
  <2>4. clean => e[1] = gen
    BY <2>1, <2>2 DEF Counts, Course, Quiet
  <2>5. clean => queued = 0 /\ sem = 0 /\ pc["req"] \notin {"clear", "scan"}
    BY <2>2 DEF Counts, Course, Quiet
  <2>6. pc' = pc \/ (pc' = [pc EXCEPT !["ev"] = "bump"] /\ cur' = e)
    BY <1>15 DEF ResultSlot, Goto
  <2> QED
    BY <2>2, <2>3, <2>4, <2>5, <2>6 DEF Counts, Course, Quiet
<1>16. ASSUME NEW e \in {evq[i] : i \in DOMAIN evq}, DoneFinish(e) PROVE Course'
  <2>1. /\ Len(evq) \in Nat \ {0} /\ DOMAIN evq = 1..Len(evq) /\ Head(evq) = evq[1]
        /\ Len(evq') = Len(evq) - 1 /\ DOMAIN evq' = 1..(Len(evq) - 1)
        /\ \A i \in 1..(Len(evq) - 1) : evq'[i] = evq[i + 1]
        /\ Len(evq) = 1 => evq' = <<>>
    BY <1>16, Dequeued DEF DoneFinish, Delivered, Counts
  <2>2. /\ UNCHANGED <<be, queued, sweep, sem, cur, clean, gen, heard, count>>
        /\ evq # <<>> /\ evq[1] = Done /\ finished' = TRUE /\ pc["ev"] = "idle"
        /\ pc' = [pc EXCEPT !["ev"] = "give"]
    BY <1>16, <2>1 DEF DoneFinish, Delivered, Goto, evVars, hisVars
  <2>3. clean => evq' = <<>> /\ queued = 0 /\ sweep = 0 /\ sem = 0
                 /\ pc["req"] \notin {"clear", "scan"}
    BY <2>1, <2>2 DEF Counts, Course, Quiet
  <2>4. be # "thread"
    BY <2>2 DEF Course
  <2>5. pc'["ev"] = "give" /\ pc'["req"] = pc["req"]
    BY <2>2 DEF Counts
  <2>6. clean => DOMAIN evq' = {}
    BY <2>3
  <2> QED
    BY <2>2, <2>3, <2>4, <2>5, <2>6 DEF Counts, Course, Quiet
<1>17. CASE ResultBump
  BY <1>17 DEF ResultBump, Counts, Course, Quiet, Goto, tabVars, drvVars, evVars,
      hisVars, cliVars
<1>18. CASE ResultFill
  BY <1>18 DEF ResultFill, Counts, Course, Quiet, Goto, tabVars, drvVars, evVars,
      hisVars, cliVars
<1>19. CASE DoneGive
  BY <1>19 DEF DoneGive, Counts, Course, Quiet, Goto, tabVars, drvVars, evVars, hisVars,
      cliVars
<1>20. CASE DiscoverResult
  BY <1>20, ScanConstants DEF DiscoverResult, Counts, Course, Quiet, Heard, Goto,
      tabVars, drvVars, evVars, hisVars, cliVars
<1>21. CASE DiscoverDone
  BY <1>21, ScanConstants DEF DiscoverDone, Counts, Course, Quiet, Goto, tabVars,
      drvVars, evVars, hisVars, cliVars
<1>22. CASE UNCHANGED vars
  BY <1>22 DEF Counts, Course, Quiet, vars, Goto, tabVars, drvVars, evVars, hisVars,
      cliVars
<1> QED
  BY <1>1, <1>2, <1>3, <1>4, <1>5, <1>6, <1>7, <1>8, <1>9, <1>10, <1>11, <1>12, <1>13,
      <1>14, <1>15, <1>16, <1>17, <1>18, <1>19, <1>20, <1>21, <1>22 DEF Next,
      RequestStep, Driver, Events, mgmt_event

-----------------------------------------------------------------------------
\* The results in order.

\* The second field of a result is a number.
LEMMA FieldsAreNumbers ==
    ASSUME Counts
    PROVE  /\ \A i \in 1..MaxEntries : entries[i][2] \in Nat
           /\ \A j \in DOMAIN evq : evq[j][2] \in Nat
           /\ cur[2] \in Nat /\ next \in Nat
<1>1. \A r \in EventSet : r[2] \in Nat
  BY ScanConstants DEF EventSet, Results, Done
<1>2. \A j \in DOMAIN evq : evq[j] \in EventSet
  BY ElementOfSeq, LenProperties DEF Counts
<1>3. (\A i \in 1..MaxEntries : entries[i] \in EventSet) /\ cur \in EventSet
  BY DEF Counts, EventSet
<1> QED
  BY <1>1, <1>2, <1>3, ScanConstants DEF Counts

\* The filled entries are entries of the table.
LEMMA FilledInTable ==
    ASSUME Counts PROVE Filled \subseteq 1..MaxEntries
<1>1. count \in Nat /\ count <= MaxEntries /\ MaxEntries \in Nat
  BY ScanConstants DEF Counts
<1>2. 1..count \subseteq 1..MaxEntries /\ 1..(count - 1) \subseteq 1..MaxEntries
  BY <1>1
<1> QED
  BY <1>2 DEF Filled

\* A step that changes nothing a result goes through keeps the order.
LEMMA OrderStays ==
    ASSUME InHand, clean' => clean, Active' => Active,
           UNCHANGED <<entries, count, next, evq, cur, slot, gen, heard>>,
           pc'["ev"] = pc["ev"]
    PROVE  InHand'
BY DEF InHand, Ordered, TableOrdered, QueueOrdered, PendingOrdered, Filled, Tallied

\* A sweep that has found nothing yet keeps it.
LEMMA OrderStarts ==
    ASSUME Counts, evq' = <<>>, pc'["ev"] = "idle", count' = 0, heard' = 0
    PROVE  InHand'
<1>1. DOMAIN evq' = {} /\ Filled' = {}
  BY DEF Filled
<1>2. Least({0, MaxEntries}) = 0
  BY LeastTwo, ScanConstants
<1> QED
  BY <1>1, <1>2 DEF InHand, Ordered, TableOrdered, QueueOrdered, PendingOrdered, Tallied

\* Taking an event out of the queue keeps the rest of it in order.
LEMMA QueueShifts ==
    ASSUME Counts, QueueOrdered, evq # <<>>, evq' = Tail(evq),
           UNCHANGED <<next, entries>>, Filled' = Filled
    PROVE  QueueOrdered'
<1>1. /\ Len(evq) \in Nat \ {0} /\ DOMAIN evq = 1..Len(evq)
      /\ DOMAIN evq' = 1..(Len(evq) - 1)
      /\ \A i \in 1..(Len(evq) - 1) : evq'[i] = evq[i + 1]
  BY Dequeued DEF Counts
<1>2. ASSUME NEW j \in DOMAIN evq', evq'[j] # Done
      PROVE  /\ evq'[j][2] < next
             /\ \A i \in Filled : entries[i][2] < evq'[j][2]
             /\ \A i \in DOMAIN evq' : i < j => evq'[i][2] < evq'[j][2]
  <2>1. PICK k \in DOMAIN evq : k = j + 1 /\ evq'[j] = evq[k]
    BY <1>1
  <2>2. ASSUME NEW i \in DOMAIN evq', i < j PROVE evq'[i][2] < evq'[j][2]
    <3>1. PICK l \in DOMAIN evq : l = i + 1 /\ evq'[i] = evq[l]
      BY <1>1
    <3>2. l < k
      BY <1>1, <2>1, <2>2, <3>1
    <3> QED
      BY <1>2, <2>1, <3>1, <3>2 DEF QueueOrdered
  <2> QED
    BY <1>2, <2>1, <2>2 DEF QueueOrdered
<1> QED
  BY <1>2 DEF QueueOrdered

\* The driver raises its results in order.
LEMMA WorkResultOrder ==
    ASSUME Counts, Course, InHand, WorkResult
    PROVE  InHand'
<1>1. /\ UNCHANGED <<entries, count, cur, slot, gen, heard, clean, sweep, pc, sem>>
      /\ sweep # 0 /\ next' = next + 1 /\ next \in Nat
  BY FieldsAreNumbers DEF WorkResult, tabVars, evVars, hisVars
<1>2. CASE ~clean
  BY <1>1, <1>2 DEF InHand
<1>3. CASE clean
  <2>1. Ordered /\ Tallied
    BY <1>1, <1>3 DEF InHand, Active, Quiet
  <2>2. PICK r \in EventSet : r = <<sweep, next>>
    BY ResultTypes DEF WorkResult, EventSet
  <2>3. /\ Len(evq) \in Nat /\ DOMAIN evq = 1..Len(evq)
        /\ \/ evq' = evq
           \/ /\ Len(evq') = Len(evq) + 1 /\ DOMAIN evq' = 1..(Len(evq) + 1)
              /\ evq'[Len(evq) + 1] = r /\ \A i \in 1..Len(evq) : evq'[i] = evq[i]
    BY <2>2, Raised DEF WorkResult, Counts
  <2>4. \A i \in DOMAIN evq : evq[i] # Done /\ evq[i][2] \in Nat /\ evq[i][2] < next
    BY <1>1, <1>3, <2>1, FieldsAreNumbers DEF Course, Ordered, QueueOrdered
  <2>5. Filled' = Filled /\ r[2] = next /\ Filled \subseteq 1..MaxEntries
    <3>1. Filled' = Filled
      BY <1>1 DEF Filled
    <3>2. r[2] = next
      BY <2>2
    <3> QED
      BY <3>1, <3>2, FilledInTable
  <2>6. \A i \in Filled : entries[i][2] \in Nat /\ entries[i][2] < next
    BY <2>1, <2>5, FieldsAreNumbers DEF Ordered, TableOrdered
  <2>7. TableOrdered'
    BY <1>1, <2>1, <2>5, <2>6 DEF Ordered, TableOrdered
  <2>8. ASSUME NEW j \in DOMAIN evq'
        PROVE  /\ evq'[j][2] < next'
               /\ \A i \in Filled : entries[i][2] < evq'[j][2]
               /\ \A i \in DOMAIN evq' : i < j => evq'[i][2] < evq'[j][2]
    <3>1. CASE j \in DOMAIN evq
      <4>1. evq'[j] = evq[j]
        BY <2>3, <3>1
      <4>2. \A i \in DOMAIN evq' : i < j => i \in DOMAIN evq /\ evq'[i] = evq[i]
        BY <2>3, <3>1
      <4> QED
        BY <1>1, <2>1, <2>4, <3>1, <4>1, <4>2 DEF Ordered, QueueOrdered
    <3>2. CASE j \notin DOMAIN evq
      <4>1. evq'[j] = r /\ \A i \in DOMAIN evq' : i < j => i \in DOMAIN evq /\ evq'[i] = evq[i]
        BY <2>3, <3>2
      <4>2. evq'[j][2] = next /\ next < next'
        BY <1>1, <2>5, <4>1
      <4> QED
        BY <2>4, <2>6, <4>1, <4>2
    <3> QED
      BY <3>1, <3>2
  <2>9. QueueOrdered'
    BY <1>1, <2>5, <2>8 DEF QueueOrdered
  <2>10. ASSUME pc["ev"] \in {"bump", "fill"} PROVE PendingOrdered'
    <3>1. cur[2] < next /\ cur[2] \in Nat /\ \A j \in DOMAIN evq : cur[2] < evq[j][2]
      BY <2>1, <2>4, <2>10, FieldsAreNumbers DEF Ordered, PendingOrdered
    <3>2. \A j \in DOMAIN evq' : cur[2] < evq'[j][2]
      BY <2>3, <2>5, <3>1
    <3>3. \A i \in Filled : entries[i][2] < cur[2]
      BY <2>1, <2>10 DEF Ordered, PendingOrdered
    <3> QED
      BY <1>1, <2>5, <3>1, <3>2, <3>3 DEF PendingOrdered
  <2>11. PendingOrdered'
    BY <1>1, <2>10 DEF PendingOrdered
  <2> QED
    BY <1>1, <2>1, <2>7, <2>9, <2>11 DEF InHand, Ordered, Tallied
<1> QED
  BY <1>2, <1>3

\* A finished sweep leaves the results in order.
LEMMA WorkDoneOrder ==
    ASSUME Counts, Course, InHand, WorkDone
    PROVE  InHand'
<1>1. /\ UNCHANGED <<entries, count, cur, slot, gen, heard, clean, pc, sem, next>>
      /\ sweep # 0
  BY DEF WorkDone, tabVars, evVars, hisVars
<1>2. CASE ~clean
  BY <1>1, <1>2 DEF InHand
<1>3. CASE clean
  <2>1. Ordered /\ Tallied
    BY <1>1, <1>3 DEF InHand, Active, Quiet
  <2>2. Done \in EventSet
    BY DEF EventSet
  <2>3. /\ Len(evq) \in Nat /\ DOMAIN evq = 1..Len(evq)
        /\ \/ evq' = evq
           \/ /\ Len(evq') = Len(evq) + 1 /\ DOMAIN evq' = 1..(Len(evq) + 1)
              /\ evq'[Len(evq) + 1] = Done /\ \A i \in 1..Len(evq) : evq'[i] = evq[i]
    BY <2>2, Raised DEF WorkDone, Counts
  <2>4. Filled' = Filled
    BY <1>1 DEF Filled
  <2>5. ASSUME NEW j \in DOMAIN evq', evq'[j] # Done
        PROVE  /\ j \in DOMAIN evq /\ evq'[j] = evq[j]
               /\ \A i \in DOMAIN evq' : i < j => i \in DOMAIN evq /\ evq'[i] = evq[i]
    BY <2>3, <2>5
  <2>6. QueueOrdered'
    BY <1>1, <2>1, <2>4, <2>5 DEF Ordered, QueueOrdered
  <2>7. TableOrdered'
    BY <1>1, <2>1, <2>4 DEF Ordered, TableOrdered
  <2>8. PendingOrdered'
    BY <1>1, <2>1, <2>4, <2>5 DEF Ordered, PendingOrdered
  <2> QED
    BY <1>1, <2>1, <2>6, <2>7, <2>8 DEF InHand, Ordered, Tallied
<1> QED
  BY <1>2, <1>3

\* An event that nobody hears, or Done, leaves the results in order.
LEMMA ShiftOrder ==
    ASSUME Counts, Course, InHand,
           Ignored \/ \E e \in {evq[i] : i \in DOMAIN evq} : DoneFinish(e)
    PROVE  InHand'
<1>1. /\ UNCHANGED <<entries, count, cur, slot, gen, heard, clean, next>>
      /\ evq # <<>> /\ evq' = Tail(evq) /\ pc["ev"] = "idle"
  BY DEF Ignored, DoneFinish, Delivered, tabVars, evVars, hisVars
<1>2. pc'["ev"] \in {"idle", "give"}
  BY <1>1 DEF Ignored, DoneFinish, Goto, Counts
<1>3. CASE ~clean
  BY <1>1, <1>3 DEF InHand
<1>4. CASE clean
  <2>1. Ordered /\ Tallied
    BY <1>1, <1>4 DEF InHand, Active, Quiet
  <2>2. Filled' = Filled
    BY <1>1, <1>2 DEF Filled
  <2>3. QueueOrdered'
    BY <1>1, <2>1, <2>2, QueueShifts DEF Ordered
  <2>4. TableOrdered'
    BY <1>1, <2>1, <2>2 DEF Ordered, TableOrdered
  <2>5. PendingOrdered'
    BY <1>2 DEF PendingOrdered
  <2>6. Tallied'
    BY <1>1, <1>2, <2>1 DEF Tallied
  <2> QED
    BY <2>3, <2>4, <2>5, <2>6 DEF InHand, Ordered
<1> QED
  BY <1>3, <1>4

\* on_scan_result takes the first of the queue.
LEMMA ResultSlotOrder ==
    ASSUME Counts, Course, InHand, NEW e, ResultSlot(e)
    PROVE  InHand'
<1>1. /\ UNCHANGED <<entries, count, gen, clean, next>>
      /\ evq # <<>> /\ evq' = Tail(evq) /\ pc["ev"] = "idle" /\ e = Head(evq) /\ e # Done
  BY DEF ResultSlot, Delivered, tabVars
<1>2. CASE ~clean
  BY <1>1, <1>2 DEF InHand
<1>3. CASE clean
  <2>1. Ordered /\ Tallied
    BY <1>1, <1>3 DEF InHand, Active, Quiet
  <2>2. /\ Len(evq) \in Nat \ {0} /\ DOMAIN evq = 1..Len(evq) /\ e = evq[1]
        /\ DOMAIN evq' = 1..(Len(evq) - 1)
        /\ \A i \in 1..(Len(evq) - 1) : evq'[i] = evq[i + 1]
    BY <1>1, Dequeued DEF Counts
  <2>3. e[1] = gen /\ heard' = heard + 1
    BY <1>1, <1>3, <2>2 DEF Course, ResultSlot, Heard
  <2>4. count = IF heard <= MaxEntries THEN heard ELSE MaxEntries
    <3>1. count = Least({heard, MaxEntries}) /\ heard \in Nat /\ MaxEntries \in Nat
      BY <1>1, <2>1, ScanConstants DEF Tallied, Counts
    <3> QED
      BY <3>1, LeastTwo
  <2>5. pc'["ev"] \in {"idle", "bump"} /\ Filled' = Filled
    <3>1. pc'["ev"] \in {"idle", "bump"}
      BY <1>1 DEF ResultSlot, Goto, Counts
    <3> QED
      BY <1>1, <3>1 DEF Filled
  <2>6. QueueOrdered'
    BY <1>1, <2>1, <2>5, QueueShifts DEF Ordered
  <2>7. TableOrdered'
    BY <1>1, <2>1, <2>5 DEF Ordered, TableOrdered
  <2>8. CASE count >= MaxEntries
    <3>1. pc' = pc
      BY <2>8 DEF ResultSlot
    <3>2. Least({heard + 1, MaxEntries}) = MaxEntries /\ count = MaxEntries
      BY <2>4, <2>8, LeastTwo, ScanConstants DEF Counts
    <3>3. Tallied'
      BY <1>1, <2>3, <3>1, <3>2 DEF Tallied
    <3>4. PendingOrdered'
      BY <1>1, <3>1 DEF PendingOrdered
    <3> QED
      BY <2>6, <2>7, <3>3, <3>4 DEF InHand, Ordered
  <2>9. CASE ~(count >= MaxEntries)
    <3>1. cur' = e /\ slot' = count + 1 /\ pc'["ev"] = "bump"
      BY <2>9 DEF ResultSlot, Goto, Counts
    <3>2. heard = count
      BY <2>4, <2>9, ScanConstants DEF Counts
    <3>3. Tallied'
      BY <1>1, <2>3, <3>1, <3>2 DEF Tallied
    <3>4. e[2] < next /\ \A i \in Filled : entries[i][2] < e[2]
      BY <1>1, <2>1, <2>2 DEF Ordered, QueueOrdered
    <3>5. ASSUME NEW j \in DOMAIN evq', evq'[j] # Done PROVE e[2] < evq'[j][2]
      <4>1. PICK k \in DOMAIN evq : k = j + 1 /\ evq'[j] = evq[k]
        BY <2>2
      <4>2. 1 \in DOMAIN evq /\ 1 < k
        BY <2>2, <4>1
      <4> QED
        BY <2>1, <2>2, <3>5, <4>1, <4>2 DEF Ordered, QueueOrdered
    <3>6. PendingOrdered'
      BY <1>1, <2>5, <3>1, <3>4, <3>5 DEF PendingOrdered
    <3> QED
      BY <2>6, <2>7, <3>3, <3>6 DEF InHand, Ordered
  <2> QED
    BY <2>8, <2>9
<1> QED
  BY <1>2, <1>3

\* It counts the entry.
LEMMA ResultBumpOrder ==
    ASSUME Counts, InHand, ResultBump
    PROVE  InHand'
<1>1. /\ UNCHANGED <<entries, cur, slot, gen, heard, clean, next, evq>>
      /\ pc["ev"] = "bump" /\ pc'["ev"] = "fill" /\ count' = slot
  BY DEF ResultBump, Goto, Counts, drvVars, evVars, hisVars
<1>2. CASE ~clean
  BY <1>1, <1>2 DEF InHand
<1>3. CASE clean
  <2>1. Ordered /\ Tallied
    BY <1>1, <1>3 DEF InHand, Active, Quiet
  <2>2. slot = count + 1 /\ heard = slot
    BY <1>1, <2>1 DEF Tallied
  <2>3. Filled' = Filled
    BY <1>1, <2>2 DEF Filled, Counts
  <2>4. Tallied'
    BY <1>1, <2>2 DEF Tallied
  <2>5. Ordered'
    BY <1>1, <2>1, <2>3 DEF Ordered, TableOrdered, QueueOrdered, PendingOrdered
  <2> QED
    BY <2>4, <2>5 DEF InHand
<1> QED
  BY <1>2, <1>3

\* It fills the entry, which is the last of the table.
LEMMA ResultFillOrder ==
    ASSUME Counts, Course, InHand, ResultFill
    PROVE  InHand'
<1>1. /\ UNCHANGED <<count, cur, slot, gen, heard, clean, next, evq>>
      /\ pc["ev"] = "fill" /\ pc'["ev"] = "idle"
      /\ entries' = [entries EXCEPT ![slot] = cur]
  BY DEF ResultFill, Goto, Counts, drvVars, evVars, hisVars
<1>2. CASE ~clean
  BY <1>1, <1>2 DEF InHand
<1>3. CASE clean
  <2>1. Ordered /\ Tallied
    BY <1>1, <1>3 DEF InHand, Active, Quiet
  <2>2. slot = count /\ heard = slot
    BY <1>1, <2>1 DEF Tallied
  <2>3. Filled = 1..(count - 1) /\ Filled' = 1..count /\ count \in 1..MaxEntries
    BY <1>1, <2>2 DEF Filled, Counts
  <2>4. entries'[count] = cur /\ \A i \in Filled : entries'[i] = entries[i]
    BY <1>1, <2>2, <2>3, ScanConstants DEF Counts
  <2>5. \A i \in Filled' : i \in Filled \/ i = count
    BY <2>3, ScanConstants
  <2>6. cur[1] = gen /\ cur[2] < next /\ \A i \in Filled : entries[i][2] < cur[2]
    BY <1>1, <1>3, <2>1 DEF Course, Ordered, PendingOrdered
  <2>7. \A i \in Filled' : entries'[i][1] = gen /\ entries'[i][2] < next
    BY <2>1, <2>4, <2>5, <2>6 DEF Ordered, TableOrdered
  <2>8. ASSUME NEW i \in Filled', NEW j \in Filled', i < j
        PROVE  entries'[i][2] < entries'[j][2]
    <3>1. i \in Filled
      BY <2>3, <2>8, ScanConstants
    <3> QED
      BY <2>1, <2>4, <2>5, <2>6, <2>8, <3>1 DEF Ordered, TableOrdered
  <2>9. TableOrdered'
    BY <1>1, <2>7, <2>8 DEF TableOrdered
  <2>10. \A j \in DOMAIN evq : evq[j] # Done => cur[2] < evq[j][2]
    BY <1>1, <2>1 DEF Ordered, PendingOrdered
  <2>11. QueueOrdered'
    BY <1>1, <2>1, <2>4, <2>5, <2>10 DEF Ordered, QueueOrdered
  <2>12. PendingOrdered'
    BY <1>1 DEF PendingOrdered
  <2>13. count = Least({heard, MaxEntries})
    BY <2>2, <2>3, LeastTwo, ScanConstants DEF Counts
  <2>14. Tallied'
    BY <1>1, <2>13 DEF Tallied
  <2> QED
    BY <2>9, <2>11, <2>12, <2>14 DEF InHand, Ordered
<1> QED
  BY <1>2, <1>3

\* discover_cb adds its result at the end of the table.
LEMMA DiscoverOrder ==
    ASSUME Counts, Course, InHand, DiscoverResult
    PROVE  InHand'
<1>1. /\ UNCHANGED <<cur, slot, gen, clean, evq, pc, sweep>> /\ next' = next + 1
      /\ pc["ev"] = "idle" /\ sweep # 0 /\ be = "thread"
  BY DEF DiscoverResult, evVars
<1>2. CASE ~clean
  BY <1>1, <1>2 DEF InHand
<1>3. CASE clean
  <2>1. Ordered /\ Tallied
    BY <1>1, <1>3 DEF InHand, Active, Quiet
  <2>2. evq = <<>> /\ DOMAIN evq = {} /\ sweep = gen
    BY <1>1, <1>3 DEF Course
  <2>3. PICK r : r = <<sweep, next>>
    OBVIOUS
  <2>4. r[1] = gen /\ r[2] = next /\ heard' = heard + 1
    BY <2>2, <2>3 DEF DiscoverResult, Heard
  <2>5. count = IF heard <= MaxEntries THEN heard ELSE MaxEntries
    <3>1. count = Least({heard, MaxEntries}) /\ heard \in Nat /\ MaxEntries \in Nat
      BY <1>1, <2>1, ScanConstants DEF Tallied, Counts
    <3> QED
      BY <3>1, LeastTwo
  <2>6. QueueOrdered' /\ PendingOrdered'
    BY <1>1, <2>2 DEF QueueOrdered, PendingOrdered
  <2>7. Filled = 1..count /\ Filled' = 1..count' /\ Filled \subseteq 1..MaxEntries
    BY <1>1, FilledInTable DEF Filled
  <2>8. next \in Nat /\ \A i \in Filled : /\ entries[i][2] \in Nat /\ entries[i][2] < next
                                          /\ entries[i][1] = gen
    BY <2>1, <2>7, FieldsAreNumbers DEF Ordered, TableOrdered
  <2>9. CASE count >= MaxEntries
    <3>1. count' = count /\ entries' = entries
      BY <2>9 DEF DiscoverResult
    <3>2. Least({heard + 1, MaxEntries}) = MaxEntries /\ count = MaxEntries
      BY <2>5, <2>9, LeastTwo, ScanConstants DEF Counts
    <3>3. Tallied'
      BY <1>1, <2>4, <3>1, <3>2 DEF Tallied
    <3>4. TableOrdered'
      BY <1>1, <2>1, <2>7, <2>8, <3>1 DEF Ordered, TableOrdered
    <3> QED
      BY <2>6, <3>3, <3>4 DEF InHand, Ordered
  <2>10. CASE ~(count >= MaxEntries)
    <3>1. count' = count + 1 /\ entries' = [entries EXCEPT ![count + 1] = r]
      BY <2>3, <2>10 DEF DiscoverResult
    <3>2. heard = count /\ count \in Nat /\ count + 1 \in 1..MaxEntries
      BY <2>5, <2>10, ScanConstants DEF Counts
    <3>3. Least({heard + 1, MaxEntries}) = count + 1
      BY <3>2, LeastTwo, ScanConstants
    <3>4. Tallied'
      BY <1>1, <2>4, <3>1, <3>3 DEF Tallied
    <3>5. entries'[count + 1] = r /\ \A i \in Filled : entries'[i] = entries[i]
      BY <2>7, <3>1, <3>2 DEF Counts
    <3>6. \A i \in Filled' : i \in Filled \/ i = count + 1
      BY <2>7, <3>1, <3>2
    <3>7. \A i \in Filled' : entries'[i][1] = gen /\ entries'[i][2] < next + 1
      BY <2>4, <2>8, <3>5, <3>6
    <3>8. ASSUME NEW i \in Filled', NEW j \in Filled', i < j
          PROVE  entries'[i][2] < entries'[j][2]
      <4>1. i \in Filled
        BY <2>7, <3>1, <3>2, <3>8
      <4> QED
        BY <2>1, <2>4, <2>8, <3>5, <3>6, <3>8, <4>1 DEF Ordered, TableOrdered
    <3>9. TableOrdered'
      BY <1>1, <3>7, <3>8 DEF TableOrdered
    <3> QED
      BY <2>6, <3>4, <3>9 DEF InHand, Ordered
  <2> QED
    BY <2>9, <2>10
<1> QED
  BY <1>2, <1>3

\* Every step keeps the results in order.
LEMMA InHandStep == Flags /\ Counts /\ Course /\ InHand /\ [Next]_vars => InHand'
<1> SUFFICES ASSUME Flags, Counts, Course, InHand, [Next]_vars PROVE InHand'
  OBVIOUS
<1>1. CASE scan_init \/ scan_deinit
  BY <1>1 DEF scan_init, scan_deinit, InHand
<1>2. CASE StartReset
  <2>1. (clean' => Quiet) /\ sem' = 0 /\ UNCHANGED drvVars /\ pc'["ev"] = pc["ev"]
    BY <1>2 DEF StartReset, Begin, Goto, Counts
  <2>2. clean' => ~Active'
    BY <2>1 DEF Active, Quiet, drvVars
  <2> QED
    BY <2>2 DEF InHand
<1>3. CASE StartClear
  <2>1. UNCHANGED <<sem, drvVars, clean>> /\ pc'["ev"] = pc["ev"] /\ pc["req"] = "clear"
    BY <1>3 DEF StartClear, Goto, Counts, hisVars
  <2>2. clean' => ~Active'
    BY <2>1 DEF Course, Active, Quiet, drvVars
  <2> QED
    BY <2>2 DEF InHand
<1>4. CASE StartScan
  <2>1. /\ UNCHANGED <<count, evq, clean, heard>> /\ pc'["ev"] = pc["ev"] /\ pc["req"] = "scan"
    BY <1>4 DEF StartScan, Goto, Counts, hisVars, tabVars
  <2>2. CASE clean
    BY <2>1, <2>2, OrderStarts DEF Course, Quiet
  <2>3. CASE ~clean
    BY <2>1, <2>3 DEF InHand
  <2> QED
    BY <2>2, <2>3
<1>5. CASE WorkBegin
  <2>1. UNCHANGED <<count, evq, clean, heard, pc>> /\ queued # 0
    BY <1>5 DEF WorkBegin, hisVars, tabVars
  <2>2. CASE clean
    <3>1. evq = <<>> /\ pc["ev"] = "idle" /\ heard = 0
      BY <2>1, <2>2 DEF Course
    <3>2. count = Least({0, MaxEntries})
      BY <2>1, <2>2, <3>1 DEF InHand, Active, Quiet, Tallied
    <3>3. count = 0
      BY <3>2, LeastTwo, ScanConstants
    <3> QED
      BY <2>1, <3>1, <3>3, OrderStarts
  <2>3. CASE ~clean
    BY <2>1, <2>3 DEF InHand
  <2> QED
    BY <2>2, <2>3
<1>6. CASE scan_result \/ StartNoInterface \/ StartFails \/ StartTimeout
  <2>1. /\ UNCHANGED <<entries, count, next, evq, cur, slot, gen, heard, clean, sem, queued,
                       sweep>>
        /\ pc'["ev"] = pc["ev"]
    BY <1>6 DEF scan_result, StartNoInterface, StartFails, StartTimeout, Goto, Counts,
                tabVars, drvVars, evVars, hisVars
  <2>2. Active' => Active
    BY <2>1 DEF Active, Quiet
  <2> QED
    BY <2>1, <2>2, OrderStays
<1>7. CASE StartDone
  <2>1. /\ UNCHANGED <<entries, count, next, evq, cur, slot, gen, heard, clean, queued, sweep>>
        /\ pc'["ev"] = pc["ev"] /\ sem = 1
    BY <1>7 DEF StartDone, Goto, Counts, tabVars, drvVars, evVars
  <2> QED
    BY <2>1, OrderStays DEF Active
<1>8. CASE DoneGive \/ DiscoverDone
  <2>1. /\ UNCHANGED <<entries, count, next, evq, cur, slot, gen, heard, clean>>
        /\ pc["ev"] \in {"idle", "give"} /\ pc'["ev"] \in {"idle", "give"} /\ Active
    BY <1>8 DEF DoneGive, DiscoverDone, Goto, Counts, Active, Quiet, tabVars, drvVars,
                evVars, hisVars
  <2>2. Filled' = Filled
    BY <2>1 DEF Filled
  <2> QED
    BY <2>1, <2>2
    DEF InHand, Ordered, TableOrdered, QueueOrdered, PendingOrdered, Tallied
<1>9. CASE UNCHANGED vars
  BY <1>9, OrderStays
  DEF vars, tabVars, drvVars, evVars, hisVars, Active, Quiet
<1> QED
  BY <1>1, <1>2, <1>3, <1>4, <1>5, <1>6, <1>7, <1>8, <1>9, WorkResultOrder, WorkDoneOrder,
     ShiftOrder, ResultSlotOrder, ResultBumpOrder, ResultFillOrder, DiscoverOrder
  DEF Next, RequestStep, Driver, Events, mgmt_event

-----------------------------------------------------------------------------
\* What the client gets.

\* Every step keeps the scan finished after the answer.
LEMMA AnsweredStep == Flags /\ Counts /\ Course /\ Answered /\ [Next]_vars => Answered'
<1> SUFFICES ASSUME Flags, Counts, Course, Answered, [Next]_vars PROVE Answered'
  OBVIOUS
<1>1. CASE scan_init
  BY <1>1 DEF scan_init, Counts, Answered, Quiet, Goto, tabVars, drvVars, evVars,
      hisVars, cliVars
<1>2. CASE scan_deinit
  BY <1>2 DEF scan_deinit, Counts, Answered, Quiet, Goto, tabVars, drvVars, evVars,
      hisVars, cliVars
<1>3. CASE StartReset
  BY <1>3 DEF StartReset, Counts, Answered, Quiet, Begin, Goto, tabVars, drvVars,
      evVars, hisVars, cliVars
<1>4. CASE scan_result
  BY <1>4 DEF scan_result, Counts, Answered, Quiet, Goto, tabVars, drvVars, evVars,
      hisVars, cliVars
<1>5. CASE StartNoInterface
  BY <1>5 DEF StartNoInterface, Counts, Answered, Quiet, Goto, tabVars, drvVars, evVars,
      hisVars, cliVars
<1>6. CASE StartClear
  BY <1>6 DEF StartClear, Counts, Answered, Quiet, Goto, tabVars, drvVars, evVars,
      hisVars, cliVars
<1>7. CASE StartScan
  BY <1>7 DEF StartScan, Counts, Answered, Quiet, fake_scan, Goto, tabVars, drvVars,
      evVars, hisVars, cliVars
<1>8. CASE StartFails
  BY <1>8 DEF StartFails, Counts, Answered, Quiet, Goto, tabVars, drvVars, evVars,
      hisVars, cliVars
<1>9. CASE StartDone
  <2>1. /\ UNCHANGED <<queued, sweep, evq, got, gotAll>> /\ sem = 1 /\ (ok' => clean)
        /\ pc' = [pc EXCEPT !["req"] = "idle"]
    BY <1>9 DEF StartDone, Goto, drvVars, cliVars
  <2>2. pc'["req"] = "idle" /\ pc'["ev"] = pc["ev"]
    BY <2>1 DEF Counts
  <2> QED
    BY <2>1, <2>2 DEF Course, Answered, Quiet
<1>10. CASE StartTimeout
  BY <1>10 DEF StartTimeout, Counts, Answered, Quiet, Goto, tabVars, drvVars, evVars,
      hisVars, cliVars
<1>11. CASE WorkBegin
  BY <1>11 DEF WorkBegin, Counts, Answered, Quiet, Goto, tabVars, drvVars, evVars,
      hisVars, cliVars
<1>12. CASE WorkResult
  BY <1>12 DEF WorkResult, Counts, Answered, Quiet, Raise, Goto, tabVars, drvVars,
      evVars, hisVars, cliVars
<1>13. CASE WorkDone
  BY <1>13 DEF WorkDone, Counts, Answered, Quiet, Raise, Goto, tabVars, drvVars, evVars,
      hisVars, cliVars
<1>14. CASE Ignored
  BY <1>14 DEF Ignored, Counts, Answered, Quiet, Goto, tabVars, drvVars, evVars,
      hisVars, cliVars
<1>15. ASSUME NEW e \in {evq[i] : i \in DOMAIN evq}, ResultSlot(e) PROVE Answered'
  BY <1>15 DEF ResultSlot, Counts, Answered, Quiet, Delivered, Heard, Goto, tabVars,
      drvVars, evVars, hisVars, cliVars
<1>16. ASSUME NEW e \in {evq[i] : i \in DOMAIN evq}, DoneFinish(e) PROVE Answered'
  BY <1>16 DEF DoneFinish, Counts, Answered, Quiet, Delivered, Goto, tabVars, drvVars,
      evVars, hisVars, cliVars
<1>17. CASE ResultBump
  BY <1>17 DEF ResultBump, Counts, Answered, Quiet, Goto, tabVars, drvVars, evVars,
      hisVars, cliVars
<1>18. CASE ResultFill
  BY <1>18 DEF ResultFill, Counts, Answered, Quiet, Goto, tabVars, drvVars, evVars,
      hisVars, cliVars
<1>19. CASE DoneGive
  BY <1>19 DEF DoneGive, Counts, Answered, Quiet, Goto, tabVars, drvVars, evVars,
      hisVars, cliVars
<1>20. CASE DiscoverResult
  BY <1>20 DEF DiscoverResult, Counts, Answered, Quiet, Heard, Goto, tabVars, drvVars,
      evVars, hisVars, cliVars
<1>21. CASE DiscoverDone
  BY <1>21 DEF DiscoverDone, Counts, Answered, Quiet, Goto, tabVars, drvVars, evVars,
      hisVars, cliVars
<1>22. CASE UNCHANGED vars
  BY <1>22 DEF Counts, Answered, Quiet, vars, Goto, tabVars, drvVars, evVars, hisVars,
      cliVars
<1> QED
  BY <1>1, <1>2, <1>3, <1>4, <1>5, <1>6, <1>7, <1>8, <1>9, <1>10, <1>11, <1>12, <1>13,
      <1>14, <1>15, <1>16, <1>17, <1>18, <1>19, <1>20, <1>21, <1>22 DEF Next,
      RequestStep, Driver, Events, mgmt_event

\* A page is the next entries of the table, and empty only after the last.
LEMMA PageIsNext ==
    ASSUME Counts, NEW want \in 1..MaxEntries, Len(got) <= count,
           got = SubSeq(entries, 1, Len(got)),
           NEW page, page = Page(Len(got), want)
    PROVE  LET g == got \o page
           IN  /\ g = SubSeq(entries, 1, Len(g)) /\ Len(g) <= count
               /\ page = <<>> => Len(g) = count
<1>0. PICK n : n = Len(got)
  OBVIOUS
<1>1. n \in Nat /\ got \in Seq(Results) /\ count \in Nat /\ want \in Nat \ {0}
      /\ count <= MaxEntries /\ PageSize \in Nat \ {0} /\ MaxEntries \in Nat
  BY <1>0, LenProperties, ScanConstants DEF Counts
<1>2. PICK m : m = Least({count, n + PageSize, n + want})
  OBVIOUS
<1>3. m \in {count, n + PageSize, n + want} /\ m <= count
  BY <1>1, <1>2, LeastThree
<1>4. m \in Nat /\ m <= MaxEntries /\ n <= m
  BY <1>0, <1>1, <1>3
<1>5. entries \in Seq(Results) /\ Len(entries) = MaxEntries /\ DOMAIN entries = 1..MaxEntries
  BY <1>1 DEF Counts
<1>6. page = SubSeq(entries, n + 1, m)
  BY <1>0, <1>2 DEF Page
<1>7. /\ page \in Seq(Results) /\ Len(page) = m - n
      /\ \A i \in 1..(m - n) : page[i] = entries[n + i]
  <2>1. /\ SubSeq(entries, n + 1, m) \in Seq(Results)
        /\ Len(SubSeq(entries, n + 1, m)) = IF n + 1 <= m THEN m - (n + 1) + 1 ELSE 0
        /\ \A i \in 1..(m - (n + 1) + 1) : SubSeq(entries, n + 1, m)[i] = entries[n + 1 + i - 1]
    BY <1>1, <1>4, <1>5, SubSeqProperties
  <2>2. \A i \in 1..(m - n) : i \in 1..(m - (n + 1) + 1) /\ n + 1 + i - 1 = n + i
    BY <1>1, <1>4
  <2>3. (IF n + 1 <= m THEN m - (n + 1) + 1 ELSE 0) = m - n
    BY <1>1, <1>4
  <2>4. \A i \in 1..(m - n) : SubSeq(entries, n + 1, m)[i] = entries[n + i]
    BY <2>1, <2>2
  <2> QED
    BY <1>6, <2>1, <2>3, <2>4
<1>8. PICK g : g = got \o page
  OBVIOUS
<1>9. /\ g \in Seq(Results) /\ Len(g) = m
      /\ \A i \in 1..m : g[i] = IF i <= n THEN got[i] ELSE page[i - n]
  BY <1>0, <1>1, <1>4, <1>7, <1>8, ConcatProperties
<1>10. \A i \in 1..n : got[i] = entries[i]
  BY <1>0, <1>1, <1>4, <1>5, SubSeqProperties
<1>11. \A i \in 1..m : g[i] = entries[i]
  <2> SUFFICES ASSUME NEW i \in 1..m PROVE g[i] = entries[i]
    OBVIOUS
  <2>1. CASE i <= n
    BY <1>1, <1>4, <1>9, <1>10, <2>1
  <2>2. CASE ~(i <= n)
    <3>1. i - n \in 1..(m - n) /\ n + (i - n) = i
      BY <1>1, <1>4, <2>2
    <3> QED
      BY <1>7, <1>9, <2>2, <3>1
  <2> QED
    BY <2>1, <2>2
<1>12. /\ SubSeq(entries, 1, m) \in Seq(Results) /\ Len(SubSeq(entries, 1, m)) = m
       /\ \A i \in 1..m : SubSeq(entries, 1, m)[i] = entries[i]
  BY <1>1, <1>4, <1>5, SubSeqProperties
<1>13. g = SubSeq(entries, 1, m)
  BY <1>9, <1>11, <1>12, SeqEqual
<1>14. page = <<>> => m = count
  <2>0. page = <<>> => Len(page) = 0
    OBVIOUS
  <2>1. page = <<>> => m = n
    BY <1>1, <1>4, <1>7, <2>0
  <2> QED
    BY <1>1, <1>3, <2>1
<1> QED
  BY <1>3, <1>8, <1>9, <1>13, <1>14

\* Every step keeps a finished scan whole.
LEMMA CompleteStep ==
    Flags /\ Counts /\ Course /\ InHand /\ Answered /\ BlockingComplete /\ [Next]_vars
      => BlockingComplete'
<1> SUFFICES ASSUME Flags, Counts, Course, InHand, Answered, BlockingComplete, [Next]_vars
             PROVE  BlockingComplete'
  OBVIOUS
<1>1. CASE scan_init
  BY <1>1 DEF scan_init, Counts, Answered, BlockingComplete, Quiet, Goto, tabVars,
      drvVars, evVars, hisVars, cliVars
<1>2. CASE scan_deinit
  BY <1>2 DEF scan_deinit, Counts, Answered, BlockingComplete, Quiet, Goto, tabVars,
      drvVars, evVars, hisVars, cliVars
<1>3. CASE StartReset
  BY <1>3 DEF StartReset, Counts, Answered, BlockingComplete, Quiet, Begin, Goto,
      tabVars, drvVars, evVars, hisVars, cliVars
<1>4. CASE scan_result
  <2>1. UNCHANGED <<entries, count, finished, heard, gen, ok>>
    BY <1>4 DEF scan_result, tabVars, hisVars
  <2> SUFFICES ASSUME ok PROVE BlockingComplete'
    BY <2>1 DEF BlockingComplete
  <2>2. PICK want \in 1..MaxEntries : /\ got' = got \o Page(Len(got), want)
                                      /\ gotAll' = (Page(Len(got), want) = <<>>)
    BY <1>4 DEF scan_result
  <2>3. PICK page : page = Page(Len(got), want)
    OBVIOUS
  <2>4. /\ got' = SubSeq(entries, 1, Len(got')) /\ Len(got') <= count
        /\ page = <<>> => Len(got') = count
    BY <2>2, <2>3, PageIsNext DEF BlockingComplete
  <2>5. gotAll' => Len(got') = count
    BY <2>2, <2>3, <2>4
  <2> QED
    BY <2>1, <2>4, <2>5 DEF BlockingComplete
<1>5. CASE StartNoInterface
  BY <1>5 DEF StartNoInterface, Counts, Answered, BlockingComplete, Quiet, Goto,
      tabVars, drvVars, evVars, hisVars, cliVars
<1>6. CASE StartClear
  BY <1>6 DEF StartClear, Counts, Answered, BlockingComplete, Quiet, Goto, tabVars,
      drvVars, evVars, hisVars, cliVars
<1>7. CASE StartScan
  BY <1>7 DEF StartScan, Counts, Answered, BlockingComplete, Quiet, fake_scan, Goto,
      tabVars, drvVars, evVars, hisVars, cliVars
<1>8. CASE StartFails
  BY <1>8 DEF StartFails, Counts, Answered, BlockingComplete, Quiet, Goto, tabVars,
      drvVars, evVars, hisVars, cliVars
<1>9. CASE StartDone
  <2>1. /\ UNCHANGED <<entries, count, finished, heard, gen, got, gotAll>>
        /\ sem = 1 /\ (ok' => clean) /\ pc["req"] = "wait"
    BY <1>9 DEF StartDone, tabVars, cliVars
  <2> SUFFICES ASSUME clean PROVE BlockingComplete'
    BY <2>1 DEF BlockingComplete
  <2>2. finished /\ pc["ev"] = "idle" /\ got = <<>> /\ ~gotAll
    BY <2>1 DEF Course, Quiet, Answered
  <2>3. Filled = 1..count /\ TableOrdered /\ count = Least({heard, MaxEntries})
    BY <2>1, <2>2 DEF InHand, Active, Ordered, Filled, Tallied
  <2>4. Len(got) = 0 /\ got = SubSeq(entries, 1, Len(got)) /\ Len(got) <= count
    BY <2>2, ScanConstants DEF Counts
  <2> QED
    BY <2>1, <2>2, <2>3, <2>4 DEF BlockingComplete, TableOrdered
<1>10. CASE StartTimeout
  BY <1>10 DEF StartTimeout, Counts, Answered, BlockingComplete, Quiet, Goto, tabVars,
      drvVars, evVars, hisVars, cliVars
<1>11. CASE WorkBegin
  BY <1>11 DEF WorkBegin, Counts, Answered, BlockingComplete, Quiet, Goto, tabVars,
      drvVars, evVars, hisVars, cliVars
<1>12. CASE WorkResult
  BY <1>12 DEF WorkResult, Counts, Answered, BlockingComplete, Quiet, Raise, Goto,
      tabVars, drvVars, evVars, hisVars, cliVars
<1>13. CASE WorkDone
  BY <1>13 DEF WorkDone, Counts, Answered, BlockingComplete, Quiet, Raise, Goto,
      tabVars, drvVars, evVars, hisVars, cliVars
<1>14. CASE Ignored
  BY <1>14 DEF Ignored, Counts, Answered, BlockingComplete, Quiet, Goto, tabVars,
      drvVars, evVars, hisVars, cliVars
<1>15. ASSUME NEW e \in {evq[i] : i \in DOMAIN evq}, ResultSlot(e) PROVE BlockingComplete'
  BY <1>15 DEF ResultSlot, Counts, Answered, BlockingComplete, Quiet, Delivered, Heard,
      Goto, tabVars, drvVars, evVars, hisVars, cliVars
<1>16. ASSUME NEW e \in {evq[i] : i \in DOMAIN evq}, DoneFinish(e) PROVE BlockingComplete'
  BY <1>16 DEF DoneFinish, Counts, Answered, BlockingComplete, Quiet, Delivered, Goto,
      tabVars, drvVars, evVars, hisVars, cliVars
<1>17. CASE ResultBump
  BY <1>17 DEF ResultBump, Counts, Answered, BlockingComplete, Quiet, Goto, tabVars,
      drvVars, evVars, hisVars, cliVars
<1>18. CASE ResultFill
  BY <1>18 DEF ResultFill, Counts, Answered, BlockingComplete, Quiet, Goto, tabVars,
      drvVars, evVars, hisVars, cliVars
<1>19. CASE DoneGive
  BY <1>19 DEF DoneGive, Counts, Answered, BlockingComplete, Quiet, Goto, tabVars,
      drvVars, evVars, hisVars, cliVars
<1>20. CASE DiscoverResult
  BY <1>20 DEF DiscoverResult, Counts, Answered, BlockingComplete, Quiet, Heard, Goto,
      tabVars, drvVars, evVars, hisVars, cliVars
<1>21. CASE DiscoverDone
  BY <1>21 DEF DiscoverDone, Counts, Answered, BlockingComplete, Quiet, Goto, tabVars,
      drvVars, evVars, hisVars, cliVars
<1>22. CASE UNCHANGED vars
  BY <1>22 DEF Counts, Answered, BlockingComplete, Quiet, vars, Goto, tabVars, drvVars,
      evVars, hisVars, cliVars
<1> QED
  BY <1>1, <1>2, <1>3, <1>4, <1>5, <1>6, <1>7, <1>8, <1>9, <1>10, <1>11, <1>12, <1>13,
      <1>14, <1>15, <1>16, <1>17, <1>18, <1>19, <1>20, <1>21, <1>22 DEF Next,
      RequestStep, Driver, Events, mgmt_event

\* A blocking start that nothing was under way for, and that was answered with
\* Success, has finished and left its own results, in order and all that fit,
\* and the client pages through them without a gap or a repetition.
THEOREM BlockingIsComplete == Spec => []BlockingComplete
<1>1. Init => Course /\ InHand /\ Answered /\ BlockingComplete
  BY DEF Init, Course, InHand, Answered, BlockingComplete
<1> QED
  BY <1>1, TypesInit, FlagsStep, CountsStep, CourseStep, InHandStep, AnsweredStep,
     CompleteStep, PTL DEF Spec
=============================================================================
