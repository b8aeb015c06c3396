-------------------------- MODULE ParameterManager --------------------------
(* Loading the parameters of a vehicle (src/FactSystem/ParameterManager.cc):*)
(* from the cache if the vehicle's hash matches it (PX4), from a file over  *)
(* FTP, or as a stream of PARAM_VALUEs whose holes are asked for again by   *)
(* index, a few at a time.  Every component of the vehicle streams; only    *)
(* the autopilot's parameters gate readiness.                               *)
(*                                                                          *)
(* A PARAM_VALUE may arrive at any moment from any component: it stands for *)
(* answers that are late, repeated, out of order, or were never asked for,  *)
(* and any of them may be lost.  A handler is an operator that takes the    *)
(* manager's state p and returns it.  The vehicle has a link as long as it  *)
(* lives, of high latency or not.  Not modelled: log replay, progress,      *)
(* writes, single reads.                                                    *)
EXTENDS Integers, FiniteSets

CONSTANTS
    Count,            \* parameters of each component, a function of its id
    Firmwares,        \* those to consider, of "px4", "apm", "other"
    MaxListRetry,     \* kMaxInitialRequestListRetry
    MaxIndexRetry,    \* kMaxInitialLoadRetrySingleParam
    BatchMax,         \* kIndexBatchMaxOutstanding
    MinOutstanding,   \* kUnresponsiveMinOutstanding
    SilentCycles,     \* kUnresponsiveSilentCycles
    Fitted,           \* the components a vehicle of each firmware has
    MaxRefreshes      \* bound: calls of refreshAllParameters, by firmware

Comp == DOMAIN Count
Autopilot == 1       \* MAV_COMP_ID_AUTOPILOT1, also the default component
All == 0             \* MAV_COMP_ID_ALL
Unrequested == -1    \* the index 65535 of a value nobody asked for

ASSUME ParameterAssumption ==
    /\ IsFiniteSet(Comp) /\ Autopilot \in Comp /\ All \notin Comp
    /\ \A c \in Comp : c \in Nat /\ Count[c] \in Nat \ {0}
    /\ {MaxListRetry, MaxIndexRetry, MinOutstanding, SilentCycles} \subseteq Nat
    /\ Fitted \in [Firmwares -> SUBSET Comp] /\ MaxRefreshes \in [Firmwares -> Nat]
    /\ BatchMax \in Nat \ {0}

VARIABLES
    fw,           \* the vehicle's firmware
    highLatency,  \* its primary link is of high latency
    cached,       \* the components with a cache file that has the hash they send
    p,            \* the manager's state, with the components whose list was asked for
                  \* again and since when no value arrived (asked), the failed indices the
                  \* user was told of (told), and the components waited for since (late)
    refreshes,    \* refreshAllParameters called
    spoiled       \* a parameter file could be read only in part

vars == <<fw, highLatency, cached, p, refreshes, spoiled>>

Indices(c) == 0..(Count[c] - 1)
Reads == UNION {{c} \X Indices(c) : c \in Comp}
\* The order in which the maps are walked: by component, then by index.
Before(a, b) == a[1] < b[1] \/ (a[1] = b[1] /\ a[2] < b[2])

Init ==
    /\ fw \in Firmwares
    /\ highLatency \in BOOLEAN
    /\ cached \in (IF fw = "px4" THEN SUBSET Fitted[fw] ELSE {{}})
    /\ p = [ready |-> FALSE, missing |-> FALSE, signals |-> {},
            tryftp |-> fw # "other", ftp |-> FALSE, retries |-> 0,
            hashDone |-> FALSE, cacheOnly |-> FALSE,
            listTimer |-> FALSE, waitTimer |-> FALSE, hashTimer |-> FALSE,
            seen |-> {}, waiting |-> {}, tries |-> [r \in Reads |-> 0], failed |-> {},
            facts |-> {}, active |-> FALSE, batch |-> {},
            heard |-> {}, silent |-> [c \in Comp |-> 0],
            lastChance |-> FALSE, reported |-> FALSE, asked |-> {}, told |-> {}, late |-> {}]
    /\ refreshes = 0 /\ spoiled = FALSE

Of(c, S) == {r \in S : r[1] = c}

-----------------------------------------------------------------------------
(* Requests by index.                                                      *)

AskedOnceTooOften(q, r) == q.tries[r] <= MaxIndexRetry
MayBeAsked(q, r) == q.tries[r] < MaxIndexRetry

(* The walk asks for an index that waits or, when that was done too often, *)
(* gives it up.  It ends when enough indices are being asked for.          *)
_fillIndexBatchQueue(q) ==
    LET ask == {r \in q.waiting \ q.batch : MayBeAsked(q, r)}
        reached == {r \in q.waiting \ q.batch :
                       Cardinality(q.batch) + Cardinality({a \in ask : Before(a, r)}) < BatchMax}
        lost == reached \ ask
    IN IF ~q.active THEN q
       ELSE [q EXCEPT !.batch = @ \cup (reached \cap ask), !.failed = @ \cup lost, !.waiting = @ \ lost,
                      !.tries = [r \in Reads |-> IF r \in lost THEN 0
                                                 ELSE IF r \in reached THEN @[r] + 1 ELSE @[r]]]

(* A component that leaves enough requests unanswered, twice in a row.     *)
_giveUpOnUnresponsiveComponents(q) ==
    LET silent == {c \in q.seen \ ({Autopilot} \cup q.heard) : Cardinality(Of(c, q.batch)) >= MinOutstanding}
        count == [c \in Comp |-> IF c \in silent /\ q.silent[c] < SilentCycles THEN q.silent[c] + 1 ELSE q.silent[c]]
        dead == {r \in q.waiting : r[1] \in silent /\ count[r[1]] >= SilentCycles}
    IN [q EXCEPT !.silent = count, !.heard = {},
                 !.failed = @ \cup dead, !.waiting = @ \ dead, !.batch = @ \ dead,
                 !.tries = [r \in Reads |-> IF r \in dead THEN 0 ELSE @[r]]]

-----------------------------------------------------------------------------
(* The end of the load.                                                    *)

OfOthers(S) == S \ Of(Autopilot, S)

ReportedWhileWaiting(q) ==
    IF q.reported \/ OfOthers(q.failed) = {} THEN q
    ELSE [q EXCEPT !.reported = TRUE, !.told = OfOthers(q.failed)]
\* The user is told once: the flag is never reset.
_checkOtherComponentsLoadComplete(q) ==
    IF q.reported \/ q.waiting # {} \/ OfOthers(q.failed) = {} THEN q
    ELSE [q EXCEPT !.reported = TRUE, !.told = OfOthers(q.failed)]
\* What is waited for after that is not told of.
Relisted(q, comps) == [q EXCEPT !.late = IF q.reported THEN @ \cup comps ELSE @]

_checkInitialLoadComplete(q) ==
    IF q.ready THEN _checkOtherComponentsLoadComplete(q)
    ELSE IF Of(Autopilot, q.waiting) # {} \/ Of(Autopilot, q.facts) = {} THEN q
    ELSE _checkOtherComponentsLoadComplete(
            [q EXCEPT !.ready = TRUE, !.missing = Of(Autopilot, q.failed) # {}, !.signals = @ \cup {"ready"}])

-----------------------------------------------------------------------------
(* Starting a load.  `busy' says that the FTP manager is: its download()   *)
(* then returns false.                                                     *)

FileStopsTheOthers(q, c, busy) ==
    LET listed == [q EXCEPT !.listTimer = @ \/ ~q.ready]
        again == {r \in Reads : r[1] \in q.seen /\ c \in {All, r[1]}}
    IN IF highLatency THEN [q EXCEPT !.ready = TRUE, !.missing = TRUE, !.signals = @ \cup {"ready"}, !.lastChance = FALSE]
       ELSE IF fw = "px4" /\ ~q.ready /\ ~q.hashDone THEN [q EXCEPT !.cacheOnly = FALSE, !.hashTimer = TRUE]
       ELSE IF q.tryftp /\ c \in {All, Autopilot}
       THEN IF q.ftp THEN q
            ELSE [listed EXCEPT !.ftp = ~busy, !.waitTimer = FALSE]
       ELSE [Relisted(listed, {r[1] : r \in again}) EXCEPT
                !.asked = @ \cup {r[1] : r \in again}, !.waiting = @ \cup again,
                !.tries = [r \in Reads |-> IF r \in again THEN 0 ELSE @[r]]]

_startParameterDownload(q, c, busy) ==
    LET listed == [q EXCEPT !.listTimer = @ \/ ~q.ready]
        again == {r \in Reads : r[1] \in q.seen /\ c \in {All, r[1]}}
    IN IF highLatency THEN [q EXCEPT !.ready = TRUE, !.missing = TRUE, !.signals = @ \cup {"ready"}, !.lastChance = FALSE]
       ELSE IF fw = "px4" /\ ~q.ready /\ ~q.hashDone THEN [q EXCEPT !.cacheOnly = FALSE, !.hashTimer = TRUE]
       ELSE IF q.tryftp /\ c \in {All, Autopilot}
       THEN IF q.ftp THEN q
            ELSE [listed EXCEPT !.ftp = ~busy, !.waitTimer = @ /\ q.waiting # {}]
       ELSE [Relisted(listed, {r[1] : r \in again}) EXCEPT
                !.asked = @ \cup {r[1] : r \in again}, !.waiting = @ \cup again,
                !.tries = [r \in Reads |-> IF r \in again THEN 0 ELSE @[r]]]

refreshAllParameters(c) ==
    /\ refreshes < MaxRefreshes[fw]
    /\ refreshes' = refreshes + 1
    /\ \E busy \in BOOLEAN :
          p' = _startParameterDownload([p EXCEPT !.hashTimer = FALSE, !.hashDone = FALSE,
                                                 !.signals = IF c \in {All, Autopilot} THEN @ \cup {"requested"} ELSE @],
                                       c, busy)
    /\ UNCHANGED <<fw, highLatency, cached, spoiled>>

\* What the initial connection asks for when the vehicle is flying.
tryHashCheckCacheLoad ==
    /\ p.signals = {} /\ refreshes = 0 /\ fw = "px4"
    /\ LET q == [p EXCEPT !.hashTimer = FALSE, !.hashDone = FALSE, !.cacheOnly = TRUE,
                          !.signals = @ \cup {"requested"}]
       IN p' = IF highLatency \/ q.ready THEN [q EXCEPT !.signals = @ \cup {"skipped"}]
               ELSE [q EXCEPT !.hashTimer = TRUE]
    /\ UNCHANGED <<fw, highLatency, cached, refreshes, spoiled>>

HashUnusable(q, busy) ==
    IF q.cacheOnly THEN [q EXCEPT !.hashDone = TRUE, !.signals = @ \cup {"skipped"}]
    ELSE _startParameterDownload([q EXCEPT !.hashDone = TRUE], All, busy)

_hashCheckTimeout ==
    /\ p.hashTimer
    /\ \E busy \in BOOLEAN : p' = HashUnusable([p EXCEPT !.hashTimer = FALSE], busy)
    /\ UNCHANGED <<fw, highLatency, cached, refreshes, spoiled>>

RequestAgain(q, busy) ==
    IF q.retries < MaxListRetry THEN _startParameterDownload([q EXCEPT !.retries = @ + 1], All, busy)
    ELSE [q EXCEPT !.retries = MaxListRetry + 1, !.signals = @ \cup {"failed"}]

_paramRequestListTimeout ==
    /\ p.listTimer
    /\ \E busy \in BOOLEAN : p' = RequestAgain([p EXCEPT !.listTimer = FALSE], busy)
    /\ UNCHANGED <<fw, highLatency, cached, refreshes, spoiled>>

-----------------------------------------------------------------------------
(* Values.                                                                 *)

(* n is the parameter, i its index or Unrequested.                         *)
_handleParamValue(q, c, n, i) ==
    LET told == [Relisted(q, {c} \ q.seen) EXCEPT !.asked = {}, !.listTimer = FALSE,
                          !.heard = @ \cup {c}, !.silent[c] = 0, !.seen = @ \cup {c},
                          !.waiting = IF c \in q.seen THEN @ ELSE @ \cup {r \in Reads : r[1] = c}]
        found == [told EXCEPT !.waiting = @ \ {<<c, i>>}, !.batch = @ \ {<<c, i>>},
                              !.tries = [r \in Reads |-> IF r = <<c, i>> THEN 0 ELSE @[r]]]
        left == IF <<c, i>> \in told.waiting THEN _fillIndexBatchQueue(found) ELSE told
    IN _checkInitialLoadComplete(
         [left EXCEPT !.waitTimer = left.waiting # {} \/ Of(Autopilot, q.facts) = {},
                      !.facts = @ \cup {<<c, n>>}])

(* While the file is awaited the autopilot's stream is ignored; while the  *)
(* list is, values nobody asked for are.                                   *)
ParamValue(c, n, i) ==
    /\ ~(p.tryftp /\ c = Autopilot /\ ~p.ready)
    /\ ~(i = Unrequested /\ p.listTimer)
    /\ p' = _handleParamValue(p, c, n, i)
    /\ UNCHANGED <<fw, highLatency, cached, refreshes, spoiled>>

LoadedFromCache(q, c) ==
    LET after[n \in 0..Count[c]] ==                  \* n parameters of the file
            IF n = 0 THEN [q EXCEPT !.hashDone = TRUE, !.listTimer = FALSE]
            ELSE _handleParamValue(after[n - 1], c, n - 1, n - 1)
    IN after[Count[c]]

\* The hash of component c.
_tryCacheHashLoad(c) ==
    /\ fw = "px4"
    /\ \E busy \in BOOLEAN :
         LET q == [p EXCEPT !.hashTimer = FALSE]
         IN p' = IF q.ready THEN q
                 ELSE IF c \in cached THEN LoadedFromCache(q, c)
                 ELSE IF q.hashDone THEN q
                 ELSE HashUnusable(q, busy)
    /\ UNCHANGED <<fw, highLatency, cached, refreshes, spoiled>>

(* Three seconds without a value.                                          *)
WaitingParamTimeout(q) ==
    LET filled == _fillIndexBatchQueue([_giveUpOnUnresponsiveComponents([q EXCEPT !.active = TRUE])
                                           EXCEPT !.batch = {}])
    IN IF filled.batch = {} /\ ~q.lastChance /\ Of(Autopilot, q.facts) = {}
       THEN [filled EXCEPT !.waitTimer = TRUE, !.lastChance = TRUE]
       ELSE _checkInitialLoadComplete([filled EXCEPT !.waitTimer = filled.batch # {}, !.lastChance = FALSE])

_waitingParamTimeout ==
    /\ p.waitTimer
    /\ p' = WaitingParamTimeout(p)
    /\ UNCHANGED <<fw, highLatency, cached, refreshes, spoiled>>

-----------------------------------------------------------------------------
(* The parameter file of the autopilot.                                    *)

_ftpDownloadProgress ==
    /\ p.ftp
    /\ p' = [p EXCEPT !.listTimer = FALSE]
    /\ UNCHANGED <<fw, highLatency, cached, refreshes, spoiled>>

FileParsed ==
    p' = _checkInitialLoadComplete(
           [p EXCEPT !.ftp = FALSE, !.seen = @ \cup {Autopilot}, !.waiting = @ \ Of(Autopilot, Reads),
                     !.tries = [r \in Reads |-> IF r[1] = Autopilot THEN 0 ELSE @[r]],
                     !.facts = @ \cup Of(Autopilot, Reads)])

AsStream(q) == [q EXCEPT !.ftp = FALSE, !.tryftp = FALSE, !.retries = 0]

\* A file that ends early leaves the parameters read so far.
FileSpoiled ==
    /\ \E S \in SUBSET Of(Autopilot, Reads) :
         /\ spoiled' = (spoiled \/ S # {})
         /\ p' = [AsStream(p) EXCEPT !.facts = @ \cup S, !.listTimer = TRUE]

FileNotFound ==
    /\ p' = IF p.retries = 0 THEN RequestAgain(AsStream(p), FALSE)
            ELSE [AsStream(p) EXCEPT !.listTimer = TRUE]

\* Too slow, too many retries, or another try.
FileFailed ==
    \/ p' = [AsStream(p) EXCEPT !.listTimer = TRUE]
    \/ p.retries # 1 /\ p' = [p EXCEPT !.ftp = FALSE, !.listTimer = TRUE]

_ftpDownloadComplete ==
    /\ p.ftp
    /\ \/ FileParsed /\ UNCHANGED spoiled
       \/ FileSpoiled
       \/ FileNotFound /\ UNCHANGED spoiled
       \/ FileFailed /\ UNCHANGED spoiled
    /\ UNCHANGED <<fw, highLatency, cached, refreshes>>

-----------------------------------------------------------------------------
Next ==
    \/ \E c \in Fitted[fw] \cup {All} : refreshAllParameters(c)
    \/ tryHashCheckCacheLoad
    \/ _hashCheckTimeout \/ _paramRequestListTimeout \/ _waitingParamTimeout
    \/ \E r \in {x \in Reads : x[1] \in Fitted[fw]} : \E i \in {r[2], Unrequested} : ParamValue(r[1], r[2], i)
    \/ \E c \in Fitted[fw] : _tryCacheHashLoad(c)
    \/ _ftpDownloadProgress \/ _ftpDownloadComplete

Spec == Init /\ [][Next]_vars

-----------------------------------------------------------------------------
TypeOK ==
    /\ fw \in Firmwares
    /\ cached \subseteq Comp
    /\ {highLatency, spoiled, p.ready, p.missing, p.tryftp, p.ftp, p.hashDone, p.cacheOnly, p.listTimer,
        p.waitTimer, p.hashTimer, p.active, p.lastChance, p.reported} \subseteq BOOLEAN
    /\ p.signals \subseteq {"requested", "ready", "failed", "skipped"}
    /\ p.retries \in 0..(MaxListRetry + 1)
    /\ p.seen \subseteq Comp /\ p.heard \subseteq Comp /\ p.asked \subseteq p.seen
    /\ {p.waiting, p.failed, p.facts, p.told} \subseteq SUBSET Reads /\ p.late \subseteq p.seen
    /\ p.batch \subseteq p.waiting /\ Cardinality(p.batch) <= BatchMax
    /\ p.tries \in [Reads -> 0..MaxIndexRetry] /\ \A r \in Reads \ p.waiting : p.tries[r] = 0
    /\ p.silent \in [Comp -> 0..SilentCycles]
    /\ refreshes \in 0..MaxRefreshes[fw]

(* No parameter is missing without somebody having been told: no index of  *)
(* a component heard is forgotten by retries, refreshes and giving up;     *)
(* parameters that are ready and not said to be missing are complete, a    *)
(* file read in part aside; and, when nothing is waited for any more, the  *)
(* user was told of all that other components failed to deliver, whichever *)
(* of them ended last.  The code tells once: a component that was first    *)
(* heard, or whose list was asked for again, after that is left out.       *)
NothingMissingUntold ==
    /\ \A r \in Reads : r[1] \in p.seen => r \in p.waiting \cup p.failed \cup p.facts
    /\ p.ready /\ ~p.missing /\ ~spoiled => Of(Autopilot, Reads) \subseteq p.facts
    /\ p.ready /\ ~highLatency /\ p.waiting = {} =>
          \A r \in OfOthers(p.failed) : r \in p.told \/ r[1] \in p.late

Ended == p.signals \cap {"ready", "failed", "skipped"} # {}
Armed == p.listTimer \/ p.waitTimer \/ p.hashTimer \/ p.ftp

(* Hash check, file and stream hand the load over to each other, and share *)
(* their timers with components that are loaded meanwhile.  Once the       *)
(* autopilot was heard they do not disarm the first load: it has had an    *)
(* outcome (ready, failed, or the check for a cache has), or something is  *)
(* armed that takes it on; of an autopilot never heard, see                *)
(* LoadAlwaysTerminates.  In any load an index that is waited for is asked *)
(* for again when a timer fires, whatever else is loaded; only a list      *)
(* asked for anew begins without that timer, which the first value starts, *)
(* so that a refresh none of whose values arrive is not taken on.          *)
LoadIsDriven ==
    /\ "requested" \in p.signals /\ Of(Autopilot, p.facts) # {} => Ended \/ Armed
    /\ \A r \in p.waiting : p.waitTimer \/ r[1] \in p.asked

(* InitialConnectStateMachine.cc: "ParameterManager handles all timeouts   *)
(* internally and always terminates" with one of the signals.              *)
LoadAlwaysTerminates == "requested" \in p.signals => Ended \/ Armed
=============================================================================
