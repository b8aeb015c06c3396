----------------------------- MODULE FTPManager -----------------------------
(* MAVLink FTP between the ground station (src/Vehicle/FTPManager.cc) and  *)
(* the file server of the vehicle as the repository implements it          *)
(* (src/Comms/MockLink/MockLinkFTP.cc).  One operation runs at a time; an  *)
(* operation is a table of states with a begin, an ack/nak and a timeout   *)
(* function each, and every operation starts by clearing stale sessions.   *)
(*                                                                         *)
(* A file is a row of blocks.  The data of a block is the number of the    *)
(* operation that names the file and the block's place in it, so data of   *)
(* another file or from another place is told apart.                       *)
(* The link loses, delays past each other and repeats messages, and may    *)
(* drop; each such event, and each cancellation, is one disturbance.       *)
EXTENDS Integers, Sequences, FiniteSets, SequencesExt

CONSTANTS
    FileSize,        \* blocks of every file, entries of every directory
    ChunkSizes,      \* blocks a read request may ask for (_readChunkSize)
    BurstMax,        \* data packets of one burst (burstMax - 1 of MockLinkFTP)
    MaxRetry,        \* _maxRetry
    MaxReopens,      \* kMaxDownloadSessionReopens
    StartSeqs,       \* sequence numbers the manager may have reached
    Kinds,           \* operations the user starts
    Bounds           \* bounds: pairs of operations started, disturbances

ASSUME FileAssumption ==
    /\ FileSize \in Nat \ {0} /\ BurstMax \in Nat \ {0}
    /\ ChunkSizes \subseteq Nat \ {0} /\ ChunkSizes # {}
ASSUME LimitAssumption == MaxRetry \in Nat /\ MaxReopens \in Nat /\ Bounds \subseteq Nat \X Nat

SeqCount == 65536                               \* uint16_t
Seqs == 0..(SeqCount - 1)
ASSUME SeqAssumption == StartSeqs \subseteq Seqs /\ StartSeqs # {}

VARIABLES
    g,           \* the members of FTPManager, and what it has signalled
    started,     \* operations started: kind, faults before, whether all was quiet
    toVehicle,   \* requests in flight
    toGcs,       \* replies in flight
    srv,         \* the file server
    linkUp,      \* the vehicle has a primary link
    faults,      \* disturbances so far
    bound,       \* the pair of Bounds this behaviour keeps to
    reordered    \* some message has overtaken another

vars == <<g, started, toVehicle, toGcs, srv, linkUp, faults, reordered, bound>>

MaxOps == bound[1]
MaxFaults == bound[2]

Blocks == 0..(FileSize - 1)
Smaller(a, b) == IF a < b THEN a ELSE b
PlusUnwrapped(seq, n) == seq + n
Plus(seq, n) == (seq + n) % SeqCount

Unwritten == <<0, 0>>
NoDownload == [name |-> 0, active |-> FALSE, open |-> FALSE, session |-> 0, expectedOffset |-> 0,
               bytesWritten |-> 0, fileSize |-> 0, missing |-> <<>>, file |-> [b \in Blocks |-> Unwritten],
               retry |-> 0, checksize |-> TRUE, reopens |-> 0, resume |-> "none"]
NoUpload == [name |-> 0, open |-> FALSE, session |-> 0, size |-> 0, sent |-> 0,
             retry |-> 0, cancelled |-> FALSE]
NoList == [name |-> 0, offset |-> 0, entries |-> <<>>, retry |-> 0, withTime |-> FALSE]
NoDelete == [name |-> 0, retry |-> 0]
NoReply == [req |-> "none"]

Init ==
    /\ \E s \in StartSeqs :
         g = [op |-> "none", at |-> "idle", timer |-> FALSE, expected |-> s, clearRetries |-> 0,
              dl |-> NoDownload, ul |-> NoUpload, ls |-> NoList, rm |-> NoDelete,
              withTime |-> "unknown", out |-> <<>>, reports |-> <<>>,
              numbered |-> TRUE, drifted |-> FALSE, misclosed |-> FALSE]
    /\ started = <<>> /\ toVehicle = <<>> /\ toGcs = <<>>
    /\ bound \in Bounds
    /\ \E single \in BOOLEAN :
         srv = [single |-> single, time |-> BOOLEAN, session |-> 0, open |-> 0,
                upload |-> [name |-> 0, buffer |-> <<>>],
                stored |-> [k \in 1..bound[1] |-> <<>>], present |-> TRUE, last |-> NoReply]
    /\ linkUp = TRUE /\ faults = 0 /\ reordered = FALSE

-----------------------------------------------------------------------------
Spend(cost) == faults + cost <= MaxFaults /\ faults' = faults + cost

(* The pieces of the handlers.  Each takes the members as they are so far  *)
(* and returns them as they are afterwards; `out' collects what is sent.   *)

Becomes(x) == g' = [x EXCEPT !.out = <<>>] /\ toVehicle' = toVehicle \o x.out

Req(type, session, off, n, name) ==
    [req |-> type, seq |-> 0, session |-> session, off |-> off, n |-> n, name |-> name]

Post(x, r) ==
    IF linkUp THEN [x EXCEPT !.out = Append(@, [r EXCEPT !.seq = Plus(x.expected, 1)]),
                             !.expected = Plus(@, 2)]
              ELSE x

(* A request that finds no link takes no number.                           *)
TimerNeedsLink(x, r) == IF linkUp THEN Post([x EXCEPT !.timer = TRUE, !.numbered = TRUE], r)
                                  ELSE [x EXCEPT !.numbered = FALSE]
_sendRequestExpectAck(x, r) == Post([x EXCEPT !.timer = TRUE, !.numbered = linkUp], r)

ResetRequest == Req("reset", 0, 0, 0, 0)
_sendResetSessionsNoAck(x) == Post(x, ResetRequest)

(* A retry steps back to the number the request had.  When the request had *)
(* found no link and taken none, or the retry finds none, the number is    *)
(* that of an earlier request: the numbers have drifted.                   *)
SameNumber(x) == [x EXCEPT !.expected = Plus(@, -2), !.drifted = @ \/ ~x.numbered \/ ~linkUp]

Stopped(x) == [x EXCEPT !.op = "none", !.at = "idle", !.timer = FALSE]

Report(x, sig, name, ok, exact) ==
    [x EXCEPT !.reports = Append(@, [sig |-> sig, name |-> name, ok |-> ok, exact |-> exact,
                                     drifted |-> x.drifted, faults |-> faults'])]

Whole(d) == \A b \in Blocks : d.file[b] = <<d.name, b>>

_downloadComplete(x, ok) ==
    LET closed == [Stopped(x) EXCEPT !.dl.open = FALSE, !.dl.active = FALSE]
    IN Report(IF ok THEN closed ELSE _sendResetSessionsNoAck(closed),
              "download", x.dl.name, ok, Whole(x.dl))

_uploadComplete(x, ok) ==
    Report([Stopped(x) EXCEPT !.ul = NoUpload], "upload", x.ul.name, ok,
           x.ul.name # 0 /\ srv.stored[x.ul.name] = [i \in 1..x.ul.size |-> <<x.ul.name, i - 1>>])

_listDirectoryComplete(x, ok) ==
    Report([Stopped(x) EXCEPT !.ls = NoList], "list", x.ls.name, ok,
           x.ls.entries = [i \in 1..FileSize |-> i - 1])

_deleteComplete(x, ok) ==
    Report([Stopped(x) EXCEPT !.rm = NoDelete], "delete", x.rm.name, ok, ~srv.present)

_resetSessionsBegin(x) == _sendRequestExpectAck(x, ResetRequest)
ClosingBegin(x) == _resetSessionsBegin([x EXCEPT !.at = "reset"])
_openFileROBegin(x) == _sendRequestExpectAck([x EXCEPT !.at = "open"], Req("open", 0, 0, IF x.dl.checksize THEN 0 ELSE 1, x.dl.name))
_createFileBegin(x) == _sendRequestExpectAck([x EXCEPT !.at = "create"], Req("create", 0, 0, 0, x.ul.name))
_deleteFileBegin(x) == _sendRequestExpectAck([x EXCEPT !.at = "remove"], Req("remove", 0, 0, 0, x.rm.name))

_burstReadFileWorker(x, n) ==
    _sendRequestExpectAck(x, Req("burst", x.dl.session, x.dl.expectedOffset, n, 0))
_burstReadFileBegin(x, n) == _burstReadFileWorker([x EXCEPT !.at = "burst", !.dl.retry = 0], n)

Complete(d) == ~d.checksize \/ d.bytesWritten = d.fileSize

ReadHole(x, n) ==
    LET hole == Head(x.dl.missing)
    IN _sendRequestExpectAck([x EXCEPT !.dl.expectedOffset = hole.off],
                             Req("read", x.dl.session, hole.off, Smaller(n, hole.n), 0))
_fillMissingBlocksBegin(x, n) ==
    IF x.dl.missing # <<>> THEN ReadHole([x EXCEPT !.at = "fill", !.dl.retry = 0], n)
    ELSE IF Complete(x.dl) THEN ClosingBegin(x)
    ELSE _downloadComplete(x, FALSE)

WriteChunk(x) ==
    _sendRequestExpectAck(x, Req("write", x.ul.session, x.ul.sent, 1, x.ul.name))
_writeFileBegin(x) ==
    IF x.ul.sent >= x.ul.size THEN ClosingBegin(x)
    ELSE WriteChunk([x EXCEPT !.at = "write", !.ul.retry = 0])

ListPage(x) ==
    _sendRequestExpectAck(x, Req(IF x.ls.withTime THEN "listTime" ELSE "list", x.dl.session, x.ls.offset, 0, 0))
_listDirectoryBegin(x) == ListPage([x EXCEPT !.at = "list", !.ls.retry = 0])

(* Every operation, and the reopening of a download, begins by clearing    *)
(* the sessions a former one may have left open.                           *)
DownloadOpensAtOnce(x) ==
    IF x.op = "download" THEN _openFileROBegin(x)
    ELSE _resetSessionsBegin([x EXCEPT !.at = "clear", !.clearRetries = 0])
_clearStaleSessionsBegin(x) == _resetSessionsBegin([x EXCEPT !.at = "clear", !.clearRetries = 0])

(* The state after the leading ResetSessions of each operation.            *)
AfterClear(x) ==
    CASE x.op = "download" -> _openFileROBegin(x)
      [] x.op = "upload"   -> _createFileBegin(x)
      [] x.op = "list"     -> _listDirectoryBegin(x)
      [] x.op = "delete"   -> _deleteFileBegin(x)

-----------------------------------------------------------------------------
(* Operations of the user.                                                 *)

Start(kind, checksize, x) ==
    /\ g.op = "none" /\ Len(started) < MaxOps /\ kind \in Kinds
    /\ started' = Append(started, [kind |-> kind, checksize |-> checksize,
                                   faults |-> faults, present |-> srv.present,
                                   quiet |-> linkUp /\ toVehicle = <<>> /\ toGcs = <<>>])
    /\ Becomes(_clearStaleSessionsBegin([x EXCEPT !.op = kind]))
    /\ UNCHANGED <<toGcs, srv, linkUp, faults, reordered, bound>>

NewName == Len(started) + 1

download(checksize) ==
    Start("download", checksize, [g EXCEPT !.dl = [NoDownload EXCEPT !.name = NewName, !.active = TRUE,
                                                          !.checksize = checksize]])
upload(size) ==
    Start("upload", TRUE, [g EXCEPT !.ul = [NoUpload EXCEPT !.name = NewName, !.open = TRUE, !.size = size]])
listDirectory ==
    Start("list", TRUE, [g EXCEPT !.ls = [NoList EXCEPT !.name = NewName,
                                                  !.withTime = (g.withTime # "unsupported")]])
deleteFile ==
    Start("delete", TRUE, [g EXCEPT !.rm = [NoDelete EXCEPT !.name = NewName]])

Cancel(x) ==
    /\ Spend(1)
    /\ Becomes(x)
    /\ UNCHANGED <<started, toGcs, srv, linkUp, reordered, bound>>

cancelDownload == g.dl.active /\ Cancel(_downloadComplete(g, FALSE))
cancelListDirectory == g.op = "list" /\ Cancel(_listDirectoryComplete(g, FALSE))
cancelDelete == g.rm.name # 0 /\ Cancel(_deleteComplete(g, FALSE))

TerminateRequest(x) == Req("terminate", x.ul.session, 0, 0, 0)
_terminateUploadSessionBegin(x) == _sendRequestExpectAck(x, TerminateRequest(x))

cancelUpload ==
    /\ g.ul.open
    /\ IF g.ul.session # 0
       THEN Cancel(_terminateUploadSessionBegin(
                     [g EXCEPT !.op = "terminate", !.at = "terminate", !.ul.cancelled = TRUE, !.ul.retry = 0]))
       ELSE Cancel(_uploadComplete(g, FALSE))

-----------------------------------------------------------------------------
(* Acks and naks.  What is not the answer to the request of the current    *)
(* state is disregarded: another request's, another number's (a burst, a   *)
(* listing and an upload look at the number later), another session's.     *)

AwaitedRequest ==
    CASE g.at \in {"clear", "reset"} -> "reset"
      [] g.at = "fill" -> "read"
      [] g.at = "list" -> IF g.ls.withTime THEN "listTime" ELSE "list"
      [] OTHER -> g.at

InSequence(m) == m.seq = g.expected

Awaited(m) ==
    /\ m.req = AwaitedRequest
    /\ g.at \notin {"burst", "list", "write"} => InSequence(m)
    /\ g.at \in {"burst", "fill"} => m.session = g.dl.session
    /\ g.at = "write" => m.session = g.ul.session

Unstarted == [g EXCEPT !.timer = FALSE]

(* Once an operation's clearing is answered, the vehicle's last answer is  *)
(* of this operation and drift has ended, unless it was a reopening.       *)
_clearStaleSessionsAckOrNak(m) ==
    /\ g.at = "clear"
    /\ Becomes(AfterClear([Unstarted EXCEPT !.drifted = @ /\ g.op = "download" /\ g.dl.reopens > 0]))

OpenAcked(m) ==
    /\ g.at = "open" /\ m.ok /\ g.dl.resume = "none"
    /\ \E n \in ChunkSizes :
         Becomes(_burstReadFileBegin([g EXCEPT !.dl.session = m.session, !.dl.fileSize = m.n,
                                               !.dl.expectedOffset = 0, !.dl.open = TRUE], n))

Reopened(m) ==
    /\ g.at = "open" /\ m.ok /\ g.dl.resume # "none"
    /\ IF g.dl.checksize /\ m.n # g.dl.fileSize
       THEN Becomes(_downloadComplete(g, FALSE))
       ELSE \E n \in ChunkSizes :
              LET x == [g EXCEPT !.dl.session = m.session, !.dl.resume = "none"]
              IN Becomes(IF g.dl.resume = "burst" THEN _burstReadFileBegin(x, n)
                                                  ELSE _fillMissingBlocksBegin(x, n))

_openFileROAckOrNak(m) ==
    \/ OpenAcked(m) \/ Reopened(m)
    \/ g.at = "open" /\ ~m.ok /\ Becomes(_downloadComplete(g, FALSE))

Write(d, m) ==                                      \* seeks first
    [d EXCEPT !.file = [b \in Blocks |-> IF b \in m.off..(m.off + m.n - 1) THEN <<m.name, b>> ELSE @[b]],
              !.bytesWritten = @ + m.n]

Holds(hole, m) == m.n > 0 /\ m.off >= hole.off /\ m.off + m.n <= hole.off + hole.n

(* What is left of a hole, on either side of the range claimed.            *)
Piece(off, end) == IF off < end THEN <<[off |-> off, n |-> end - off]>> ELSE <<>>
Remains(hole, m) == Piece(hole.off, m.off) \o Piece(m.off + m.n, hole.off + hole.n)

ClaimKeepsHole(missing, m) == missing
_claimMissingRange(missing, m) ==
    LET i == CHOOSE j \in DOMAIN missing : Holds(missing[j], m)
    IN SubSeq(missing, 1, i - 1) \o Remains(missing[i], m) \o SubSeq(missing, i + 1, Len(missing))

(* Behind the frontier: a late packet may still plug a hole.               *)
LateDataWritten(m) == [Write(g.dl, m) EXCEPT !.missing = _claimMissingRange(@, m)]

LateBurstData(m) ==
    /\ g.at = "burst" /\ m.ok /\ m.off < g.dl.expectedOffset
    /\ Becomes(IF \E j \in DOMAIN g.dl.missing : Holds(g.dl.missing[j], m)
               THEN [g EXCEPT !.dl = LateDataWritten(m)] ELSE g)

BurstDataWritten(m) ==
    [g.dl EXCEPT !.missing = IF m.off > g.dl.expectedOffset
                             THEN Append(@, [off |-> g.dl.expectedOffset, n |-> m.off - g.dl.expectedOffset])
                             ELSE @,
                 !.file = Write(g.dl, m).file, !.bytesWritten = Write(g.dl, m).bytesWritten,
                 !.expectedOffset = m.off + m.n]

BurstData(m) ==
    /\ g.at = "burst" /\ m.ok /\ m.off >= g.dl.expectedOffset
    /\ LET x == [g EXCEPT !.dl = BurstDataWritten(m)]
       IN IF m.last
          THEN \E n \in ChunkSizes : Becomes(_burstReadFileBegin([x EXCEPT !.expected = m.seq], n))
          ELSE Becomes([x EXCEPT !.expected = Plus(m.seq, 1)])

BurstEnds(m) ==
    /\ g.at = "burst" /\ ~m.ok /\ m.err = "eof"
    /\ \E n \in ChunkSizes :
         Becomes(IF InSequence(m) THEN _fillMissingBlocksBegin(Unstarted, n)
                 ELSE _burstReadFileBegin([g EXCEPT !.expected = m.seq], n))

_downloadSessionLost ==
    IF g.dl.reopens + 1 > MaxReopens
    THEN Becomes(_downloadComplete([g EXCEPT !.dl.reopens = @ + 1], FALSE))
    ELSE Becomes(_clearStaleSessionsBegin([g EXCEPT !.dl.reopens = @ + 1, !.dl.resume = g.at]))

_burstReadFileAckOrNak(m) ==
    \/ LateBurstData(m) \/ BurstData(m) \/ BurstEnds(m)
    \/ g.at = "burst" /\ ~m.ok /\ m.err = "session" /\ _downloadSessionLost
    \/ g.at = "burst" /\ ~m.ok /\ m.err = "fail" /\ Becomes(_downloadComplete(g, FALSE))

(* The size of a hole is unsigned, and the size of the answer is not       *)
(* compared with it: a hole shortened by more than it has left is from     *)
(* then on longer than the file.                                           *)
Shortened(size, n) == IF n <= size /\ size <= FileSize THEN size - n ELSE FileSize + 1

HoleAfter(missing, n) ==
    IF Head(missing).n = n THEN Tail(missing)
    ELSE ReplaceAt(missing, 1, [off |-> Head(missing).off + n, n |-> Shortened(Head(missing).n, n)])

FillDataWritten(m) == [Write(g.dl, m) EXCEPT !.missing = HoleAfter(@, m.n)]

FillData(m) ==
    /\ g.at = "fill" /\ m.ok /\ m.off = g.dl.expectedOffset
    /\ \E n \in ChunkSizes : Becomes(_fillMissingBlocksBegin([g EXCEPT !.dl = FillDataWritten(m)], n))

(* An answer to another offset is asked for again, like a timeout.         *)
Refill == \E n \in ChunkSizes :
    Becomes(IF g.dl.retry + 1 > MaxRetry THEN _downloadComplete(g, FALSE)
            ELSE ReadHole(SameNumber([g EXCEPT !.dl.retry = @ + 1]), n))

_fillMissingBlocksAckOrNak(m) ==
    \/ FillData(m)
    \/ g.at = "fill" /\ m.ok /\ m.off # g.dl.expectedOffset /\ Refill
    \/ g.at = "fill" /\ ~m.ok /\ m.err = "session" /\ _downloadSessionLost
    \/ /\ g.at = "fill" /\ ~m.ok /\ m.err \in {"eof", "fail"}
       /\ Becomes(IF m.err = "eof" /\ Complete(g.dl) THEN ClosingBegin(g) ELSE _downloadComplete(g, FALSE))

(* The closing ResetSessions of a download, and of an upload, whose nak    *)
(* completes a download.                                                   *)
ClosingUnanswered(x) == _downloadComplete([x EXCEPT !.misclosed = @ \/ x.op = "upload"], TRUE)

_resetSessionsAckOrNak(m) ==
    /\ g.at = "reset"
    /\ Becomes(IF ~m.ok THEN ClosingUnanswered(g)
               ELSE IF g.op = "upload" THEN _uploadComplete(g, TRUE)
               ELSE _downloadComplete(g, TRUE))

_createFileAckOrNak(m) ==
    /\ g.at = "create"
    /\ Becomes(IF m.ok THEN _writeFileBegin([g EXCEPT !.ul.session = m.session])
                       ELSE _uploadComplete(g, FALSE))

(* The numbers are compared as they are, wrapped or not; the timer is      *)
(* stopped before.                                                         *)
_writeFileAckOrNak(m) ==
    /\ g.at = "write"
    /\ Becomes(IF ~m.ok THEN _uploadComplete(g, FALSE)
               ELSE IF m.seq < g.expected THEN Unstarted
               ELSE _writeFileBegin([Unstarted EXCEPT !.ul.sent = @ + 1, !.expected = m.seq]))

_terminateUploadSessionAckOrNak(m) ==
    g.at = "terminate" /\ Becomes(_uploadComplete(g, FALSE))

_deleteFileAckOrNak(m) ==
    g.at = "remove" /\ Becomes(_deleteComplete(g, m.ok))

Supported(x) == IF x.ls.withTime THEN [x EXCEPT !.withTime = "supported"] ELSE x

ListData(m) ==
    /\ g.at = "list" /\ m.ok
    /\ Becomes(IF m.seq < g.expected THEN Unstarted
               ELSE _listDirectoryBegin([Supported(g) EXCEPT !.ls.entries = Append(@, m.off),
                                                             !.ls.offset = @ + 1, !.expected = m.seq]))

ListEnds(m) ==
    /\ g.at = "list" /\ ~m.ok /\ m.err = "eof"
    /\ Becomes(IF InSequence(m) THEN _listDirectoryComplete(Supported(g), TRUE) ELSE g)

WithTimeUnsupported(m) ==
    /\ g.at = "list" /\ ~m.ok /\ m.err = "unknown"
    /\ Becomes(IF g.ls.withTime
               THEN _listDirectoryBegin([g EXCEPT !.withTime = "unsupported", !.expected = m.seq,
                                                  !.ls = [NoList EXCEPT !.name = g.ls.name]])
               ELSE _listDirectoryComplete(g, FALSE))

_listDirectoryAckOrNak(m) ==
    \/ ListData(m) \/ ListEnds(m) \/ WithTimeUnsupported(m)
    \/ g.at = "list" /\ ~m.ok /\ m.err \in {"fail", "session"} /\ Becomes(_listDirectoryComplete(g, FALSE))

AckNak(m) ==
    \/ _clearStaleSessionsAckOrNak(m) \/ _openFileROAckOrNak(m) \/ _burstReadFileAckOrNak(m)
    \/ _fillMissingBlocksAckOrNak(m) \/ _resetSessionsAckOrNak(m) \/ _createFileAckOrNak(m)
    \/ _writeFileAckOrNak(m) \/ _terminateUploadSessionAckOrNak(m) \/ _deleteFileAckOrNak(m)
    \/ _listDirectoryAckOrNak(m)

(* Numbers at or before the last accepted one are old, except those of     *)
(* burst data: its offset says where it goes.                              *)
IsOldUnwrapped(seq) == seq < g.expected
IsOld(seq) == Plus(g.expected - 1, -seq) < 32767
IsBurstData(m) == m.ok /\ m.req = "burst" /\ g.at = "burst"

_mavlinkMessageReceived == \E i \in DOMAIN toGcs :
    LET m == toGcs[i]
        heard == g.at # "idle" /\ (IsBurstData(m) \/ ~IsOld(m.seq)) /\ Awaited(m)
    IN /\ toGcs' = RemoveAt(toGcs, i)
       /\ Spend(IF i = 1 THEN 0 ELSE 1) /\ reordered' = (reordered \/ i > 1)
       /\ \/ heard /\ AckNak(m)
          \/ ~heard /\ UNCHANGED <<g, toVehicle>>
       /\ UNCHANGED <<started, srv, linkUp, bound>>

-----------------------------------------------------------------------------
(* The timer of the awaited answer.  While something is in flight it is a  *)
(* fault that it expires first.                                            *)

_clearStaleSessionsTimeout(x) ==
    IF x.clearRetries = 0 THEN _resetSessionsBegin([x EXCEPT !.clearRetries = 1])
    ELSE AfterClear([x EXCEPT !.clearRetries = 2])

_burstReadFileTimeout(x, n) ==
    IF x.dl.retry + 1 > MaxRetry THEN _downloadComplete(x, FALSE)
    ELSE _burstReadFileWorker(SameNumber([x EXCEPT !.dl.retry = @ + 1]), n)

_fillMissingBlocksTimeout(x, n) ==
    IF x.dl.retry + 1 > MaxRetry THEN _downloadComplete(x, FALSE)
    ELSE ReadHole(SameNumber([x EXCEPT !.dl.retry = @ + 1]), n)

_writeFileTimeout(x) ==
    IF x.ul.retry + 1 > MaxRetry THEN _uploadComplete(x, FALSE)
    ELSE WriteChunk(SameNumber([x EXCEPT !.ul.retry = @ + 1]))

_listDirectoryTimeout(x) ==
    IF x.ls.retry + 1 > MaxRetry THEN _listDirectoryComplete(x, FALSE)
    ELSE ListPage(SameNumber([x EXCEPT !.ls.retry = @ + 1]))

(* A delete and a terminate are retried under a new number.                *)
DeleteGivesUpSilently(x) ==
    IF x.rm.retry + 1 > MaxRetry THEN [Stopped(x) EXCEPT !.rm = NoDelete]
    ELSE _deleteFileBegin([x EXCEPT !.rm.retry = @ + 1])
_deleteFileTimeout(x) ==
    IF x.rm.retry + 1 > MaxRetry THEN _deleteComplete(x, FALSE)
    ELSE _deleteFileBegin([x EXCEPT !.rm.retry = @ + 1])

_terminateUploadSessionTimeout(x) ==
    IF x.ul.retry + 1 > MaxRetry THEN _uploadComplete(x, FALSE)
    ELSE _terminateUploadSessionBegin([x EXCEPT !.ul.retry = @ + 1])

TimedOut(x, n) ==
    CASE x.at = "clear"     -> _clearStaleSessionsTimeout(x)
      [] x.at = "open"      -> _downloadComplete(x, FALSE)
      [] x.at = "burst"     -> _burstReadFileTimeout(x, n)
      [] x.at = "fill"      -> _fillMissingBlocksTimeout(x, n)
      [] x.at = "reset"     -> ClosingUnanswered(x)
      [] x.at = "create"    -> _uploadComplete(x, FALSE)
      [] x.at = "write"     -> _writeFileTimeout(x)
      [] x.at = "list"      -> _listDirectoryTimeout(x)
      [] x.at = "remove"    -> _deleteFileTimeout(x)
      [] x.at = "terminate" -> _terminateUploadSessionTimeout(x)

_ackOrNakTimeout ==
    /\ g.timer
    /\ Spend(IF toVehicle \o toGcs = <<>> THEN 0 ELSE 1)
    /\ \E n \in ChunkSizes : Becomes(TimedOut([g EXCEPT !.timer = FALSE], n))
    /\ UNCHANGED <<started, toGcs, srv, linkUp, reordered, bound>>

-----------------------------------------------------------------------------
(* The file server (MockLinkFTP).  A vehicle with a single session numbers *)
(* it 0 and refuses a second one; the others take a new number each time.  *)

Reply(m, ok, err) ==
    [req |-> m.req, ok |-> ok, err |-> err, seq |-> Plus(m.seq, 1), session |-> srv.session,
     off |-> m.off, n |-> 0, last |-> FALSE, name |-> srv.open]
Ack(m) == Reply(m, TRUE, "none")
Nak(m, err) == Reply(m, FALSE, err)

NewSession == IF srv.single THEN 0 ELSE srv.session + 1
Data(m, off, n) == [Ack(m) EXCEPT !.off = off, !.n = n]

(* The data packets of a burst, numbered on from the request, then EOF.    *)
BurstReplies(m) ==
    LET left == FileSize - m.off
        count == Smaller(BurstMax, (left + m.n - 1) \div m.n)
        packet(i) == [Data(m, m.off + (i - 1) * m.n, Smaller(m.n, left - (i - 1) * m.n)) EXCEPT
                        !.seq = Plus(m.seq, i), !.last = (i = BurstMax)]
        eof == [Nak(m, "eof") EXCEPT !.seq = Plus(m.seq, count + 1)]
    IN [i \in 1..count |-> packet(i)] \o (IF count * m.n >= left THEN <<eof>> ELSE <<>>)

Finalized(s) ==
    IF s.upload.name = 0 THEN s
    ELSE [s EXCEPT !.stored[s.upload.name] = s.upload.buffer, !.upload = [name |-> 0, buffer |-> <<>>]]

(* The server's state and replies after a new request.                     *)
Serves(m, s, replies) == srv' = [s EXCEPT !.last = Last(replies)] /\ toGcs' = toGcs \o replies

_resetCommand(m) == m.req = "reset" /\ Serves(m, Finalized([srv EXCEPT !.open = 0]), <<Ack(m)>>)
_terminateCommand(m) ==
    /\ m.req = "terminate"
    /\ IF m.session # srv.session THEN Serves(m, srv, <<Nak(m, "session")>>)
       ELSE Serves(m, Finalized([srv EXCEPT !.open = 0]), <<Ack(m)>>)
(* A file made up when it is opened (checksize is FALSE for those, here in *)
(* the request) is announced with a wrong size.                            *)
_openCommand(m) ==
    /\ m.req = "open"
    /\ IF srv.single /\ srv.open # 0
       THEN Serves(m, [srv EXCEPT !.upload = [name |-> 0, buffer |-> <<>>]], <<Nak(m, "fail")>>)
       ELSE Serves(m, [srv EXCEPT !.open = m.name, !.session = NewSession,
                                  !.upload = [name |-> 0, buffer |-> <<>>]],
                   <<[Ack(m) EXCEPT !.session = NewSession, !.n = FileSize + m.n]>>)
_readCommand(m) ==
    /\ m.req = "read"
    /\ IF m.session # srv.session \/ srv.open = 0 THEN Serves(m, srv, <<Nak(m, "session")>>)
       ELSE IF m.off >= FileSize THEN Serves(m, srv, <<Nak(m, "eof")>>)
       ELSE Serves(m, srv, <<Data(m, m.off, Smaller(m.n, FileSize - m.off))>>)
_burstReadCommand(m) ==
    /\ m.req = "burst"
    /\ IF m.session # srv.session THEN Serves(m, srv, <<Nak(m, "fail")>>)
       ELSE IF srv.open = 0 THEN Serves(m, srv, <<Nak(m, "session")>>)
       ELSE Serves(m, srv, BurstReplies(m))
_createFileCommand(m) ==
    /\ m.req = "create"
    /\ Serves(m, [srv EXCEPT !.session = NewSession, !.upload = [name |-> m.name, buffer |-> <<>>]],
              <<[Ack(m) EXCEPT !.session = NewSession]>>)
_writeCommand(m) ==
    /\ m.req = "write"
    /\ IF m.session # srv.session \/ srv.upload.name = 0 THEN Serves(m, srv, <<Nak(m, "session")>>)
       ELSE IF m.off > Len(srv.upload.buffer) THEN Serves(m, srv, <<Nak(m, "fail")>>)
       ELSE Serves(m, [srv EXCEPT !.upload.buffer = IF m.off < Len(@) THEN ReplaceAt(@, m.off + 1, <<m.name, m.off>>)
                                                    ELSE Append(@, <<m.name, m.off>>)], <<Ack(m)>>)
(* The first request shows whether it lists with times.                    *)
_listCommand(m) ==
    /\ m.req \in {"list", "listTime"}
    /\ \E time \in srv.time :
         Serves(m, [srv EXCEPT !.time = {time}],
                <<IF m.req = "listTime" /\ ~time THEN Nak(m, "unknown")
                  ELSE IF m.off < FileSize THEN Ack(m) ELSE Nak(m, "eof")>>)
_removeFileCommand(m) ==
    /\ m.req = "remove"
    /\ Serves(m, [srv EXCEPT !.present = FALSE], <<IF srv.present THEN Ack(m) ELSE Nak(m, "fail")>>)

Command(m) ==
    \/ _resetCommand(m) \/ _terminateCommand(m) \/ _openCommand(m) \/ _readCommand(m)
    \/ _burstReadCommand(m) \/ _createFileCommand(m) \/ _writeCommand(m) \/ _listCommand(m)
    \/ _removeFileCommand(m)

(* A request with the number of the one answered last gets that answer     *)
(* again; otherwise it is carried out, or, as a fault, refused.            *)
mavlinkMessageReceived == \E i \in DOMAIN toVehicle, refused \in {0, 1} :
    LET m == toVehicle[i]
    IN /\ toVehicle' = RemoveAt(toVehicle, i)
       /\ Spend((IF i = 1 THEN 0 ELSE 1) + refused) /\ reordered' = (reordered \/ i > 1)
       /\ IF srv.last # NoReply /\ m.seq = srv.last.seq - 1
          THEN refused = 0 /\ toGcs' = Append(toGcs, srv.last) /\ UNCHANGED srv
          ELSE IF refused = 1 THEN Serves(m, srv, <<Nak(m, "fail")>>)
          ELSE Command(m)
       /\ UNCHANGED <<g, started, linkUp, bound>>

-----------------------------------------------------------------------------
(* Faults of the link and of the vehicle.                                  *)

Lose ==
    /\ \/ \E i \in DOMAIN toVehicle : toVehicle' = RemoveAt(toVehicle, i) /\ UNCHANGED toGcs
       \/ \E i \in DOMAIN toGcs : toGcs' = RemoveAt(toGcs, i) /\ UNCHANGED toVehicle
    /\ Spend(1) /\ UNCHANGED <<g, started, srv, linkUp, reordered, bound>>

Repeat ==
    /\ \E i \in DOMAIN toGcs : toGcs' = Append(toGcs, toGcs[i])
    /\ reordered' = TRUE
    /\ Spend(1) /\ UNCHANGED <<g, started, toVehicle, srv, linkUp, bound>>

SessionExpires ==
    /\ srv.open # 0 /\ srv' = [srv EXCEPT !.open = 0]
    /\ Spend(1) /\ UNCHANGED <<g, started, toVehicle, toGcs, linkUp, reordered, bound>>

LinkDrops ==
    /\ linkUp /\ linkUp' = FALSE /\ toVehicle' = <<>> /\ toGcs' = <<>>
    /\ Spend(1) /\ UNCHANGED <<g, started, srv, reordered, bound>>

LinkReturns ==
    /\ ~linkUp /\ linkUp' = TRUE
    /\ UNCHANGED <<g, started, toVehicle, toGcs, srv, faults, reordered, bound>>

User ==
    \/ \E checksize \in BOOLEAN : download(checksize)
    \/ \E size \in {0, FileSize} : upload(size)
    \/ listDirectory \/ deleteFile
    \/ cancelDownload \/ cancelUpload \/ cancelListDirectory \/ cancelDelete

Link == Lose \/ Repeat \/ SessionExpires \/ LinkDrops \/ LinkReturns

Next == User \/ _mavlinkMessageReceived \/ _ackOrNakTimeout \/ mavlinkMessageReceived \/ Link

Spec == Init /\ [][Next]_vars

(* The event loop delivers what arrives and runs the timer; the vehicle    *)
(* answers what it gets.                                                   *)
Fairness ==
    /\ WF_vars(_mavlinkMessageReceived) /\ WF_vars(_ackOrNakTimeout) /\ WF_vars(mavlinkMessageReceived)

FairSpec == Spec /\ Fairness

-----------------------------------------------------------------------------
(* Properties.                                                             *)

Hole == [off : 0..FileSize, n : 1..(FileSize + 1)]
TypeOK ==
    /\ g.op \in {"none", "download", "upload", "list", "delete", "terminate"}
    /\ g.at \in {"idle", "clear", "open", "burst", "fill", "reset", "create", "write", "list", "remove", "terminate"}
    /\ g.timer \in BOOLEAN /\ g.expected \in Seqs /\ g.clearRetries \in 0..2 /\ g.out = <<>>
    /\ g.dl.missing \in Seq(Hole) /\ g.dl.file \in [Blocks -> (0..MaxOps) \X Blocks] /\ g.dl.retry \in 0..MaxRetry
    /\ g.dl.reopens \in 0..(MaxReopens + 1) /\ g.dl.expectedOffset \in 0..FileSize
    /\ g.ul.sent \in 0..FileSize /\ g.ul.retry \in 0..MaxRetry /\ g.rm.retry \in 0..MaxRetry
    /\ \A i \in DOMAIN toVehicle : toVehicle[i].seq \in Seqs
    /\ \A i \in DOMAIN toGcs : toGcs[i].seq \in Seqs
    /\ Len(started) \in 0..MaxOps /\ faults \in 0..MaxFaults

(* While a download has its file open, the recorded holes are exactly what *)
(* has not been written below the furthest block received, they do not     *)
(* overlap, and bytesWritten counts each block once, however often the     *)
(* packets came.                                                           *)
Covered(h) == h.off..(h.off + h.n - 1)
HolesAreWhatIsMissing ==
    g.dl.open =>
      LET written == {b \in Blocks : g.dl.file[b] # Unwritten}
          missing == g.dl.missing
      IN /\ g.dl.bytesWritten = Cardinality(written)
         /\ {b \in Blocks : \E c \in written : b < c} \ written
              = UNION {Covered(missing[i]) : i \in DOMAIN missing}
         /\ \A i, j \in DOMAIN missing : i # j => Covered(missing[i]) \cap Covered(missing[j]) = {}

(* An answer to a read that fills a hole is not longer than the hole: the  *)
(* code compares its offset and no more (_fillMissingBlocksAckOrNak).      *)
(* What HolesAreWhatIsMissing needs of answers that were overtaken.        *)
AnswersFit ==
    g.at = "fill" =>
      \A i \in DOMAIN toGcs :
        Awaited(toGcs[i]) /\ toGcs[i].ok /\ toGcs[i].off = g.dl.expectedOffset
          => toGcs[i].n <= Head(g.dl.missing).n

Succeeded(sig) == {i \in DOMAIN g.reports : g.reports[i].sig = sig /\ g.reports[i].ok}

(* A download that compares the size and is reported as successful has     *)
(* written every block of the file it was asked for.  On a vehicle that    *)
(* numbers all its sessions alike a packet of an earlier download that was *)
(* overtaken may be taken for one of this; and the closing of an upload    *)
(* that completes a download (UploadSignalsUploadComplete) reports none,   *)
(* or one already reported.  An upload reported as successful is stored on *)
(* the vehicle as it is on the ground, a listing has every entry once and  *)
(* in order, a delete has deleted the file, restarting and late answers    *)
(* included.  Nothing is claimed of what is reported after a retry took    *)
(* the number of an earlier request, until an operation's clearing is      *)
(* answered (drifted).                                                     *)
OwnReport(i) == g.reports[i].name # 0 /\ \A j \in 1..(i - 1) : g.reports[j].name # g.reports[i].name
SuccessMeansDone ==
    /\ \A i \in Succeeded("download") :
         OwnReport(i) /\ started[g.reports[i].name].checksize
           => g.reports[i].exact \/ g.reports[i].drifted \/ (srv.single /\ reordered)
    /\ \A kind \in {"upload", "list", "delete"} :
         \A i \in Succeeded(kind) : g.reports[i].exact \/ g.reports[i].drifted

(* When no operation runs, each operation started has been reported once,  *)
(* by its own signal; an upload whose closing went unanswered aside.       *)
EveryOperationReported ==
    g.op = "none" /\ ~g.misclosed =>
      \A k \in DOMAIN started :
        /\ Cardinality({i \in DOMAIN g.reports : g.reports[i].name = k}) = 1
        /\ \E i \in DOMAIN g.reports : g.reports[i].name = k /\ g.reports[i].sig = started[k].kind

(* An operation begun with nothing in flight and not disturbed since       *)
(* succeeds, whatever happened to the operations before it: sessions left  *)
(* open, numbers that drifted, a closing that went unanswered.             *)
UndisturbedOperationSucceeds ==
    \A i \in DOMAIN g.reports :
      LET r == g.reports[i]
      IN /\ r.name # 0 /\ ~r.ok
         /\ started[r.name].quiet /\ started[r.name].faults = r.faults
         => started[r.name].kind = "delete" /\ ~started[r.name].present

(* FTPManager.h: upload "Signals uploadComplete, commandProgress".  It     *)
(* does not when the closing reset is refused or unanswered: the handlers  *)
(* shared with the download complete a download.                           *)
UploadSignalsUploadComplete ==
    g.op = "none" => \A k \in DOMAIN started :
      started[k].kind = "upload" => \E i \in DOMAIN g.reports : g.reports[i].name = k

(* Every operation ends, whatever is lost, refused or cancelled, and with  *)
(* the link gone: a state without an answer has its timer.                 *)
OperationEnds == g.op # "none" ~> g.op = "none"
=============================================================================
