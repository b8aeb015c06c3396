--------------------------- MODULE FTPManagerProofs ---------------------------
(***************************************************************************)
(* Theorems about FTPManager, for every size of file and of chunk, every   *)
(* limit on retries and reopenings, and every number of operations and     *)
(* disturbances.                                                           *)
(***************************************************************************)
EXTENDS FTPManager, SequenceTheorems, FiniteSetTheorems, TLAPS

(***************************************************************************)
(* Types of the messages, of the server and of the members.                *)

Name == 0..MaxOps
Opcode == {"reset", "open", "burst", "read", "create", "write", "list", "listTime", "remove", "terminate"}
OfRange(m) == m.req \in {"burst", "read"}

(* Who asks for a range of a file asks for some of it.                     *)
Request ==
    {r \in [req : Opcode, seq : Seqs, session : Nat, off : Nat, n : Nat, name : Name] :
       OfRange(r) => r.off <= FileSize /\ r.n > 0}

(* Data lie in the file that the server had open.                          *)
Answer ==
    {a \in [req : Opcode, ok : BOOLEAN, err : {"none", "session", "eof", "fail", "unknown"}, seq : Seqs,
            session : Nat, off : Nat, n : Nat, last : BOOLEAN, name : Name] :
       OfRange(a) /\ a.ok => a.n > 0 /\ a.off + a.n <= FileSize /\ a.name > 0}

Content == Seq(Name \X Nat)
Server ==
    [single : BOOLEAN, time : SUBSET BOOLEAN, session : Nat, open : Name,
     upload : [name : Name, buffer : Content], stored : [1..MaxOps -> Content],
     present : BOOLEAN, last : Answer \cup {NoReply}]

Download ==
    [name : Name, active : BOOLEAN, open : BOOLEAN, session : Nat, expectedOffset : 0..FileSize,
     bytesWritten : Nat, fileSize : Nat, missing : Seq(Hole), file : [Blocks -> Name \X Blocks],
     retry : 0..MaxRetry, checksize : BOOLEAN, reopens : 0..(MaxReopens + 1),
     resume : {"none", "burst", "fill"}]
Upload ==
    [name : Name, open : BOOLEAN, session : Nat, size : {0, FileSize}, sent : 0..FileSize,
     retry : 0..MaxRetry, cancelled : BOOLEAN]
Listing == [name : Name, offset : Nat, entries : Seq(Nat), retry : 0..MaxRetry, withTime : BOOLEAN]
Deletion == [name : Name, retry : 0..MaxRetry]
Notice ==
    [sig : {"download", "upload", "list", "delete"}, name : Name, ok : BOOLEAN, exact : BOOLEAN,
     drifted : BOOLEAN, faults : Nat]

Members ==
    [op : {"none", "download", "upload", "list", "delete", "terminate"},
     at : {"idle", "clear", "open", "burst", "fill", "reset", "create", "write", "list", "remove", "terminate"},
     timer : BOOLEAN, expected : Seqs, clearRetries : 0..2, dl : Download, ul : Upload, ls : Listing,
     rm : Deletion, withTime : {"unknown", "supported", "unsupported"}, out : Seq(Request),
     reports : Seq(Notice), numbered : BOOLEAN, drifted : BOOLEAN, misclosed : BOOLEAN]

Operation ==
    [kind : {"download", "upload", "list", "delete"}, checksize : BOOLEAN, faults : Nat,
     present : BOOLEAN, quiet : BOOLEAN]

(* The states of each operation's table.                                   *)
Stages(op) ==
    CASE op = "none"      -> {"idle"}
      [] op = "download"  -> {"clear", "open", "burst", "fill", "reset"}
      [] op = "upload"    -> {"clear", "create", "write", "reset"}
      [] op = "list"      -> {"clear", "list"}
      [] op = "delete"    -> {"clear", "remove"}
      [] op = "terminate" -> {"terminate"}

(* A filling download asks for its first hole, and a write for a block     *)
(* there is.                                                               *)
Staged(x) ==
    /\ x.at \in Stages(x.op)
    /\ x.timer => x.op # "none"
    /\ x.op = "download" => x.dl.reopens <= MaxReopens
    /\ x.at = "fill" => x.dl.missing # <<>> /\ x.dl.expectedOffset = Head(x.dl.missing).off
    /\ x.at = "write" => x.ul.sent < x.ul.size

Typed ==
    /\ g \in Members /\ g.out = <<>> /\ Staged(g)
    /\ started \in Seq(Operation) /\ Len(started) <= MaxOps
    /\ toVehicle \in Seq(Request) /\ toGcs \in Seq(Answer) /\ srv \in Server
    /\ linkUp \in BOOLEAN /\ reordered \in BOOLEAN
    /\ bound \in Nat \X Nat /\ faults \in 0..MaxFaults

(* Where no closing went astray, the operation that runs is the one        *)
(* started last, its members are the only ones that say so, and the others *)
(* have been reported in turn.                                             *)
OneAtATime(x, st) ==
    /\ x.dl.active <=> x.op = "download"
    /\ x.ul.open <=> x.op \in {"upload", "terminate"}
    /\ x.rm.name # 0 <=> x.op = "delete"
    /\ x.op = "download" => x.dl.name = Len(st)
    /\ x.op \in {"upload", "terminate"} => x.ul.name = Len(st)
    /\ x.op = "list" => x.ls.name = Len(st)
    /\ x.op = "delete" => x.rm.name = Len(st)
    /\ x.op # "none" => Len(st) > 0 /\ st[Len(st)].kind = IF x.op = "terminate" THEN "upload" ELSE x.op
    /\ Len(x.reports) = IF x.op = "none" THEN Len(st) ELSE Len(st) - 1
    /\ \A i \in 1..Len(x.reports) : x.reports[i].name = i /\ x.reports[i].sig = st[i].kind

(* What has been written of a file and what is still missing.              *)
Written(d) == {b \in Blocks : d.file[b] # Unwritten}

(* The blocks w and the holes make up the file below the frontier f, the   *)
(* holes in order and apart.                                               *)
Accounts(w, holes, f) ==
    /\ f \in 0..FileSize
    /\ \A b \in w : b < f
    /\ f > 0 => f - 1 \in w
    /\ \A b \in 0..(f - 1) : b \in w <=> \A i \in DOMAIN holes : b \notin Covered(holes[i])
    /\ \A i \in DOMAIN holes : holes[i].off + holes[i].n <= f
    /\ \A i, j \in DOMAIN holes : i < j => holes[i].off + holes[i].n <= holes[j].off

Counted(d) == d.bytesWritten = Cardinality(Written(d))
Kept(d, f) == Accounts(Written(d), d.missing, f) /\ Counted(d)

(* A burst keeps account of the file up to the offset it expects; so does  *)
(* a download that is reopened to resume one.  One that has not received   *)
(* its file's session yet has nothing to account for.                      *)
Pristine(d) == d.missing = <<>> /\ d.bytesWritten = 0 /\ Written(d) = {}
Resumable(d) ==
    /\ d.resume = "burst" => Kept(d, d.expectedOffset)
    /\ d.resume = "none" => Pristine(d)
Pursues(x) ==
    /\ x.at = "burst" => Kept(x.dl, x.dl.expectedOffset)
    /\ x.op = "download" /\ x.at \in {"clear", "open"} => Resumable(x.dl)

(* As long as answers fit the holes they are for, an open file is          *)
(* accounted for in every state of the download.                           *)
Accounted(d, fit) == fit /\ d.open => \E f \in 0..FileSize : Kept(d, f)

Sound(x, st, fit) ==
    /\ x \in Members /\ Staged(x) /\ Pursues(x) /\ Accounted(x.dl, fit)
    /\ ~x.misclosed => OneAtATime(x, st)

(* What a handler starts from: an operation runs, in whichever state.      *)
Ongoing(x, st, fit) ==
    /\ x \in Members /\ x.op # "none" /\ Accounted(x.dl, fit)
    /\ x.op = "download" => x.dl.reopens <= MaxReopens
    /\ ~x.misclosed => OneAtATime(x, st)

IInv == Typed /\ Pursues(g) /\ (~g.misclosed => OneAtATime(g, started))

LEMMA Names ==
    ASSUME bound \in Nat \X Nat
    PROVE  0 \in Name /\ Name \subseteq Nat /\ MaxOps \in Nat /\ MaxFaults \in Nat
BY DEF Name, MaxOps, MaxFaults

LEMMA SeqsType == SeqCount \in Nat \ {0} /\ Seqs \subseteq Nat /\ 0 \in Seqs
<1>1. SeqCount \in Nat \ {0}
  BY DEF SeqCount
<1> QED BY <1>1 DEF Seqs

LEMMA PlusType ==
    ASSUME NEW s \in Int, NEW n \in Int
    PROVE  Plus(s, n) \in Seqs
BY SeqsType DEF Plus, Seqs

LEMMA RequestType ==
    ASSUME NEW type \in Opcode, NEW session \in Nat, NEW off \in Nat, NEW n \in Nat, NEW name \in Name,
           type \in {"burst", "read"} => off <= FileSize /\ n > 0
    PROVE  Req(type, session, off, n, name) \in Request
BY SeqsType DEF Req, Request, OfRange

LEMMA MemberTypes ==
    ASSUME NEW x \in Members
    PROVE  /\ x.expected \in Seqs /\ x.dl \in Download /\ x.ul \in Upload /\ x.ls \in Listing
           /\ x.rm \in Deletion /\ x.out \in Seq(Request) /\ x.reports \in Seq(Notice)
           /\ x.timer \in BOOLEAN /\ x.misclosed \in BOOLEAN /\ x.drifted \in BOOLEAN
           /\ x.numbered \in BOOLEAN
BY DEF Members

(* A request sent changes the number, the timer, what goes out, and        *)
(* whether it took a number.                                               *)
Asks(x, y) ==
    /\ y \in Members /\ y.op = x.op /\ y.at = x.at /\ y.dl = x.dl /\ y.ul = x.ul /\ y.ls = x.ls
    /\ y.rm = x.rm /\ y.reports = x.reports /\ y.misclosed = x.misclosed

LEMMA PostAsks ==
    ASSUME NEW x \in Members, NEW r \in Request, NEW y, y = Post(x, r)
    PROVE  Asks(x, y) /\ y.timer = x.timer
<1>1. x.expected \in Seqs
  BY MemberTypes
<1>2. Plus(x.expected, 1) \in Seqs /\ Plus(x.expected, 2) \in Seqs
  <2>1. PICK s \in Seqs : s = x.expected
    BY <1>1
  <2>2. s \in Int
    BY SeqsType
  <2>3. Plus(s, 1) \in Seqs /\ Plus(s, 2) \in Seqs
    BY <2>2, PlusType
  <2> QED BY <2>1, <2>3
<1>3. PICK q : q = [r EXCEPT !.seq = Plus(x.expected, 1)]
  OBVIOUS
<1>4. q \in Request
  BY <1>2, <1>3 DEF Request, OfRange
<1>5. PICK out : out = Append(x.out, q)
  OBVIOUS
<1>6. out \in Seq(Request)
  BY <1>4, <1>5, AppendProperties DEF Members
<1>7. PICK e \in Seqs : e = Plus(x.expected, 2)
  BY <1>2
<1>8. y = IF linkUp THEN [x EXCEPT !.out = out, !.expected = e] ELSE x
  BY <1>3, <1>5, <1>7 DEF Post
<1>9. y \in Members
  BY <1>6, <1>8, ZenonT(40) DEF Members
<1>10. /\ y.op = x.op /\ y.at = x.at /\ y.dl = x.dl /\ y.ul = x.ul /\ y.ls = x.ls /\ y.rm = x.rm
       /\ y.reports = x.reports /\ y.misclosed = x.misclosed /\ y.timer = x.timer
  BY <1>6, <1>8 DEF Members
<1> QED BY <1>9, <1>10 DEF Asks

LEMMA RequestAsks ==
    ASSUME NEW x \in Members, linkUp \in BOOLEAN, NEW r \in Request, NEW y, y = _sendRequestExpectAck(x, r)
    PROVE  Asks(x, y)
<1>1. PICK d \in BOOLEAN : d = linkUp
  OBVIOUS
<1>2. PICK z : z = [x EXCEPT !.timer = TRUE, !.numbered = d]
  OBVIOUS
<1>3. z \in Members /\ z.op = x.op /\ z.at = x.at /\ z.dl = x.dl /\ z.ul = x.ul /\ z.ls = x.ls
      /\ z.rm = x.rm /\ z.reports = x.reports /\ z.misclosed = x.misclosed
  BY <1>2 DEF Members
<1>4. y = Post(z, r)
  BY <1>1, <1>2 DEF _sendRequestExpectAck
<1> QED BY <1>3, <1>4, PostAsks DEF Asks


(* What has come of the file.                                              *)
Progress(d) == <<d.open, d.file, d.bytesWritten, d.missing>>

(* What tells which operation runs, what has been reported and what has    *)
(* come of the file.                                                       *)
Tags(x) == <<x.op, x.misclosed, x.reports, x.dl.name, x.dl.active, x.dl.reopens,
             x.ul.name, x.ul.open, x.ls.name, x.rm.name, Progress(x.dl)>>

LEMMA KeptSame ==
    ASSUME NEW d, NEW e, Progress(e) = Progress(d), NEW f, Kept(d, f)
    PROVE  Kept(e, f)
<1>1. Written(e) = Written(d) /\ e.missing = d.missing /\ e.bytesWritten = d.bytesWritten
  BY DEF Progress, Written
<1> QED BY <1>1 DEF Kept, Counted

LEMMA AccountedSame ==
    ASSUME NEW d, NEW e, Progress(e) = Progress(d), NEW fit, Accounted(d, fit)
    PROVE  Accounted(e, fit)
<1>1. e.open = d.open
  BY DEF Progress
<1>2. \A f \in 0..FileSize : Kept(d, f) => Kept(e, f)
  BY KeptSame
<1> QED BY <1>1, <1>2 DEF Accounted

LEMMA ResumableSame ==
    ASSUME NEW d, NEW e, Progress(e) = Progress(d), e.expectedOffset = d.expectedOffset, e.resume = d.resume,
           Resumable(d)
    PROVE  Resumable(e)
<1>1. Written(e) = Written(d) /\ e.missing = d.missing /\ e.bytesWritten = d.bytesWritten
  BY DEF Progress, Written
<1>2. Kept(d, d.expectedOffset) => Kept(e, e.expectedOffset)
  BY KeptSame
<1> QED BY <1>1, <1>2 DEF Resumable, Pristine

LEMMA StaysOngoing ==
    ASSUME NEW st, NEW fit, NEW x, Ongoing(x, st, fit), NEW y \in Members, Tags(y) = Tags(x)
    PROVE  Ongoing(y, st, fit)
<1>1. Progress(y.dl) = Progress(x.dl)
  BY DEF Tags
<1>2. Accounted(y.dl, fit)
  BY <1>1, AccountedSame DEF Ongoing
<1> QED BY <1>2 DEF Ongoing, Tags, OneAtATime

(* The members of a download changed, its file accounted for.              *)
LEMMA StaysWith ==
    ASSUME NEW st, NEW fit, NEW x, Ongoing(x, st, fit), NEW d \in Download, d.name = x.dl.name,
           d.active = x.dl.active, d.reopens = x.dl.reopens, Accounted(d, fit), NEW y, y = [x EXCEPT !.dl = d]
    PROVE  /\ Ongoing(y, st, fit) /\ y \in Members /\ y.dl = d /\ y.at = x.at /\ y.op = x.op /\ y.timer = x.timer
           /\ y.misclosed = x.misclosed /\ (~y.misclosed => OneAtATime(y, st))
<1>1. x \in Members
  BY DEF Ongoing
<1>2. /\ y \in Members /\ y.dl = d /\ y.at = x.at /\ y.op = x.op /\ y.ul = x.ul /\ y.ls = x.ls /\ y.rm = x.rm
      /\ y.reports = x.reports /\ y.misclosed = x.misclosed /\ y.timer = x.timer
  BY <1>1 DEF Members
<1>3. ~y.misclosed => OneAtATime(y, st)
  BY <1>2 DEF Ongoing, OneAtATime
<1> QED BY <1>2, <1>3 DEF Ongoing

LEMMA Settles ==
    ASSUME NEW st, NEW fit, NEW y, Ongoing(y, st, fit), Pursues(y), y.at \in Stages(y.op),
           y.at = "fill" => y.dl.missing # <<>> /\ y.dl.expectedOffset = Head(y.dl.missing).off,
           y.at = "write" => y.ul.sent < y.ul.size
    PROVE  Sound(y, st, fit)
BY DEF Ongoing, Sound, Staged

(* The state entered with a request.                                       *)
LEMMA Enters ==
    ASSUME NEW st, NEW fit, NEW x, Ongoing(x, st, fit), linkUp \in BOOLEAN, NEW z \in Members, Tags(z) = Tags(x),
           Pursues(z), z.at \in Stages(x.op),
           z.at = "fill" => z.dl.missing # <<>> /\ z.dl.expectedOffset = Head(z.dl.missing).off,
           z.at = "write" => z.ul.sent < z.ul.size,
           NEW r \in Request, NEW y, y = _sendRequestExpectAck(z, r)
    PROVE  Sound(y, st, fit)
<1>1. Asks(z, y)
  BY RequestAsks
<1>2. y \in Members /\ Tags(y) = Tags(x) /\ y.op = x.op
  BY <1>1 DEF Asks, Tags
<1>3. Ongoing(y, st, fit)
  BY <1>2, StaysOngoing
<1>4. y.at = z.at /\ y.dl = z.dl /\ y.ul = z.ul /\ y.op = z.op
  BY <1>1 DEF Asks
<1>5. Pursues(y)
  BY <1>4 DEF Pursues
<1> QED BY <1>2, <1>3, <1>4, <1>5, Settles

LEMMA StagesAre ==
    /\ Stages("none") = {"idle"}
    /\ Stages("download") = {"clear", "open", "burst", "fill", "reset"}
    /\ Stages("upload") = {"clear", "create", "write", "reset"}
    /\ Stages("list") = {"clear", "list"}
    /\ Stages("delete") = {"clear", "remove"}
    /\ Stages("terminate") = {"terminate"}
BY DEF Stages

Stage == {"idle", "clear", "open", "burst", "fill", "reset", "create", "write", "list", "remove", "terminate"}

(* Entering a state, and changing the members of one operation.            *)
LEMMA Moved ==
    ASSUME NEW x \in Members, NEW a \in Stage, NEW z, z = [x EXCEPT !.at = a]
    PROVE  z \in Members /\ Tags(z) = Tags(x) /\ z.at = a /\ z.op = x.op /\ z.dl = x.dl /\ z.ul = x.ul
           /\ z.ls = x.ls /\ z.rm = x.rm
BY DEF Members, Stage, Tags

LEMMA SetDownload ==
    ASSUME NEW x \in Members, NEW d \in Download, NEW z, z = [x EXCEPT !.dl = d]
    PROVE  /\ z \in Members /\ z.dl = d /\ z.at = x.at /\ z.op = x.op /\ z.ul = x.ul /\ z.ls = x.ls /\ z.rm = x.rm
           /\ z.reports = x.reports /\ z.misclosed = x.misclosed /\ z.timer = x.timer /\ z.expected = x.expected
           /\ (d.name = x.dl.name /\ d.active = x.dl.active /\ d.reopens = x.dl.reopens
               /\ Progress(d) = Progress(x.dl) => Tags(z) = Tags(x))
BY DEF Members, Tags

LEMMA SetUpload ==
    ASSUME NEW x \in Members, NEW u \in Upload, NEW z, z = [x EXCEPT !.ul = u]
    PROVE  /\ z \in Members /\ z.ul = u /\ z.at = x.at /\ z.op = x.op /\ z.dl = x.dl /\ z.ls = x.ls /\ z.rm = x.rm
           /\ z.reports = x.reports /\ z.misclosed = x.misclosed /\ z.timer = x.timer /\ z.expected = x.expected
           /\ (u.name = x.ul.name /\ u.open = x.ul.open => Tags(z) = Tags(x))
BY DEF Members, Tags

LEMMA SetListing ==
    ASSUME NEW x \in Members, NEW l \in Listing, NEW z, z = [x EXCEPT !.ls = l]
    PROVE  /\ z \in Members /\ z.ls = l /\ z.at = x.at /\ z.op = x.op /\ z.dl = x.dl /\ z.ul = x.ul /\ z.rm = x.rm
           /\ z.reports = x.reports /\ z.misclosed = x.misclosed /\ z.timer = x.timer /\ z.expected = x.expected
           /\ (l.name = x.ls.name => Tags(z) = Tags(x))
BY DEF Members, Tags

LEMMA SetDeletion ==
    ASSUME NEW x \in Members, NEW d \in Deletion, NEW z, z = [x EXCEPT !.rm = d]
    PROVE  /\ z \in Members /\ z.rm = d /\ z.at = x.at /\ z.op = x.op /\ z.dl = x.dl /\ z.ul = x.ul /\ z.ls = x.ls
           /\ z.reports = x.reports /\ z.misclosed = x.misclosed /\ z.timer = x.timer /\ z.expected = x.expected
           /\ (d.name = x.rm.name => Tags(z) = Tags(x))
BY DEF Members, Tags

LEMMA SetExpected ==
    ASSUME NEW x \in Members, NEW e \in Seqs, NEW z, z = [x EXCEPT !.expected = e]
    PROVE  z \in Members /\ Tags(z) = Tags(x) /\ z.at = x.at /\ z.op = x.op /\ z.dl = x.dl /\ z.ul = x.ul
           /\ z.ls = x.ls /\ z.rm = x.rm
BY DEF Members, Tags

LEMMA TimerStopped ==
    ASSUME NEW x \in Members, NEW z, z = [x EXCEPT !.timer = FALSE]
    PROVE  z \in Members /\ Tags(z) = Tags(x) /\ z.at = x.at /\ z.op = x.op /\ z.dl = x.dl /\ z.ul = x.ul
           /\ z.ls = x.ls /\ z.rm = x.rm /\ z.timer = FALSE
BY DEF Members, Tags

LEMMA SetDrifted ==
    ASSUME NEW x \in Members, NEW d \in BOOLEAN, NEW z, z = [x EXCEPT !.drifted = d]
    PROVE  z \in Members /\ Tags(z) = Tags(x) /\ z.at = x.at /\ z.op = x.op /\ z.dl = x.dl /\ z.ul = x.ul
           /\ z.ls = x.ls /\ z.rm = x.rm
BY DEF Members, Tags

LEMMA SameNumberType ==
    ASSUME NEW x \in Members, linkUp \in BOOLEAN, NEW z, z = SameNumber(x)
    PROVE  z \in Members /\ Tags(z) = Tags(x) /\ z.at = x.at /\ z.op = x.op /\ z.dl = x.dl /\ z.ul = x.ul
           /\ z.ls = x.ls /\ z.rm = x.rm
<1>1. PICK s \in Seqs : s = x.expected
  BY MemberTypes
<1>2. s \in Int /\ -2 \in Int
  BY SeqsType
<1>3. PICK e \in Seqs : e = Plus(s, -2)
  BY <1>2, PlusType
<1>4. PICK w : w = [x EXCEPT !.expected = e]
  OBVIOUS
<1>5. PICK d \in BOOLEAN : d = (x.drifted \/ ~x.numbered \/ ~linkUp)
  BY MemberTypes
<1>6. z = [w EXCEPT !.drifted = d]
  BY <1>1, <1>3, <1>4, <1>5 DEF SameNumber, Members
<1>7. /\ w \in Members /\ Tags(w) = Tags(x) /\ w.at = x.at /\ w.op = x.op /\ w.dl = x.dl /\ w.ul = x.ul
      /\ w.ls = x.ls /\ w.rm = x.rm
  BY <1>4, SetExpected
<1> QED BY <1>6, <1>7, SetDrifted

LEMMA ResetRequestType ==
    ASSUME bound \in Nat \X Nat
    PROVE  ResetRequest \in Request
BY Names, RequestType DEF ResetRequest, Opcode

LEMMA OpenBegins ==
    ASSUME NEW st, NEW fit, NEW x, Ongoing(x, st, fit), x.op = "download", Resumable(x.dl), linkUp \in BOOLEAN, bound \in Nat \X Nat,
           NEW y, y = _openFileROBegin(x)
    PROVE  Sound(y, st, fit)
<1>1. x \in Members /\ x.dl.name \in Name
  BY MemberTypes DEF Ongoing, Download
<1>2. PICK z : z = [x EXCEPT !.at = "open"]
  OBVIOUS
<1>3. PICK n \in Nat : n = IF x.dl.checksize THEN 0 ELSE 1
  OBVIOUS
<1>4. PICK r \in Request : r = Req("open", 0, 0, n, x.dl.name)
  BY <1>1, RequestType DEF Opcode
<1>5. y = _sendRequestExpectAck(z, r)
  BY <1>2, <1>3, <1>4 DEF _openFileROBegin
<1>6. z \in Members /\ Tags(z) = Tags(x) /\ z.at = "open" /\ z.dl = x.dl
  BY <1>1, <1>2, Moved DEF Stage
<1> QED BY <1>5, <1>6, Enters, StagesAre DEF Pursues

LEMMA CreateBegins ==
    ASSUME NEW st, NEW fit, NEW x, Ongoing(x, st, fit), x.op = "upload", linkUp \in BOOLEAN, bound \in Nat \X Nat,
           NEW y, y = _createFileBegin(x)
    PROVE  Sound(y, st, fit)
<1>1. x \in Members /\ x.ul.name \in Name
  BY MemberTypes DEF Ongoing, Upload
<1>2. PICK z : z = [x EXCEPT !.at = "create"]
  OBVIOUS
<1>3. PICK r \in Request : r = Req("create", 0, 0, 0, x.ul.name)
  BY <1>1, RequestType DEF Opcode
<1>4. y = _sendRequestExpectAck(z, r)
  BY <1>2, <1>3 DEF _createFileBegin
<1>5. z \in Members /\ Tags(z) = Tags(x) /\ z.at = "create"
  BY <1>1, <1>2, Moved DEF Stage
<1> QED BY <1>4, <1>5, Enters, StagesAre DEF Pursues

LEMMA DeleteBegins ==
    ASSUME NEW st, NEW fit, NEW x, Ongoing(x, st, fit), x.op = "delete", linkUp \in BOOLEAN, bound \in Nat \X Nat,
           NEW y, y = _deleteFileBegin(x)
    PROVE  Sound(y, st, fit)
<1>1. x \in Members /\ x.rm.name \in Name
  BY MemberTypes DEF Ongoing, Deletion
<1>2. PICK z : z = [x EXCEPT !.at = "remove"]
  OBVIOUS
<1>3. PICK r \in Request : r = Req("remove", 0, 0, 0, x.rm.name)
  BY <1>1, RequestType DEF Opcode
<1>4. y = _sendRequestExpectAck(z, r)
  BY <1>2, <1>3 DEF _deleteFileBegin
<1>5. z \in Members /\ Tags(z) = Tags(x) /\ z.at = "remove"
  BY <1>1, <1>2, Moved DEF Stage
<1> QED BY <1>4, <1>5, Enters, StagesAre DEF Pursues

LEMMA ListPageSent ==
    ASSUME NEW st, NEW fit, NEW x, Ongoing(x, st, fit), x.at = "list", x.op = "list", linkUp \in BOOLEAN, bound \in Nat \X Nat,
           NEW y, y = ListPage(x)
    PROVE  Sound(y, st, fit)
<1>1. x \in Members /\ x.ls.offset \in Nat /\ x.dl.session \in Nat
  BY MemberTypes DEF Ongoing, Listing, Download
<1>2. PICK o \in Opcode : o = (IF x.ls.withTime THEN "listTime" ELSE "list") /\ o \notin {"burst", "read"}
  BY DEF Opcode
<1>3. PICK r \in Request : r = Req(o, x.dl.session, x.ls.offset, 0, 0)
  BY <1>1, <1>2, Names, RequestType
<1>4. y = _sendRequestExpectAck(x, r)
  BY <1>2, <1>3 DEF ListPage
<1> QED BY <1>1, <1>4, Enters, StagesAre DEF Pursues

LEMMA ListBegins ==
    ASSUME NEW st, NEW fit, NEW x, Ongoing(x, st, fit), x.op = "list", linkUp \in BOOLEAN, bound \in Nat \X Nat,
           NEW y, y = _listDirectoryBegin(x)
    PROVE  Sound(y, st, fit)
<1>1. x \in Members /\ x.ls \in Listing
  BY MemberTypes DEF Ongoing
<1>2. PICK l : l = [x.ls EXCEPT !.retry = 0]
  OBVIOUS
<1>3. l \in Listing /\ l.name = x.ls.name
  BY <1>1, <1>2, LimitAssumption, SMTT(30) DEF Listing
<1>4. PICK a : a = [x EXCEPT !.at = "list"]
  OBVIOUS
<1>5. a \in Members /\ Tags(a) = Tags(x) /\ a.at = "list" /\ a.op = "list" /\ a.ls = x.ls
  BY <1>1, <1>4, Moved DEF Stage
<1>6. PICK z : z = [a EXCEPT !.ls = l]
  OBVIOUS
<1>7. z \in Members /\ Tags(z) = Tags(x) /\ z.at = "list" /\ z.op = "list"
  BY <1>3, <1>5, <1>6, SetListing
<1>8. y = ListPage(z)
  BY <1>1, <1>2, <1>4, <1>5, <1>6 DEF _listDirectoryBegin
<1> QED BY <1>7, <1>8, StaysOngoing, ListPageSent

LEMMA Resets ==
    ASSUME NEW st, NEW fit, NEW x, Ongoing(x, st, fit), x.at \in {"clear", "reset"}, x.at \in Stages(x.op), Pursues(x),
           linkUp \in BOOLEAN, bound \in Nat \X Nat, NEW y, y = _resetSessionsBegin(x)
    PROVE  Sound(y, st, fit)
<1>1. y = _sendRequestExpectAck(x, ResetRequest) /\ ResetRequest \in Request
  BY ResetRequestType DEF _resetSessionsBegin
<1> QED BY <1>1, Enters DEF Ongoing

LEMMA ClosingBegins ==
    ASSUME NEW st, NEW fit, NEW x, Ongoing(x, st, fit), x.op \in {"download", "upload"},
           linkUp \in BOOLEAN, bound \in Nat \X Nat, NEW y, y = ClosingBegin(x)
    PROVE  Sound(y, st, fit)
<1>1. PICK z : z = [x EXCEPT !.at = "reset"]
  OBVIOUS
<1>2. z \in Members /\ Tags(z) = Tags(x) /\ z.at = "reset" /\ z.op = x.op
  BY <1>1, Moved DEF Ongoing, Stage
<1>3. y = _resetSessionsBegin(z)
  BY <1>1 DEF ClosingBegin
<1>4. Pursues(z)
  BY <1>2 DEF Pursues
<1> QED BY <1>2, <1>3, <1>4, StaysOngoing, Resets, StagesAre

Cleared(x, n) == [x EXCEPT !.at = "clear", !.clearRetries = n]

LEMMA ClearedType ==
    ASSUME NEW x \in Members, NEW n \in 0..2, NEW z, z = Cleared(x, n)
    PROVE  z \in Members /\ Tags(z) = Tags(x) /\ z.at = "clear" /\ z.op = x.op /\ z.dl = x.dl
BY DEF Cleared, Members, Tags

LEMMA ClearBegins ==
    ASSUME NEW st, NEW fit, NEW x, Ongoing(x, st, fit), x.op # "terminate",
           x.op = "download" => Resumable(x.dl),
           linkUp \in BOOLEAN, bound \in Nat \X Nat, NEW y, y = _clearStaleSessionsBegin(x)
    PROVE  Sound(y, st, fit)
<1>1. PICK z : z = Cleared(x, 0)
  OBVIOUS
<1>2. x \in Members
  BY DEF Ongoing
<1>3. z \in Members /\ Tags(z) = Tags(x) /\ z.at = "clear" /\ z.op = x.op /\ z.dl = x.dl
  BY <1>1, <1>2, ClearedType
<1>4. y = _resetSessionsBegin(z)
  BY <1>1 DEF Cleared, _clearStaleSessionsBegin
<1>5. x.op \in {"download", "upload", "list", "delete"}
  BY DEF Ongoing, Members
<1>6. Pursues(z)
  BY <1>3 DEF Pursues
<1> QED BY <1>3, <1>4, <1>5, <1>6, StaysOngoing, Resets, StagesAre

LEMMA OpensAfterClear ==
    ASSUME NEW st, NEW fit, NEW x, Ongoing(x, st, fit), x.op # "terminate",
           x.op = "download" => Resumable(x.dl),
           linkUp \in BOOLEAN, bound \in Nat \X Nat, NEW y, y = AfterClear(x)
    PROVE  Sound(y, st, fit)
<1>1. x.op \in {"download", "upload", "list", "delete"}
  BY DEF Ongoing, Members
<1>2. CASE x.op = "download"
  BY <1>2, OpenBegins DEF AfterClear
<1>3. CASE x.op = "upload"
  BY <1>3, CreateBegins DEF AfterClear
<1>4. CASE x.op = "list"
  BY <1>4, ListBegins DEF AfterClear
<1>5. CASE x.op = "delete"
  BY <1>5, DeleteBegins DEF AfterClear
<1> QED BY <1>1, <1>2, <1>3, <1>4, <1>5

LEMMA DownloadTypes ==
    ASSUME NEW x \in Members
    PROVE  /\ x.dl.name \in Name /\ x.dl.session \in Nat /\ x.dl.bytesWritten \in Nat
           /\ x.dl.missing \in Seq(Hole) /\ x.dl.file \in [Blocks -> Name \X Blocks]
           /\ x.dl.retry \in 0..MaxRetry /\ x.dl.reopens \in 0..(MaxReopens + 1)
           /\ x.dl.expectedOffset \in Nat /\ x.dl.expectedOffset <= FileSize
<1>1. x.dl \in Download /\ FileSize \in Nat
  BY MemberTypes, FileAssumption
<1>2. x.dl.expectedOffset \in 0..FileSize
  BY <1>1 DEF Download
<1> QED BY <1>1, <1>2 DEF Download

LEMMA DownloadRetry ==
    ASSUME NEW x \in Members, NEW r \in 0..MaxRetry, NEW d, d = [x.dl EXCEPT !.retry = r]
    PROVE  /\ d \in Download /\ d.name = x.dl.name /\ d.active = x.dl.active /\ d.reopens = x.dl.reopens
           /\ d.missing = x.dl.missing /\ d.expectedOffset = x.dl.expectedOffset /\ Progress(d) = Progress(x.dl)
           /\ d.resume = x.dl.resume
BY MemberTypes, ZenonT(40) DEF Download, Progress

LEMMA BurstAsked ==
    ASSUME NEW st, NEW fit, NEW x, Ongoing(x, st, fit), x.at = "burst", x.op = "download",
           Kept(x.dl, x.dl.expectedOffset), linkUp \in BOOLEAN,
           bound \in Nat \X Nat, NEW n \in ChunkSizes, NEW y, y = _burstReadFileWorker(x, n)
    PROVE  Sound(y, st, fit)
<1>1. x \in Members /\ n \in Nat /\ n > 0
  BY FileAssumption DEF Ongoing
<1>2. PICK r \in Request : r = Req("burst", x.dl.session, x.dl.expectedOffset, n, 0)
  BY <1>1, Names, DownloadTypes, RequestType DEF Opcode
<1>3. y = _sendRequestExpectAck(x, r)
  BY <1>2 DEF _burstReadFileWorker
<1> QED BY <1>1, <1>3, Enters, StagesAre DEF Pursues

LEMMA BurstBegins ==
    ASSUME NEW st, NEW fit, NEW x, Ongoing(x, st, fit), x.op = "download", Kept(x.dl, x.dl.expectedOffset), linkUp \in BOOLEAN,
           bound \in Nat \X Nat, NEW n \in ChunkSizes, NEW y, y = _burstReadFileBegin(x, n)
    PROVE  Sound(y, st, fit)
<1>1. x \in Members /\ x.dl \in Download
  BY MemberTypes DEF Ongoing
<1>2. PICK d : d = [x.dl EXCEPT !.retry = 0]
  OBVIOUS
<1>3. /\ d \in Download /\ d.name = x.dl.name /\ d.active = x.dl.active /\ d.reopens = x.dl.reopens
      /\ Progress(d) = Progress(x.dl) /\ d.expectedOffset = x.dl.expectedOffset
  BY <1>1, <1>2, LimitAssumption, DownloadRetry
<1>4. PICK a : a = [x EXCEPT !.at = "burst"]
  OBVIOUS
<1>5. a \in Members /\ Tags(a) = Tags(x) /\ a.at = "burst" /\ a.op = "download" /\ a.dl = x.dl
  BY <1>1, <1>4, Moved DEF Stage
<1>6. PICK z : z = [a EXCEPT !.dl = d]
  OBVIOUS
<1>7. z \in Members /\ Tags(z) = Tags(x) /\ z.at = "burst" /\ z.op = "download" /\ z.dl = d
  BY <1>3, <1>5, <1>6, SetDownload
<1>8. y = _burstReadFileWorker(z, n)
  BY <1>1, <1>2, <1>4, <1>5, <1>6 DEF _burstReadFileBegin
<1>9. Kept(d, d.expectedOffset)
  BY <1>3, KeptSame
<1> QED BY <1>7, <1>8, <1>9, StaysOngoing, BurstAsked

LEMMA StoppedType ==
    ASSUME NEW x \in Members, NEW z, z = Stopped(x)
    PROVE  /\ z \in Members /\ z.op = "none" /\ z.at = "idle" /\ ~z.timer /\ z.reports = x.reports
           /\ z.misclosed = x.misclosed /\ z.dl = x.dl /\ z.ul = x.ul /\ z.ls = x.ls /\ z.rm = x.rm
BY DEF Stopped, Members

Signal == {"download", "upload", "list", "delete"}

LEMMA ReportType ==
    ASSUME NEW x \in Members, faults' \in Nat, NEW sig \in Signal,
           NEW name \in Name, NEW ok \in BOOLEAN, NEW exact \in BOOLEAN,
           NEW y, y = Report(x, sig, name, ok, exact)
    PROVE  /\ y \in Members /\ y.op = x.op /\ y.at = x.at /\ y.timer = x.timer /\ y.misclosed = x.misclosed
           /\ y.dl = x.dl /\ y.ul = x.ul /\ y.ls = x.ls /\ y.rm = x.rm
           /\ Len(x.reports) \in Nat /\ Len(y.reports) = Len(x.reports) + 1
           /\ \A i \in 1..Len(x.reports) : y.reports[i] = x.reports[i]
           /\ y.reports[Len(y.reports)].name = name /\ y.reports[Len(y.reports)].sig = sig
<1>1. PICK r : r = [sig |-> sig, name |-> name, ok |-> ok, exact |-> exact, drifted |-> x.drifted,
                    faults |-> faults']
  OBVIOUS
<1>2. r \in Notice /\ r.name = name /\ r.sig = sig
  BY <1>1, MemberTypes DEF Notice, Signal
<1>3. PICK s : s = Append(x.reports, r)
  OBVIOUS
<1>4. /\ s \in Seq(Notice) /\ Len(x.reports) \in Nat /\ Len(s) = Len(x.reports) + 1
      /\ \A i \in 1..Len(x.reports) : s[i] = x.reports[i]
      /\ s[Len(x.reports) + 1] = r
  BY <1>2, <1>3, MemberTypes, AppendProperties
<1>5. y = [x EXCEPT !.reports = s]
  BY <1>1, <1>3 DEF Report
<1>6. /\ y \in Members /\ y.op = x.op /\ y.at = x.at /\ y.timer = x.timer /\ y.misclosed = x.misclosed
      /\ y.dl = x.dl /\ y.ul = x.ul /\ y.ls = x.ls /\ y.rm = x.rm /\ y.reports = s
  BY <1>4, <1>5 DEF Members
<1> QED BY <1>2, <1>4, <1>6

(* The operation that runs is reported and ended.                          *)
LEMMA Concludes ==
    ASSUME NEW st, NEW fit, NEW x \in Members, NEW z \in Members, faults' \in Nat, Len(st) \in Nat,
           NEW sig \in Signal, NEW name \in Name,
           NEW ok \in BOOLEAN, NEW exact \in BOOLEAN, NEW y, y = Report(z, sig, name, ok, exact),
           z.op = "none", z.at = "idle", ~z.timer, z.reports = x.reports, z.misclosed = x.misclosed,
           ~x.misclosed => /\ OneAtATime(x, st) /\ x.op # "none" /\ ~z.dl.active /\ ~z.ul.open /\ z.rm.name = 0
                           /\ name = Len(st) /\ sig = st[Len(st)].kind,
           Accounted(z.dl, fit)
    PROVE  Sound(y, st, fit)
<1>1. /\ y \in Members /\ y.op = "none" /\ y.at = "idle" /\ ~y.timer /\ y.misclosed = x.misclosed
      /\ y.dl = z.dl /\ y.ul = z.ul /\ y.ls = z.ls /\ y.rm = z.rm
      /\ Len(x.reports) \in Nat /\ Len(y.reports) = Len(x.reports) + 1
      /\ \A i \in 1..Len(x.reports) : y.reports[i] = x.reports[i]
      /\ y.reports[Len(y.reports)].name = name /\ y.reports[Len(y.reports)].sig = sig
  <2>1. /\ y \in Members /\ y.op = z.op /\ y.at = z.at /\ y.timer = z.timer /\ y.misclosed = z.misclosed
        /\ y.dl = z.dl /\ y.ul = z.ul /\ y.ls = z.ls /\ y.rm = z.rm
        /\ Len(z.reports) \in Nat /\ Len(y.reports) = Len(z.reports) + 1
        /\ \A i \in 1..Len(z.reports) : y.reports[i] = z.reports[i]
        /\ y.reports[Len(y.reports)].name = name /\ y.reports[Len(y.reports)].sig = sig
    BY ReportType, SMTT(40)
  <2> QED BY <2>1
<1>2. Staged(y)
  BY <1>1, StagesAre DEF Staged
<1>3. ASSUME ~x.misclosed PROVE OneAtATime(y, st)
  <2>1. Len(x.reports) = Len(st) - 1
    BY <1>3 DEF OneAtATime
  <2>2. \A i \in 1..Len(x.reports) : x.reports[i].name = i /\ x.reports[i].sig = st[i].kind
    BY <1>3 DEF OneAtATime
  <2>3. ASSUME NEW i \in 1..Len(y.reports) PROVE y.reports[i].name = i /\ y.reports[i].sig = st[i].kind
    <3>1. i \in 1..Len(x.reports) \/ i = Len(y.reports)
      BY <1>1
    <3> QED BY <1>1, <1>3, <2>1, <2>2, <3>1
  <2> QED BY <1>1, <1>3, <2>1, <2>3 DEF OneAtATime
<1> QED BY <1>1, <1>2, <1>3 DEF Sound, Pursues

LEMMA DownloadCompletes ==
    ASSUME NEW st, NEW fit, NEW x \in Members, faults' \in Nat, Len(st) \in Nat, bound \in Nat \X Nat,
           ~x.misclosed => OneAtATime(x, st) /\ x.op = "download",
           NEW ok \in BOOLEAN, NEW y, y = _downloadComplete(x, ok)
    PROVE  Sound(y, st, fit)
<1>1. PICK s : s = Stopped(x)
  OBVIOUS
<1>2. /\ s \in Members /\ s.op = "none" /\ s.at = "idle" /\ ~s.timer /\ s.reports = x.reports
      /\ s.misclosed = x.misclosed /\ s.dl = x.dl /\ s.ul = x.ul /\ s.ls = x.ls /\ s.rm = x.rm
  BY <1>1, StoppedType
<1>3. PICK e : e = [s.dl EXCEPT !.open = FALSE]
  OBVIOUS
<1>4. PICK d : d = [e EXCEPT !.active = FALSE]
  OBVIOUS
<1>5. d \in Download /\ ~d.active /\ ~d.open
  <2>1. e \in Download /\ e.open = FALSE
    BY <1>2, <1>3, MemberTypes, ZenonT(40) DEF Download
  <2> QED BY <1>4, <2>1 DEF Download
<1>6. PICK c : c = [s EXCEPT !.dl = d]
  OBVIOUS
<1>7. /\ c \in Members /\ c.op = "none" /\ c.at = "idle" /\ ~c.timer /\ c.reports = x.reports
      /\ c.misclosed = x.misclosed /\ c.dl = d /\ c.ul = x.ul /\ c.ls = x.ls /\ c.rm = x.rm
  BY <1>2, <1>5, <1>6, SetDownload
<1>8. c = [s EXCEPT !.dl.open = FALSE, !.dl.active = FALSE]
  <2>1. PICK c1 : c1 = [s EXCEPT !.dl = e]
    OBVIOUS
  <2>2. c1.dl = e
    BY <1>2, <2>1 DEF Members
  <2>3. [c1 EXCEPT !.dl = d] = c
    BY <1>6, <2>1
  <2>4. [s EXCEPT !.dl.open = FALSE, !.dl.active = FALSE] = [c1 EXCEPT !.dl.active = FALSE]
    BY <1>3, <2>1
  <2> QED BY <1>4, <2>2, <2>3, <2>4
<1>9. PICK z : z = IF ok THEN c ELSE Post(c, ResetRequest)
  OBVIOUS
<1>10. /\ z \in Members /\ z.op = "none" /\ z.at = "idle" /\ ~z.timer /\ z.reports = x.reports
       /\ z.misclosed = x.misclosed /\ ~z.dl.active /\ ~z.dl.open /\ z.ul = x.ul /\ z.rm = x.rm
  BY <1>5, <1>7, <1>9, PostAsks, ResetRequestType DEF Asks
<1>11. PICK exact \in BOOLEAN : exact = Whole(x.dl)
  BY DEF Whole
<1>12. y = Report(z, "download", x.dl.name, ok, exact)
  BY <1>1, <1>8, <1>9, <1>11 DEF _downloadComplete, _sendResetSessionsNoAck
<1>13. x.dl.name \in Name
  BY DownloadTypes
<1>14. ~x.misclosed => /\ OneAtATime(x, st) /\ x.op # "none" /\ ~z.dl.active /\ ~z.ul.open /\ z.rm.name = 0
                       /\ x.dl.name = Len(st) /\ "download" = st[Len(st)].kind
  BY <1>10 DEF OneAtATime
<1>15. Accounted(z.dl, fit)
  BY <1>10 DEF Accounted
<1> QED BY <1>10, <1>12, <1>13, <1>14, <1>15, Concludes DEF Signal

LEMMA UploadCompletes ==
    ASSUME NEW st, NEW fit, NEW x \in Members, Accounted(x.dl, fit), faults' \in Nat, Len(st) \in Nat, bound \in Nat \X Nat,
           ~x.misclosed => OneAtATime(x, st) /\ x.op \in {"upload", "terminate"},
           NEW ok \in BOOLEAN, NEW y, y = _uploadComplete(x, ok)
    PROVE  Sound(y, st, fit)
<1>1. PICK s : s = Stopped(x)
  OBVIOUS
<1>2. /\ s \in Members /\ s.op = "none" /\ s.at = "idle" /\ ~s.timer /\ s.reports = x.reports
      /\ s.misclosed = x.misclosed /\ s.dl = x.dl /\ s.ul = x.ul /\ s.ls = x.ls /\ s.rm = x.rm
  BY <1>1, StoppedType
<1>3. PICK u : u = NoUpload
  OBVIOUS
<1>4. u \in Upload /\ ~u.open
  BY <1>3, Names, LimitAssumption, FileAssumption DEF NoUpload, Upload
<1>5. PICK z : z = [s EXCEPT !.ul = u]
  OBVIOUS
<1>6. /\ z \in Members /\ z.op = "none" /\ z.at = "idle" /\ ~z.timer /\ z.reports = x.reports
      /\ z.misclosed = x.misclosed /\ z.dl = x.dl /\ z.ul = u /\ z.rm = x.rm
  BY <1>2, <1>4, <1>5, SetUpload
<1>7. PICK exact \in BOOLEAN :
         exact = (x.ul.name # 0 /\ srv.stored[x.ul.name] = [i \in 1..x.ul.size |-> <<x.ul.name, i - 1>>])
  OBVIOUS
<1>8. y = Report(z, "upload", x.ul.name, ok, exact)
  BY <1>1, <1>3, <1>5, <1>7 DEF _uploadComplete
<1>9. x.ul.name \in Name
  BY MemberTypes DEF Upload
<1>10. ~x.misclosed => /\ OneAtATime(x, st) /\ x.op # "none" /\ ~z.dl.active /\ ~z.ul.open /\ z.rm.name = 0
                       /\ x.ul.name = Len(st) /\ "upload" = st[Len(st)].kind
  BY <1>4, <1>6 DEF OneAtATime
<1> QED BY <1>6, <1>8, <1>9, <1>10, Concludes, ZenonT(40) DEF Signal

LEMMA ListCompletes ==
    ASSUME NEW st, NEW fit, NEW x \in Members, Accounted(x.dl, fit), faults' \in Nat, Len(st) \in Nat, bound \in Nat \X Nat,
           ~x.misclosed => OneAtATime(x, st) /\ x.op = "list",
           NEW ok \in BOOLEAN, NEW y, y = _listDirectoryComplete(x, ok)
    PROVE  Sound(y, st, fit)
<1>1. PICK s : s = Stopped(x)
  OBVIOUS
<1>2. /\ s \in Members /\ s.op = "none" /\ s.at = "idle" /\ ~s.timer /\ s.reports = x.reports
      /\ s.misclosed = x.misclosed /\ s.dl = x.dl /\ s.ul = x.ul /\ s.ls = x.ls /\ s.rm = x.rm
  BY <1>1, StoppedType
<1>3. PICK l : l = NoList
  OBVIOUS
<1>4. l \in Listing
  BY <1>3, Names, LimitAssumption, EmptySeq DEF NoList, Listing
<1>5. PICK z : z = [s EXCEPT !.ls = l]
  OBVIOUS
<1>6. /\ z \in Members /\ z.op = "none" /\ z.at = "idle" /\ ~z.timer /\ z.reports = x.reports
      /\ z.misclosed = x.misclosed /\ z.dl = x.dl /\ z.ul = x.ul /\ z.rm = x.rm
  BY <1>2, <1>4, <1>5, SetListing
<1>7. PICK exact \in BOOLEAN : exact = (x.ls.entries = [i \in 1..FileSize |-> i - 1])
  OBVIOUS
<1>8. y = Report(z, "list", x.ls.name, ok, exact)
  BY <1>1, <1>3, <1>5, <1>7 DEF _listDirectoryComplete
<1>9. x.ls.name \in Name
  BY MemberTypes DEF Listing
<1>10. ~x.misclosed => /\ OneAtATime(x, st) /\ x.op # "none" /\ ~z.dl.active /\ ~z.ul.open /\ z.rm.name = 0
                       /\ x.ls.name = Len(st) /\ "list" = st[Len(st)].kind
  BY <1>6 DEF OneAtATime
<1> QED BY <1>6, <1>8, <1>9, <1>10, Concludes, ZenonT(40) DEF Signal

LEMMA DeleteCompletes ==
    ASSUME NEW st, NEW fit, NEW x \in Members, Accounted(x.dl, fit), faults' \in Nat, Len(st) \in Nat, bound \in Nat \X Nat,
           ~x.misclosed => OneAtATime(x, st) /\ x.op = "delete",
           NEW ok \in BOOLEAN, NEW y, y = _deleteComplete(x, ok)
    PROVE  Sound(y, st, fit)
<1>1. PICK s : s = Stopped(x)
  OBVIOUS
<1>2. /\ s \in Members /\ s.op = "none" /\ s.at = "idle" /\ ~s.timer /\ s.reports = x.reports
      /\ s.misclosed = x.misclosed /\ s.dl = x.dl /\ s.ul = x.ul /\ s.ls = x.ls /\ s.rm = x.rm
  BY <1>1, StoppedType
<1>3. PICK d : d = NoDelete
  OBVIOUS
<1>4. d \in Deletion /\ d.name = 0
  BY <1>3, Names, LimitAssumption DEF NoDelete, Deletion
<1>5. PICK z : z = [s EXCEPT !.rm = d]
  OBVIOUS
<1>6. /\ z \in Members /\ z.op = "none" /\ z.at = "idle" /\ ~z.timer /\ z.reports = x.reports
      /\ z.misclosed = x.misclosed /\ z.dl = x.dl /\ z.ul = x.ul /\ z.rm = d
  BY <1>2, <1>4, <1>5, SetDeletion
<1>7. PICK exact \in BOOLEAN : exact = ~srv.present
  OBVIOUS
<1>8. y = Report(z, "delete", x.rm.name, ok, exact)
  BY <1>1, <1>3, <1>5, <1>7 DEF _deleteComplete
<1>9. x.rm.name \in Name
  BY MemberTypes DEF Deletion
<1>10. ~x.misclosed => /\ OneAtATime(x, st) /\ x.op # "none" /\ ~z.dl.active /\ ~z.ul.open /\ z.rm.name = 0
                       /\ x.rm.name = Len(st) /\ "delete" = st[Len(st)].kind
  BY <1>4, <1>6 DEF OneAtATime
<1> QED BY <1>6, <1>8, <1>9, <1>10, Concludes, ZenonT(40) DEF Signal

LEMMA ClosesUnanswered ==
    ASSUME NEW st, NEW fit, NEW x, Ongoing(x, st, fit), x.op \in {"download", "upload"}, faults' \in Nat, Len(st) \in Nat,
           bound \in Nat \X Nat, NEW y, y = ClosingUnanswered(x)
    PROVE  Sound(y, st, fit)
<1>1. x \in Members /\ x.misclosed \in BOOLEAN
  BY MemberTypes DEF Ongoing
<1>2. PICK b \in BOOLEAN : b = (x.misclosed \/ x.op = "upload")
  BY <1>1
<1>3. PICK z : z = [x EXCEPT !.misclosed = b]
  OBVIOUS
<1>4. /\ z \in Members /\ z.misclosed = b /\ z.op = x.op /\ z.reports = x.reports /\ z.dl = x.dl
      /\ z.ul = x.ul /\ z.ls = x.ls /\ z.rm = x.rm
  BY <1>1, <1>3 DEF Members
<1>5. ~z.misclosed => OneAtATime(z, st) /\ z.op = "download"
  BY <1>2, <1>4, ZenonT(40) DEF Ongoing, OneAtATime
<1>6. y = _downloadComplete(z, TRUE)
  BY <1>2, <1>3 DEF ClosingUnanswered
<1> QED BY <1>4, <1>5, <1>6, DownloadCompletes

LEMMA ReadAsked ==
    ASSUME NEW st, NEW fit, NEW x, Ongoing(x, st, fit), x.at = "fill", x.op = "download", x.dl.missing # <<>>,
           linkUp \in BOOLEAN, bound \in Nat \X Nat, NEW n \in ChunkSizes, NEW y, y = ReadHole(x, n)
    PROVE  Sound(y, st, fit)
<1>1. x \in Members /\ x.dl \in Download /\ n \in Nat /\ n > 0 /\ FileSize \in Nat
  BY MemberTypes, FileAssumption DEF Ongoing
<1>2. PICK hole \in Hole : hole = Head(x.dl.missing)
  BY <1>1, DownloadTypes, HeadTailProperties
<1>3. hole.off \in Nat /\ hole.off <= FileSize /\ hole.off \in 0..FileSize /\ hole.n \in Nat /\ hole.n > 0
  BY <1>1, <1>2, SMTT(30) DEF Hole
<1>4. PICK d : d = [x.dl EXCEPT !.expectedOffset = hole.off]
  OBVIOUS
<1>5. /\ d \in Download /\ d.name = x.dl.name /\ d.active = x.dl.active /\ d.reopens = x.dl.reopens
      /\ d.missing = x.dl.missing /\ d.expectedOffset = hole.off /\ Progress(d) = Progress(x.dl)
  BY <1>1, <1>3, <1>4 DEF Download, Progress
<1>6. PICK z : z = [x EXCEPT !.dl = d]
  OBVIOUS
<1>7. z \in Members /\ Tags(z) = Tags(x) /\ z.at = "fill" /\ z.dl = d
  BY <1>1, <1>5, <1>6, SetDownload
<1>8. PICK k \in Nat : k = Smaller(n, hole.n) /\ k > 0
  BY <1>1, <1>3 DEF Smaller
<1>9. PICK r \in Request : r = Req("read", x.dl.session, hole.off, k, 0)
  BY <1>1, <1>3, <1>8, Names, DownloadTypes, RequestType DEF Opcode
<1>10. y = _sendRequestExpectAck(z, r)
  BY <1>2, <1>4, <1>6, <1>8, <1>9 DEF ReadHole
<1> QED BY <1>2, <1>5, <1>7, <1>10, Enters, StagesAre DEF Pursues

LEMMA FillBegins ==
    ASSUME NEW st, NEW fit, NEW x, Ongoing(x, st, fit), x.op = "download", faults' \in Nat, Len(st) \in Nat,
           linkUp \in BOOLEAN, bound \in Nat \X Nat, NEW n \in ChunkSizes,
           NEW y, y = _fillMissingBlocksBegin(x, n)
    PROVE  Sound(y, st, fit)
<1>1. x \in Members
  BY DEF Ongoing
<1>2. CASE x.dl.missing # <<>>
  <2>1. PICK a : a = [x EXCEPT !.at = "fill"]
    OBVIOUS
  <2>2. a \in Members /\ Tags(a) = Tags(x) /\ a.at = "fill" /\ a.op = "download" /\ a.dl = x.dl
    BY <1>1, <2>1, Moved DEF Stage
  <2>3. PICK d : d = [x.dl EXCEPT !.retry = 0]
    OBVIOUS
  <2>4. /\ d \in Download /\ d.name = x.dl.name /\ d.active = x.dl.active /\ d.reopens = x.dl.reopens
        /\ d.missing = x.dl.missing /\ Progress(d) = Progress(x.dl)
    BY <1>1, <2>3, LimitAssumption, DownloadRetry
  <2>5. PICK z : z = [a EXCEPT !.dl = d]
    OBVIOUS
  <2>6. z \in Members /\ Tags(z) = Tags(x) /\ z.at = "fill" /\ z.op = "download" /\ z.dl = d
    BY <2>2, <2>4, <2>5, SetDownload
  <2>7. y = ReadHole(z, n)
    BY <1>1, <1>2, <2>1, <2>2, <2>3, <2>5 DEF _fillMissingBlocksBegin
  <2> QED BY <1>2, <2>4, <2>6, <2>7, StaysOngoing, ReadAsked
<1>3. CASE x.dl.missing = <<>> /\ Complete(x.dl)
  <2>1. y = ClosingBegin(x)
    BY <1>3 DEF _fillMissingBlocksBegin
  <2> QED BY <2>1, ClosingBegins
<1>4. CASE x.dl.missing = <<>> /\ ~Complete(x.dl)
  <2>1. y = _downloadComplete(x, FALSE)
    BY <1>4 DEF _fillMissingBlocksBegin
  <2> QED BY <1>1, <2>1, DownloadCompletes DEF Ongoing
<1> QED BY <1>2, <1>3, <1>4

LEMMA UploadTypes ==
    ASSUME NEW x \in Members
    PROVE  /\ x.ul.name \in Name /\ x.ul.session \in Nat /\ x.ul.sent \in 0..FileSize /\ x.ul.size \in {0, FileSize}
           /\ x.ul.retry \in 0..MaxRetry /\ x.ul.sent \in Nat /\ x.ul.size \in Nat /\ FileSize \in Nat
<1>1. x.ul \in Upload /\ FileSize \in Nat
  BY MemberTypes, FileAssumption
<1>2. x.ul.sent \in 0..FileSize /\ x.ul.size \in {0, FileSize}
  BY <1>1 DEF Upload
<1> QED BY <1>1, <1>2 DEF Upload

LEMMA UploadRetry ==
    ASSUME NEW x \in Members, NEW r \in 0..MaxRetry, NEW u, u = [x.ul EXCEPT !.retry = r]
    PROVE  /\ u \in Upload /\ u.name = x.ul.name /\ u.open = x.ul.open /\ u.sent = x.ul.sent
           /\ u.size = x.ul.size
BY MemberTypes DEF Upload

LEMMA ChunkWritten ==
    ASSUME NEW st, NEW fit, NEW x, Ongoing(x, st, fit), x.at = "write", x.op = "upload", x.ul.sent < x.ul.size,
           linkUp \in BOOLEAN, bound \in Nat \X Nat, NEW y, y = WriteChunk(x)
    PROVE  Sound(y, st, fit)
<1>1. x \in Members
  BY DEF Ongoing
<1>2. PICK r \in Request : r = Req("write", x.ul.session, x.ul.sent, 1, x.ul.name)
  BY <1>1, UploadTypes, RequestType DEF Opcode
<1>3. y = _sendRequestExpectAck(x, r)
  BY <1>2 DEF WriteChunk
<1> QED BY <1>1, <1>3, Enters, StagesAre DEF Pursues

LEMMA WriteBegins ==
    ASSUME NEW st, NEW fit, NEW x, Ongoing(x, st, fit), x.op = "upload", linkUp \in BOOLEAN, bound \in Nat \X Nat,
           NEW y, y = _writeFileBegin(x)
    PROVE  Sound(y, st, fit)
<1>1. x \in Members
  BY DEF Ongoing
<1>2. CASE x.ul.sent >= x.ul.size
  <2>1. y = ClosingBegin(x)
    BY <1>2 DEF _writeFileBegin
  <2> QED BY <2>1, ClosingBegins
<1>3. CASE ~(x.ul.sent >= x.ul.size)
  <2>1. PICK a : a = [x EXCEPT !.at = "write"]
    OBVIOUS
  <2>2. a \in Members /\ Tags(a) = Tags(x) /\ a.at = "write" /\ a.op = "upload" /\ a.ul = x.ul
    BY <1>1, <2>1, Moved DEF Stage
  <2>3. PICK u : u = [x.ul EXCEPT !.retry = 0]
    OBVIOUS
  <2>4. /\ u \in Upload /\ u.name = x.ul.name /\ u.open = x.ul.open /\ u.sent = x.ul.sent
        /\ u.size = x.ul.size
    BY <1>1, <2>3, LimitAssumption, UploadRetry
  <2>5. PICK z : z = [a EXCEPT !.ul = u]
    OBVIOUS
  <2>6. z \in Members /\ Tags(z) = Tags(x) /\ z.at = "write" /\ z.op = "upload" /\ z.ul = u
    BY <2>2, <2>4, <2>5, SetUpload
  <2>7. y = WriteChunk(z)
    BY <1>1, <1>3, <2>1, <2>2, <2>3, <2>5 DEF _writeFileBegin
  <2>8. u.sent < u.size
    BY <1>1, <1>3, <2>4, UploadTypes
  <2> QED BY <2>6, <2>7, <2>8, StaysOngoing, ChunkWritten
<1> QED BY <1>2, <1>3

LEMMA TerminateAsked ==
    ASSUME NEW st, NEW fit, NEW x, Ongoing(x, st, fit), x.at = "terminate", x.op = "terminate",
           linkUp \in BOOLEAN, bound \in Nat \X Nat, NEW y, y = _terminateUploadSessionBegin(x)
    PROVE  Sound(y, st, fit)
<1>1. x \in Members
  BY DEF Ongoing
<1>2. PICK r \in Request : r = Req("terminate", x.ul.session, 0, 0, 0)
  BY <1>1, Names, UploadTypes, RequestType DEF Opcode
<1>3. y = _sendRequestExpectAck(x, r)
  BY <1>2 DEF _terminateUploadSessionBegin, TerminateRequest
<1> QED BY <1>1, <1>3, Enters, StagesAre DEF Pursues

LEMMA OperationOf ==
    ASSUME NEW x \in Members, x.at \in Stages(x.op)
    PROVE  /\ x.at = "idle" <=> x.op = "none"
           /\ x.at = "clear" => x.op \in {"download", "upload", "list", "delete"}
           /\ x.at \in {"open", "burst", "fill"} => x.op = "download"
           /\ x.at = "reset" => x.op \in {"download", "upload"}
           /\ x.at \in {"create", "write"} => x.op = "upload"
           /\ x.at = "list" => x.op = "list"
           /\ x.at = "remove" => x.op = "delete"
           /\ x.at = "terminate" => x.op = "terminate"
<1>1. x.op \in {"none", "download", "upload", "list", "delete", "terminate"}
  BY DEF Members
<1> QED BY <1>1, StagesAre

LEMMA SoundOngoing ==
    ASSUME NEW st, NEW fit, NEW x, Sound(x, st, fit), x.at # "idle"
    PROVE  Ongoing(x, st, fit) /\ x \in Members /\ x.at \in Stages(x.op)
<1>1. x \in Members /\ x.at \in Stages(x.op)
  BY DEF Sound, Staged
<1>2. x.op # "none"
  BY <1>1, OperationOf
<1> QED BY <1>1, <1>2 DEF Sound, Staged, Ongoing

(***************************************************************************)
(* The timeout functions.                                                  *)

LEMMA RetryRange ==
    ASSUME NEW r \in 0..MaxRetry, ~(r + 1 > MaxRetry)
    PROVE  r + 1 \in 0..MaxRetry
BY LimitAssumption

Retried(x) == SameNumber([x EXCEPT !.dl.retry = @ + 1])

LEMMA DownloadRetried ==
    ASSUME NEW st, NEW fit, NEW x, Ongoing(x, st, fit), ~(x.dl.retry + 1 > MaxRetry),
           linkUp \in BOOLEAN, NEW z, z = Retried(x)
    PROVE  Ongoing(z, st, fit) /\ z.at = x.at /\ z.op = x.op /\ z.dl.missing = x.dl.missing
           /\ Progress(z.dl) = Progress(x.dl) /\ z.dl.expectedOffset = x.dl.expectedOffset
<1>1. x \in Members
  BY DEF Ongoing
<1>2. PICK r \in 0..MaxRetry : r = x.dl.retry + 1
  BY <1>1, DownloadTypes, RetryRange
<1>3. PICK d : d = [x.dl EXCEPT !.retry = r]
  OBVIOUS
<1>4. /\ d \in Download /\ d.name = x.dl.name /\ d.active = x.dl.active /\ d.reopens = x.dl.reopens
      /\ d.missing = x.dl.missing /\ Progress(d) = Progress(x.dl) /\ d.expectedOffset = x.dl.expectedOffset
  BY <1>1, <1>3, DownloadRetry
<1>5. PICK a : a = [x EXCEPT !.dl = d]
  OBVIOUS
<1>6. a \in Members /\ Tags(a) = Tags(x) /\ a.at = x.at /\ a.op = x.op /\ a.dl = d
  BY <1>1, <1>4, <1>5, SetDownload
<1>7. z = SameNumber(a)
  BY <1>2, <1>3, <1>5 DEF Retried
<1>8. z \in Members /\ Tags(z) = Tags(a) /\ z.at = a.at /\ z.op = a.op /\ z.dl = a.dl
  BY <1>6, <1>7, SameNumberType
<1> QED BY <1>4, <1>6, <1>8, StaysOngoing

LEMMA BurstTimesOut ==
    ASSUME NEW st, NEW fit, NEW x, Ongoing(x, st, fit), x.at = "burst", x.op = "download", Kept(x.dl, x.dl.expectedOffset), linkUp \in BOOLEAN,
           faults' \in Nat, Len(st) \in Nat, bound \in Nat \X Nat,
           NEW n \in ChunkSizes, NEW y, y = _burstReadFileTimeout(x, n)
    PROVE  Sound(y, st, fit)
<1>1. CASE x.dl.retry + 1 > MaxRetry
  BY <1>1, DownloadCompletes DEF Ongoing, _burstReadFileTimeout
<1>2. CASE ~(x.dl.retry + 1 > MaxRetry)
  <2>1. PICK z : z = Retried(x)
    OBVIOUS
  <2>2. Ongoing(z, st, fit) /\ z.at = "burst" /\ z.op = "download"
       /\ Progress(z.dl) = Progress(x.dl) /\ z.dl.expectedOffset = x.dl.expectedOffset
    BY <1>2, <2>1, DownloadRetried
  <2>3. y = _burstReadFileWorker(z, n)
    BY <1>2, <2>1 DEF _burstReadFileTimeout, Retried
  <2>4. Kept(z.dl, z.dl.expectedOffset)
    BY <2>2, KeptSame
  <2> QED BY <2>2, <2>3, <2>4, BurstAsked
<1> QED BY <1>1, <1>2

LEMMA FillTimesOut ==
    ASSUME NEW st, NEW fit, NEW x, Ongoing(x, st, fit), x.at = "fill", x.op = "download", x.dl.missing # <<>>,
           linkUp \in BOOLEAN, faults' \in Nat, Len(st) \in Nat, bound \in Nat \X Nat,
           NEW n \in ChunkSizes, NEW y, y = _fillMissingBlocksTimeout(x, n)
    PROVE  Sound(y, st, fit)
<1>1. CASE x.dl.retry + 1 > MaxRetry
  BY <1>1, DownloadCompletes DEF Ongoing, _fillMissingBlocksTimeout
<1>2. CASE ~(x.dl.retry + 1 > MaxRetry)
  <2>1. PICK z : z = Retried(x)
    OBVIOUS
  <2>2. Ongoing(z, st, fit) /\ z.at = "fill" /\ z.op = "download" /\ z.dl.missing # <<>>
    <3>1. Ongoing(z, st, fit) /\ z.at = x.at /\ z.op = x.op /\ z.dl.missing = x.dl.missing
         /\ Progress(z.dl) = Progress(x.dl) /\ z.dl.expectedOffset = x.dl.expectedOffset
      BY <1>2, <2>1, DownloadRetried
    <3> QED BY <3>1
  <2>3. y = ReadHole(z, n)
    BY <1>2, <2>1 DEF _fillMissingBlocksTimeout, Retried
  <2> QED BY <2>2, <2>3, ReadAsked
<1> QED BY <1>1, <1>2

LEMMA WriteTimesOut ==
    ASSUME NEW st, NEW fit, NEW x, Ongoing(x, st, fit), x.at = "write", x.op = "upload", x.ul.sent < x.ul.size,
           linkUp \in BOOLEAN, faults' \in Nat, Len(st) \in Nat, bound \in Nat \X Nat,
           NEW y, y = _writeFileTimeout(x)
    PROVE  Sound(y, st, fit)
<1>1. x \in Members
  BY DEF Ongoing
<1>2. CASE x.ul.retry + 1 > MaxRetry
  BY <1>2, UploadCompletes DEF Ongoing, _writeFileTimeout
<1>3. CASE ~(x.ul.retry + 1 > MaxRetry)
  <2>1. PICK r \in 0..MaxRetry : r = x.ul.retry + 1
    BY <1>1, <1>3, UploadTypes, RetryRange
  <2>2. PICK u : u = [x.ul EXCEPT !.retry = r]
    OBVIOUS
  <2>3. /\ u \in Upload /\ u.name = x.ul.name /\ u.open = x.ul.open /\ u.sent = x.ul.sent
        /\ u.size = x.ul.size
    BY <1>1, <2>2, UploadRetry
  <2>4. PICK a : a = [x EXCEPT !.ul = u]
    OBVIOUS
  <2>5. a \in Members /\ Tags(a) = Tags(x) /\ a.at = "write" /\ a.op = "upload" /\ a.ul = u
    BY <1>1, <2>3, <2>4, SetUpload
  <2>6. PICK z : z = SameNumber(a)
    OBVIOUS
  <2>7. z \in Members /\ Tags(z) = Tags(a) /\ z.at = a.at /\ z.op = a.op /\ z.ul = a.ul
    BY <2>5, <2>6, SameNumberType
  <2>8. y = WriteChunk(z)
    BY <1>3, <2>1, <2>2, <2>4, <2>6 DEF _writeFileTimeout
  <2> QED BY <2>3, <2>5, <2>7, <2>8, StaysOngoing, ChunkWritten
<1> QED BY <1>2, <1>3

LEMMA ListTimesOut ==
    ASSUME NEW st, NEW fit, NEW x, Ongoing(x, st, fit), x.at = "list", x.op = "list",
           linkUp \in BOOLEAN, faults' \in Nat, Len(st) \in Nat, bound \in Nat \X Nat,
           NEW y, y = _listDirectoryTimeout(x)
    PROVE  Sound(y, st, fit)
<1>1. x \in Members /\ x.ls \in Listing /\ x.ls.retry \in 0..MaxRetry
  BY MemberTypes DEF Ongoing, Listing
<1>2. CASE x.ls.retry + 1 > MaxRetry
  BY <1>2, ListCompletes DEF Ongoing, _listDirectoryTimeout
<1>3. CASE ~(x.ls.retry + 1 > MaxRetry)
  <2>1. PICK r \in 0..MaxRetry : r = x.ls.retry + 1
    BY <1>1, <1>3, RetryRange
  <2>2. PICK l : l = [x.ls EXCEPT !.retry = r]
    OBVIOUS
  <2>3. l \in Listing /\ l.name = x.ls.name
    BY <1>1, <2>2 DEF Listing
  <2>4. PICK a : a = [x EXCEPT !.ls = l]
    OBVIOUS
  <2>5. a \in Members /\ Tags(a) = Tags(x) /\ a.at = "list" /\ a.op = "list"
    BY <1>1, <2>3, <2>4, SetListing
  <2>6. PICK z : z = SameNumber(a)
    OBVIOUS
  <2>7. z \in Members /\ Tags(z) = Tags(a) /\ z.at = a.at /\ z.op = a.op
    BY <2>5, <2>6, SameNumberType
  <2>8. y = ListPage(z)
    BY <1>3, <2>1, <2>2, <2>4, <2>6 DEF _listDirectoryTimeout
  <2> QED BY <2>5, <2>7, <2>8, StaysOngoing, ListPageSent
<1> QED BY <1>2, <1>3

LEMMA DeleteTimesOut ==
    ASSUME NEW st, NEW fit, NEW x, Ongoing(x, st, fit), x.at = "remove", x.op = "delete",
           linkUp \in BOOLEAN, faults' \in Nat, Len(st) \in Nat, bound \in Nat \X Nat,
           NEW y, y = _deleteFileTimeout(x)
    PROVE  Sound(y, st, fit)
<1>1. x \in Members /\ x.rm \in Deletion /\ x.rm.retry \in 0..MaxRetry
  BY MemberTypes DEF Ongoing, Deletion
<1>2. CASE x.rm.retry + 1 > MaxRetry
  BY <1>2, DeleteCompletes DEF Ongoing, _deleteFileTimeout
<1>3. CASE ~(x.rm.retry + 1 > MaxRetry)
  <2>1. PICK r \in 0..MaxRetry : r = x.rm.retry + 1
    BY <1>1, <1>3, RetryRange
  <2>2. PICK d : d = [x.rm EXCEPT !.retry = r]
    OBVIOUS
  <2>3. d \in Deletion /\ d.name = x.rm.name
    BY <1>1, <2>2 DEF Deletion
  <2>4. PICK a : a = [x EXCEPT !.rm = d]
    OBVIOUS
  <2>5. a \in Members /\ Tags(a) = Tags(x) /\ a.op = "delete"
    BY <1>1, <2>3, <2>4, SetDeletion
  <2>6. y = _deleteFileBegin(a)
    BY <1>3, <2>1, <2>2, <2>4 DEF _deleteFileTimeout
  <2> QED BY <2>5, <2>6, StaysOngoing, DeleteBegins
<1> QED BY <1>2, <1>3

LEMMA TerminateTimesOut ==
    ASSUME NEW st, NEW fit, NEW x, Ongoing(x, st, fit), x.at = "terminate", x.op = "terminate",
           linkUp \in BOOLEAN, faults' \in Nat, Len(st) \in Nat, bound \in Nat \X Nat,
           NEW y, y = _terminateUploadSessionTimeout(x)
    PROVE  Sound(y, st, fit)
<1>1. x \in Members
  BY DEF Ongoing
<1>2. CASE x.ul.retry + 1 > MaxRetry
  BY <1>2, UploadCompletes DEF Ongoing, _terminateUploadSessionTimeout
<1>3. CASE ~(x.ul.retry + 1 > MaxRetry)
  <2>1. PICK r \in 0..MaxRetry : r = x.ul.retry + 1
    BY <1>1, <1>3, UploadTypes, RetryRange
  <2>2. PICK u : u = [x.ul EXCEPT !.retry = r]
    OBVIOUS
  <2>3. u \in Upload /\ u.name = x.ul.name /\ u.open = x.ul.open
    BY <1>1, <2>2, UploadRetry
  <2>4. PICK a : a = [x EXCEPT !.ul = u]
    OBVIOUS
  <2>5. a \in Members /\ Tags(a) = Tags(x) /\ a.at = "terminate" /\ a.op = "terminate"
    BY <1>1, <2>3, <2>4, SetUpload
  <2>6. y = _terminateUploadSessionBegin(a)
    BY <1>3, <2>1, <2>2, <2>4 DEF _terminateUploadSessionTimeout
  <2> QED BY <2>5, <2>6, StaysOngoing, TerminateAsked
<1> QED BY <1>2, <1>3

LEMMA ClearTimesOut ==
    ASSUME NEW st, NEW fit, NEW x, Ongoing(x, st, fit), x.at = "clear", x.op \in {"download", "upload", "list", "delete"},
           Pursues(x), linkUp \in BOOLEAN, bound \in Nat \X Nat, NEW y, y = _clearStaleSessionsTimeout(x)
    PROVE  Sound(y, st, fit)
<1>1. x \in Members
  BY DEF Ongoing
<1>2. ASSUME NEW k \in 0..2, NEW z, z = [x EXCEPT !.clearRetries = k]
      PROVE  z \in Members /\ Tags(z) = Tags(x) /\ z.at = "clear" /\ z.op = x.op /\ z.dl = x.dl
  BY <1>1, <1>2 DEF Members, Tags
<1>3. CASE x.clearRetries = 0
  <2>1. PICK z : z = [x EXCEPT !.clearRetries = 1]
    OBVIOUS
  <2>2. z \in Members /\ Tags(z) = Tags(x) /\ z.at = "clear" /\ z.op = x.op /\ z.dl = x.dl
    BY <1>2, <2>1
  <2>3. y = _resetSessionsBegin(z)
    BY <1>3, <2>1 DEF _clearStaleSessionsTimeout
  <2>4. Pursues(z)
    BY <2>2 DEF Pursues
  <2> QED BY <2>2, <2>3, <2>4, StaysOngoing, Resets, StagesAre
<1>4. CASE x.clearRetries # 0
  <2>1. PICK z : z = [x EXCEPT !.clearRetries = 2]
    OBVIOUS
  <2>2. z \in Members /\ Tags(z) = Tags(x) /\ z.op = x.op /\ z.dl = x.dl
    BY <1>2, <2>1
  <2>3. y = AfterClear(z)
    BY <1>4, <2>1 DEF _clearStaleSessionsTimeout
  <2>4. z.op = "download" => Resumable(z.dl)
    BY <2>2 DEF Pursues
  <2> QED BY <2>2, <2>3, <2>4, StaysOngoing, OpensAfterClear
<1> QED BY <1>3, <1>4

LEMMA TimesOut ==
    ASSUME NEW st, NEW fit, NEW x, Sound(x, st, fit), x.at # "idle", linkUp \in BOOLEAN, faults' \in Nat,
           Len(st) \in Nat, bound \in Nat \X Nat, NEW n \in ChunkSizes, NEW y, y = TimedOut(x, n)
    PROVE  Sound(y, st, fit)
<1>1. Ongoing(x, st, fit) /\ x \in Members /\ x.at \in Stages(x.op)
  BY SoundOngoing
<1>2. x.at \in Stage
  BY <1>1 DEF Members, Stage
<1>3. ~x.misclosed => OneAtATime(x, st)
  BY <1>1 DEF Ongoing
<1>0. Pursues(x) /\ Accounted(x.dl, fit)
  BY DEF Sound
<1>4. CASE x.at = "clear"
  <2>1. y = _clearStaleSessionsTimeout(x)
    BY <1>4 DEF TimedOut
  <2> QED BY <1>0, <1>1, <1>4, <2>1, OperationOf, ClearTimesOut
<1>5. CASE x.at = "open"
  <2>1. y = _downloadComplete(x, FALSE)
    BY <1>5 DEF TimedOut
  <2> QED BY <1>1, <1>3, <1>5, <2>1, OperationOf, DownloadCompletes
<1>6. CASE x.at = "burst"
  <2>1. y = _burstReadFileTimeout(x, n)
    BY <1>6 DEF TimedOut
  <2>2. Kept(x.dl, x.dl.expectedOffset)
    BY <1>0, <1>6 DEF Pursues
  <2> QED BY <1>1, <1>6, <2>1, <2>2, OperationOf, BurstTimesOut
<1>7. CASE x.at = "fill"
  <2>1. y = _fillMissingBlocksTimeout(x, n)
    BY <1>7 DEF TimedOut
  <2>2. x.dl.missing # <<>>
    BY <1>7 DEF Sound, Staged
  <2> QED BY <1>1, <1>7, <2>1, <2>2, OperationOf, FillTimesOut
<1>8. CASE x.at = "reset"
  <2>1. y = ClosingUnanswered(x)
    BY <1>8 DEF TimedOut
  <2> QED BY <1>1, <1>8, <2>1, OperationOf, ClosesUnanswered
<1>9. CASE x.at = "create"
  <2>1. y = _uploadComplete(x, FALSE)
    BY <1>9 DEF TimedOut
  <2> QED BY <1>0, <1>1, <1>3, <1>9, <2>1, OperationOf, UploadCompletes
<1>10. CASE x.at = "write"
  <2>1. y = _writeFileTimeout(x)
    BY <1>10 DEF TimedOut
  <2>2. x.ul.sent < x.ul.size
    BY <1>10 DEF Sound, Staged
  <2> QED BY <1>1, <1>10, <2>1, <2>2, OperationOf, WriteTimesOut
<1>11. CASE x.at = "list"
  <2>1. y = _listDirectoryTimeout(x)
    BY <1>11 DEF TimedOut
  <2> QED BY <1>1, <1>11, <2>1, OperationOf, ListTimesOut
<1>12. CASE x.at = "remove"
  <2>1. y = _deleteFileTimeout(x)
    BY <1>12 DEF TimedOut
  <2> QED BY <1>1, <1>12, <2>1, OperationOf, DeleteTimesOut
<1>13. CASE x.at = "terminate"
  <2>1. y = _terminateUploadSessionTimeout(x)
    BY <1>13 DEF TimedOut
  <2> QED BY <1>1, <1>13, <2>1, OperationOf, TerminateTimesOut
<1> QED BY <1>2, <1>4, <1>5, <1>6, <1>7, <1>8, <1>9, <1>10, <1>11, <1>12, <1>13 DEF Stage

(***************************************************************************)
(* Sequences: what is left of one when an element is taken out, and what   *)
(* it becomes when others are put in its place.                            *)

LEMMA Parts ==
    ASSUME NEW S, NEW s \in Seq(S), NEW i \in 1..Len(s)
    PROVE  /\ SubSeq(s, 1, i - 1) \in Seq(S) /\ Len(SubSeq(s, 1, i - 1)) = i - 1
           /\ \A j \in 1..(i - 1) : SubSeq(s, 1, i - 1)[j] = s[j]
           /\ SubSeq(s, i + 1, Len(s)) \in Seq(S) /\ Len(SubSeq(s, i + 1, Len(s))) = Len(s) - i
           /\ \A j \in 1..(Len(s) - i) : SubSeq(s, i + 1, Len(s))[j] = s[i + j]
<1>1. Len(s) \in Nat /\ i \in Int /\ \A j \in 1..Len(s) : s[j] \in S
  BY LenProperties, ElementOfSeq
<1>2. /\ SubSeq(s, 1, i - 1) \in Seq(S) /\ Len(SubSeq(s, 1, i - 1)) = i - 1
      /\ \A j \in 1..(i - 1) : SubSeq(s, 1, i - 1)[j] = s[j]
  <2>1. \A j \in 1..(i - 1) : s[j] \in S
    BY <1>1
  <2>2. /\ SubSeq(s, 1, i - 1) \in Seq(S)
        /\ Len(SubSeq(s, 1, i - 1)) = IF 1 <= i - 1 THEN (i - 1) - 1 + 1 ELSE 0
        /\ \A j \in 1..((i - 1) - 1 + 1) : SubSeq(s, 1, i - 1)[j] = s[1 + j - 1]
    BY <1>1, <2>1, SubSeqProperties
  <2> QED BY <1>1, <2>2
<1>3. /\ SubSeq(s, i + 1, Len(s)) \in Seq(S) /\ Len(SubSeq(s, i + 1, Len(s))) = Len(s) - i
      /\ \A j \in 1..(Len(s) - i) : SubSeq(s, i + 1, Len(s))[j] = s[i + j]
  <2>1. \A j \in (i + 1)..Len(s) : s[j] \in S
    BY <1>1
  <2>2. PICK t : t = SubSeq(s, i + 1, Len(s))
    OBVIOUS
  <2>3. /\ t \in Seq(S) /\ Len(t) = IF i + 1 <= Len(s) THEN Len(s) - (i + 1) + 1 ELSE 0
        /\ \A j \in 1..(Len(s) - (i + 1) + 1) : t[j] = s[(i + 1) + j - 1]
    BY <1>1, <2>1, <2>2, SubSeqProperties
  <2>4. Len(t) = Len(s) - i
    BY <1>1, <2>3
  <2>5. ASSUME NEW j \in 1..(Len(s) - i) PROVE t[j] = s[i + j]
    <3>1. j \in 1..(Len(s) - (i + 1) + 1) /\ (i + 1) + j - 1 = i + j
      BY <1>1
    <3> QED BY <2>3, <3>1
  <2> QED BY <2>2, <2>3, <2>4, <2>5
<1> QED BY <1>2, <1>3

LEMMA RemovedType ==
    ASSUME NEW S, NEW s \in Seq(S), NEW i \in DOMAIN s
    PROVE  RemoveAt(s, i) \in Seq(S)
<1>1. i \in 1..Len(s)
  BY LenProperties
<1>2. SubSeq(s, 1, i - 1) \in Seq(S) /\ SubSeq(s, i + 1, Len(s)) \in Seq(S)
  BY <1>1, Parts
<1> QED BY <1>2, ConcatProperties DEF RemoveAt

(* Element i replaced by the elements of r.                                *)
Splice(s, i, r) == SubSeq(s, 1, i - 1) \o r \o SubSeq(s, i + 1, Len(s))

SplicedAs(s, i, r, t) ==
    /\ Len(s) \in Nat /\ Len(r) \in Nat /\ Len(t) = Len(s) - 1 + Len(r)
    /\ \A j \in 1..(i - 1) : t[j] = s[j]
    /\ \A j \in 1..Len(r) : t[i - 1 + j] = r[j]
    /\ \A j \in (i + 1)..Len(s) : t[j + Len(r) - 1] = s[j]

LEMMA Spliced ==
    ASSUME NEW S, NEW s \in Seq(S), NEW i \in 1..Len(s), NEW r \in Seq(S), NEW t, t = Splice(s, i, r)
    PROVE  t \in Seq(S) /\ SplicedAs(s, i, r, t)
<1>1. PICK a : a = SubSeq(s, 1, i - 1)
  OBVIOUS
<1>2. PICK b : b = SubSeq(s, i + 1, Len(s))
  OBVIOUS
<1>3. /\ a \in Seq(S) /\ Len(a) = i - 1 /\ \A j \in 1..(i - 1) : a[j] = s[j]
      /\ b \in Seq(S) /\ Len(b) = Len(s) - i /\ \A j \in 1..(Len(s) - i) : b[j] = s[i + j]
  BY <1>1, <1>2, Parts
<1>4. PICK c : c = a \o r
  OBVIOUS
<1>5. /\ c \in Seq(S) /\ Len(c) = Len(a) + Len(r)
      /\ \A j \in 1..(Len(a) + Len(r)) : c[j] = IF j <= Len(a) THEN a[j] ELSE r[j - Len(a)]
  BY <1>3, <1>4, ConcatProperties
<1>6. t = c \o b
  BY <1>1, <1>2, <1>4 DEF Splice
<1>7. /\ t \in Seq(S) /\ Len(t) = Len(c) + Len(b)
      /\ \A j \in 1..(Len(c) + Len(b)) : t[j] = IF j <= Len(c) THEN c[j] ELSE b[j - Len(c)]
  <2>1. c \in Seq(S) /\ b \in Seq(S)
    BY <1>3, <1>5
  <2> QED BY <1>6, <2>1, ConcatProperties
<1>8. Len(s) \in Nat /\ Len(r) \in Nat /\ i \in Nat /\ i >= 1 /\ i <= Len(s)
  BY LenProperties
<1>9. Len(t) = Len(s) - 1 + Len(r) /\ Len(c) = i - 1 + Len(r)
  <2>1. PICK k \in Nat, l \in Nat : k = Len(s) /\ l = Len(r) /\ i <= k
    BY <1>8
  <2>2. Len(a) = i - 1 /\ Len(b) = k - i /\ Len(c) = Len(a) + l /\ Len(t) = Len(c) + Len(b)
    BY <1>3, <1>5, <1>7, <2>1
  <2>3. Len(c) = i - 1 + l
    BY <2>2
  <2>4. Len(t) = (i - 1 + l) + (k - i)
    BY <2>2, <2>3
  <2>5. (i - 1 + l) + (k - i) = k - 1 + l
    BY <1>8, <2>1
  <2> QED BY <2>1, <2>3, <2>4, <2>5
<1>10. ASSUME NEW j \in 1..(i - 1) PROVE t[j] = s[j]
  <2>1. j \in 1..(Len(c) + Len(b)) /\ j <= Len(c) /\ j \in 1..(Len(a) + Len(r)) /\ j <= Len(a)
    BY <1>3, <1>8, <1>9
  <2> QED BY <1>3, <1>5, <1>7, <2>1
<1>11. ASSUME NEW j \in 1..Len(r) PROVE t[i - 1 + j] = r[j]
  <2>1. PICK k \in Nat : k = i - 1 + j
    BY <1>8
  <2>2. k \in 1..(Len(c) + Len(b)) /\ k <= Len(c) /\ k \in 1..(Len(a) + Len(r)) /\ ~(k <= Len(a))
        /\ k - Len(a) = j
    BY <1>3, <1>8, <1>9, <2>1
  <2>3. t[k] = c[k] /\ c[k] = r[k - Len(a)]
    BY <1>5, <1>7, <2>2
  <2> QED BY <2>1, <2>2, <2>3
<1>12. ASSUME NEW j \in (i + 1)..Len(s) PROVE t[j + Len(r) - 1] = s[j]
  <2>1. PICK k \in Nat : k = j + Len(r) - 1
    BY <1>8
  <2>2. PICK h \in 1..(Len(s) - i) : h = j - i
    BY <1>8
  <2>3. k \in 1..(Len(c) + Len(b)) /\ ~(k <= Len(c)) /\ k - Len(c) = h /\ i + h = j
    BY <1>3, <1>8, <1>9, <2>1, <2>2
  <2>4. t[k] = b[k - Len(c)]
    BY <1>7, <2>3
  <2>5. b[h] = s[i + h]
    BY <1>3
  <2> QED BY <2>1, <2>3, <2>4, <2>5
<1> QED BY <1>7, <1>8, <1>9, <1>10, <1>11, <1>12 DEF SplicedAs

(***************************************************************************)
(* What a packet of data does to the members of a download.                *)

(* Of a range of the file the server had open, a packet of it has some.    *)
IsData(m) ==
    /\ m.off \in Nat /\ m.n \in Nat /\ m.n > 0 /\ m.off + m.n <= FileSize
    /\ m.name \in Name /\ m.name > 0 /\ m.session \in Nat /\ m.seq \in Seqs

LEMMA AnswerTypes ==
    ASSUME NEW m \in Answer
    PROVE  /\ m.ok \in BOOLEAN /\ m.seq \in Seqs /\ m.session \in Nat /\ m.off \in Nat /\ m.n \in Nat
           /\ m.name \in Name /\ m.err \in {"none", "session", "eof", "fail", "unknown"}
           /\ m.req \in {"burst", "read"} /\ m.ok => IsData(m)
BY DEF Answer, OfRange, IsData

LEMMA HoleTypes ==
    ASSUME NEW h \in Hole
    PROVE  /\ h.off \in Nat /\ h.off <= FileSize /\ h.n \in Nat /\ h.n > 0 /\ h.n <= FileSize + 1 /\ FileSize \in Nat
           /\ h.off \in 0..FileSize /\ h.n \in 1..(FileSize + 1)
BY FileAssumption DEF Hole

LEMMA NewHole ==
    ASSUME NEW off \in Nat, NEW n \in Nat, n > 0, off <= FileSize, n <= FileSize + 1, NEW h, h = [off |-> off, n |-> n]
    PROVE  h \in Hole /\ h.off = off /\ h.n = n
BY FileAssumption DEF Hole

LEMMA WriteType ==
    ASSUME NEW d \in Download, NEW m, IsData(m), NEW w, w = Write(d, m)
    PROVE  /\ w \in Download /\ w.name = d.name /\ w.active = d.active /\ w.reopens = d.reopens /\ w.open = d.open
           /\ w.missing = d.missing /\ w.expectedOffset = d.expectedOffset /\ w.bytesWritten = d.bytesWritten + m.n
           /\ w.resume = d.resume
<1>1. PICK f : f = [b \in Blocks |-> IF b \in m.off..(m.off + m.n - 1) THEN <<m.name, b>> ELSE d.file[b]]
  OBVIOUS
<1>2. f \in [Blocks -> Name \X Blocks]
  <2>1. d.file \in [Blocks -> Name \X Blocks] /\ m.name \in Name
    BY DEF Download, IsData
  <2>2. ASSUME NEW b \in Blocks PROVE f[b] \in Name \X Blocks
    BY <1>1, <2>1
  <2> QED BY <1>1, <2>2
<1>3. PICK k \in Nat : k = d.bytesWritten + m.n
  BY DEF Download, IsData
<1>4. w = [d EXCEPT !.file = f, !.bytesWritten = k]
  BY <1>1, <1>3 DEF Write
<1> QED BY <1>1, <1>2, <1>3, <1>4 DEF Download

LEMMA PieceType ==
    ASSUME NEW off \in Nat, NEW end \in Nat, off <= FileSize, end <= off + FileSize + 1, NEW p, p = Piece(off, end)
    PROVE  p \in Seq(Hole) /\ (off < end => p = <<[off |-> off, n |-> end - off]>>) /\ (~(off < end) => p = <<>>)
<1>1. CASE off < end
  <2>1. PICK k \in Nat : k = end - off /\ k > 0 /\ k <= FileSize + 1
    BY <1>1, FileAssumption
  <2>2. PICK h \in Hole : h = [off |-> off, n |-> k]
    BY <2>1, NewHole
  <2>3. p = <<h>>
    BY <1>1, <2>1, <2>2 DEF Piece
  <2> QED BY <1>1, <2>1, <2>2, <2>3
<1>2. CASE ~(off < end)
  BY <1>2, EmptySeq DEF Piece
<1> QED BY <1>1, <1>2

LEMMA RemainsType ==
    ASSUME NEW h \in Hole, NEW m, IsData(m), Holds(h, m), NEW r, r = Remains(h, m)
    PROVE  r \in Seq(Hole)
<1>1. PICK o \in Nat, e \in Nat, mo \in Nat, me \in Nat :
        o = h.off /\ e = h.off + h.n /\ mo = m.off /\ me = m.off + m.n
  BY HoleTypes DEF IsData
<1>2. /\ o <= FileSize /\ mo <= o + FileSize + 1 /\ me <= FileSize /\ e <= me + FileSize + 1 /\ FileSize \in Nat
  <2>1. mo + m.n <= FileSize /\ m.n \in Nat /\ mo >= o /\ h.n <= FileSize + 1 /\ h.n \in Nat /\ o <= FileSize
        /\ FileSize \in Nat /\ me = mo + m.n /\ e = o + h.n
    BY <1>1, HoleTypes DEF IsData, Holds
  <2> QED BY <2>1
<1>3. Piece(o, mo) \in Seq(Hole) /\ Piece(me, e) \in Seq(Hole)
  BY <1>2, PieceType
<1>4. r = Piece(o, mo) \o Piece(me, e)
  BY <1>1 DEF Remains
<1> QED BY <1>3, <1>4, ConcatProperties

(* The hole claimed is one that holds the data, and the others stay.       *)
LEMMA Claimed ==
    ASSUME NEW missing \in Seq(Hole), NEW m, IsData(m), \E j \in DOMAIN missing : Holds(missing[j], m),
           NEW c, c = _claimMissingRange(missing, m)
    PROVE  \E i \in 1..Len(missing) :
             Holds(missing[i], m) /\ Remains(missing[i], m) \in Seq(Hole) /\ c = Splice(missing, i, Remains(missing[i], m))
<1>1. PICK i : i = CHOOSE j \in DOMAIN missing : Holds(missing[j], m)
  OBVIOUS
<1>2. i \in DOMAIN missing /\ Holds(missing[i], m)
  BY <1>1
<1>3. i \in 1..Len(missing) /\ missing[i] \in Hole
  BY <1>2, LenProperties, ElementOfSeq
<1>4. Remains(missing[i], m) \in Seq(Hole)
  BY <1>2, <1>3, RemainsType
<1>5. c = Splice(missing, i, Remains(missing[i], m))
  BY <1>1 DEF _claimMissingRange, Splice
<1> QED BY <1>2, <1>3, <1>4, <1>5

LEMMA ClaimType ==
    ASSUME NEW missing \in Seq(Hole), NEW m, IsData(m), \E j \in DOMAIN missing : Holds(missing[j], m)
    PROVE  _claimMissingRange(missing, m) \in Seq(Hole)
<1>1. PICK i \in 1..Len(missing) :
        /\ Remains(missing[i], m) \in Seq(Hole)
        /\ _claimMissingRange(missing, m) = Splice(missing, i, Remains(missing[i], m))
  BY Claimed
<1> QED BY <1>1, Spliced

LEMMA HoleAfterType ==
    ASSUME NEW missing \in Seq(Hole), missing # <<>>, NEW n \in Nat, n > 0, Head(missing).off + n <= FileSize
    PROVE  HoleAfter(missing, n) \in Seq(Hole)
<1>1. PICK h \in Hole : h = Head(missing)
  BY HeadTailProperties
<1>2. CASE h.n = n
  BY <1>1, <1>2, HeadTailProperties DEF HoleAfter
<1>3. CASE h.n # n
  <2>1. PICK k \in Nat : k = Shortened(h.n, n) /\ k > 0 /\ k <= FileSize + 1
    <3>1. PICK a \in Nat, size \in Nat : a = h.n /\ size = FileSize /\ a > 0 /\ a <= size + 1
      BY HoleTypes
    <3>2. Shortened(h.n, n) = IF n <= a /\ a <= size THEN a - n ELSE size + 1
      BY <3>1 DEF Shortened
    <3>3. a # n
      BY <1>3, <3>1
    <3> QED BY <3>1, <3>2, <3>3
  <2>2. PICK e \in Nat : e = h.off + n
    BY HoleTypes
  <2>3. PICK l \in Hole : l = [off |-> e, n |-> k]
    BY <1>1, <2>1, <2>2, NewHole
  <2>4. HoleAfter(missing, n) = [missing EXCEPT ![1] = l]
    BY <1>1, <1>3, <2>1, <2>2, <2>3 DEF HoleAfter, ReplaceAt
  <2>5. 1 \in 1..Len(missing)
    BY LenProperties, EmptySeq
  <2> QED BY <2>4, <2>5, ExceptSeq
<1> QED BY <1>2, <1>3


(***************************************************************************)
(* The file and its holes.                                                 *)

(* A hole and a range of blocks, with their bounds as numbers.             *)
LEMMA CoveredBounds ==
    ASSUME NEW h \in Hole
    PROVE  \E o \in Nat, e \in Nat : o = h.off /\ e = h.off + h.n /\ o < e /\ \A b \in Int : b \in Covered(h) <=> o <= b /\ b < e
<1>1. PICK o \in Nat, n \in Nat : o = h.off /\ n = h.n /\ n > 0
  BY HoleTypes
<1>2. PICK e \in Nat : e = o + n
  OBVIOUS
<1>3. Covered(h) = o..(e - 1)
  BY <1>1, <1>2 DEF Covered
<1> QED BY <1>1, <1>2, <1>3

Span(off, n) == off..(off + n - 1)

(* A hole ends below the frontier.                                         *)
LEMMA CoveredBelow ==
    ASSUME NEW w, NEW holes \in Seq(Hole), NEW f, Accounts(w, holes, f), NEW i \in DOMAIN holes, NEW b \in Int,
           b \in Covered(holes[i])
    PROVE  0 <= b /\ b < f
<1>1. holes[i] \in Hole /\ holes[i].off + holes[i].n <= f /\ f \in Int
  BY DEF Accounts
<1>2. PICK o \in Nat, e \in Nat : o = holes[i].off /\ e = holes[i].off + holes[i].n /\ o <= b /\ b < e
  BY <1>1, CoveredBounds
<1> QED BY <1>1, <1>2

(* Data behind nothing that was received: what was skipped is a new hole.  *)
LEMMA AccountsAhead ==
    ASSUME NEW w \in SUBSET Blocks, NEW holes \in Seq(Hole), NEW f, Accounts(w, holes, f),
           NEW off \in Nat, NEW n \in Nat, n > 0, off + n <= FileSize, off >= f,
           NEW t, t = IF off > f THEN Append(holes, [off |-> f, n |-> off - f]) ELSE holes
    PROVE  t \in Seq(Hole) /\ Accounts(w \cup Span(off, n), t, off + n)
<1>1. FileSize \in Nat /\ f \in Nat /\ f <= off /\ w \subseteq Nat
  BY FileAssumption DEF Accounts, Blocks
<1>2. PICK e \in Nat : e = off + n /\ e <= FileSize /\ off < e
  BY <1>1
<1> PICK v : v = w \cup Span(off, n)
  OBVIOUS
<1>3. \A b \in Int : b \in v <=> b \in w \/ (off <= b /\ b < e)
  BY <1>2 DEF Span
<1>4. e \in 0..FileSize /\ (\A b \in v : b < e) /\ e - 1 \in v
  <2>1. \A b \in w : b < f
    BY DEF Accounts
  <2>2. v \subseteq Int
    BY <1>1, <1>2 DEF Span
  <2> QED BY <1>1, <1>2, <1>3, <2>1, <2>2
<1>5. \A i \in DOMAIN holes : \A b \in Int : b \in Covered(holes[i]) => 0 <= b /\ b < f
  BY CoveredBelow
<1>6. \A b \in 0..(f - 1) : b \in w <=> \A i \in DOMAIN holes : b \notin Covered(holes[i])
  BY DEF Accounts
<1>7. \A i \in DOMAIN holes : holes[i].off + holes[i].n <= f
  BY DEF Accounts
<1>8. \A i, j \in DOMAIN holes : i < j => holes[i].off + holes[i].n <= holes[j].off
  BY DEF Accounts
<1>9. CASE ~(off > f)
  <2>1. t = holes /\ off = f
    BY <1>1, <1>9
  <2>2. ASSUME NEW b \in 0..(e - 1) PROVE b \in v <=> \A i \in DOMAIN holes : b \notin Covered(holes[i])
    <3>1. CASE b < f
      <4>1. b \in 0..(f - 1) /\ (b \in v <=> b \in w)
        BY <1>1, <1>3, <2>1, <3>1
      <4> QED BY <1>6, <4>1
    <3>2. CASE ~(b < f)
      <4>1. b \in v
        BY <1>1, <1>2, <1>3, <2>1, <3>2
      <4> QED BY <1>5, <3>2, <4>1
    <3> QED BY <3>1, <3>2
  <2>3. ASSUME NEW i \in DOMAIN holes PROVE holes[i].off + holes[i].n <= e
    <3>1. PICK k \in Int : k = holes[i].off + holes[i].n
      BY HoleTypes
    <3> QED BY <1>1, <1>2, <1>7, <3>1
  <2>4. Accounts(v, holes, e)
    BY <1>4, <1>8, <2>2, <2>3 DEF Accounts
  <2> QED BY <1>2, <2>1, <2>4
<1>10. CASE off > f
  <2>1. PICK k \in Nat : k = off - f /\ k > 0 /\ k <= FileSize + 1
    BY <1>1, <1>2, <1>10
  <2>2. PICK h \in Hole : h = [off |-> f, n |-> k] /\ h.off = f /\ h.n = k
    BY <1>1, <1>2, <2>1, NewHole
  <2>3. \A b \in Int : b \in Covered(h) <=> f <= b /\ b < off
    BY <1>1, <2>1, <2>2 DEF Covered
  <2>4. /\ t \in Seq(Hole) /\ Len(holes) \in Nat /\ Len(t) = Len(holes) + 1
        /\ \A i \in 1..Len(holes) : t[i] = holes[i]
        /\ t[Len(holes) + 1] = h
    BY <1>10, <2>1, <2>2, AppendProperties, LenProperties
  <2>5. PICK l \in Nat : l = Len(holes) /\ DOMAIN holes = 1..l /\ DOMAIN t = 1..(l + 1)
    BY <2>4, LenProperties
  <2>6. ASSUME NEW b \in 0..(e - 1) PROVE b \in v <=> \A i \in DOMAIN t : b \notin Covered(t[i])
    <3>1. (\A i \in DOMAIN t : b \notin Covered(t[i])) <=>
          (\A i \in DOMAIN holes : b \notin Covered(holes[i])) /\ b \notin Covered(h)
      BY <2>4, <2>5
    <3>2. b \in Covered(h) <=> f <= b /\ b < off
      BY <2>3
    <3>3. CASE b < f
      <4>1. b \in 0..(f - 1) /\ (b \in v <=> b \in w) /\ b \notin Covered(h)
        BY <1>1, <1>3, <3>2, <3>3
      <4> QED BY <1>6, <3>1, <4>1
    <3>4. CASE f <= b /\ b < off
      <4>1. \A c \in w : c < f
        BY DEF Accounts
      <4>2. b \notin w
        BY <1>1, <3>4, <4>1
      <4>3. b \notin v /\ b \in Covered(h)
        BY <1>3, <3>2, <3>4, <4>2
      <4> QED BY <3>1, <4>3
    <3>5. CASE off <= b
      <4>1. b \in v /\ b \notin Covered(h)
        BY <1>2, <1>3, <3>2, <3>5
      <4>2. \A i \in DOMAIN holes : b \notin Covered(holes[i])
        BY <1>1, <1>5, <3>5
      <4> QED BY <3>1, <4>1, <4>2
    <3> QED BY <1>1, <3>3, <3>4, <3>5
  <2>7. ASSUME NEW i \in DOMAIN t PROVE t[i].off + t[i].n <= e
    <3>1. CASE i \in DOMAIN holes
      <4>1. t[i] = holes[i]
        BY <2>4, <2>5, <3>1
      <4>2. PICK q \in Int : q = holes[i].off + holes[i].n
        BY <3>1, HoleTypes
      <4> QED BY <1>1, <1>2, <1>7, <3>1, <4>1, <4>2
    <3>2. CASE i = l + 1
      <4>1. t[i].off = f /\ t[i].n = k
        BY <2>2, <2>4, <2>5, <3>2
      <4> QED BY <1>1, <1>2, <2>1, <4>1
    <3> QED BY <2>5, <3>1, <3>2
  <2>8. ASSUME NEW i \in DOMAIN t, NEW j \in DOMAIN t, i < j PROVE t[i].off + t[i].n <= t[j].off
    <3>1. i \in DOMAIN holes /\ t[i] = holes[i]
      BY <2>4, <2>5, <2>8
    <3>2. CASE j \in DOMAIN holes
      <4>1. t[j] = holes[j]
        BY <2>4, <2>5, <3>2
      <4> QED BY <1>8, <2>8, <3>1, <3>2, <4>1
    <3>3. CASE j = l + 1
      <4>1. t[j].off = f
        BY <2>2, <2>4, <2>5, <3>3
      <4> QED BY <1>7, <3>1, <4>1
    <3> QED BY <2>5, <3>2, <3>3
  <2>9. Accounts(v, t, e)
    BY <1>4, <2>6, <2>7, <2>8 DEF Accounts
  <2> QED BY <1>2, <2>4, <2>9
<1> QED BY <1>9, <1>10

(* Where the elements of a spliced sequence come from.                     *)
LEMMA SplicedParts ==
    ASSUME NEW s \in Seq(Hole), NEW i \in 1..Len(s), NEW r \in Seq(Hole), NEW t, t = Splice(s, i, r)
    PROVE  /\ \A k \in DOMAIN t :
                \/ k \in 1..(i - 1) /\ t[k] = s[k]
                \/ \E j \in DOMAIN r : k = i - 1 + j /\ t[k] = r[j]
                \/ \E j \in (i + 1)..Len(s) : k = j + Len(r) - 1 /\ t[k] = s[j]
           /\ \A j \in DOMAIN s : j # i => \E k \in DOMAIN t : t[k] = s[j]
           /\ \A j \in DOMAIN r : \E k \in DOMAIN t : t[k] = r[j]
<1>1. /\ t \in Seq(Hole) /\ Len(s) \in Nat /\ Len(r) \in Nat /\ Len(t) = Len(s) - 1 + Len(r)
      /\ \A j \in 1..(i - 1) : t[j] = s[j]
      /\ \A j \in 1..Len(r) : t[i - 1 + j] = r[j]
      /\ \A j \in (i + 1)..Len(s) : t[j + Len(r) - 1] = s[j]
  <2>1. t \in Seq(Hole) /\ SplicedAs(s, i, r, t)
    BY Spliced
  <2> QED BY <2>1 DEF SplicedAs
<1>2. PICK l \in Nat, p \in Nat : l = Len(s) /\ p = Len(r) /\ 1 <= i /\ i <= l /\ i \in Int
  BY <1>1
<1>3. DOMAIN s = 1..l /\ DOMAIN r = 1..p /\ DOMAIN t = 1..(l - 1 + p)
  BY <1>1, <1>2, LenProperties
<1>4. ASSUME NEW k \in DOMAIN t
      PROVE  \/ k \in 1..(i - 1) /\ t[k] = s[k]
             \/ \E j \in DOMAIN r : k = i - 1 + j /\ t[k] = r[j]
             \/ \E j \in (i + 1)..Len(s) : k = j + Len(r) - 1 /\ t[k] = s[j]
  <2>1. k \in Int /\ 1 <= k /\ k <= l - 1 + p
    BY <1>2, <1>3
  <2>2. CASE k < i
    BY <1>1, <1>2, <2>1, <2>2
  <2>3. CASE i <= k /\ k < i + p
    <3>1. PICK j \in Int : j = k - i + 1
      BY <1>2, <2>1
    <3>2. j \in 1..p /\ k = i - 1 + j
      <4>1. PICK a \in Int : a = i /\ a <= k /\ k < a + p
        BY <1>2, <2>3
      <4> QED BY <1>2, <2>1, <3>1, <4>1
    <3>3. j \in DOMAIN r /\ t[i - 1 + j] = r[j]
      BY <1>1, <1>2, <1>3, <3>2
    <3> QED BY <3>2, <3>3
  <2>4. CASE i + p <= k
    <3>1. PICK j \in Int : j = k - p + 1
      BY <1>2, <2>1
    <3>3. j \in (i + 1)..l /\ k = j + p - 1
      <4>1. PICK a \in Int : a = i /\ a + p <= k
        BY <1>2, <2>4
      <4>2. a + 1 <= j /\ j <= l /\ k = j + p - 1
        BY <1>2, <2>1, <3>1, <4>1, SMTT(30)
      <4> QED BY <4>1, <4>2
    <3>2. t[j + p - 1] = s[j]
      BY <1>1, <1>2, <3>3
    <3> QED BY <1>2, <3>2, <3>3
  <2> QED BY <1>2, <2>1, <2>2, <2>3, <2>4
<1>5. ASSUME NEW j \in DOMAIN s, j # i PROVE \E k \in DOMAIN t : t[k] = s[j]
  <2>1. CASE j < i
    <3>1. j \in 1..(i - 1) /\ j \in DOMAIN t
      BY <1>2, <1>3, <2>1
    <3> QED BY <1>1, <3>1
  <2>2. CASE j > i
    <3>1. j \in (i + 1)..Len(s)
      BY <1>2, <1>3, <2>2
    <3>2. PICK k \in DOMAIN t : k = j + Len(r) - 1
      BY <1>2, <1>3, <2>2
    <3> QED BY <1>1, <3>1, <3>2
  <2> QED BY <1>2, <1>3, <1>5, <2>1, <2>2
<1>6. ASSUME NEW j \in DOMAIN r PROVE \E k \in DOMAIN t : t[k] = r[j]
  <2>1. PICK k \in DOMAIN t : k = i - 1 + j
    BY <1>2, <1>3
  <2>2. j \in 1..Len(r)
    BY <1>2, <1>3
  <2> QED BY <1>1, <2>1, <2>2
<1> QED BY <1>4, <1>5, <1>6

(* What is left of a hole once a range within it is written.               *)
Left(h, off, n, r) ==
    /\ h.off <= off /\ off + n <= h.off + h.n
    /\ \A j \in DOMAIN r : h.off <= r[j].off /\ r[j].off + r[j].n <= h.off + h.n
    /\ \A b \in Covered(h) : b \in Span(off, n) <=> \A j \in DOMAIN r : b \notin Covered(r[j])
    /\ \A j, k \in DOMAIN r : j < k => r[j].off + r[j].n <= r[k].off

LEMMA AccountsPlugged ==
    ASSUME NEW w \in SUBSET Blocks, NEW holes \in Seq(Hole), NEW f, Accounts(w, holes, f),
           NEW i \in 1..Len(holes), NEW off \in Nat, NEW n \in Nat, n > 0,
           NEW r \in Seq(Hole), Left(holes[i], off, n, r), NEW t, t = Splice(holes, i, r)
    PROVE  t \in Seq(Hole) /\ Accounts(w \cup Span(off, n), t, f)
<1>1. FileSize \in Nat /\ f \in Nat /\ f \in 0..FileSize /\ w \subseteq Nat
  BY FileAssumption DEF Accounts, Blocks
<1>2. i \in DOMAIN holes /\ DOMAIN holes = 1..Len(holes) /\ Len(holes) \in Nat
  BY LenProperties
<1>3. PICK h \in Hole : h = holes[i]
  BY <1>2
<1>4. PICK o \in Nat, e \in Nat : o = h.off /\ e = h.off + h.n /\ o < e /\ \A b \in Int : b \in Covered(h) <=> o <= b /\ b < e
  BY CoveredBounds
<1>5. e <= f
  BY <1>2, <1>3, <1>4 DEF Accounts
<1>6. /\ o <= off /\ off + n <= e
      /\ \A j \in DOMAIN r : o <= r[j].off /\ r[j].off + r[j].n <= e
  BY <1>3, <1>4 DEF Left
<1>7. \A b \in Covered(h) : b \in Span(off, n) <=> \A j \in DOMAIN r : b \notin Covered(r[j])
  BY <1>3 DEF Left
<1>8. \A j, k \in DOMAIN r : j < k => r[j].off + r[j].n <= r[k].off
  BY DEF Left
<1>9. \A b \in Int : b \in Span(off, n) => o <= b /\ b < e
  BY <1>6 DEF Span
<1>10. \A j \in DOMAIN r : \A b \in Int : b \in Covered(r[j]) => o <= b /\ b < e
  <2> SUFFICES ASSUME NEW j \in DOMAIN r, NEW b \in Int, b \in Covered(r[j]) PROVE o <= b /\ b < e
    OBVIOUS
  <2>1. r[j] \in Hole
    OBVIOUS
  <2>2. PICK jo \in Nat, je \in Nat : jo = r[j].off /\ je = r[j].off + r[j].n /\ jo <= b /\ b < je
    BY <2>1, CoveredBounds
  <2>3. o <= jo /\ je <= e
    BY <1>6, <2>2
  <2> QED BY <2>2, <2>3
<1>11. \A b \in w : b < f
  BY DEF Accounts
<1>12. \A b \in 0..(f - 1) : b \in w <=> \A j \in DOMAIN holes : b \notin Covered(holes[j])
  BY DEF Accounts
<1>13. \A j \in DOMAIN holes : holes[j].off + holes[j].n <= f
  BY DEF Accounts
<1>14. \A j, k \in DOMAIN holes : j < k => holes[j].off + holes[j].n <= holes[k].off
  BY DEF Accounts
<1>15. ASSUME NEW j \in DOMAIN holes, j # i, NEW b \in Int, b \in Covered(holes[j]) PROVE ~(o <= b /\ b < e)
  <2>1. holes[j] \in Hole /\ j \in Int /\ i \in Int
    BY <1>2
  <2>2. PICK jo \in Nat, je \in Nat : jo = holes[j].off /\ je = holes[j].off + holes[j].n /\ jo <= b /\ b < je
    BY <1>15, <2>1, CoveredBounds
  <2>3. CASE j < i
    <3>1. je <= o
      BY <1>2, <1>3, <1>4, <1>14, <2>2, <2>3
    <3> QED BY <2>2, <3>1
  <2>4. CASE i < j
    <3>1. e <= jo
      BY <1>2, <1>3, <1>4, <1>14, <2>2, <2>4
    <3> QED BY <2>2, <3>1
  <2> QED BY <1>15, <2>1, <2>3, <2>4
<1>16. t \in Seq(Hole) /\ DOMAIN t \subseteq Int
  <2>1. t \in Seq(Hole)
    BY Spliced
  <2> QED BY <2>1, LenProperties
<1>17. \A k \in DOMAIN t :
         \/ k \in 1..(i - 1) /\ t[k] = holes[k]
         \/ \E j \in DOMAIN r : k = i - 1 + j /\ t[k] = r[j]
         \/ \E j \in (i + 1)..Len(holes) : k = j + Len(r) - 1 /\ t[k] = holes[j]
  BY SplicedParts, SMTT(30)
<1>18. /\ \A j \in DOMAIN holes : j # i => \E k \in DOMAIN t : t[k] = holes[j]
       /\ \A j \in DOMAIN r : \E k \in DOMAIN t : t[k] = r[j]
  BY SplicedParts
<1>19. \A k \in DOMAIN t : (\E j \in DOMAIN holes : j # i /\ t[k] = holes[j]) \/ (\E j \in DOMAIN r : t[k] = r[j])
  <2> SUFFICES ASSUME NEW k \in DOMAIN t
               PROVE  (\E j \in DOMAIN holes : j # i /\ t[k] = holes[j]) \/ (\E j \in DOMAIN r : t[k] = r[j])
    OBVIOUS
  <2>1. CASE k \in 1..(i - 1) /\ t[k] = holes[k]
    <3>1. k \in DOMAIN holes /\ k # i
      BY <1>2, <2>1
    <3> QED BY <2>1, <3>1
  <2>2. CASE \E j \in DOMAIN r : k = i - 1 + j /\ t[k] = r[j]
    BY <2>2
  <2>3. CASE \E j \in (i + 1)..Len(holes) : k = j + Len(r) - 1 /\ t[k] = holes[j]
    <3>1. PICK j \in (i + 1)..Len(holes) : t[k] = holes[j]
      BY <2>3
    <3>2. j \in DOMAIN holes /\ j # i
      BY <1>2
    <3> QED BY <3>1, <3>2
  <2> QED BY <1>17, <2>1, <2>2, <2>3
<1> PICK v : v = w \cup Span(off, n)
  OBVIOUS
<1>20. ASSUME NEW b \in 0..(f - 1) PROVE b \in v <=> \A k \in DOMAIN t : b \notin Covered(t[k])
  <2>1. (\A k \in DOMAIN t : b \notin Covered(t[k])) <=>
        /\ \A j \in DOMAIN holes : j # i => b \notin Covered(holes[j])
        /\ \A j \in DOMAIN r : b \notin Covered(r[j])
    BY <1>18, <1>19
  <2>2. CASE o <= b /\ b < e
    <3>1. b \in Covered(h)
      BY <1>4, <2>2
    <3>2. b \notin w
      BY <1>2, <1>3, <1>12, <3>1
    <3>3. \A j \in DOMAIN holes : j # i => b \notin Covered(holes[j])
      BY <1>15, <2>2
    <3>4. b \in Span(off, n) <=> \A j \in DOMAIN r : b \notin Covered(r[j])
      BY <1>7, <3>1
    <3> QED BY <2>1, <3>2, <3>3, <3>4
  <2>3. CASE ~(o <= b /\ b < e)
    <3>1. b \notin Covered(h) /\ b \notin Span(off, n)
      BY <1>4, <1>9, <2>3
    <3>2. \A j \in DOMAIN r : b \notin Covered(r[j])
      BY <1>10, <2>3
    <3>3. b \in w <=> \A j \in DOMAIN holes : b \notin Covered(holes[j])
      BY <1>12
    <3>4. (\A j \in DOMAIN holes : b \notin Covered(holes[j])) <=> (\A j \in DOMAIN holes : j # i => b \notin Covered(holes[j]))
      BY <1>3, <3>1
    <3> QED BY <2>1, <3>1, <3>2, <3>3, <3>4
  <2> QED BY <2>2, <2>3
<1>21. ASSUME NEW k \in DOMAIN t PROVE t[k].off + t[k].n <= f
  <2>1. CASE \E j \in DOMAIN holes : t[k] = holes[j]
    BY <1>13, <2>1
  <2>2. CASE \E j \in DOMAIN r : t[k] = r[j]
    <3>1. PICK j \in DOMAIN r : t[k] = r[j]
      BY <2>2
    <3>2. r[j] \in Hole
      OBVIOUS
    <3>3. PICK q \in Int : q = r[j].off + r[j].n
      BY <3>2, HoleTypes
    <3> QED BY <1>1, <1>5, <1>6, <3>1, <3>3
  <2> QED BY <1>19, <2>1, <2>2
<1>22. ASSUME NEW k \in DOMAIN t, NEW q \in DOMAIN t, k < q PROVE t[k].off + t[k].n <= t[q].off
  <2>1. k \in Int /\ q \in Int /\ i \in Int /\ Len(r) \in Nat /\ DOMAIN r = 1..Len(r)
    BY <1>2, <1>16, LenProperties
  <2>2. CASE k \in 1..(i - 1) /\ t[k] = holes[k]
    <3>1. k \in DOMAIN holes /\ k < i
      BY <1>2, <2>2
    <3>2. CASE q \in 1..(i - 1) /\ t[q] = holes[q]
      <4>1. q \in DOMAIN holes
        BY <1>2, <3>2
      <4> QED BY <1>14, <1>22, <2>2, <3>1, <3>2, <4>1
    <3>3. CASE \E j \in DOMAIN r : q = i - 1 + j /\ t[q] = r[j]
      <4>1. PICK j \in DOMAIN r : t[q] = r[j]
        BY <3>3
      <4>2. holes[k].off + holes[k].n <= o /\ o <= r[j].off
        BY <1>2, <1>3, <1>4, <1>6, <1>14, <3>1
      <4>4. holes[k] \in Hole /\ r[j] \in Hole
        BY <3>1
      <4>3. PICK a \in Int : a = holes[k].off + holes[k].n
        BY <4>4, HoleTypes, SMTT(30)
      <4>5. PICK c \in Int : c = r[j].off
        BY <4>4, HoleTypes
      <4> QED BY <2>2, <4>1, <4>2, <4>3, <4>5
    <3>4. CASE \E j \in (i + 1)..Len(holes) : q = j + Len(r) - 1 /\ t[q] = holes[j]
      <4>1. PICK j \in (i + 1)..Len(holes) : t[q] = holes[j]
        BY <3>4
      <4>2. j \in DOMAIN holes /\ k < j
        BY <1>2, <3>1
      <4> QED BY <1>14, <2>2, <3>1, <4>1, <4>2
    <3> QED BY <1>17, <3>2, <3>3, <3>4
  <2>3. CASE \E j \in DOMAIN r : k = i - 1 + j /\ t[k] = r[j]
    <3>1. PICK j \in DOMAIN r : k = i - 1 + j /\ t[k] = r[j]
      BY <2>3
    <3>2. CASE q \in 1..(i - 1) /\ t[q] = holes[q]
      BY <1>22, <2>1, <3>1, <3>2
    <3>3. CASE \E c \in DOMAIN r : q = i - 1 + c /\ t[q] = r[c]
      <4>1. PICK c \in DOMAIN r : q = i - 1 + c /\ t[q] = r[c]
        BY <3>3
      <4>2. j < c
        BY <1>22, <2>1, <3>1, <4>1
      <4> QED BY <1>8, <3>1, <4>1, <4>2
    <3>4. CASE \E c \in (i + 1)..Len(holes) : q = c + Len(r) - 1 /\ t[q] = holes[c]
      <4>1. PICK c \in (i + 1)..Len(holes) : t[q] = holes[c]
        BY <3>4
      <4>2. c \in DOMAIN holes /\ i < c
        BY <1>2
      <4>3. e <= holes[c].off /\ r[j].off + r[j].n <= e
        BY <1>2, <1>3, <1>4, <1>6, <1>14, <4>2
      <4>4. r[j] \in Hole /\ holes[c] \in Hole
        BY <4>2
      <4>5. PICK a \in Int, z \in Int : a = r[j].off + r[j].n /\ z = holes[c].off
        BY <4>4, HoleTypes, SMTT(30)
      <4> QED BY <3>1, <4>1, <4>3, <4>5
    <3> QED BY <1>17, <3>2, <3>3, <3>4
  <2>4. CASE \E j \in (i + 1)..Len(holes) : k = j + Len(r) - 1 /\ t[k] = holes[j]
    <3>1. PICK j \in (i + 1)..Len(holes) : k = j + Len(r) - 1 /\ t[k] = holes[j]
      BY <2>4
    <3>2. CASE q \in 1..(i - 1) /\ t[q] = holes[q]
      BY <1>2, <1>22, <2>1, <3>1, <3>2
    <3>3. CASE \E c \in DOMAIN r : q = i - 1 + c /\ t[q] = r[c]
      BY <1>2, <1>22, <2>1, <3>1, <3>3
    <3>4. CASE \E c \in (i + 1)..Len(holes) : q = c + Len(r) - 1 /\ t[q] = holes[c]
      <4>1. PICK c \in (i + 1)..Len(holes) : q = c + Len(r) - 1 /\ t[q] = holes[c]
        BY <3>4
      <4>2. c \in DOMAIN holes /\ j \in DOMAIN holes /\ j < c
        BY <1>2, <1>22, <2>1, <3>1, <4>1
      <4> QED BY <1>14, <3>1, <4>1, <4>2
    <3> QED BY <1>17, <3>2, <3>3, <3>4
  <2> QED BY <1>17, <2>2, <2>3, <2>4
<1>23. ASSUME NEW b \in v PROVE b < f
  <2>1. CASE b \in w
    BY <1>11, <2>1
  <2>2. CASE b \in Span(off, n)
    BY <1>1, <1>5, <1>6, <2>2 DEF Span
  <2> QED BY <1>23, <2>1, <2>2
<1>24. f > 0 => f - 1 \in v
  BY DEF Accounts
<1>25. Accounts(v, t, f)
  BY <1>1, <1>20, <1>21, <1>22, <1>23, <1>24 DEF Accounts
<1> QED BY <1>16, <1>25

(* Data written where nothing was: each block counts once.                 *)
LEMMA WriteCounts ==
    ASSUME NEW d \in Download, NEW m, IsData(m), Counted(d), NEW w, w.file = Write(d, m).file,
           w.bytesWritten = d.bytesWritten + m.n, \A b \in Span(m.off, m.n) : b \notin Written(d)
    PROVE  Counted(w) /\ Written(w) = Written(d) \cup Span(m.off, m.n)
<1>1. PICK o \in Nat, n \in Nat, e \in Nat : o = m.off /\ n = m.n /\ e = o + n - 1 /\ n > 0 /\ e < FileSize /\ FileSize \in Nat
  <2>1. m.off \in Nat /\ m.n \in Nat /\ m.n > 0 /\ m.off + m.n <= FileSize /\ FileSize \in Nat
    BY FileAssumption DEF IsData
  <2>2. m.off + m.n - 1 \in Nat /\ m.off + m.n - 1 < FileSize
    BY <2>1
  <2> QED BY <2>1, <2>2
<1>2. Span(m.off, m.n) = o..e /\ o..e \subseteq Blocks
  BY <1>1 DEF Span, Blocks
<1>3. PICK f : f = [b \in Blocks |-> IF b \in m.off..(m.off + m.n - 1) THEN <<m.name, b>> ELSE d.file[b]]
  OBVIOUS
<1>4. w.file = f
  <2>1. PICK k : k = d.bytesWritten + m.n
    OBVIOUS
  <2>2. Write(d, m) = [d EXCEPT !.file = f, !.bytesWritten = k]
    BY <1>3, <2>1 DEF Write
  <2>3. Write(d, m).file = f
    BY <2>2 DEF Download
  <2> QED BY <2>3
<1>5. ASSUME NEW b \in Blocks PROVE f[b] # Unwritten <=> b \in o..e \/ d.file[b] # Unwritten
  <2>1. CASE b \in o..e
    <3>1. f[b] = <<m.name, b>>
      BY <1>1, <1>3, <2>1
    <3>2. m.name # 0
      BY DEF IsData, Name
    <3> QED BY <2>1, <3>1, <3>2 DEF Unwritten
  <2>2. CASE b \notin o..e
    <3>1. f[b] = d.file[b]
      BY <1>1, <1>3, <2>2
    <3> QED BY <2>2, <3>1
  <2> QED BY <2>1, <2>2
<1>6. Written(w) = Written(d) \cup (o..e)
  BY <1>2, <1>4, <1>5 DEF Written
<1>7. IsFiniteSet(Written(d)) /\ Cardinality(Written(d)) \in Nat
  <2>1. IsFiniteSet(0..(FileSize - 1))
    BY <1>1, FS_Interval
  <2>2. Written(d) \subseteq 0..(FileSize - 1)
    BY DEF Written, Blocks
  <2>3. IsFiniteSet(Written(d))
    <3>1. PICK T \in SUBSET (0..(FileSize - 1)) : T = Written(d)
      BY <2>2
    <3> QED BY <2>1, <3>1, FS_Subset
  <2>4. PICK T : T = Written(d)
    OBVIOUS
  <2>5. IsFiniteSet(T)
    BY <2>3, <2>4
  <2>6. Cardinality(T) \in Nat
    BY <2>5, FS_CardinalityType
  <2> QED BY <2>3, <2>4, <2>6
<1>8. IsFiniteSet(o..e) /\ Cardinality(o..e) = n
  <2>1. IsFiniteSet(o..e) /\ Cardinality(o..e) = IF o > e THEN 0 ELSE e - o + 1
    BY FS_Interval
  <2> QED BY <1>1, <2>1
<1>9. Written(d) \cap (o..e) = {}
  BY <1>2
<1>10. Cardinality(Written(d) \cup (o..e)) = Cardinality(Written(d)) + Cardinality(o..e) - Cardinality(Written(d) \cap (o..e))
  BY <1>7, <1>8, FS_Union
<1>11. Cardinality(Written(w)) = Cardinality(Written(d)) + n
  <2>1. Cardinality(Written(d) \cap (o..e)) = 0
    BY <1>9, FS_EmptySet
  <2> QED BY <1>6, <1>7, <1>8, <1>10, <2>1
<1> QED BY <1>1, <1>2, <1>6, <1>11 DEF Counted

(* Nothing has been written of a hole, nor beyond the frontier.            *)
LEMMA HoleUnwritten ==
    ASSUME NEW w, NEW holes \in Seq(Hole), NEW f, Accounts(w, holes, f), NEW i \in DOMAIN holes,
           NEW b \in Int, b \in Covered(holes[i])
    PROVE  b \notin w
<1>1. 0 <= b /\ b < f /\ f \in Int
  <2>1. 0 <= b /\ b < f
    BY CoveredBelow
  <2> QED BY <2>1 DEF Accounts
<1>2. b \in 0..(f - 1)
  BY <1>1
<1> QED BY <1>2 DEF Accounts

LEMMA AheadUnwritten ==
    ASSUME NEW w, NEW holes, NEW f, Accounts(w, holes, f), NEW b \in Int, b >= f
    PROVE  b \notin w
BY DEF Accounts

(* A hole plugged, wherever in the order it is.                            *)
LEMMA KeptPlugged ==
    ASSUME NEW d \in Download, NEW m, IsData(m), NEW f, Kept(d, f), NEW i \in 1..Len(d.missing),
           NEW r \in Seq(Hole), Left(d.missing[i], m.off, m.n, r), NEW w,
           w.file = Write(d, m).file, w.bytesWritten = d.bytesWritten + m.n, w.missing = Splice(d.missing, i, r)
    PROVE  Kept(w, f)
<1>1. d.missing \in Seq(Hole)
  BY DEF Download
<1>2. i \in DOMAIN d.missing /\ d.missing[i] \in Hole
  BY <1>1, LenProperties
<1>3. Accounts(Written(d), d.missing, f) /\ Counted(d)
  BY DEF Kept
<1>4. ASSUME NEW b \in Span(m.off, m.n) PROVE b \notin Written(d)
  <2>1. PICK o \in Nat, n \in Nat : o = m.off /\ n = m.n
    BY DEF IsData
  <2>5. PICK e \in Nat : e = o + n
    OBVIOUS
  <2>2. b \in Int /\ o <= b /\ b < e
    BY <1>4, <2>1, <2>5 DEF Span
  <2>3. d.missing[i].off <= o /\ e <= d.missing[i].off + d.missing[i].n
    BY <2>1, <2>5 DEF Left
  <2>4. b \in Covered(d.missing[i])
    <3>1. PICK ho \in Nat, he \in Nat : /\ ho = d.missing[i].off /\ he = d.missing[i].off + d.missing[i].n
                                         /\ \A c \in Int : c \in Covered(d.missing[i]) <=> ho <= c /\ c < he
      BY <1>2, CoveredBounds
    <3> QED BY <2>2, <2>3, <3>1
  <2> QED BY <1>1, <1>2, <1>3, <2>2, <2>4, HoleUnwritten
<1>5. Counted(w) /\ Written(w) = Written(d) \cup Span(m.off, m.n)
  BY <1>3, <1>4, WriteCounts
<1>6. Accounts(Written(d) \cup Span(m.off, m.n), w.missing, f)
  <2>1. Written(d) \in SUBSET Blocks /\ m.off \in Nat /\ m.n \in Nat /\ m.n > 0
    BY DEF Written, IsData
  <2> QED BY <1>1, <1>3, <2>1, AccountsPlugged
<1> QED BY <1>5, <1>6 DEF Kept

(* The range claimed, within the hole that holds it.                       *)
LEMMA LeftByClaim ==
    ASSUME NEW h \in Hole, NEW m, IsData(m), Holds(h, m), NEW r, r = Remains(h, m)
    PROVE  r \in Seq(Hole) /\ Left(h, m.off, m.n, r)
<1>1. PICK o \in Nat, e \in Nat : /\ o = h.off /\ e = h.off + h.n /\ o < e
                                 /\ \A b \in Int : b \in Covered(h) <=> o <= b /\ b < e
  BY CoveredBounds
<1>2. PICK mo \in Nat, n \in Nat : mo = m.off /\ n = m.n
  BY DEF IsData
<1>3. PICK me \in Nat : me = mo + n
  OBVIOUS
<1>4. o <= mo /\ mo < me /\ me <= e /\ o <= FileSize /\ me <= FileSize /\ e <= o + FileSize + 1 /\ FileSize \in Nat
  <2>1. o <= FileSize /\ h.n <= FileSize + 1 /\ FileSize \in Nat /\ h.n \in Nat
    BY <1>1, HoleTypes
  <2>2. n > 0 /\ mo >= o /\ mo + n <= e
    BY <1>1, <1>2 DEF Holds
  <2>3. mo + n <= FileSize
    BY <1>2 DEF IsData
  <2> QED BY <1>1, <1>3, <2>1, <2>2, <2>3
<1>5. PICK p, q : p = Piece(o, mo) /\ q = Piece(me, e) /\ r = p \o q
  BY <1>1, <1>2, <1>3 DEF Remains
<1>6. p \in Seq(Hole) /\ (o < mo => p = <<[off |-> o, n |-> mo - o]>>) /\ (~(o < mo) => p = <<>>)
  <2>1. o <= FileSize /\ mo <= o + FileSize + 1
    BY <1>4
  <2>2. p = Piece(o, mo)
    BY <1>5
  <2> QED BY <2>1, <2>2, PieceType
<1>7. q \in Seq(Hole) /\ (me < e => q = <<[off |-> me, n |-> e - me]>>) /\ (~(me < e) => q = <<>>)
  <2>1. me <= FileSize /\ e <= me + FileSize + 1
    BY <1>4
  <2>2. q = Piece(me, e)
    BY <1>5
  <2> QED BY <2>1, <2>2, PieceType
<1>8. PICK a : a = [off |-> o, n |-> mo - o]
  OBVIOUS
<1>9. PICK c : c = [off |-> me, n |-> e - me]
  OBVIOUS
<1>10. a.off = o /\ a.off + a.n = mo /\ \A b \in Int : b \in Covered(a) <=> o <= b /\ b < mo
  <2>1. a.off = o /\ a.n = mo - o
    BY <1>8
  <2> QED BY <2>1 DEF Covered
<1>11. c.off = me /\ c.off + c.n = e /\ \A b \in Int : b \in Covered(c) <=> me <= b /\ b < e
  <2>1. c.off = me /\ c.n = e - me
    BY <1>9
  <2> QED BY <2>1 DEF Covered
<1>12. r \in Seq(Hole) /\ r = p \o q
  BY <1>5, <1>6, <1>7, ConcatProperties
<1>13. \A b \in Int : b \in Span(m.off, m.n) <=> mo <= b /\ b < me
  BY <1>2, <1>3 DEF Span
<1>15. \/ o < mo /\ me < e /\ DOMAIN r = 1..2 /\ r[1] = a /\ r[2] = c
       \/ o < mo /\ e = me /\ DOMAIN r = 1..1 /\ r[1] = a
       \/ o = mo /\ me < e /\ DOMAIN r = 1..1 /\ r[1] = c
       \/ o = mo /\ e = me /\ DOMAIN r = {}
  <2>1. CASE o < mo /\ me < e
    <3>1. p = <<a>> /\ q = <<c>>
      BY <1>6, <1>7, <1>8, <1>9, <2>1
    <3>2. p \in Seq(Hole) /\ q \in Seq(Hole) /\ r = p \o q
      BY <1>6, <1>7, <1>12
    <3>3. Len(p) = 1 /\ Len(q) = 1 /\ p[1] = a /\ q[1] = c
      BY <3>1
    <3>4. /\ Len(r) = Len(p) + Len(q)
          /\ \A k \in 1..(Len(p) + Len(q)) : r[k] = IF k <= Len(p) THEN p[k] ELSE q[k - Len(p)]
      BY <3>2, ConcatProperties
    <3>5. Len(r) = 2 /\ r[1] = a /\ r[2] = c
      BY <3>3, <3>4
    <3>6. DOMAIN r = 1..2
      BY <1>12, <3>5, LenProperties
    <3> QED BY <2>1, <3>5, <3>6
  <2>2. CASE o < mo /\ ~(me < e)
    <3>1. p = <<a>> /\ q = <<>> /\ e = me
      BY <1>4, <1>6, <1>7, <1>8, <2>2
    <3>2. r = <<a>>
      BY <1>12, <3>1
    <3> QED BY <2>2, <3>1, <3>2
  <2>3. CASE ~(o < mo) /\ me < e
    <3>1. p = <<>> /\ q = <<c>> /\ o = mo
      BY <1>4, <1>6, <1>7, <1>9, <2>3
    <3>2. r = <<c>>
      BY <1>12, <3>1
    <3> QED BY <2>3, <3>1, <3>2
  <2>4. CASE ~(o < mo) /\ ~(me < e)
    <3>1. p = <<>> /\ q = <<>> /\ o = mo /\ e = me
      BY <1>4, <1>6, <1>7, <2>4
    <3>2. r = <<>>
      BY <1>12, <3>1
    <3> QED BY <3>1, <3>2
  <2> QED BY <2>1, <2>2, <2>3, <2>4
<1>16. \A j \in DOMAIN r : o <= r[j].off /\ r[j].off + r[j].n <= e
  BY <1>4, <1>10, <1>11, <1>15
<1>17. \A j, k \in DOMAIN r : j < k => r[j].off + r[j].n <= r[k].off
  <2>1. mo <= me
    BY <1>4
  <2> QED BY <1>10, <1>11, <1>15, <2>1
<1>18. ASSUME NEW b \in Covered(h) PROVE b \in Span(m.off, m.n) <=> \A j \in DOMAIN r : b \notin Covered(r[j])
  <2>1. b \in Int
    BY <1>1 DEF Covered
  <2>2. o <= b /\ b < e
    BY <1>1, <1>18, <2>1
  <2>3. /\ b \in Span(m.off, m.n) <=> mo <= b /\ b < me
        /\ b \in Covered(a) <=> o <= b /\ b < mo
        /\ b \in Covered(c) <=> me <= b /\ b < e
    BY <1>10, <1>11, <1>13, <2>1
  <2> QED BY <1>15, <2>1, <2>2, <2>3
<1>19. h.off <= m.off /\ m.off + m.n <= h.off + h.n
  BY <1>1, <1>2, <1>3, <1>4
<1>20. \A j \in DOMAIN r : h.off <= r[j].off /\ r[j].off + r[j].n <= h.off + h.n
  BY <1>1, <1>16
<1> QED BY <1>12, <1>17, <1>18, <1>19, <1>20 DEF Left

(* Data behind nothing that was received.                                  *)
LEMMA KeptAhead ==
    ASSUME NEW d \in Download, NEW m, IsData(m), NEW f, Kept(d, f), m.off >= f, NEW w,
           w.file = Write(d, m).file, w.bytesWritten = d.bytesWritten + m.n,
           w.missing = IF m.off > f THEN Append(d.missing, [off |-> f, n |-> m.off - f]) ELSE d.missing
    PROVE  Kept(w, m.off + m.n)
<1>1. d.missing \in Seq(Hole)
  BY DEF Download
<1>2. Accounts(Written(d), d.missing, f) /\ Counted(d)
  BY DEF Kept
<1>3. PICK o \in Nat, n \in Nat : o = m.off /\ n = m.n /\ n > 0 /\ o + n <= FileSize
  BY DEF IsData
<1>4. ASSUME NEW b \in Span(m.off, m.n) PROVE b \notin Written(d)
  <2>1. f \in Int
    BY <1>2 DEF Accounts
  <2>2. b \in Int /\ b >= f
    BY <1>3, <1>4, <2>1 DEF Span
  <2> QED BY <1>2, <2>2, AheadUnwritten
<1>5. Counted(w) /\ Written(w) = Written(d) \cup Span(m.off, m.n)
  BY <1>2, <1>4, WriteCounts
<1>6. Written(d) \in SUBSET Blocks
  BY DEF Written
<1>7. PICK t : t = IF o > f THEN Append(d.missing, [off |-> f, n |-> o - f]) ELSE d.missing
  OBVIOUS
<1>8. Accounts(Written(d) \cup Span(o, n), t, o + n)
  <2>1. o >= f
    BY <1>3
  <2> QED BY <1>1, <1>2, <1>3, <1>6, <1>7, <2>1, AccountsAhead
<1>9. w.missing = t
  BY <1>3, <1>7
<1> QED BY <1>3, <1>5, <1>8, <1>9 DEF Kept

(* A hole filled in part ends where it ended.                              *)
LEMMA PartFilled ==
    ASSUME NEW o \in Nat, NEW e \in Nat, NEW n \in Nat, NEW z \in Nat, n <= e, e # n, o + e <= z
    PROVE  /\ e - n \in Nat /\ e - n > 0 /\ e - n <= z + 1
           /\ o + n \in Nat /\ o + n <= z
           /\ (o + n) + (e - n) = o + e
OBVIOUS

(* What the answer to a read leaves of the first hole, if it is not longer *)
(* than the hole.                                                          *)
LEMMA LeftByFill ==
    ASSUME NEW s \in Seq(Hole), s # <<>>, NEW o \in Nat, NEW e \in Nat, NEW n \in Nat, n > 0,
           o = Head(s).off, e = Head(s).n, n <= e, o + e <= FileSize
    PROVE  \E r \in Seq(Hole) : Left(s[1], o, n, r) /\ HoleAfter(s, n) = Splice(s, 1, r)
<1>1. PICK l \in Nat : l = Len(s) /\ l > 0
  BY LenProperties, EmptySeq
<1>2. FileSize \in Nat /\ 1 \in 1..Len(s) /\ s[1] = Head(s) /\ s[1] \in Hole
  BY <1>1, FileAssumption, HeadTailProperties
<1>3. PICK h \in Hole : h = s[1] /\ h.off = o /\ h.n = e
  BY <1>2
<1>4. \A b \in Int : b \in Covered(h) <=> o <= b /\ b < o + e
  BY <1>3 DEF Covered
<1>5. \A b \in Int : b \in Span(o, n) <=> o <= b /\ b < o + n
  BY DEF Span
<1>6. ASSUME NEW b \in Covered(h) PROVE b \in Int
  BY <1>3, <1>6 DEF Covered
<1>7. CASE e = n
  <2>1. PICK r : r = <<>>
    OBVIOUS
  <2>2. r \in Seq(Hole) /\ DOMAIN r = {} /\ Len(r) = 0
    BY <2>1, EmptySeq, LenProperties
  <2>3. \A b \in Covered(h) : b \in Span(o, n)
    BY <1>4, <1>5, <1>6, <1>7
  <2>4. Left(h, o, n, r)
    BY <1>3, <1>7, <2>2, <2>3 DEF Left
  <2>5. PICK t : t = Splice(s, 1, r)
    OBVIOUS
  <2>6. t \in Seq(Hole) /\ SplicedAs(s, 1, r, t)
    BY <1>2, <2>2, <2>5, Spliced
  <2>7. Len(t) = l - 1 /\ \A j \in 2..l : t[j - 1] = s[j]
    <3>1. Len(t) = Len(s) - 1 + Len(r) /\ \A j \in (1 + 1)..Len(s) : t[j + Len(r) - 1] = s[j]
      BY <2>6 DEF SplicedAs
    <3>2. Len(t) = l - 1
      BY <1>1, <2>2, <3>1
    <3>3. ASSUME NEW j \in 2..l PROVE t[j - 1] = s[j]
      <4>1. j \in (1 + 1)..Len(s) /\ j + Len(r) - 1 = j - 1
        BY <1>1, <2>2
      <4> QED BY <3>1, <4>1
    <3> QED BY <3>2, <3>3
  <2>8. PICK u \in Seq(Hole) : u = Tail(s) /\ Len(u) = l - 1 /\ \A j \in 1..Len(u) : u[j] = s[j + 1]
    BY <1>1, HeadTailProperties
  <2>9. ASSUME NEW j \in 1..Len(t) PROVE t[j] = u[j]
    <3>1. PICK k \in 2..l : k = j + 1 /\ k - 1 = j
      BY <1>1, <2>7
    <3>2. t[k - 1] = s[k]
      BY <2>7
    <3>3. u[j] = s[j + 1]
      BY <2>7, <2>8
    <3> QED BY <3>1, <3>2, <3>3
  <2>10. t = u
    <3>1. Len(t) = Len(u)
      BY <2>7, <2>8
    <3> QED BY <2>6, <2>8, <2>9, <3>1, SeqEqual
  <2>11. HoleAfter(s, n) = u
    BY <1>2, <1>3, <1>7, <2>8 DEF HoleAfter
  <2> QED BY <1>3, <2>2, <2>4, <2>5, <2>10, <2>11
<1>8. CASE e # n
  <2>a. e - n \in Nat /\ e - n > 0 /\ o + n \in Nat /\ o + n <= FileSize /\ e - n <= FileSize + 1
        /\ (o + n) + (e - n) = o + e
    BY <1>2, <1>8, PartFilled, SMTT(30)
  <2>1. PICK c \in Nat, q \in Nat : c = o + n /\ q = e - n /\ q > 0 /\ c <= FileSize /\ q <= FileSize + 1
                                   /\ c + q = o + e
    BY <2>a
  <2>2. PICK k \in Hole : k = [off |-> c, n |-> q] /\ k.off = c /\ k.n = q
    <3>1. PICK v : v = [off |-> c, n |-> q]
      OBVIOUS
    <3>2. v.off = c /\ v.n = q
      BY <3>1
    <3>3. c \in 0..FileSize /\ q \in 1..(FileSize + 1)
      BY <1>2, <2>1
    <3>4. v \in Hole
      BY <3>1, <3>3 DEF Hole
    <3> QED BY <3>1, <3>2, <3>4
  <2>3. PICK r : r = <<k>>
    OBVIOUS
  <2>4. r \in Seq(Hole) /\ DOMAIN r = {1} /\ Len(r) = 1 /\ r[1] = k
    BY <2>3
  <2>5. \A b \in Int : b \in Covered(k) <=> c <= b /\ b < o + e
    <3>1. Covered(k) = c..(c + q - 1)
      BY <2>2 DEF Covered
    <3>2. c + q = o + e
      BY <2>1
    <3> QED BY <3>1, <3>2
  <2>6. ASSUME NEW b \in Covered(h) PROVE b \in Span(o, n) <=> \A j \in DOMAIN r : b \notin Covered(r[j])
    <3>1. b \in Int /\ o <= b /\ b < o + e
      BY <1>4, <1>6, <2>6
    <3>2. b \in Span(o, n) <=> b < c
      BY <1>5, <2>1, <3>1
    <3>3. b \in Covered(k) <=> c <= b
      BY <2>5, <3>1
    <3>4. b \in Span(o, n) <=> b \notin Covered(k)
      <4>1. b < c <=> ~(c <= b)
        <5>1. b \in Int /\ c \in Int
          BY <3>1
        <5> QED BY <5>1
      <4> QED BY <3>2, <3>3, <4>1
    <3> QED BY <2>4, <3>4
  <2>7. \A j \in DOMAIN r : h.off <= r[j].off /\ r[j].off + r[j].n <= h.off + h.n
    <3>1. o <= k.off /\ k.off + k.n <= o + e
      <4>1. k.off = c /\ k.n = q
        BY <2>2
      <4>2. \A i, j, a, b \in Nat : i = a + n /\ i + j = a + b => a <= i /\ i + j <= a + b
        OBVIOUS
      <4>3. o <= c /\ c + q <= o + e
        BY <2>1, <4>2
      <4> QED BY <4>1, <4>3
    <3> QED BY <1>3, <2>4, <3>1
  <2>8. Left(h, o, n, r)
    <3>1. \A i, j \in DOMAIN r : i < j => r[i].off + r[i].n <= r[j].off
      BY <2>4
    <3> QED BY <1>3, <2>6, <2>7, <3>1 DEF Left
  <2>9. PICK t : t = Splice(s, 1, r)
    OBVIOUS
  <2>10. t \in Seq(Hole) /\ SplicedAs(s, 1, r, t)
    BY <1>2, <2>4, <2>9, Spliced
  <2>11. Len(t) = l /\ t[1] = k /\ \A j \in 2..l : t[j] = s[j]
    <3>1. /\ Len(t) = Len(s) - 1 + Len(r)
          /\ \A j \in 1..Len(r) : t[1 - 1 + j] = r[j]
          /\ \A j \in (1 + 1)..Len(s) : t[j + Len(r) - 1] = s[j]
      BY <2>10 DEF SplicedAs
    <3>2. Len(t) = l
      BY <1>1, <2>4, <3>1
    <3>3. t[1] = k
      <4>1. 1 \in 1..Len(r) /\ 1 - 1 + 1 = 1
        BY <2>4
      <4> QED BY <2>4, <3>1, <4>1
    <3>4. ASSUME NEW j \in 2..l PROVE t[j] = s[j]
      <4>1. j \in (1 + 1)..Len(s) /\ j + Len(r) - 1 = j
        BY <1>1, <2>4
      <4> QED BY <3>1, <4>1
    <3> QED BY <3>2, <3>3, <3>4
  <2>12. PICK u : u = [s EXCEPT ![1] = k]
    OBVIOUS
  <2>13. u \in Seq(Hole) /\ Len(u) = l /\ \A j \in 1..l : u[j] = IF j = 1 THEN k ELSE s[j]
    <3>1. u \in Seq(Hole) /\ Len(u) = Len(s) /\ \A j \in 1..Len(s) : u[j] = IF j = 1 THEN k ELSE s[j]
      BY <1>2, <2>12, ExceptSeq
    <3> QED BY <1>1, <3>1
  <2>14. t = u
    <3>1. Len(t) = Len(u)
      BY <2>11, <2>13
    <3>2. ASSUME NEW j \in 1..Len(t) PROVE t[j] = u[j]
      <4>1. j = 1 \/ j \in 2..l
        BY <1>1, <2>11
      <4> QED BY <1>1, <2>11, <2>13, <4>1
    <3> QED BY <2>10, <2>13, <3>1, <3>2, SeqEqual
  <2>15. HoleAfter(s, n) = u
    <3>1. Shortened(e, n) = q
      <4>1. e <= FileSize
        BY <1>2
      <4> QED BY <2>1, <4>1 DEF Shortened
    <3>2. HoleAfter(s, n) = ReplaceAt(s, 1, [off |-> o + n, n |-> Shortened(e, n)])
      BY <1>8 DEF HoleAfter
    <3>3. HoleAfter(s, n) = ReplaceAt(s, 1, k)
      BY <2>1, <2>2, <3>1, <3>2
    <3> QED BY <2>12, <3>3 DEF ReplaceAt
  <2> QED BY <1>3, <2>4, <2>8, <2>9, <2>14, <2>15
<1> QED BY <1>7, <1>8

(* The first hole filled, as far as the answer goes.                       *)
LEMMA KeptFilled ==
    ASSUME NEW d \in Download, NEW m, IsData(m), d.missing # <<>>, m.off = Head(d.missing).off,
           m.n <= Head(d.missing).n, NEW f, Kept(d, f), NEW w,
           w.file = Write(d, m).file, w.bytesWritten = d.bytesWritten + m.n, w.missing = HoleAfter(d.missing, m.n)
    PROVE  Kept(w, f)
<1>1. d.missing \in Seq(Hole)
  BY DEF Download
<1>2. Len(d.missing) \in Nat /\ 1 \in 1..Len(d.missing) /\ 1 \in DOMAIN d.missing
  BY <1>1, LenProperties, EmptySeq
<1>3. d.missing[1] = Head(d.missing) /\ d.missing[1] \in Hole
  BY <1>1, <1>2, HeadTailProperties
<1>4. PICK o \in Nat, e \in Nat : o = Head(d.missing).off /\ e = Head(d.missing).n
  BY <1>3, HoleTypes
<1>5. o + e <= FileSize
  <2>1. d.missing[1].off + d.missing[1].n <= f /\ f \in 0..FileSize
    BY <1>2 DEF Kept, Accounts
  <2> QED BY <1>3, <1>4, <2>1, FileAssumption
<1>6. PICK n \in Nat : n = m.n /\ n > 0
  BY DEF IsData
<1>7. PICK r \in Seq(Hole) : Left(d.missing[1], o, n, r) /\ HoleAfter(d.missing, n) = Splice(d.missing, 1, r)
  <2>1. n <= e
    BY <1>4, <1>6
  <2> QED BY <1>1, <1>4, <1>5, <1>6, <2>1, LeftByFill
<1>8. Left(d.missing[1], m.off, m.n, r) /\ w.missing = Splice(d.missing, 1, r)
  BY <1>4, <1>6, <1>7
<1> QED BY <1>2, <1>8, KeptPlugged

(* A late packet that plugs a hole.                                        *)
LEMMA KeptClaimed ==
    ASSUME NEW d \in Download, NEW m, IsData(m), \E j \in DOMAIN d.missing : Holds(d.missing[j], m),
           NEW f, Kept(d, f), NEW w, w.file = Write(d, m).file, w.bytesWritten = d.bytesWritten + m.n,
           w.missing = _claimMissingRange(d.missing, m)
    PROVE  Kept(w, f)
<1>1. d.missing \in Seq(Hole)
  BY DEF Download
<1>2. PICK i \in 1..Len(d.missing) :
        /\ Holds(d.missing[i], m)
        /\ w.missing = Splice(d.missing, i, Remains(d.missing[i], m))
  BY <1>1, Claimed
<1>3. d.missing[i] \in Hole
  BY <1>1, ElementOfSeq
<1>4. PICK r : r = Remains(d.missing[i], m)
  OBVIOUS
<1>5. r \in Seq(Hole) /\ Left(d.missing[i], m.off, m.n, r)
  BY <1>2, <1>3, <1>4, LeftByClaim
<1> QED BY <1>2, <1>4, <1>5, KeptPlugged

(* Nothing received yet.                                                   *)
LEMMA KeptPristine ==
    ASSUME NEW d, Pristine(d)
    PROVE  Kept(d, 0)
<1>1. Cardinality({}) = 0 /\ 0 \in 0..FileSize
  BY FS_EmptySet, FileAssumption
<1>2. Counted(d)
  BY <1>1 DEF Pristine, Counted
<1>3. d.missing = <<>> /\ Written(d) = {} /\ DOMAIN d.missing = {}
  BY EmptySeq, LenProperties DEF Pristine
<1>4. PICK z \in 0..FileSize : z = 0
  BY <1>1
<1>5. Accounts(Written(d), d.missing, z)
  BY <1>3, <1>4 DEF Accounts
<1> QED BY <1>2, <1>4, <1>5 DEF Kept

LEMMA KeptAccounted ==
    ASSUME NEW d, NEW f, Kept(d, f), NEW fit
    PROVE  Accounted(d, fit)
BY DEF Kept, Accounts, Accounted
(***************************************************************************)
(* The ack and nak functions.  Each leaves members that are sound, if it   *)
(* found them so.                                                          *)

Ready(fit) == Sound(g, started, fit) /\ linkUp \in BOOLEAN /\ bound \in Nat \X Nat /\ started \in Seq(Operation) /\ faults' \in Nat

LEMMA ReadyFacts ==
    ASSUME NEW fit, Ready(fit), g.at # "idle"
    PROVE  /\ Ongoing(g, started, fit) /\ g \in Members /\ g.at \in Stages(g.op) /\ Len(started) \in Nat
           /\ linkUp \in BOOLEAN /\ bound \in Nat \X Nat /\ faults' \in Nat
           /\ ~g.misclosed => OneAtATime(g, started)
           /\ Ongoing(Unstarted, started, fit) /\ Unstarted \in Members /\ Unstarted.at = g.at /\ Unstarted.op = g.op
           /\ Unstarted.dl = g.dl /\ Unstarted.ul = g.ul /\ Unstarted.ls = g.ls
<1>1. Ongoing(g, started, fit) /\ g \in Members /\ g.at \in Stages(g.op)
  BY SoundOngoing DEF Ready
<1>2. PICK u : u = Unstarted
  OBVIOUS
<1>3. u \in Members /\ Tags(u) = Tags(g) /\ u.at = g.at /\ u.op = g.op /\ u.dl = g.dl /\ u.ul = g.ul /\ u.ls = g.ls
  BY <1>1, <1>2, TimerStopped DEF Unstarted
<1>4. Ongoing(u, started, fit)
  BY <1>1, <1>3, StaysOngoing
<1>5. Len(started) \in Nat
  BY LenProperties DEF Ready
<1> QED BY <1>1, <1>2, <1>3, <1>4, <1>5 DEF Ready, Sound

LEMMA ReadyKeeps ==
    ASSUME NEW fit, Ready(fit), g.at # "idle"
    PROVE  /\ Pursues(g) /\ Accounted(g.dl, fit) /\ Pursues(Unstarted) /\ Accounted(Unstarted.dl, fit)
           /\ g.at = "burst" => Kept(g.dl, g.dl.expectedOffset)
           /\ g.at = "open" => Resumable(g.dl)
<1>1. Pursues(g) /\ Accounted(g.dl, fit)
  BY DEF Ready, Sound
<1>2. PICK u : u = Unstarted
  OBVIOUS
<1>3. u.at = g.at /\ u.op = g.op /\ u.dl = g.dl
  BY <1>2, ReadyFacts
<1>4. Pursues(u) /\ Accounted(u.dl, fit)
  BY <1>1, <1>3 DEF Pursues
<1>5. g.at = "open" => g.op = "download"
  BY ReadyFacts, OperationOf
<1> QED BY <1>1, <1>2, <1>4, <1>5 DEF Pursues

LEMMA ClearAcked ==
    ASSUME NEW fit, Ready(fit), NEW m, _clearStaleSessionsAckOrNak(m)
    PROVE  \E y : Becomes(y) /\ Sound(y, started, fit)
<1>1. PICK z : g.at = "clear" /\ Becomes(AfterClear(z))
               /\ z = [Unstarted EXCEPT !.drifted = @ /\ g.op = "download" /\ g.dl.reopens > 0]
  BY DEF _clearStaleSessionsAckOrNak
<1>2. Ongoing(Unstarted, started, fit) /\ Unstarted.op # "terminate" /\ linkUp \in BOOLEAN /\ bound \in Nat \X Nat
  BY <1>1, ReadyFacts, OperationOf
<1>3. Unstarted \in Members
  BY <1>1, ReadyFacts
<1>4. Unstarted.op = "download" => Resumable(Unstarted.dl)
  <2>1. Pursues(Unstarted) /\ Unstarted.at = "clear"
    BY <1>1, ReadyFacts, ReadyKeeps
  <2> QED BY <2>1 DEF Pursues
<1>5. PICK u : u = Unstarted
  OBVIOUS
<1>6. PICK d \in BOOLEAN : d = (u.drifted /\ g.op = "download" /\ g.dl.reopens > 0)
  BY <1>3, <1>5, MemberTypes
<1>7. z \in Members /\ Tags(z) = Tags(u) /\ z.op = u.op /\ z.dl = u.dl
  <2>1. z = [u EXCEPT !.drifted = d]
    BY <1>1, <1>3, <1>5, <1>6 DEF Members
  <2> QED BY <1>3, <1>5, <2>1, SetDrifted
<1>8. Ongoing(z, started, fit) /\ z.op # "terminate" /\ (z.op = "download" => Resumable(z.dl))
  BY <1>2, <1>4, <1>5, <1>7, StaysOngoing
<1>9. Sound(AfterClear(z), started, fit)
  BY <1>2, <1>8, OpensAfterClear
<1> QED BY <1>1, <1>9

LEMMA FailsDownload ==
    ASSUME NEW fit, Ready(fit), g.at \in {"open", "burst", "fill"}
    PROVE  Sound(_downloadComplete(g, FALSE), started, fit)
BY ReadyFacts, OperationOf, DownloadCompletes

LEMMA OpenAckedSound ==
    ASSUME NEW fit, Ready(fit), NEW m \in Answer, OpenAcked(m)
    PROVE  \E y : Becomes(y) /\ Sound(y, started, fit)
<1>1. g.at = "open"
  BY DEF OpenAcked
<1>0. PICK n \in ChunkSizes :
        Becomes(_burstReadFileBegin([g EXCEPT !.dl.session = m.session, !.dl.fileSize = m.n,
                                              !.dl.expectedOffset = 0, !.dl.open = TRUE], n))
  BY DEF OpenAcked
<1>3. /\ Ongoing(g, started, fit) /\ g \in Members /\ g.op = "download" /\ linkUp \in BOOLEAN /\ bound \in Nat \X Nat
      /\ m.session \in Nat /\ m.n \in Nat /\ FileSize \in Nat /\ g.dl \in Download
  BY <1>1, ReadyFacts, OperationOf, AnswerTypes, FileAssumption, MemberTypes
<1>4. PICK d1 : d1 = [g.dl EXCEPT !.session = m.session]
  OBVIOUS
<1>5. d1 \in Download /\ d1.name = g.dl.name /\ d1.active = g.dl.active /\ d1.reopens = g.dl.reopens
      /\ d1.missing = g.dl.missing /\ d1.bytesWritten = g.dl.bytesWritten /\ d1.file = g.dl.file
  BY <1>3, <1>4 DEF Download
<1>8. PICK d2 : d2 = [d1 EXCEPT !.fileSize = m.n]
  OBVIOUS
<1>9. d2 \in Download /\ d2.name = d1.name /\ d2.active = d1.active /\ d2.reopens = d1.reopens
      /\ d2.missing = d1.missing /\ d2.bytesWritten = d1.bytesWritten /\ d2.file = d1.file
  BY <1>3, <1>5, <1>8 DEF Download
<1>12. PICK d3 : d3 = [d2 EXCEPT !.expectedOffset = 0]
  OBVIOUS
<1>13. d3 \in Download /\ d3.name = d2.name /\ d3.active = d2.active /\ d3.reopens = d2.reopens
       /\ d3.missing = d2.missing /\ d3.bytesWritten = d2.bytesWritten /\ d3.file = d2.file /\ d3.expectedOffset = 0
  <2>1. PICK z \in 0..FileSize : z = 0
    BY <1>3
  <2>2. d3 = [d2 EXCEPT !.expectedOffset = z]
    BY <1>12, <2>1
  <2> QED BY <1>9, <2>1, <2>2 DEF Download
<1>16. PICK d4 : d4 = [d3 EXCEPT !.open = TRUE]
  OBVIOUS
<1>17. d4 \in Download /\ d4.name = d3.name /\ d4.active = d3.active /\ d4.reopens = d3.reopens
       /\ d4.missing = d3.missing /\ d4.bytesWritten = d3.bytesWritten /\ d4.file = d3.file
       /\ d4.expectedOffset = d3.expectedOffset
  BY <1>13, <1>16 DEF Download
<1>18. Pristine(g.dl)
  <2>1. g.dl.resume = "none"
    BY DEF OpenAcked
  <2> QED BY <1>1, <2>1, ReadyKeeps DEF Resumable
<1>19. Pristine(d4)
  <2>1. d4.missing = g.dl.missing /\ d4.bytesWritten = g.dl.bytesWritten /\ d4.file = g.dl.file
    BY <1>5, <1>9, <1>13, <1>17
  <2>2. Written(d4) = Written(g.dl)
    BY <2>1 DEF Written
  <2> QED BY <1>18, <2>1, <2>2 DEF Pristine
<1>20. Kept(d4, d4.expectedOffset)
  <2>1. PICK z : z = 0
    OBVIOUS
  <2>2. Kept(d4, z)
    BY <1>19, <2>1, KeptPristine
  <2>3. d4.expectedOffset = z
    BY <1>13, <1>17, <2>1
  <2> QED BY <2>2, <2>3
<1>21. Accounted(d4, fit)
  BY <1>20, KeptAccounted
<1>6. PICK y : y = [g EXCEPT !.dl = d4]
  OBVIOUS
<1>7. Ongoing(y, started, fit) /\ y.op = "download" /\ y.dl = d4
  <2>1. d4.name = g.dl.name /\ d4.active = g.dl.active /\ d4.reopens = g.dl.reopens
    BY <1>5, <1>9, <1>13, <1>17
  <2> QED BY <1>3, <1>6, <1>17, <1>21, <2>1, StaysWith
<1>10. Sound(_burstReadFileBegin(y, n), started, fit)
  <2>1. Kept(y.dl, y.dl.expectedOffset)
    BY <1>7, <1>20
  <2> QED BY <1>3, <1>7, <2>1, BurstBegins
<1>11. y = [g EXCEPT !.dl.session = m.session, !.dl.fileSize = m.n, !.dl.expectedOffset = 0, !.dl.open = TRUE]
  BY <1>3, <1>4, <1>6, <1>8, <1>12, <1>16 DEF Members
<1> QED BY <1>0, <1>10, <1>11

LEMMA ReopenedSound ==
    ASSUME NEW fit, Ready(fit), NEW m \in Answer, Reopened(m)
    PROVE  \E y : Becomes(y) /\ Sound(y, started, fit)
<1>1. g.at = "open"
  BY DEF Reopened
<1>2. CASE Becomes(_downloadComplete(g, FALSE))
  BY <1>1, <1>2, FailsDownload
<1>3. ASSUME NEW n \in ChunkSizes, NEW x1, NEW x,
             x1 = [g EXCEPT !.dl.session = m.session], x = [x1 EXCEPT !.dl.resume = "none"],
             Becomes(IF g.dl.resume = "burst" THEN _burstReadFileBegin(x, n) ELSE _fillMissingBlocksBegin(x, n))
      PROVE  \E y : Becomes(y) /\ Sound(y, started, fit)
  <2>1. /\ Ongoing(g, started, fit) /\ g \in Members /\ g.op = "download" /\ linkUp \in BOOLEAN /\ bound \in Nat \X Nat
        /\ m.session \in Nat /\ g.dl \in Download /\ faults' \in Nat /\ Len(started) \in Nat
    BY <1>1, ReadyFacts, OperationOf, AnswerTypes, MemberTypes
  <2>2. PICK d1 : d1 = [g.dl EXCEPT !.session = m.session]
    OBVIOUS
  <2>3. d1 \in Download /\ d1.name = g.dl.name /\ d1.active = g.dl.active /\ d1.reopens = g.dl.reopens
        /\ Progress(d1) = Progress(g.dl) /\ d1.expectedOffset = g.dl.expectedOffset
    BY <2>1, <2>2 DEF Download, Progress
  <2>4. x1 = [g EXCEPT !.dl = d1]
    BY <1>3, <2>2
  <2>5. x1 \in Members /\ Tags(x1) = Tags(g) /\ x1.op = g.op /\ x1.dl = d1
    BY <2>1, <2>3, <2>4, SetDownload
  <2>6. PICK d2 : d2 = [d1 EXCEPT !.resume = "none"]
    OBVIOUS
  <2>7. d2 \in Download /\ d2.name = d1.name /\ d2.active = d1.active /\ d2.reopens = d1.reopens
        /\ Progress(d2) = Progress(d1) /\ d2.expectedOffset = d1.expectedOffset
    BY <2>3, <2>6 DEF Download, Progress
  <2>8. x = [x1 EXCEPT !.dl = d2]
    BY <1>3, <2>5, <2>6
  <2>9. x \in Members /\ Tags(x) = Tags(x1) /\ x.op = x1.op /\ x.dl = d2
    BY <2>5, <2>7, <2>8, SetDownload
  <2>10. Ongoing(x, started, fit) /\ x.op = "download"
    BY <2>1, <2>5, <2>9, StaysOngoing
  <2>11. Sound(_fillMissingBlocksBegin(x, n), started, fit)
    BY <2>1, <2>10, FillBegins
  <2>12. ASSUME g.dl.resume = "burst" PROVE Sound(_burstReadFileBegin(x, n), started, fit)
    <3>1. PICK e : e = g.dl.expectedOffset
      OBVIOUS
    <3>2. Kept(g.dl, e)
      BY <1>1, <2>12, <3>1, ReadyKeeps DEF Resumable
    <3>3. Progress(x.dl) = Progress(g.dl) /\ x.dl.expectedOffset = e
      BY <2>3, <2>7, <2>9, <3>1
    <3>4. Kept(x.dl, e)
      BY <3>2, <3>3, KeptSame
    <3> QED BY <2>1, <2>10, <3>3, <3>4, BurstBegins
  <2> QED BY <1>3, <2>11, <2>12
<1> QED BY <1>2, <1>3 DEF Reopened

LEMMA OpenAckOrNakSound ==
    ASSUME NEW fit, Ready(fit), NEW m \in Answer, _openFileROAckOrNak(m)
    PROVE  \E y : Becomes(y) /\ Sound(y, started, fit)
BY OpenAckedSound, ReopenedSound, FailsDownload DEF _openFileROAckOrNak

LEMMA SessionLostSound ==
    ASSUME NEW fit, Ready(fit), g.at \in {"burst", "fill"}, _downloadSessionLost
    PROVE  \E y : Becomes(y) /\ Sound(y, started, fit)
<1>1. /\ Ongoing(g, started, fit) /\ g \in Members /\ g.op = "download" /\ linkUp \in BOOLEAN /\ bound \in Nat \X Nat
      /\ g.dl \in Download /\ faults' \in Nat /\ Len(started) \in Nat
      /\ ~g.misclosed => OneAtATime(g, started)
  BY ReadyFacts, OperationOf, MemberTypes
<1>0. Accounted(g.dl, fit) /\ (g.at = "burst" => Kept(g.dl, g.dl.expectedOffset))
  BY ReadyKeeps
<1>2. PICK k \in 0..(MaxReopens + 1) : k = g.dl.reopens + 1
  <2>1. g.dl.reopens <= MaxReopens /\ g.dl.reopens \in Nat /\ MaxReopens \in Nat
    BY <1>1, DownloadTypes, LimitAssumption DEF Ongoing
  <2> QED BY <2>1
<1>3. PICK d1 : d1 = [g.dl EXCEPT !.reopens = k]
  OBVIOUS
<1>4. d1 \in Download /\ d1.name = g.dl.name /\ d1.active = g.dl.active /\ d1.reopens = k
      /\ Progress(d1) = Progress(g.dl) /\ d1.expectedOffset = g.dl.expectedOffset
  <2>1. g.dl \in Download
    BY <1>1
  <2> QED BY <1>3, <2>1 DEF Download, Progress
<1>5. PICK x1 : x1 = [g EXCEPT !.dl = d1]
  OBVIOUS
<1>6. /\ x1 \in Members /\ x1.op = g.op /\ x1.dl = d1 /\ x1.ul = g.ul /\ x1.ls = g.ls /\ x1.rm = g.rm
      /\ x1.reports = g.reports /\ x1.misclosed = g.misclosed
  BY <1>1, <1>4, <1>5, SetDownload
<1>7. x1 = [g EXCEPT !.dl.reopens = @ + 1]
  BY <1>2, <1>3, <1>5
<1>8. ~x1.misclosed => OneAtATime(x1, started) /\ x1.op = "download"
  <2>1. ASSUME ~g.misclosed PROVE OneAtATime(x1, started)
    <3>1. OneAtATime(g, started)
      BY <1>1, <2>1
    <3>2. d1.name = g.dl.name /\ d1.active = g.dl.active
      BY <1>4
    <3> QED BY <1>6, <3>1, <3>2 DEF OneAtATime
  <2> QED BY <1>1, <1>6, <2>1
<1>9. CASE g.dl.reopens + 1 > MaxReopens
  <2>1. Becomes(_downloadComplete(x1, FALSE))
    BY <1>7, <1>9 DEF _downloadSessionLost
  <2>2. x1 \in Members /\ faults' \in Nat /\ Len(started) \in Nat /\ bound \in Nat \X Nat
    BY <1>1, <1>6
  <2>3. Sound(_downloadComplete(x1, FALSE), started, fit)
    BY <1>8, <2>2, DownloadCompletes
  <2> QED BY <2>1, <2>3
<1>10. CASE ~(g.dl.reopens + 1 > MaxReopens)
  <2>0. Accounted(x1.dl, fit)
    BY <1>0, <1>4, <1>6, AccountedSame
  <2>1. Ongoing(x1, started, fit)
    BY <1>1, <1>2, <1>4, <1>6, <1>8, <1>10, <2>0, LimitAssumption DEF Ongoing
  <2>2. PICK d2 : d2 = [d1 EXCEPT !.resume = g.at]
    OBVIOUS
  <2>3. d2 \in Download /\ d2.name = d1.name /\ d2.active = d1.active /\ d2.reopens = d1.reopens
        /\ Progress(d2) = Progress(d1) /\ d2.expectedOffset = d1.expectedOffset /\ d2.resume = g.at
    BY <1>4, <2>2 DEF Download, Progress
  <2>4. PICK x2 : x2 = [x1 EXCEPT !.dl = d2]
    OBVIOUS
  <2>5. x2 \in Members /\ Tags(x2) = Tags(x1) /\ x2.op = x1.op /\ x2.dl = d2
    BY <1>6, <2>3, <2>4, SetDownload
  <2>6. x2 = [g EXCEPT !.dl.reopens = @ + 1, !.dl.resume = g.at]
    BY <1>6, <1>7, <2>2, <2>4
  <2>7. Becomes(_clearStaleSessionsBegin(x2))
    BY <1>10, <2>6 DEF _downloadSessionLost
  <2>8. Ongoing(x2, started, fit) /\ x2.op = "download"
    BY <1>1, <1>6, <2>1, <2>5, StaysOngoing
  <2>10. Resumable(x2.dl)
    <3>1. PICK e : e = g.dl.expectedOffset
      OBVIOUS
    <3>2. g.at = "burst" => Kept(g.dl, e)
      BY <1>0, <3>1
    <3>3. Progress(d2) = Progress(g.dl) /\ d2.expectedOffset = e
      BY <1>4, <2>3, <3>1
    <3>4. g.at = "burst" => Kept(d2, e)
      BY <3>2, <3>3, KeptSame
    <3> QED BY <2>3, <2>5, <3>3, <3>4 DEF Resumable
  <2>9. Sound(_clearStaleSessionsBegin(x2), started, fit)
    BY <1>1, <2>8, <2>10, ClearBegins
  <2> QED BY <2>7, <2>9
<1> QED BY <1>9, <1>10

LEMMA LateDataType ==
    ASSUME g.dl \in Download, NEW m, IsData(m), \E j \in DOMAIN g.dl.missing : Holds(g.dl.missing[j], m),
           NEW w, w = LateDataWritten(m)
    PROVE  /\ w \in Download /\ w.name = g.dl.name /\ w.active = g.dl.active /\ w.reopens = g.dl.reopens
           /\ w.open = g.dl.open /\ w.resume = g.dl.resume /\ w.expectedOffset = g.dl.expectedOffset
           /\ w.bytesWritten = g.dl.bytesWritten + m.n /\ w.file = Write(g.dl, m).file
           /\ w.missing = _claimMissingRange(g.dl.missing, m)
<1>1. PICK v : v = Write(g.dl, m)
  OBVIOUS
<1>2. /\ v \in Download /\ v.name = g.dl.name /\ v.active = g.dl.active /\ v.reopens = g.dl.reopens
      /\ v.open = g.dl.open /\ v.missing = g.dl.missing /\ v.expectedOffset = g.dl.expectedOffset
      /\ v.bytesWritten = g.dl.bytesWritten + m.n /\ v.resume = g.dl.resume
  BY <1>1, WriteType
<1>3. g.dl.missing \in Seq(Hole)
  BY DEF Download
<1>4. PICK c \in Seq(Hole) : c = _claimMissingRange(g.dl.missing, m)
  BY <1>3, ClaimType
<1>5. w = [v EXCEPT !.missing = c]
  BY <1>1, <1>2, <1>4 DEF LateDataWritten
<1> QED BY <1>1, <1>2, <1>4, <1>5, ZenonT(40) DEF Download

LEMMA BurstDataType ==
    ASSUME g \in Members, NEW m, IsData(m), m.off >= g.dl.expectedOffset, NEW w, w = BurstDataWritten(m)
    PROVE  /\ w \in Download /\ w.name = g.dl.name /\ w.active = g.dl.active /\ w.reopens = g.dl.reopens
           /\ w.open = g.dl.open /\ w.resume = g.dl.resume /\ w.expectedOffset = m.off + m.n
           /\ w.bytesWritten = g.dl.bytesWritten + m.n /\ w.file = Write(g.dl, m).file
           /\ w.missing = IF m.off > g.dl.expectedOffset
                          THEN Append(g.dl.missing, [off |-> g.dl.expectedOffset, n |-> m.off - g.dl.expectedOffset])
                          ELSE g.dl.missing
<1>1. /\ g.dl \in Download /\ FileSize \in Nat /\ g.dl.missing \in Seq(Hole)
      /\ g.dl.expectedOffset \in Nat /\ g.dl.expectedOffset <= FileSize
  BY MemberTypes, DownloadTypes, FileAssumption
<1>2. PICK v : v = Write(g.dl, m)
  OBVIOUS
<1>3. v \in Download /\ v.bytesWritten = g.dl.bytesWritten + m.n
  <2>1. g.dl \in Download
    BY <1>1
  <2> QED BY <1>2, <2>1, WriteType
<1>4. PICK f \in [Blocks -> Name \X Blocks], k \in Nat : f = v.file /\ k = v.bytesWritten
  BY <1>3 DEF Download
<1>5. PICK e \in 0..FileSize : e = m.off + m.n
  BY <1>1 DEF IsData
<1>6. PICK s \in Seq(Hole) : s = IF m.off > g.dl.expectedOffset
                          THEN Append(g.dl.missing, [off |-> g.dl.expectedOffset, n |-> m.off - g.dl.expectedOffset])
                          ELSE g.dl.missing
  <2>1. CASE m.off > g.dl.expectedOffset
    <3>1. PICK l \in Nat : l = m.off - g.dl.expectedOffset /\ l > 0 /\ l <= FileSize + 1
      <4>1. PICK a \in Nat, b \in Nat, c \in Nat : a = m.off /\ b = g.dl.expectedOffset /\ c = m.n
        BY <1>1 DEF IsData
      <4>2. a > b /\ a + c <= FileSize /\ FileSize \in Nat
        BY <1>1, <2>1, <4>1 DEF IsData
      <4>3. a - b \in Nat /\ a - b > 0 /\ a - b <= FileSize + 1
        BY <4>2
      <4> QED BY <4>1, <4>3
    <3>2. PICK h \in Hole : h = [off |-> g.dl.expectedOffset, n |-> l]
      <4>1. PICK b \in Nat : b = g.dl.expectedOffset /\ b <= FileSize
        BY <1>1
      <4>2. [off |-> b, n |-> l] \in Hole
        BY <3>1, <4>1, NewHole
      <4> QED BY <4>1, <4>2
    <3>3. Append(g.dl.missing, h) \in Seq(Hole)
      BY <1>1, AppendProperties
    <3> QED BY <2>1, <3>1, <3>2, <3>3
  <2>2. CASE ~(m.off > g.dl.expectedOffset)
    BY <1>1, <2>2
  <2> QED BY <2>1, <2>2
<1>7. w = [g.dl EXCEPT !.missing = s, !.file = f, !.bytesWritten = k, !.expectedOffset = e]
  BY <1>2, <1>4, <1>5, <1>6 DEF BurstDataWritten
<1>8. w \in Download
  BY <1>1, <1>4, <1>5, <1>6, <1>7, ZenonT(40) DEF Download
<1>9. /\ w.name = g.dl.name /\ w.active = g.dl.active /\ w.reopens = g.dl.reopens /\ w.open = g.dl.open
      /\ w.resume = g.dl.resume /\ w.expectedOffset = e /\ w.bytesWritten = k /\ w.file = f /\ w.missing = s
  BY <1>1, <1>4, <1>5, <1>6, <1>7 DEF Download
<1> QED BY <1>2, <1>3, <1>4, <1>5, <1>6, <1>8, <1>9

LEMMA LateBurstDataSound ==
    ASSUME NEW fit, Ready(fit), NEW m \in Answer, m.req = "burst", LateBurstData(m)
    PROVE  \E y : Becomes(y) /\ Sound(y, started, fit)
<1>1. g.at = "burst" /\ IsData(m)
  BY AnswerTypes DEF LateBurstData
<1>2. g \in Members /\ g.dl \in Download /\ Sound(g, started, fit) /\ Ongoing(g, started, fit) /\ g.at \in Stages(g.op)
  BY <1>1, ReadyFacts, MemberTypes DEF Ready
<1>3. CASE \E j \in DOMAIN g.dl.missing : Holds(g.dl.missing[j], m)
  <2>1. PICK d : d = LateDataWritten(m)
    OBVIOUS
  <2>2. /\ d \in Download /\ d.name = g.dl.name /\ d.active = g.dl.active /\ d.reopens = g.dl.reopens
        /\ d.expectedOffset = g.dl.expectedOffset /\ d.bytesWritten = g.dl.bytesWritten + m.n
        /\ d.file = Write(g.dl, m).file /\ d.missing = _claimMissingRange(g.dl.missing, m)
    <3>1. g.dl \in Download /\ IsData(m)
      BY <1>1, <1>2
    <3> QED BY <1>3, <2>1, <3>1, LateDataType
  <2>3. PICK y : y = [g EXCEPT !.dl = d]
    OBVIOUS
  <2>4. Kept(d, d.expectedOffset)
    <3>1. PICK f : f = g.dl.expectedOffset
      OBVIOUS
    <3>2. Kept(g.dl, f)
      BY <1>1, <3>1, ReadyKeeps
    <3>3. Kept(d, f)
      BY <1>1, <1>2, <1>3, <2>2, <3>2, KeptClaimed
    <3> QED BY <2>2, <3>1, <3>3
  <2>6. Accounted(d, fit)
    BY <2>4, KeptAccounted
  <2>7. Ongoing(y, started, fit) /\ y.dl = d /\ y.at = g.at /\ y.op = g.op
    BY <1>2, <2>2, <2>3, <2>6, StaysWith
  <2>8. Pursues(y)
    BY <1>1, <2>4, <2>7 DEF Pursues
  <2>9. Sound(y, started, fit)
    BY <1>1, <1>2, <2>7, <2>8, Settles
  <2>5. Becomes(y)
    BY <1>3, <2>1, <2>3 DEF LateBurstData
  <2> QED BY <2>5, <2>9
<1>4. CASE ~\E j \in DOMAIN g.dl.missing : Holds(g.dl.missing[j], m)
  BY <1>2, <1>4 DEF LateBurstData
<1> QED BY <1>3, <1>4

LEMMA BurstDataSound ==
    ASSUME NEW fit, Ready(fit), NEW m \in Answer, m.req = "burst", BurstData(m)
    PROVE  \E y : Becomes(y) /\ Sound(y, started, fit)
<1>1. g.at = "burst" /\ IsData(m) /\ m.off >= g.dl.expectedOffset /\ m.seq \in Seqs
  BY AnswerTypes DEF BurstData
<1>2. /\ g \in Members /\ g.op = "download" /\ Ongoing(g, started, fit) /\ g.at \in Stages(g.op)
      /\ linkUp \in BOOLEAN /\ bound \in Nat \X Nat /\ g.dl \in Download
  BY <1>1, ReadyFacts, OperationOf, MemberTypes
<1>3. PICK d : d = BurstDataWritten(m)
  OBVIOUS
<1>4. d \in Download /\ d.name = g.dl.name /\ d.active = g.dl.active /\ d.reopens = g.dl.reopens
  BY <1>1, <1>2, <1>3, BurstDataType
<1>9. Kept(d, d.expectedOffset)
  <2>1. PICK f : f = g.dl.expectedOffset
    OBVIOUS
  <2>2. Kept(g.dl, f) /\ m.off >= f
    BY <1>1, <2>1, ReadyKeeps
  <2>3. /\ d.expectedOffset = m.off + m.n /\ d.bytesWritten = g.dl.bytesWritten + m.n
        /\ d.file = Write(g.dl, m).file
        /\ d.missing = IF m.off > f THEN Append(g.dl.missing, [off |-> f, n |-> m.off - f]) ELSE g.dl.missing
    BY <1>1, <1>2, <1>3, <2>1, BurstDataType
  <2>4. Kept(d, m.off + m.n)
    BY <1>1, <1>2, <2>2, <2>3, KeptAhead
  <2> QED BY <2>3, <2>4
<1>10. Accounted(d, fit)
  BY <1>9, KeptAccounted
<1>5. PICK x : x = [g EXCEPT !.dl = d]
  OBVIOUS
<1>6. Ongoing(x, started, fit) /\ x \in Members /\ x.at = g.at /\ x.op = g.op /\ x.dl = d
  BY <1>2, <1>4, <1>5, <1>10, StaysWith
<1>7. CASE m.last
  <2>1. PICK n \in ChunkSizes : Becomes(_burstReadFileBegin([x EXCEPT !.expected = m.seq], n))
    BY <1>3, <1>5, <1>7 DEF BurstData
  <2>2. PICK z : z = [x EXCEPT !.expected = m.seq]
    OBVIOUS
  <2>3. z \in Members /\ Tags(z) = Tags(x) /\ z.op = x.op /\ z.dl = d
    BY <1>1, <1>6, <2>2, SetExpected
  <2>4. Ongoing(z, started, fit)
    BY <1>6, <2>3, StaysOngoing
  <2>6. Kept(z.dl, z.dl.expectedOffset)
    BY <1>9, <2>3
  <2>5. Sound(_burstReadFileBegin(z, n), started, fit)
    BY <1>2, <1>6, <2>3, <2>4, <2>6, BurstBegins
  <2> QED BY <2>1, <2>2, <2>5
<1>8. CASE ~m.last
  <2>1. PICK e \in Seqs : e = Plus(m.seq, 1)
    <3>1. PICK s \in Seqs : s = m.seq
      BY <1>1
    <3>2. s \in Int
      BY SeqsType
    <3>3. Plus(s, 1) \in Seqs
      BY <3>2, PlusType
    <3> QED BY <3>1, <3>3
  <2>2. PICK z : z = [x EXCEPT !.expected = e]
    OBVIOUS
  <2>3. z \in Members /\ Tags(z) = Tags(x) /\ z.at = x.at /\ z.op = x.op /\ z.dl = d
    BY <1>6, <2>2, SetExpected
  <2>4. Ongoing(z, started, fit)
    BY <1>6, <2>3, StaysOngoing
  <2>6. Pursues(z)
    BY <1>1, <1>6, <1>9, <2>3 DEF Pursues
  <2>7. Sound(z, started, fit)
    BY <1>1, <1>2, <1>6, <2>3, <2>4, <2>6, Settles
  <2>5. Becomes(z)
    BY <1>3, <1>5, <1>8, <2>1, <2>2 DEF BurstData
  <2> QED BY <2>5, <2>7
<1> QED BY <1>7, <1>8

LEMMA BurstEndsSound ==
    ASSUME NEW fit, Ready(fit), NEW m \in Answer, BurstEnds(m)
    PROVE  \E y : Becomes(y) /\ Sound(y, started, fit)
<1>1. g.at = "burst" /\ m.seq \in Seqs
  BY AnswerTypes DEF BurstEnds
<1>2. /\ g \in Members /\ g.op = "download" /\ Ongoing(g, started, fit) /\ linkUp \in BOOLEAN /\ bound \in Nat \X Nat
      /\ Ongoing(Unstarted, started, fit) /\ Unstarted.op = g.op /\ faults' \in Nat /\ Len(started) \in Nat
  BY <1>1, ReadyFacts, OperationOf
<1>3. PICK n \in ChunkSizes :
        Becomes(IF InSequence(m) THEN _fillMissingBlocksBegin(Unstarted, n)
                ELSE _burstReadFileBegin([g EXCEPT !.expected = m.seq], n))
  BY DEF BurstEnds
<1>4. Sound(_fillMissingBlocksBegin(Unstarted, n), started, fit)
  BY <1>2, FillBegins
<1>5. PICK z : z = [g EXCEPT !.expected = m.seq]
  OBVIOUS
<1>6. z \in Members /\ Tags(z) = Tags(g) /\ z.op = g.op /\ z.dl = g.dl
  BY <1>1, <1>2, <1>5, SetExpected
<1>7. Sound(_burstReadFileBegin(z, n), started, fit)
  <2>1. Ongoing(z, started, fit)
    BY <1>2, <1>6, StaysOngoing
  <2>2. Kept(z.dl, z.dl.expectedOffset)
    BY <1>1, <1>6, ReadyKeeps
  <2> QED BY <1>2, <1>6, <2>1, <2>2, BurstBegins
<1> QED BY <1>3, <1>4, <1>5, <1>7

LEMMA BurstAckOrNakSound ==
    ASSUME NEW fit, Ready(fit), NEW m \in Answer, g.at = "burst" => m.req = "burst", _burstReadFileAckOrNak(m)
    PROVE  \E y : Becomes(y) /\ Sound(y, started, fit)
<1>1. g.at = "burst" /\ m.req = "burst"
  BY DEF _burstReadFileAckOrNak, LateBurstData, BurstData, BurstEnds
<1>2. CASE LateBurstData(m)
  BY <1>1, <1>2, LateBurstDataSound
<1>3. CASE BurstData(m)
  BY <1>1, <1>3, BurstDataSound
<1>4. CASE BurstEnds(m)
  BY <1>4, BurstEndsSound
<1>5. CASE _downloadSessionLost
  BY <1>1, <1>5, SessionLostSound
<1>6. CASE Becomes(_downloadComplete(g, FALSE))
  BY <1>1, <1>6, FailsDownload
<1> QED BY <1>2, <1>3, <1>4, <1>5, <1>6 DEF _burstReadFileAckOrNak

LEMMA FillDataType ==
    ASSUME g.dl \in Download, NEW m, IsData(m), g.dl.missing # <<>>, m.off = Head(g.dl.missing).off,
           NEW w, w = FillDataWritten(m)
    PROVE  /\ w \in Download /\ w.name = g.dl.name /\ w.active = g.dl.active /\ w.reopens = g.dl.reopens
           /\ w.open = g.dl.open /\ w.resume = g.dl.resume /\ w.expectedOffset = g.dl.expectedOffset
           /\ w.bytesWritten = g.dl.bytesWritten + m.n /\ w.file = Write(g.dl, m).file
           /\ w.missing = HoleAfter(g.dl.missing, m.n)
<1>1. PICK v : v = Write(g.dl, m)
  OBVIOUS
<1>2. /\ v \in Download /\ v.name = g.dl.name /\ v.active = g.dl.active /\ v.reopens = g.dl.reopens
      /\ v.open = g.dl.open /\ v.missing = g.dl.missing /\ v.expectedOffset = g.dl.expectedOffset
      /\ v.bytesWritten = g.dl.bytesWritten + m.n /\ v.resume = g.dl.resume
  BY <1>1, WriteType
<1>3. g.dl.missing \in Seq(Hole)
  BY DEF Download
<1>4. PICK c \in Seq(Hole) : c = HoleAfter(g.dl.missing, m.n)
  <2>1. m.n \in Nat /\ m.n > 0 /\ Head(g.dl.missing).off + m.n <= FileSize
    BY DEF IsData
  <2>2. HoleAfter(g.dl.missing, m.n) \in Seq(Hole)
    BY <1>3, <2>1, HoleAfterType
  <2> QED BY <2>2
<1>5. w = [v EXCEPT !.missing = c]
  BY <1>1, <1>2, <1>4 DEF FillDataWritten
<1> QED BY <1>1, <1>2, <1>4, <1>5, ZenonT(40) DEF Download

LEMMA FillDataSound ==
    ASSUME NEW fit, Ready(fit), NEW m \in Answer, m.req = "read", FillData(m), fit => m.n <= Head(g.dl.missing).n
    PROVE  \E y : Becomes(y) /\ Sound(y, started, fit)
<1>1. g.at = "fill" /\ IsData(m) /\ m.off = g.dl.expectedOffset
  BY AnswerTypes DEF FillData
<1>2. /\ g \in Members /\ Sound(g, started, fit) /\ g.op = "download" /\ Ongoing(g, started, fit)
      /\ linkUp \in BOOLEAN /\ bound \in Nat \X Nat /\ g.dl \in Download
      /\ faults' \in Nat /\ Len(started) \in Nat
  BY <1>1, ReadyFacts, OperationOf, MemberTypes DEF Ready
<1>3. g.dl.missing # <<>> /\ m.off = Head(g.dl.missing).off
  BY <1>1, <1>2 DEF Sound, Staged
<1>4. PICK d : d = FillDataWritten(m)
  OBVIOUS
<1>5. /\ d \in Download /\ d.name = g.dl.name /\ d.active = g.dl.active /\ d.reopens = g.dl.reopens
      /\ d.open = g.dl.open /\ d.bytesWritten = g.dl.bytesWritten + m.n /\ d.file = Write(g.dl, m).file
      /\ d.missing = HoleAfter(g.dl.missing, m.n)
  <2>1. g.dl \in Download /\ IsData(m)
    BY <1>1, <1>2
  <2> QED BY <1>3, <1>4, <2>1, FillDataType
<1>11. ASSUME fit, d.open PROVE \E f \in 0..FileSize : Kept(d, f)
  <2>1. Accounted(g.dl, fit) /\ g.dl.open
    BY <1>1, <1>5, <1>11, ReadyKeeps
  <2>2. PICK f \in 0..FileSize : Kept(g.dl, f)
    BY <1>11, <2>1 DEF Accounted
  <2>3. g.dl \in Download /\ IsData(m) /\ m.n <= Head(g.dl.missing).n
    BY <1>1, <1>2, <1>11
  <2>4. Kept(d, f)
    BY <1>3, <1>5, <2>2, <2>3, KeptFilled
  <2> QED BY <2>4
<1>12. Accounted(d, fit)
  BY <1>11 DEF Accounted
<1>6. PICK x : x = [g EXCEPT !.dl = d]
  OBVIOUS
<1>8. Ongoing(x, started, fit) /\ x.op = g.op
  BY <1>2, <1>5, <1>6, <1>12, StaysWith
<1>9. PICK n \in ChunkSizes : Becomes(_fillMissingBlocksBegin(x, n))
  BY <1>4, <1>6 DEF FillData
<1>10. Sound(_fillMissingBlocksBegin(x, n), started, fit)
  BY <1>2, <1>8, FillBegins
<1> QED BY <1>9, <1>10

LEMMA RefillSound ==
    ASSUME NEW fit, Ready(fit), g.at = "fill", Refill
    PROVE  \E y : Becomes(y) /\ Sound(y, started, fit)
<1>1. /\ g.op = "download" /\ Ongoing(g, started, fit) /\ linkUp \in BOOLEAN /\ bound \in Nat \X Nat
      /\ faults' \in Nat /\ Len(started) \in Nat
  BY ReadyFacts, OperationOf
<1>2. g.dl.missing # <<>>
  BY DEF Ready, Sound, Staged
<1>3. PICK n \in ChunkSizes : Becomes(_fillMissingBlocksTimeout(g, n))
  BY DEF Refill, _fillMissingBlocksTimeout
<1>4. Sound(_fillMissingBlocksTimeout(g, n), started, fit)
  BY <1>1, <1>2, FillTimesOut
<1> QED BY <1>3, <1>4

LEMMA FillAckOrNakSound ==
    ASSUME NEW fit, Ready(fit), NEW m \in Answer, g.at = "fill" => m.req = "read", _fillMissingBlocksAckOrNak(m),
           fit /\ FillData(m) => m.n <= Head(g.dl.missing).n
    PROVE  \E y : Becomes(y) /\ Sound(y, started, fit)
<1>1. g.at = "fill" /\ m.req = "read"
  BY DEF _fillMissingBlocksAckOrNak, FillData
<1>2. CASE FillData(m)
  BY <1>1, <1>2, FillDataSound
<1>3. CASE Refill
  BY <1>1, <1>3, RefillSound
<1>4. CASE _downloadSessionLost
  BY <1>1, <1>4, SessionLostSound
<1>5. CASE Becomes(IF m.err = "eof" /\ Complete(g.dl) THEN ClosingBegin(g) ELSE _downloadComplete(g, FALSE))
  <2>1. g.op = "download" /\ Ongoing(g, started, fit) /\ linkUp \in BOOLEAN /\ bound \in Nat \X Nat
    BY <1>1, ReadyFacts, OperationOf
  <2>2. Sound(ClosingBegin(g), started, fit)
    BY <2>1, ClosingBegins
  <2>3. Sound(_downloadComplete(g, FALSE), started, fit)
    BY <1>1, FailsDownload
  <2> QED BY <1>5, <2>2, <2>3
<1> QED BY <1>2, <1>3, <1>4, <1>5 DEF _fillMissingBlocksAckOrNak

LEMMA ResetAckOrNakSound ==
    ASSUME NEW fit, Ready(fit), NEW m, _resetSessionsAckOrNak(m)
    PROVE  \E y : Becomes(y) /\ Sound(y, started, fit)
<1>1. /\ g.at = "reset"
      /\ Becomes(IF ~m.ok THEN ClosingUnanswered(g)
                 ELSE IF g.op = "upload" THEN _uploadComplete(g, TRUE)
                 ELSE _downloadComplete(g, TRUE))
  BY DEF _resetSessionsAckOrNak
<1>2. /\ g.op \in {"download", "upload"} /\ Ongoing(g, started, fit) /\ bound \in Nat \X Nat /\ g \in Members
      /\ faults' \in Nat /\ Len(started) \in Nat
      /\ ~g.misclosed => OneAtATime(g, started)
  BY <1>1, ReadyFacts, OperationOf
<1>3. Sound(ClosingUnanswered(g), started, fit)
  BY <1>2, ClosesUnanswered
<1>0. Accounted(g.dl, fit)
  BY <1>1, ReadyKeeps
<1>4. ASSUME g.op = "upload" PROVE Sound(_uploadComplete(g, TRUE), started, fit)
  BY <1>0, <1>2, <1>4, UploadCompletes
<1>5. ASSUME g.op = "download" PROVE Sound(_downloadComplete(g, TRUE), started, fit)
  BY <1>2, <1>5, DownloadCompletes
<1>6. CASE ~m.ok
  BY <1>1, <1>3, <1>6
<1>7. CASE m.ok /\ g.op = "upload"
  BY <1>1, <1>4, <1>7
<1>8. CASE m.ok /\ g.op = "download"
  BY <1>1, <1>5, <1>8
<1> QED BY <1>2, <1>6, <1>7, <1>8

LEMMA FailsUpload ==
    ASSUME NEW fit, Ready(fit), g.at \in {"create", "write", "terminate"}
    PROVE  Sound(_uploadComplete(g, FALSE), started, fit)
<1>1. g.at # "idle"
  OBVIOUS
<1>2. /\ g \in Members /\ g.op \in {"upload", "terminate"} /\ faults' \in Nat /\ Len(started) \in Nat
      /\ bound \in Nat \X Nat /\ (~g.misclosed => OneAtATime(g, started))
  BY <1>1, ReadyFacts, OperationOf
<1>3. Accounted(g.dl, fit)
  BY <1>1, ReadyKeeps
<1> QED BY <1>2, <1>3, UploadCompletes

LEMMA CreateAckOrNakSound ==
    ASSUME NEW fit, Ready(fit), NEW m \in Answer, _createFileAckOrNak(m)
    PROVE  \E y : Becomes(y) /\ Sound(y, started, fit)
<1>1. g.at = "create"
  BY DEF _createFileAckOrNak
<1>2. /\ g.op = "upload" /\ Ongoing(g, started, fit) /\ linkUp \in BOOLEAN /\ bound \in Nat \X Nat
      /\ g \in Members /\ g.ul \in Upload /\ m.session \in Nat
  BY <1>1, ReadyFacts, OperationOf, AnswerTypes, MemberTypes
<1>3. PICK u : u = [g.ul EXCEPT !.session = m.session]
  OBVIOUS
<1>4. u \in Upload /\ u.name = g.ul.name /\ u.open = g.ul.open
  BY <1>2, <1>3 DEF Upload
<1>5. PICK x : x = [g EXCEPT !.ul = u]
  OBVIOUS
<1>6. x \in Members /\ Tags(x) = Tags(g) /\ x.op = g.op
  BY <1>2, <1>4, <1>5, SetUpload
<1>7. Ongoing(x, started, fit)
  BY <1>2, <1>6, StaysOngoing
<1>8. Sound(_writeFileBegin(x), started, fit)
  BY <1>2, <1>6, <1>7, WriteBegins
<1>9. x = [g EXCEPT !.ul.session = m.session]
  BY <1>3, <1>5
<1>10. Becomes(IF m.ok THEN _writeFileBegin(x) ELSE _uploadComplete(g, FALSE))
  BY <1>9 DEF _createFileAckOrNak
<1>11. Sound(_uploadComplete(g, FALSE), started, fit)
  BY <1>1, FailsUpload
<1> QED BY <1>8, <1>10, <1>11

LEMMA UnstartedSound ==
    ASSUME NEW fit, Ready(fit), g.at # "idle"
    PROVE  Sound(Unstarted, started, fit)
<1>1. PICK u : u = Unstarted
  OBVIOUS
<1>2. g \in Members /\ u = [g EXCEPT !.timer = FALSE]
  BY <1>1 DEF Ready, Sound, Unstarted
<1>3. u \in Members /\ Tags(u) = Tags(g) /\ u.at = g.at /\ u.op = g.op /\ u.dl = g.dl /\ u.ul = g.ul
      /\ u.timer = FALSE
  BY <1>2, TimerStopped
<1>4. Ongoing(u, started, fit) /\ u.at \in Stages(u.op) /\ Pursues(u)
  BY <1>1, ReadyFacts, ReadyKeeps
<1>5. /\ u.at = "fill" => u.dl.missing # <<>> /\ u.dl.expectedOffset = Head(u.dl.missing).off
      /\ u.at = "write" => u.ul.sent < u.ul.size
  BY <1>3 DEF Ready, Sound, Staged
<1> QED BY <1>1, <1>4, <1>5, Settles

LEMMA WriteAckOrNakSound ==
    ASSUME NEW fit, Ready(fit), NEW m \in Answer, _writeFileAckOrNak(m)
    PROVE  \E y : Becomes(y) /\ Sound(y, started, fit)
<1>1. g.at = "write"
  BY DEF _writeFileAckOrNak
<1>2. /\ g.op = "upload" /\ linkUp \in BOOLEAN /\ bound \in Nat \X Nat
      /\ Ongoing(Unstarted, started, fit) /\ Unstarted \in Members /\ Unstarted.ul = g.ul /\ Unstarted.op = g.op
      /\ g \in Members /\ m.seq \in Seqs
  BY <1>1, ReadyFacts, OperationOf, AnswerTypes
<1>3. PICK s \in 0..FileSize : s = g.ul.sent + 1
  <2>1. g.ul.sent < g.ul.size
    BY <1>1 DEF Ready, Sound, Staged
  <2>2. g.ul.sent \in Nat /\ g.ul.size \in {0, FileSize} /\ FileSize \in Nat
    BY <1>2, UploadTypes
  <2> QED BY <2>1, <2>2
<1>4. PICK u : u = [g.ul EXCEPT !.sent = s]
  OBVIOUS
<1>5. u \in Upload /\ u.name = g.ul.name /\ u.open = g.ul.open
  <2>1. g.ul \in Upload
    BY <1>2, MemberTypes
  <2> QED BY <1>4, <2>1 DEF Upload
<1>6. PICK v : v = Unstarted
  OBVIOUS
<1>7. PICK x : x = [v EXCEPT !.ul = u]
  OBVIOUS
<1>8. x \in Members /\ Tags(x) = Tags(v) /\ x.op = v.op
  BY <1>2, <1>5, <1>6, <1>7, SetUpload
<1>9. PICK z : z = [x EXCEPT !.expected = m.seq]
  OBVIOUS
<1>10. z \in Members /\ Tags(z) = Tags(x) /\ z.op = x.op
  BY <1>2, <1>8, <1>9, SetExpected
<1>11. Ongoing(z, started, fit) /\ z.op = "upload"
  BY <1>2, <1>6, <1>8, <1>10, StaysOngoing
<1>12. Sound(_writeFileBegin(z), started, fit)
  BY <1>2, <1>11, WriteBegins
<1>13. z = [Unstarted EXCEPT !.ul.sent = @ + 1, !.expected = m.seq]
  BY <1>2, <1>3, <1>4, <1>6, <1>7, <1>9
<1>14. Becomes(IF ~m.ok THEN _uploadComplete(g, FALSE)
               ELSE IF m.seq < g.expected THEN Unstarted ELSE _writeFileBegin(z))
  BY <1>13 DEF _writeFileAckOrNak
<1>15. Sound(_uploadComplete(g, FALSE), started, fit) /\ Sound(Unstarted, started, fit)
  BY <1>1, FailsUpload, UnstartedSound
<1> QED BY <1>12, <1>14, <1>15

LEMMA TerminateAckOrNakSound ==
    ASSUME NEW fit, Ready(fit), NEW m, _terminateUploadSessionAckOrNak(m)
    PROVE  \E y : Becomes(y) /\ Sound(y, started, fit)
BY FailsUpload DEF _terminateUploadSessionAckOrNak

LEMMA DeleteAckOrNakSound ==
    ASSUME NEW fit, Ready(fit), NEW m \in Answer, _deleteFileAckOrNak(m)
    PROVE  \E y : Becomes(y) /\ Sound(y, started, fit)
<1>1. g.at = "remove" /\ Becomes(_deleteComplete(g, m.ok)) /\ m.ok \in BOOLEAN
  BY AnswerTypes DEF _deleteFileAckOrNak
<1>3. /\ g \in Members /\ g.op = "delete" /\ faults' \in Nat /\ Len(started) \in Nat
      /\ bound \in Nat \X Nat /\ (~g.misclosed => OneAtATime(g, started))
  BY <1>1, ReadyFacts, OperationOf
<1>4. Accounted(g.dl, fit)
  BY <1>1, ReadyKeeps
<1>2. Sound(_deleteComplete(g, m.ok), started, fit)
  BY <1>1, <1>3, <1>4, DeleteCompletes
<1> QED BY <1>1, <1>2

LEMMA SupportedType ==
    ASSUME NEW x \in Members, NEW z, z = Supported(x)
    PROVE  z \in Members /\ Tags(z) = Tags(x) /\ z.at = x.at /\ z.op = x.op /\ z.ls = x.ls
<1>1. CASE z = x
  BY <1>1
<1>2. CASE z = [x EXCEPT !.withTime = "supported"]
  BY <1>2 DEF Members, Tags
<1> QED BY <1>1, <1>2 DEF Supported

LEMMA ListingTypes ==
    ASSUME NEW x \in Members
    PROVE  /\ x.ls \in Listing /\ x.ls.name \in Name /\ x.ls.offset \in Nat /\ x.ls.entries \in Seq(Nat)
           /\ x.ls.withTime \in BOOLEAN
BY MemberTypes DEF Listing

LEMMA ListDataSound ==
    ASSUME NEW fit, Ready(fit), NEW m \in Answer, ListData(m)
    PROVE  \E y : Becomes(y) /\ Sound(y, started, fit)
<1>1. g.at = "list" /\ m.off \in Nat /\ m.seq \in Seqs
  BY AnswerTypes DEF ListData
<1>2. /\ g.op = "list" /\ Ongoing(g, started, fit) /\ g \in Members /\ linkUp \in BOOLEAN /\ bound \in Nat \X Nat
      /\ Sound(Unstarted, started, fit)
  BY <1>1, ReadyFacts, OperationOf, UnstartedSound
<1>3. PICK v : v = Supported(g)
  OBVIOUS
<1>4. v \in Members /\ Tags(v) = Tags(g) /\ v.op = g.op /\ v.ls = g.ls
  BY <1>2, <1>3, SupportedType
<1>5. PICK e \in Seq(Nat), o \in Nat : e = Append(g.ls.entries, m.off) /\ o = g.ls.offset + 1
  <2>1. g.ls.entries \in Seq(Nat) /\ g.ls.offset \in Nat
    BY <1>2, ListingTypes
  <2>2. Append(g.ls.entries, m.off) \in Seq(Nat)
    BY <1>1, <2>1, AppendProperties
  <2>3. g.ls.offset + 1 \in Nat
    BY <2>1
  <2> QED BY <2>2, <2>3
<1>6. PICK l1, l2 : l1 = [g.ls EXCEPT !.entries = e] /\ l2 = [l1 EXCEPT !.offset = o]
  OBVIOUS
<1>7. l1 \in Listing /\ l1.name = g.ls.name /\ l2 \in Listing /\ l2.name = g.ls.name /\ l1.offset = g.ls.offset
  <2>1. g.ls \in Listing
    BY <1>2, MemberTypes
  <2> QED BY <1>5, <1>6, <2>1 DEF Listing
<1>8. PICK x1 : x1 = [v EXCEPT !.ls = l1]
  OBVIOUS
<1>9. x1 \in Members /\ Tags(x1) = Tags(v) /\ x1.op = v.op /\ x1.ls = l1
  BY <1>4, <1>7, <1>8, SetListing
<1>10. PICK x2 : x2 = [x1 EXCEPT !.ls = l2]
  OBVIOUS
<1>11. x2 \in Members /\ Tags(x2) = Tags(x1) /\ x2.op = x1.op
  BY <1>7, <1>9, <1>10, SetListing
<1>12. PICK z : z = [x2 EXCEPT !.expected = m.seq]
  OBVIOUS
<1>13. z \in Members /\ Tags(z) = Tags(x2) /\ z.op = x2.op
  BY <1>1, <1>11, <1>12, SetExpected
<1>14. Sound(_listDirectoryBegin(z), started, fit)
  <2>1. Ongoing(z, started, fit) /\ z.op = "list"
    BY <1>2, <1>4, <1>9, <1>11, <1>13, StaysOngoing
  <2> QED BY <1>2, <2>1, ListBegins
<1>15. z = [Supported(g) EXCEPT !.ls.entries = Append(@, m.off), !.ls.offset = @ + 1, !.expected = m.seq]
  <2>1. x1 = [v EXCEPT !.ls.entries = Append(v.ls.entries, m.off)]
    BY <1>4, <1>5, <1>6, <1>8
  <2>2. x2 = [x1 EXCEPT !.ls.offset = v.ls.offset + 1]
    BY <1>4, <1>5, <1>6, <1>9, <1>10
  <2>3. z = [[x1 EXCEPT !.ls.offset = v.ls.offset + 1] EXCEPT !.expected = m.seq]
    BY <1>12, <2>2
  <2> QED BY <1>3, <2>1, <2>3
<1>16. Becomes(IF m.seq < g.expected THEN Unstarted ELSE _listDirectoryBegin(z))
  BY <1>15 DEF ListData
<1> QED BY <1>2, <1>14, <1>16

LEMMA ListFails ==
    ASSUME NEW fit, Ready(fit), g.at = "list"
    PROVE  Sound(_listDirectoryComplete(g, FALSE), started, fit)
<1>1. g.at # "idle"
  OBVIOUS
<1>2. /\ g \in Members /\ g.op = "list" /\ faults' \in Nat /\ Len(started) \in Nat
      /\ bound \in Nat \X Nat /\ (~g.misclosed => OneAtATime(g, started))
  BY <1>1, ReadyFacts, OperationOf
<1>3. Accounted(g.dl, fit)
  BY <1>1, ReadyKeeps
<1> QED BY <1>2, <1>3, ListCompletes

LEMMA ListEndsSound ==
    ASSUME NEW fit, Ready(fit), NEW m, ListEnds(m)
    PROVE  \E y : Becomes(y) /\ Sound(y, started, fit)
<1>1. g.at = "list" /\ Becomes(IF InSequence(m) THEN _listDirectoryComplete(Supported(g), TRUE) ELSE g)
  BY DEF ListEnds
<1>2. /\ g.op = "list" /\ Ongoing(g, started, fit) /\ g \in Members /\ faults' \in Nat /\ Len(started) \in Nat
      /\ bound \in Nat \X Nat /\ Sound(g, started, fit)
  BY <1>1, ReadyFacts, OperationOf DEF Ready
<1>3. PICK v : v = Supported(g)
  OBVIOUS
<1>4. v \in Members /\ Tags(v) = Tags(g) /\ v.op = g.op
  BY <1>2, <1>3, SupportedType
<1>5. Ongoing(v, started, fit)
  BY <1>2, <1>4, StaysOngoing
<1>6. Accounted(v.dl, fit) /\ (~v.misclosed => OneAtATime(v, started) /\ v.op = "list")
  BY <1>2, <1>4, <1>5 DEF Ongoing
<1>7. Sound(_listDirectoryComplete(v, TRUE), started, fit)
  BY <1>2, <1>4, <1>6, ListCompletes
<1> QED BY <1>1, <1>2, <1>3, <1>7

LEMMA WithTimeUnsupportedSound ==
    ASSUME NEW fit, Ready(fit), NEW m \in Answer, WithTimeUnsupported(m)
    PROVE  \E y : Becomes(y) /\ Sound(y, started, fit)
<1>1. g.at = "list" /\ m.seq \in Seqs
  BY AnswerTypes DEF WithTimeUnsupported
<1>2. g.op = "list" /\ Ongoing(g, started, fit) /\ g \in Members /\ linkUp \in BOOLEAN /\ bound \in Nat \X Nat
  BY <1>1, ReadyFacts, OperationOf
<1>3. PICK l : l = [NoList EXCEPT !.name = g.ls.name]
  OBVIOUS
<1>4. l \in Listing /\ l.name = g.ls.name
  <2>1. g.ls.name \in Name
    BY <1>2, ListingTypes
  <2>2. PICK k \in Name : k = g.ls.name
    BY <2>1
  <2>3. PICK r \in 0..MaxRetry : r = 0
    BY LimitAssumption
  <2>4. PICK q \in Seq(Nat) : q = <<>>
    BY EmptySeq
  <2>5. l = [name |-> k, offset |-> 0, entries |-> q, retry |-> r, withTime |-> FALSE]
    BY <1>3, <2>2, <2>3, <2>4 DEF NoList
  <2> QED BY <2>2, <2>5 DEF Listing
<1>5. PICK x1 : x1 = [g EXCEPT !.withTime = "unsupported"]
  OBVIOUS
<1>6. x1 \in Members /\ Tags(x1) = Tags(g) /\ x1.op = g.op /\ x1.ls = g.ls
  BY <1>2, <1>5 DEF Members, Tags
<1>7. PICK x2 : x2 = [x1 EXCEPT !.expected = m.seq]
  OBVIOUS
<1>8. x2 \in Members /\ Tags(x2) = Tags(x1) /\ x2.op = x1.op /\ x2.ls = x1.ls
  BY <1>1, <1>6, <1>7, SetExpected
<1>9. PICK z : z = [x2 EXCEPT !.ls = l]
  OBVIOUS
<1>10. Sound(_listDirectoryBegin(z), started, fit)
  <2>1. z \in Members /\ Tags(z) = Tags(x2) /\ z.op = x2.op
    BY <1>4, <1>6, <1>8, <1>9, SetListing
  <2>2. Ongoing(z, started, fit) /\ z.op = "list"
    BY <1>2, <1>6, <1>8, <2>1, StaysOngoing
  <2> QED BY <1>2, <2>2, ListBegins
<1>11. z = [g EXCEPT !.withTime = "unsupported", !.expected = m.seq, !.ls = [NoList EXCEPT !.name = g.ls.name]]
  BY <1>3, <1>5, <1>7, <1>9
<1>12. Becomes(IF g.ls.withTime THEN _listDirectoryBegin(z) ELSE _listDirectoryComplete(g, FALSE))
  BY <1>11 DEF WithTimeUnsupported
<1>13. Sound(_listDirectoryComplete(g, FALSE), started, fit)
  BY <1>1, ListFails
<1> QED BY <1>10, <1>12, <1>13

LEMMA ListAckOrNakSound ==
    ASSUME NEW fit, Ready(fit), NEW m \in Answer, _listDirectoryAckOrNak(m)
    PROVE  \E y : Becomes(y) /\ Sound(y, started, fit)
BY ListDataSound, ListEndsSound, WithTimeUnsupportedSound, ListFails DEF _listDirectoryAckOrNak

LEMMA AckNakSound ==
    ASSUME NEW fit, Ready(fit), NEW m \in Answer, Awaited(m), AckNak(m),
           fit /\ g.at = "fill" /\ m.ok /\ m.off = g.dl.expectedOffset => m.n <= Head(g.dl.missing).n
    PROVE  \E y : Becomes(y) /\ Sound(y, started, fit)
<1>1. /\ g.at = "burst" => m.req = "burst"
      /\ g.at = "fill" => m.req = "read"
  BY DEF Awaited, AwaitedRequest
<1>2. CASE _clearStaleSessionsAckOrNak(m)
  BY <1>2, ClearAcked
<1>3. CASE _openFileROAckOrNak(m)
  BY <1>3, OpenAckOrNakSound
<1>4. CASE _burstReadFileAckOrNak(m)
  BY <1>1, <1>4, BurstAckOrNakSound
<1>5. CASE _fillMissingBlocksAckOrNak(m)
  <2>1. fit /\ FillData(m) => m.n <= Head(g.dl.missing).n
    BY DEF FillData
  <2> QED BY <1>1, <1>5, <2>1, FillAckOrNakSound
<1>6. CASE _resetSessionsAckOrNak(m)
  BY <1>6, ResetAckOrNakSound
<1>7. CASE _createFileAckOrNak(m)
  BY <1>7, CreateAckOrNakSound
<1>8. CASE _writeFileAckOrNak(m)
  BY <1>8, WriteAckOrNakSound
<1>9. CASE _terminateUploadSessionAckOrNak(m)
  BY <1>9, TerminateAckOrNakSound
<1>10. CASE _deleteFileAckOrNak(m)
  BY <1>10, DeleteAckOrNakSound
<1>11. CASE _listDirectoryAckOrNak(m)
  BY <1>11, ListAckOrNakSound
<1> QED BY <1>2, <1>3, <1>4, <1>5, <1>6, <1>7, <1>8, <1>9, <1>10, <1>11 DEF AckNak

(***************************************************************************)
(* The steps that change the members.                                      *)

LEMMA SameTypes ==
    ASSUME bound' = bound
    PROVE  Members' = Members /\ Request' = Request /\ Answer' = Answer /\ Server' = Server /\ MaxOps' = MaxOps
           /\ MaxFaults' = MaxFaults
<1>1. MaxOps' = MaxOps /\ MaxFaults' = MaxFaults
  BY DEF MaxOps, MaxFaults
<1>2. Name' = Name
  BY <1>1 DEF Name
<1>3. Request' = Request /\ Answer' = Answer
  BY <1>2 DEF Request, Answer, OfRange
<1>4. Content' = Content
  BY <1>2 DEF Content
<1>5. Server' = Server
  BY <1>1, <1>2, <1>3, <1>4 DEF Server
<1>6. Download' = Download /\ Upload' = Upload /\ Listing' = Listing /\ Deletion' = Deletion /\ Notice' = Notice
  BY <1>2 DEF Download, Upload, Listing, Deletion, Notice
<1>7. Members' = Members
  BY <1>3, <1>6 DEF Members
<1> QED BY <1>1, <1>3, <1>5, <1>7

LEMMA Sent ==
    ASSUME NEW x \in Members, NEW z, z = [x EXCEPT !.out = <<>>]
    PROVE  z \in Members /\ z.out = <<>> /\ z.op = x.op /\ z.at = x.at /\ z.timer = x.timer /\ z.dl = x.dl
           /\ z.ul = x.ul /\ z.ls = x.ls /\ z.rm = x.rm /\ z.reports = x.reports /\ z.misclosed = x.misclosed
<1>1. PICK q \in Seq(Request) : q = <<>>
  BY EmptySeq
<1> QED BY <1>1 DEF Members

(* The invariant, and the account of the file for as long as answers fit.  *)
Stands(fit) == IInv /\ Accounted(g.dl, fit)

LEMMA MembersStep ==
    ASSUME NEW fit, IInv, NEW st \in Seq(Operation), started' = st, Len(st) <= MaxOps, NEW y, Becomes(y), Sound(y, st, fit),
           toGcs' \in Seq(Answer), srv' = srv, linkUp' = linkUp, bound' = bound,
           reordered' \in BOOLEAN, faults' \in 0..MaxFaults
    PROVE  Stands(fit)'
<1>1. PICK z : z = [y EXCEPT !.out = <<>>]
  OBVIOUS
<1>2. y \in Members /\ Staged(y) /\ Pursues(y) /\ Accounted(y.dl, fit) /\ (~y.misclosed => OneAtATime(y, st))
  BY DEF Sound
<1>3. z \in Members /\ z.out = <<>> /\ z.op = y.op /\ z.at = y.at /\ z.timer = y.timer /\ z.dl = y.dl
      /\ z.ul = y.ul /\ z.ls = y.ls /\ z.rm = y.rm /\ z.reports = y.reports /\ z.misclosed = y.misclosed
  BY <1>1, <1>2, Sent
<1>4. Staged(z)
  BY <1>2, <1>3 DEF Staged
<1>5. ~z.misclosed => OneAtATime(z, st)
  BY <1>2, <1>3 DEF OneAtATime
<1>6. g' = z
  BY <1>1 DEF Becomes
<1>7. toVehicle' \in Seq(Request)
  <2>1. toVehicle \in Seq(Request)
    BY DEF IInv, Typed
  <2>2. y.out \in Seq(Request)
    BY <1>2, MemberTypes
  <2>3. toVehicle \o y.out \in Seq(Request)
    BY <2>1, <2>2, ConcatProperties
  <2> QED BY <2>3 DEF Becomes
<1>8. srv \in Server /\ linkUp \in BOOLEAN /\ bound \in Nat \X Nat
  BY DEF IInv, Typed
<1>9. Members' = Members /\ Request' = Request /\ Answer' = Answer /\ Server' = Server /\ MaxOps' = MaxOps
      /\ MaxFaults' = MaxFaults
  BY SameTypes
<1>10. g' \in Members' /\ g'.out = <<>> /\ Staged(g)'
  BY <1>3, <1>4, <1>6, <1>9 DEF Staged
<1>11. (~g.misclosed => OneAtATime(g, started))'
  BY <1>5, <1>6 DEF OneAtATime
<1>13. Pursues(z) /\ Accounted(z.dl, fit)
  BY <1>2, <1>3 DEF Pursues
<1>14. Pursues(g)' /\ Accounted(g.dl, fit)'
  BY <1>6, <1>13 DEF Pursues
<1>12. Typed'
  BY <1>7, <1>8, <1>9, <1>10 DEF Typed
<1> QED BY <1>11, <1>12, <1>14 DEF IInv, Stands

LEMMA Spent ==
    ASSUME faults \in Nat, bound \in Nat \X Nat, NEW cost \in Nat, Spend(cost)
    PROVE  faults' \in 0..MaxFaults /\ faults' \in Nat
BY DEF Spend, MaxFaults

(* What holds of the members between two steps.                            *)
LEMMA Settled ==
    ASSUME IInv
    PROVE  /\ g \in Members /\ linkUp \in BOOLEAN /\ bound \in Nat \X Nat
           /\ started \in Seq(Operation) /\ Len(started) \in Nat /\ Len(started) <= MaxOps /\ faults \in Nat
           /\ faults \in 0..MaxFaults /\ toGcs \in Seq(Answer) /\ toVehicle \in Seq(Request) /\ srv \in Server
           /\ reordered \in BOOLEAN /\ (~g.misclosed => OneAtATime(g, started))
<1>1. started \in Seq(Operation) /\ bound \in Nat \X Nat /\ faults \in 0..MaxFaults
  BY DEF IInv, Typed
<1>2. Len(started) \in Nat
  BY <1>1, LenProperties
<1>3. MaxFaults \in Nat
  BY <1>1, Names
<1>4. faults \in Nat
  BY <1>1, <1>3
<1> QED BY <1>1, <1>2, <1>4 DEF IInv, Typed

LEMMA SettledSound ==
    ASSUME NEW fit, Stands(fit)
    PROVE  IInv /\ Accounted(g.dl, fit) /\ Sound(g, started, fit)
BY DEF Stands, IInv, Typed, Sound

(* An operation is added to those started, and its members say so.         *)
LEMMA Opens ==
    ASSUME IInv, g.op = "none", NEW kind \in Signal, NEW o \in Operation, o.kind = kind,
           NEW st, st = Append(started, o), NEW fit, NEW x \in Members, Accounted(x.dl, fit), x.misclosed = g.misclosed, x.reports = g.reports,
           ~g.misclosed => /\ x.dl.active <=> kind = "download"
                           /\ x.ul.open <=> kind = "upload"
                           /\ x.rm.name # 0 <=> kind = "delete",
           kind = "download" => x.dl.reopens = 0 /\ x.dl.name = NewName,
           kind = "upload" => x.ul.name = NewName, kind = "list" => x.ls.name = NewName,
           kind = "delete" => x.rm.name = NewName,
           NEW z, z = [x EXCEPT !.op = kind]
    PROVE  Ongoing(z, st, fit)
<1>1. /\ z \in Members /\ z.op = kind /\ z.dl = x.dl /\ z.ul = x.ul /\ z.ls = x.ls /\ z.rm = x.rm
      /\ z.reports = x.reports /\ z.misclosed = x.misclosed
  BY DEF Members, Signal
<1>2. started \in Seq(Operation) /\ Len(started) \in Nat /\ (~g.misclosed => OneAtATime(g, started))
  BY Settled
<1>3. /\ Len(st) = Len(started) + 1 /\ st[Len(st)] = o
      /\ \A i \in 1..Len(started) : st[i] = started[i]
  BY <1>2, AppendProperties
<1>4. kind # "none" /\ kind # "terminate"
  BY DEF Signal
<1>5. z.op = "download" => z.dl.reopens <= MaxReopens
  BY <1>1, LimitAssumption
<1>6. ASSUME ~z.misclosed PROVE OneAtATime(z, st)
  <2>1. OneAtATime(g, started) /\ Len(g.reports) = Len(started)
        /\ \A i \in 1..Len(g.reports) : g.reports[i].name = i /\ g.reports[i].sig = started[i].kind
    BY <1>1, <1>2, <1>6 DEF OneAtATime
  <2>2. z.dl.active <=> z.op = "download"
    BY <1>1, <1>6
  <2>3. z.ul.open <=> z.op \in {"upload", "terminate"}
    BY <1>1, <1>4, <1>6
  <2>4. z.rm.name # 0 <=> z.op = "delete"
    BY <1>1, <1>6
  <2>5. /\ z.op = "download" => z.dl.name = Len(st)
        /\ z.op \in {"upload", "terminate"} => z.ul.name = Len(st)
        /\ z.op = "list" => z.ls.name = Len(st)
        /\ z.op = "delete" => z.rm.name = Len(st)
    BY <1>1, <1>3, <1>4 DEF NewName
  <2>6. z.op # "none" => Len(st) > 0 /\ st[Len(st)].kind = IF z.op = "terminate" THEN "upload" ELSE z.op
    BY <1>1, <1>2, <1>3, <1>4
  <2>7. Len(z.reports) = IF z.op = "none" THEN Len(st) ELSE Len(st) - 1
    BY <1>1, <1>2, <1>3, <1>4, <2>1
  <2>8. \A i \in 1..Len(z.reports) : z.reports[i].name = i /\ z.reports[i].sig = st[i].kind
    BY <1>1, <1>3, <2>1
  <2> QED BY <2>2, <2>3, <2>4, <2>5, <2>6, <2>7, <2>8 DEF OneAtATime
<1> QED BY <1>1, <1>4, <1>5, <1>6 DEF Ongoing

LEMMA StartSound ==
    ASSUME NEW fit, IInv, NEW kind \in Signal, NEW checksize \in BOOLEAN, NEW x \in Members, Start(kind, checksize, x),
           x.misclosed = g.misclosed, x.reports = g.reports, Accounted(x.dl, fit),
           kind = "download" => Resumable(x.dl),
           ~g.misclosed => /\ x.dl.active <=> kind = "download"
                           /\ x.ul.open <=> kind = "upload"
                           /\ x.rm.name # 0 <=> kind = "delete",
           kind = "download" => x.dl.reopens = 0 /\ x.dl.name = NewName,
           kind = "upload" => x.ul.name = NewName, kind = "list" => x.ls.name = NewName,
           kind = "delete" => x.rm.name = NewName
    PROVE  Stands(fit)'
<1>1. PICK o : o = [kind |-> kind, checksize |-> checksize, faults |-> faults, present |-> srv.present,
                    quiet |-> linkUp /\ toVehicle = <<>> /\ toGcs = <<>>]
  OBVIOUS
<1>2. g.op = "none" /\ Len(started) < MaxOps /\ started' = Append(started, o)
      /\ Becomes(_clearStaleSessionsBegin([x EXCEPT !.op = kind]))
      /\ UNCHANGED <<toGcs, srv, linkUp, faults, reordered, bound>>
  BY <1>1 DEF Start
<1>3. o \in Operation /\ o.kind = kind
  <2>1. faults \in Nat /\ srv \in Server
    BY Settled
  <2>2. srv.present \in BOOLEAN
    BY <2>1 DEF Server
  <2>3. PICK q \in BOOLEAN : q = (linkUp /\ toVehicle = <<>> /\ toGcs = <<>>)
    OBVIOUS
  <2>4. o = [kind |-> kind, checksize |-> checksize, faults |-> faults, present |-> srv.present, quiet |-> q]
    BY <1>1, <2>3
  <2> QED BY <2>1, <2>2, <2>4 DEF Operation, Signal
<1>4. PICK z : z = [x EXCEPT !.op = kind]
  OBVIOUS
<1>5. PICK st : st = Append(started, o)
  OBVIOUS
<1>6. st \in Seq(Operation) /\ Len(st) <= MaxOps
  <2>1. started \in Seq(Operation) /\ Len(started) \in Nat /\ bound \in Nat \X Nat
    BY Settled
  <2>2. st \in Seq(Operation) /\ Len(st) = Len(started) + 1
    BY <1>3, <1>5, <2>1, AppendProperties
  <2>3. MaxOps \in Nat
    BY <2>1, Names
  <2> QED BY <1>2, <2>1, <2>2, <2>3
<1>7. Ongoing(z, st, fit) /\ z.op = kind
  BY <1>2, <1>3, <1>4, <1>5, Opens, ZenonT(40) DEF Members
<1>8. Sound(_clearStaleSessionsBegin(z), st, fit)
  <2>1. linkUp \in BOOLEAN /\ bound \in Nat \X Nat /\ kind # "terminate"
    BY Settled DEF Signal
  <2>2. z.op = "download" => Resumable(z.dl)
    <3>1. z.dl = x.dl
      BY <1>4 DEF Members
    <3> QED BY <1>7, <3>1
  <2> QED BY <1>7, <2>1, <2>2, ClearBegins
<1>9. toGcs' \in Seq(Answer) /\ reordered' \in BOOLEAN /\ faults' \in 0..MaxFaults
  BY <1>2, Settled
<1> QED BY <1>2, <1>4, <1>5, <1>6, <1>8, <1>9, MembersStep

LEMMA NamesNew ==
    ASSUME IInv, Len(started) < MaxOps
    PROVE  NewName \in Name /\ NewName > 0 /\ 0 \in Name
<1>1. Len(started) \in Nat /\ bound \in Nat \X Nat
  BY Settled
<1>2. MaxOps \in Nat
  BY <1>1, Names
<1> QED BY <1>1, <1>2 DEF NewName, Name

LEMMA NoMembers ==
    ASSUME bound \in Nat \X Nat
    PROVE  NoDownload \in Download /\ NoUpload \in Upload /\ NoList \in Listing /\ NoDelete \in Deletion
<1>1. FileSize \in Nat /\ FileSize > 0 /\ MaxRetry \in Nat /\ MaxReopens \in Nat
  BY FileAssumption, LimitAssumption
<1>2. PICK k \in Name : k = 0
  BY Names
<1>3. PICK r \in 0..MaxRetry : r = 0
  BY <1>1
<1>4. PICK s \in 0..FileSize : s = 0
  BY <1>1
<1>5. PICK e \in Seq(Nat) : e = <<>>
  BY EmptySeq
<1>6. NoUpload \in Upload
  <2>1. NoUpload = [name |-> k, open |-> FALSE, session |-> 0, size |-> 0, sent |-> s, retry |-> r, cancelled |-> FALSE]
    BY <1>2, <1>3, <1>4 DEF NoUpload
  <2> QED BY <2>1 DEF Upload
<1>7. NoList \in Listing
  <2>1. NoList = [name |-> k, offset |-> 0, entries |-> e, retry |-> r, withTime |-> FALSE]
    BY <1>2, <1>3, <1>5 DEF NoList
  <2> QED BY <2>1 DEF Listing
<1>8. NoDelete \in Deletion
  <2>1. NoDelete = [name |-> k, retry |-> r]
    BY <1>2, <1>3 DEF NoDelete
  <2> QED BY <2>1 DEF Deletion
<1>9. NoDownload \in Download
  <2>1. PICK p \in 0..(MaxReopens + 1) : p = 0
    BY <1>1
  <2>2. PICK h \in Seq(Hole) : h = <<>>
    BY EmptySeq
  <2>3. PICK f \in [Blocks -> Name \X Blocks] : f = [b \in Blocks |-> Unwritten]
    <3>1. 0 \in Blocks
      BY <1>1 DEF Blocks
    <3>2. Unwritten \in Name \X Blocks
      BY <1>2, <3>1 DEF Unwritten
    <3> QED BY <3>2
  <2>4. NoDownload = [name |-> k, active |-> FALSE, open |-> FALSE, session |-> 0, expectedOffset |-> s,
               bytesWritten |-> 0, fileSize |-> 0, missing |-> h, file |-> f,
               retry |-> r, checksize |-> TRUE, reopens |-> p, resume |-> "none"]
    BY <1>2, <1>3, <1>4, <2>1, <2>2, <2>3 DEF NoDownload
  <2> QED BY <2>4 DEF Download
<1> QED BY <1>6, <1>7, <1>8, <1>9

(* With no operation running and no closing gone astray, no members say    *)
(* that one runs.                                                          *)
LEMMA NothingRuns ==
    ASSUME IInv, g.op = "none", ~g.misclosed
    PROVE  ~g.dl.active /\ ~g.ul.open /\ g.rm.name = 0
<1>1. OneAtATime(g, started) /\ g \in Members
  BY Settled
<1>2. g.dl.active \in BOOLEAN /\ g.ul.open \in BOOLEAN
  BY <1>1, MemberTypes DEF Download, Upload
<1> QED BY <1>1, <1>2 DEF OneAtATime

LEMMA DownloadStarts ==
    ASSUME NEW fit, Stands(fit), NEW checksize \in BOOLEAN, download(checksize)
    PROVE  Stands(fit)'
<1>0. IInv /\ Accounted(g.dl, fit)
  BY DEF Stands
<1>1. g \in Members /\ bound \in Nat \X Nat /\ g.op = "none" /\ Len(started) < MaxOps
  BY <1>0, Settled DEF download, Start
<1>2. NewName \in Name /\ NewName > 0
  BY <1>0, <1>1, NamesNew
<1>3. PICK d : d = [NoDownload EXCEPT !.name = NewName, !.active = TRUE, !.checksize = checksize]
  OBVIOUS
<1>4. d \in Download /\ d.name = NewName /\ d.active = TRUE /\ d.reopens = 0
  <2>1. NoDownload \in Download /\ NoDownload.reopens = 0
    BY <1>1, NoMembers DEF NoDownload
  <2>2. PICK k \in Name : k = NewName
    BY <1>2
  <2>3. d = [NoDownload EXCEPT !.name = k, !.active = TRUE, !.checksize = checksize]
    BY <1>3, <2>2
  <2> QED BY <2>1, <2>2, <2>3, ZenonT(40) DEF Download
<1>10. d.missing = <<>> /\ d.bytesWritten = 0 /\ d.open = FALSE /\ d.resume = "none" /\ d.file = NoDownload.file
  BY <1>3 DEF NoDownload
<1>11. Pristine(d)
  <2>1. Written(d) = {}
    <3>1. ASSUME NEW b \in Blocks PROVE d.file[b] = Unwritten
      <4>1. NoDownload.file = [c \in Blocks |-> Unwritten]
        BY DEF NoDownload
      <4> QED BY <1>10, <4>1
    <3> QED BY <3>1 DEF Written
  <2> QED BY <1>10, <2>1 DEF Pristine
<1>12. Accounted(d, fit) /\ Resumable(d)
  BY <1>10, <1>11 DEF Accounted, Resumable
<1>5. PICK x : x = [g EXCEPT !.dl = d]
  OBVIOUS
<1>6. x \in Members /\ x.dl = d /\ x.ul = g.ul /\ x.rm = g.rm /\ x.reports = g.reports /\ x.misclosed = g.misclosed
  BY <1>1, <1>4, <1>5, SetDownload
<1>7. Start("download", checksize, x)
  BY <1>3, <1>5 DEF download
<1>8. ~g.misclosed => x.dl.active /\ ~x.ul.open /\ ~(x.rm.name # 0)
  BY <1>0, <1>1, <1>4, <1>6, NothingRuns
<1>9. x.dl.reopens = 0 /\ x.dl.name = NewName
  BY <1>4, <1>6
<1> QED BY <1>0, <1>6, <1>7, <1>8, <1>9, <1>12, StartSound DEF Signal

LEMMA UploadStarts ==
    ASSUME NEW fit, Stands(fit), NEW size \in {0, FileSize}, upload(size)
    PROVE  Stands(fit)'
<1>0. IInv /\ Accounted(g.dl, fit)
  BY DEF Stands
<1>1. g \in Members /\ bound \in Nat \X Nat /\ g.op = "none" /\ Len(started) < MaxOps
  BY <1>0, Settled DEF upload, Start
<1>2. NewName \in Name /\ NewName > 0
  BY <1>0, <1>1, NamesNew
<1>3. PICK u : u = [NoUpload EXCEPT !.name = NewName, !.open = TRUE, !.size = size]
  OBVIOUS
<1>4. u \in Upload /\ u.name = NewName /\ u.open = TRUE
  <2>1. NoUpload \in Upload
    BY <1>1, NoMembers
  <2>2. PICK k \in Name : k = NewName
    BY <1>2
  <2>3. u = [NoUpload EXCEPT !.name = k, !.open = TRUE, !.size = size]
    BY <1>3, <2>2
  <2> QED BY <2>1, <2>2, <2>3 DEF Upload
<1>5. PICK x : x = [g EXCEPT !.ul = u]
  OBVIOUS
<1>6. x \in Members /\ x.ul = u /\ x.dl = g.dl /\ x.rm = g.rm /\ x.reports = g.reports /\ x.misclosed = g.misclosed
  BY <1>1, <1>4, <1>5, SetUpload
<1>7. Start("upload", TRUE, x)
  BY <1>3, <1>5 DEF upload
<1>8. ~g.misclosed => ~x.dl.active /\ x.ul.open /\ ~(x.rm.name # 0)
  BY <1>0, <1>1, <1>4, <1>6, NothingRuns
<1>9. x.ul.name = NewName
  BY <1>4, <1>6
<1> QED BY <1>0, <1>6, <1>7, <1>8, <1>9, StartSound DEF Signal

LEMMA ListStarts ==
    ASSUME NEW fit, Stands(fit), listDirectory
    PROVE  Stands(fit)'
<1>0. IInv /\ Accounted(g.dl, fit)
  BY DEF Stands
<1>1. g \in Members /\ bound \in Nat \X Nat /\ g.op = "none" /\ Len(started) < MaxOps
  BY <1>0, Settled DEF listDirectory, Start
<1>2. NewName \in Name /\ NewName > 0
  BY <1>0, <1>1, NamesNew
<1>3. PICK l : l = [NoList EXCEPT !.name = NewName, !.withTime = (g.withTime # "unsupported")]
  OBVIOUS
<1>4. l \in Listing /\ l.name = NewName
  <2>1. NoList \in Listing
    BY <1>1, NoMembers
  <2>2. PICK k \in Name, q \in BOOLEAN : k = NewName /\ q = (g.withTime # "unsupported")
    BY <1>2
  <2>3. l = [NoList EXCEPT !.name = k, !.withTime = q]
    BY <1>3, <2>2
  <2> QED BY <2>1, <2>2, <2>3 DEF Listing
<1>5. PICK x : x = [g EXCEPT !.ls = l]
  OBVIOUS
<1>6. /\ x \in Members /\ x.ls = l /\ x.dl = g.dl /\ x.ul = g.ul /\ x.rm = g.rm /\ x.reports = g.reports
      /\ x.misclosed = g.misclosed
  BY <1>1, <1>4, <1>5, SetListing
<1>7. Start("list", TRUE, x)
  BY <1>3, <1>5 DEF listDirectory
<1>8. ~g.misclosed => ~x.dl.active /\ ~x.ul.open /\ ~(x.rm.name # 0)
  BY <1>0, <1>1, <1>6, NothingRuns
<1>9. x.ls.name = NewName
  BY <1>4, <1>6
<1> QED BY <1>0, <1>6, <1>7, <1>8, <1>9, StartSound DEF Signal

LEMMA DeleteStarts ==
    ASSUME NEW fit, Stands(fit), deleteFile
    PROVE  Stands(fit)'
<1>0. IInv /\ Accounted(g.dl, fit)
  BY DEF Stands
<1>1. g \in Members /\ bound \in Nat \X Nat /\ g.op = "none" /\ Len(started) < MaxOps
  BY <1>0, Settled DEF deleteFile, Start
<1>2. NewName \in Name /\ NewName > 0
  BY <1>0, <1>1, NamesNew
<1>3. PICK r : r = [NoDelete EXCEPT !.name = NewName]
  OBVIOUS
<1>4. r \in Deletion /\ r.name = NewName
  <2>1. NoDelete \in Deletion
    BY <1>1, NoMembers
  <2>2. PICK k \in Name : k = NewName
    BY <1>2
  <2>3. r = [NoDelete EXCEPT !.name = k]
    BY <1>3, <2>2
  <2> QED BY <2>1, <2>2, <2>3 DEF Deletion
<1>5. PICK x : x = [g EXCEPT !.rm = r]
  OBVIOUS
<1>6. x \in Members /\ x.rm = r /\ x.dl = g.dl /\ x.ul = g.ul /\ x.reports = g.reports /\ x.misclosed = g.misclosed
  BY <1>1, <1>4, <1>5, SetDeletion
<1>7. Start("delete", TRUE, x)
  BY <1>3, <1>5 DEF deleteFile
<1>8. ~g.misclosed => ~x.dl.active /\ ~x.ul.open /\ x.rm.name # 0
  BY <1>0, <1>1, <1>2, <1>4, <1>6, NothingRuns
<1>9. x.rm.name = NewName
  BY <1>4, <1>6
<1> QED BY <1>0, <1>6, <1>7, <1>8, <1>9, StartSound DEF Signal

LEMMA CancelSound ==
    ASSUME NEW fit, Stands(fit), NEW y, Cancel(y), faults' \in Nat => Sound(y, started, fit)
    PROVE  Stands(fit)'
<1>0. IInv /\ Accounted(g.dl, fit)
  BY DEF Stands
<1>1. Spend(1) /\ Becomes(y) /\ UNCHANGED <<started, toGcs, srv, linkUp, reordered, bound>>
  BY DEF Cancel
<1>2. /\ faults \in Nat /\ bound \in Nat \X Nat /\ started \in Seq(Operation) /\ Len(started) <= MaxOps
      /\ toGcs \in Seq(Answer) /\ reordered \in BOOLEAN
  BY <1>0, Settled
<1>3. faults' \in 0..MaxFaults /\ faults' \in Nat
  BY <1>1, <1>2, Spent
<1>4. Sound(y, started, fit)
  BY <1>3
<1>5. PICK st \in Seq(Operation) : st = started
  BY <1>2
<1> QED BY <1>0, <1>1, <1>2, <1>3, <1>4, <1>5, MembersStep

LEMMA DownloadCancelled ==
    ASSUME NEW fit, Stands(fit), cancelDownload
    PROVE  Stands(fit)'
<1>0. IInv /\ Accounted(g.dl, fit)
  BY DEF Stands
<1>1. g \in Members /\ Len(started) \in Nat /\ bound \in Nat \X Nat /\ (~g.misclosed => OneAtATime(g, started))
  BY <1>0, Settled
<1>2. ~g.misclosed => OneAtATime(g, started) /\ g.op = "download"
  BY <1>1 DEF cancelDownload, OneAtATime
<1>3. faults' \in Nat => Sound(_downloadComplete(g, FALSE), started, fit)
  BY <1>1, <1>2, DownloadCompletes
<1> QED BY <1>3, CancelSound DEF cancelDownload

LEMMA ListCancelled ==
    ASSUME NEW fit, Stands(fit), cancelListDirectory
    PROVE  Stands(fit)'
<1>0. IInv /\ Accounted(g.dl, fit)
  BY DEF Stands
<1>1. g \in Members /\ Len(started) \in Nat /\ bound \in Nat \X Nat /\ (~g.misclosed => OneAtATime(g, started))
  BY <1>0, Settled
<1>2. g.op = "list"
  BY DEF cancelListDirectory
<1>3. faults' \in Nat => Sound(_listDirectoryComplete(g, FALSE), started, fit)
  BY <1>0, <1>1, <1>2, ListCompletes
<1> QED BY <1>3, CancelSound DEF cancelListDirectory

LEMMA DeleteCancelled ==
    ASSUME NEW fit, Stands(fit), cancelDelete
    PROVE  Stands(fit)'
<1>0. IInv /\ Accounted(g.dl, fit)
  BY DEF Stands
<1>1. g \in Members /\ Len(started) \in Nat /\ bound \in Nat \X Nat /\ (~g.misclosed => OneAtATime(g, started))
  BY <1>0, Settled
<1>2. ~g.misclosed => OneAtATime(g, started) /\ g.op = "delete"
  BY <1>1 DEF cancelDelete, OneAtATime
<1>3. faults' \in Nat => Sound(_deleteComplete(g, FALSE), started, fit)
  BY <1>0, <1>1, <1>2, DeleteCompletes
<1> QED BY <1>3, CancelSound DEF cancelDelete

LEMMA UploadCancelled ==
    ASSUME NEW fit, Stands(fit), cancelUpload
    PROVE  Stands(fit)'
<1>0. IInv /\ Accounted(g.dl, fit)
  BY DEF Stands
<1>1. /\ g \in Members /\ Len(started) \in Nat /\ bound \in Nat \X Nat /\ linkUp \in BOOLEAN
      /\ (~g.misclosed => OneAtATime(g, started)) /\ g.ul.open
  BY <1>0, Settled DEF cancelUpload
<1>2. ~g.misclosed => OneAtATime(g, started) /\ g.op \in {"upload", "terminate"}
  BY <1>1 DEF OneAtATime
<1>3. faults' \in Nat => Sound(_uploadComplete(g, FALSE), started, fit)
  BY <1>0, <1>1, <1>2, UploadCompletes
<1>4. PICK u1, u2 : u1 = [g.ul EXCEPT !.cancelled = TRUE] /\ u2 = [u1 EXCEPT !.retry = 0]
  OBVIOUS
<1>5. u1 \in Upload /\ u2 \in Upload /\ u2.name = g.ul.name /\ u2.open = g.ul.open /\ u2.session = g.ul.session
  <2>1. g.ul \in Upload
    BY <1>1, MemberTypes
  <2>2. PICK r \in 0..MaxRetry : r = 0
    BY LimitAssumption
  <2>3. u2 = [u1 EXCEPT !.retry = r]
    BY <1>4, <2>2
  <2> QED BY <1>4, <2>1, <2>3 DEF Upload
<1>6. PICK x : x = [g EXCEPT !.op = "terminate", !.at = "terminate", !.ul = u2]
  OBVIOUS
<1>7. /\ x \in Members /\ x.op = "terminate" /\ x.at = "terminate" /\ x.ul = u2 /\ x.dl = g.dl /\ x.rm = g.rm
      /\ x.ls = g.ls /\ x.reports = g.reports /\ x.misclosed = g.misclosed
  <2>1. u2 \in Upload /\ g \in Members
    BY <1>1, <1>5
  <2> QED BY <1>6, <2>1 DEF Members
<1>8. ASSUME ~g.misclosed PROVE OneAtATime(x, started)
  <2>1. OneAtATime(g, started) /\ g.op \in {"upload", "terminate"}
    BY <1>2, <1>8
  <2>2. u2.name = g.ul.name /\ u2.open = g.ul.open
    BY <1>5
  <2> QED BY <1>7, <2>1, <2>2 DEF OneAtATime
<1>9. Ongoing(x, started, fit)
  BY <1>0, <1>7, <1>8 DEF Ongoing
<1>10. Sound(_terminateUploadSessionBegin(x), started, fit)
  BY <1>1, <1>7, <1>9, TerminateAsked
<1>11. x = [g EXCEPT !.op = "terminate", !.at = "terminate", !.ul.cancelled = TRUE, !.ul.retry = 0]
  BY <1>4, <1>6
<1>12. CASE g.ul.session # 0
  <2>1. Cancel(_terminateUploadSessionBegin(x))
    BY <1>11, <1>12 DEF cancelUpload
  <2> QED BY <1>10, <2>1, CancelSound
<1>13. CASE g.ul.session = 0
  <2>1. Cancel(_uploadComplete(g, FALSE))
    BY <1>13 DEF cancelUpload
  <2> QED BY <1>3, <2>1, CancelSound
<1> QED BY <1>12, <1>13

LEMMA UserSteps ==
    ASSUME NEW fit, Stands(fit), User
    PROVE  Stands(fit)'
BY DownloadStarts, UploadStarts, ListStarts, DeleteStarts, DownloadCancelled, UploadCancelled, ListCancelled,
   DeleteCancelled DEF User

LEMMA TimerExpires ==
    ASSUME NEW fit, Stands(fit), _ackOrNakTimeout
    PROVE  Stands(fit)'
<1>0. IInv /\ Accounted(g.dl, fit)
  BY DEF Stands
<1>1. g.timer /\ Spend(IF toVehicle \o toGcs = <<>> THEN 0 ELSE 1)
      /\ UNCHANGED <<started, toGcs, srv, linkUp, reordered, bound>>
  BY DEF _ackOrNakTimeout
<1>2. PICK n \in ChunkSizes : Becomes(TimedOut([g EXCEPT !.timer = FALSE], n))
  BY DEF _ackOrNakTimeout
<1>3. /\ faults \in Nat /\ bound \in Nat \X Nat /\ started \in Seq(Operation) /\ Len(started) <= MaxOps
      /\ toGcs \in Seq(Answer) /\ reordered \in BOOLEAN /\ Len(started) \in Nat /\ linkUp \in BOOLEAN
      /\ Sound(g, started, fit) /\ g \in Members
  BY <1>0, Settled, SettledSound
<1>4. faults' \in 0..MaxFaults /\ faults' \in Nat
  <2>1. PICK cost \in Nat : cost = IF toVehicle \o toGcs = <<>> THEN 0 ELSE 1
    OBVIOUS
  <2> QED BY <1>1, <1>3, <2>1, Spent
<1>5. g.at # "idle"
  <2>1. g.op # "none" /\ g.at \in Stages(g.op)
    BY <1>1, <1>3 DEF Sound, Staged
  <2> QED BY <1>3, <2>1, OperationOf
<1>6. Sound(Unstarted, started, fit) /\ Unstarted.at # "idle"
  <2>1. Ready(fit)
    BY <1>3, <1>4 DEF Ready
  <2> QED BY <1>5, <2>1, UnstartedSound, ReadyFacts
<1>7. PICK x : x = Unstarted
  OBVIOUS
<1>8. Sound(TimedOut(x, n), started, fit)
  BY <1>3, <1>4, <1>6, <1>7, TimesOut
<1>9. Becomes(TimedOut(x, n))
  BY <1>2, <1>7 DEF Unstarted
<1>10. PICK st \in Seq(Operation) : st = started
  BY <1>3
<1> QED BY <1>0, <1>1, <1>3, <1>4, <1>8, <1>9, <1>10, MembersStep

(* Nothing changes but what is in flight.                                  *)
LEMMA MembersStay ==
    ASSUME NEW fit, Stands(fit), UNCHANGED <<g, started, bound>>, toVehicle' \in Seq(Request), toGcs' \in Seq(Answer),
           srv' \in Server, linkUp' \in BOOLEAN, reordered' \in BOOLEAN, faults' \in 0..MaxFaults
    PROVE  Stands(fit)'
<1>0. IInv /\ Accounted(g.dl, fit)
  BY DEF Stands
<1>1. Members' = Members /\ Request' = Request /\ Answer' = Answer /\ Server' = Server /\ MaxOps' = MaxOps
      /\ MaxFaults' = MaxFaults
  BY SameTypes
<1>2. Typed'
  <2>1. g' \in Members' /\ g'.out = <<>> /\ Staged(g)'
    BY <1>0, <1>1 DEF IInv, Typed, Staged
  <2>2. started' \in Seq(Operation) /\ Len(started') <= MaxOps' /\ bound' \in Nat \X Nat
    BY <1>0, <1>1 DEF IInv, Typed
  <2> QED BY <1>1, <2>1, <2>2 DEF Typed
<1>3. (~g.misclosed => OneAtATime(g, started))'
  BY <1>0 DEF IInv, OneAtATime
<1>4. Pursues(g)' /\ Accounted(g.dl, fit)'
  <2>1. Pursues(g) /\ g' = g
    BY <1>0 DEF IInv
  <2> QED BY <1>0, <2>1 DEF Pursues
<1> QED BY <1>2, <1>3, <1>4 DEF IInv, Stands

LEMMA AnswerArrives ==
    ASSUME NEW fit, Stands(fit), fit => AnswersFit, _mavlinkMessageReceived
    PROVE  Stands(fit)'
<1>0. IInv /\ Accounted(g.dl, fit)
  BY DEF Stands
<1>1. PICK i \in DOMAIN toGcs :
        /\ toGcs' = RemoveAt(toGcs, i)
        /\ Spend(IF i = 1 THEN 0 ELSE 1) /\ reordered' = (reordered \/ i > 1)
        /\ \/ g.at # "idle" /\ Awaited(toGcs[i]) /\ AckNak(toGcs[i])
           \/ UNCHANGED <<g, toVehicle>>
        /\ UNCHANGED <<started, srv, linkUp, bound>>
  BY DEF _mavlinkMessageReceived
<1>2. /\ faults \in Nat /\ bound \in Nat \X Nat /\ started \in Seq(Operation) /\ Len(started) <= MaxOps
      /\ toGcs \in Seq(Answer) /\ toVehicle \in Seq(Request) /\ reordered \in BOOLEAN /\ linkUp \in BOOLEAN
      /\ Sound(g, started, fit) /\ srv \in Server
  BY <1>0, Settled, SettledSound
<1>3. faults' \in 0..MaxFaults /\ faults' \in Nat
  <2>1. PICK cost \in Nat : cost = IF i = 1 THEN 0 ELSE 1
    OBVIOUS
  <2> QED BY <1>1, <1>2, <2>1, Spent
<1>4. toGcs' \in Seq(Answer) /\ reordered' \in BOOLEAN
  <2>1. RemoveAt(toGcs, i) \in Seq(Answer)
    BY <1>2, RemovedType
  <2> QED BY <1>1, <2>1
<1>5. PICK m : m = toGcs[i]
  OBVIOUS
<1>6. m \in Answer
  BY <1>2, <1>5
<1>7. CASE UNCHANGED <<g, toVehicle>>
  BY <1>1, <1>2, <1>3, <1>4, <1>7, MembersStay
<1>8. CASE Awaited(m) /\ AckNak(m)
  <2>1. Ready(fit)
    BY <1>2, <1>3 DEF Ready
  <2>2. PICK y : Becomes(y) /\ Sound(y, started, fit)
    <3>1. fit /\ g.at = "fill" /\ m.ok /\ m.off = g.dl.expectedOffset => m.n <= Head(g.dl.missing).n
      BY <1>5, <1>8 DEF AnswersFit
    <3> QED BY <1>6, <1>8, <2>1, <3>1, AckNakSound
  <2>3. PICK st \in Seq(Operation) : st = started
    BY <1>2
  <2> QED BY <1>0, <1>1, <1>2, <1>3, <1>4, <2>2, <2>3, MembersStep
<1> QED BY <1>1, <1>5, <1>7, <1>8

(***************************************************************************)
(* The file server.                                                        *)

LEMMA RequestTypes ==
    ASSUME NEW m \in Request
    PROVE  /\ m.req \in Opcode /\ m.seq \in Seqs /\ m.session \in Nat /\ m.off \in Nat /\ m.n \in Nat /\ m.name \in Name
           /\ m.req \in {"burst", "read"} => m.off <= FileSize /\ m.n > 0
BY DEF Request, OfRange

LEMMA ServerTypes ==
    ASSUME srv \in Server
    PROVE  /\ srv.session \in Nat /\ srv.open \in Name /\ srv.upload \in [name : Name, buffer : Content]
           /\ srv.stored \in [1..MaxOps -> Content] /\ srv.time \subseteq BOOLEAN /\ srv.single \in BOOLEAN
           /\ srv.present \in BOOLEAN /\ srv.last \in Answer \cup {NoReply} /\ NewSession \in Nat
BY DEF Server, NewSession

LEMMA SeqNext ==
    ASSUME NEW s \in Seqs, NEW i \in Int
    PROVE  Plus(s, i) \in Seqs
BY SeqsType, PlusType

LEMMA ReplyType ==
    ASSUME srv \in Server, NEW m \in Request, NEW ok \in BOOLEAN,
           NEW err \in {"none", "session", "eof", "fail", "unknown"}, NEW a, a = Reply(m, ok, err),
           ok => ~OfRange(m)
    PROVE  a \in Answer /\ a.req = m.req /\ a.name = srv.open
<1>1. m.req \in Opcode /\ m.seq \in Seqs /\ m.off \in Nat
  BY RequestTypes
<1>2. srv.session \in Nat /\ srv.open \in Name
  BY ServerTypes
<1>3. PICK s \in Seqs : s = Plus(m.seq, 1)
  BY <1>1, SeqNext
<1>4. a = [req |-> m.req, ok |-> ok, err |-> err, seq |-> s, session |-> srv.session,
           off |-> m.off, n |-> 0, last |-> FALSE, name |-> srv.open]
  BY <1>3 DEF Reply
<1> QED BY <1>1, <1>2, <1>3, <1>4 DEF Answer, OfRange

LEMMA NakType ==
    ASSUME srv \in Server, NEW m \in Request, NEW err \in {"none", "session", "eof", "fail", "unknown"}
    PROVE  Nak(m, err) \in Answer
BY ReplyType DEF Nak

LEMMA AckType ==
    ASSUME srv \in Server, NEW m \in Request, ~OfRange(m)
    PROVE  Ack(m) \in Answer /\ Ack(m).req = m.req
BY ReplyType, ZenonT(40) DEF Ack

LEMMA DataType ==
    ASSUME srv \in Server, srv.open # 0, NEW m \in Request, NEW off \in Nat, NEW n \in Nat, n > 0,
           off + n <= FileSize, NEW s \in Seqs, NEW last \in BOOLEAN,
           NEW a, a = [Data(m, off, n) EXCEPT !.seq = s, !.last = last]
    PROVE  a \in Answer
<1>1. m.req \in Opcode
  BY RequestTypes
<1>2. srv.session \in Nat /\ srv.open \in Name /\ srv.open > 0
  <2>1. srv.open \in Name
    BY ServerTypes
  <2> QED BY <2>1, ServerTypes DEF Name
<1>3. a = [req |-> m.req, ok |-> TRUE, err |-> "none", seq |-> s, session |-> srv.session,
           off |-> off, n |-> n, last |-> last, name |-> srv.open]
  BY DEF Data, Ack, Reply
<1>4. PICK k \in Name, r \in Opcode, v \in Nat : k = srv.open /\ k > 0 /\ r = m.req /\ v = srv.session
  BY <1>1, <1>2
<1>5. PICK c : c = [req |-> r, ok |-> TRUE, err |-> "none", seq |-> s, session |-> v, off |-> off, n |-> n,
                    last |-> last, name |-> k]
  OBVIOUS
<1>6. c.n = n /\ c.off = off /\ c.name = k
  BY <1>5
<1>7. c.n > 0 /\ c.off + c.n <= FileSize /\ c.name > 0
  BY <1>4, <1>6
<1>8. c \in Answer
  BY <1>5, <1>7 DEF Answer
<1>9. a = c
  BY <1>3, <1>4, <1>5
<1> QED BY <1>8, <1>9

LEMMA Quotient ==
    ASSUME NEW left \in Nat, NEW n \in Nat, n > 0
    PROVE  /\ (left + n - 1) \div n \in Nat
           /\ (left + n - 1) \div n = 0 => left = 0
           /\ \A i \in 1..((left + n - 1) \div n) : (i - 1) * n \in Nat /\ (i - 1) * n < left
<1>1. PICK q \in Int : q = (left + n - 1) \div n
  OBVIOUS
<1>2. q * n <= left + n - 1 /\ left + n - 1 < (q + 1) * n
  BY <1>1
<1>3. q >= 0
  BY <1>2
<1>4. q = 0 => left = 0
  BY <1>2
<1>5. ASSUME NEW i \in 1..q PROVE (i - 1) * n \in Nat /\ (i - 1) * n < left
  <2>1. i * n <= q * n
    BY <1>3
  <2>2. (i - 1) * n = i * n - n
    OBVIOUS
  <2>3. (i - 1) * n >= 0
    OBVIOUS
  <2> QED BY <1>2, <2>1, <2>2, <2>3
<1> QED BY <1>1, <1>3, <1>4, <1>5

LEMMA BurstRepliesType ==
    ASSUME srv \in Server, srv.open # 0, NEW m \in Request, m.req = "burst"
    PROVE  BurstReplies(m) \in Seq(Answer) /\ BurstReplies(m) # <<>>
<1>1. m.off \in Nat /\ m.n \in Nat /\ m.n > 0 /\ m.off <= FileSize /\ m.seq \in Seqs
  BY RequestTypes
<1>2. PICK o \in Nat, n \in Nat : o = m.off /\ n = m.n
  BY <1>1
<1>3. n > 0 /\ o <= FileSize /\ FileSize \in Nat /\ BurstMax \in Nat /\ BurstMax > 0
  BY <1>1, <1>2, FileAssumption
<1>4. PICK left \in Nat : left = FileSize - o
  BY <1>3
<1>5. PICK count \in Nat :
        /\ count = Smaller(BurstMax, (left + n - 1) \div n)
        /\ count = 0 => left = 0
        /\ \A i \in 1..count : (i - 1) * n \in Nat /\ (i - 1) * n < left
  <2>1. PICK q \in Nat : q = (left + n - 1) \div n
    BY <1>3, Quotient
  <2>2. /\ q = 0 => left = 0
        /\ \A i \in 1..q : (i - 1) * n \in Nat /\ (i - 1) * n < left
    BY <1>3, <2>1, Quotient
  <2>3. PICK c \in Nat : c = Smaller(BurstMax, q)
    BY <1>3 DEF Smaller
  <2>4. c <= q /\ (c = 0 => q = 0)
    BY <1>3, <2>3 DEF Smaller
  <2> QED BY <2>1, <2>2, <2>3, <2>4
<1>6. PICK packet : packet = [i \in 1..count |->
        [Data(m, o + (i - 1) * n, Smaller(n, left - (i - 1) * n)) EXCEPT
           !.seq = Plus(m.seq, i), !.last = (i = BurstMax)]]
  OBVIOUS
<1>7. ASSUME NEW i \in 1..count PROVE packet[i] \in Answer
  <2>1. PICK b \in Nat : b = (i - 1) * n /\ b < left
    BY <1>5
  <2>2. PICK k \in Nat : k = Smaller(n, left - b) /\ k > 0 /\ o + b + k <= FileSize
    BY <1>3, <1>4, <2>1 DEF Smaller
  <2>3. PICK s \in Seqs : s = Plus(m.seq, i)
    BY <1>1, SeqNext
  <2>4. PICK l \in BOOLEAN : l = (i = BurstMax)
    OBVIOUS
  <2>5. packet[i] = [Data(m, o + b, k) EXCEPT !.seq = s, !.last = l]
    BY <1>6, <2>1, <2>2, <2>3, <2>4
  <2>6. PICK p \in Nat : p = o + b
    OBVIOUS
  <2>7. p + k <= FileSize
    BY <2>2, <2>6
  <2>8. [Data(m, p, k) EXCEPT !.seq = s, !.last = l] \in Answer
    BY <2>2, <2>7, DataType
  <2> QED BY <2>5, <2>6, <2>8
<1>8. packet \in Seq(Answer) /\ Len(packet) = count
  <2>1. packet \in [1..count -> Answer]
    BY <1>6, <1>7
  <2> QED BY <2>1, SeqDef, LenProperties
<1>9. PICK eof \in Answer : eof = [Nak(m, "eof") EXCEPT !.seq = Plus(m.seq, count + 1)]
  <2>1. PICK a \in Answer : a = Nak(m, "eof")
    BY NakType
  <2>2. PICK s \in Seqs : s = Plus(m.seq, count + 1)
    BY <1>1, SeqNext
  <2>3. [a EXCEPT !.seq = s] \in Answer
    BY DEF Answer, OfRange
  <2> QED BY <2>1, <2>2, <2>3
<1>10. PICK t : t = IF count * n >= left THEN <<eof>> ELSE <<>>
  OBVIOUS
<1>11. t \in Seq(Answer) /\ (count = 0 => t = <<eof>>)
  BY <1>5, <1>10
<1>12. BurstReplies(m) = packet \o t
  BY <1>2, <1>4, <1>5, <1>6, <1>9, <1>10 DEF BurstReplies
<1>13. packet \o t \in Seq(Answer) /\ Len(packet \o t) = Len(packet) + Len(t)
  BY <1>8, <1>11, ConcatProperties
<1>14. Len(packet \o t) # 0
  <2>1. Len(t) \in Nat /\ (count = 0 => Len(t) = 1)
    BY <1>11, LenProperties
  <2>2. PICK a \in Nat : a = Len(t)
    BY <2>1
  <2>3. count = 0 => a = 1
    BY <2>1, <2>2
  <2>4. count + a # 0
    BY <2>3
  <2>5. Len(packet \o t) = count + a
    BY <1>8, <1>13, <2>2
  <2> QED BY <2>4, <2>5
<1> QED BY <1>12, <1>13, <1>14, EmptySeq

LEMMA ServesTypes ==
    ASSUME toGcs \in Seq(Answer), NEW m, NEW s \in Server, NEW replies \in Seq(Answer), replies # <<>>,
           Serves(m, s, replies)
    PROVE  srv' \in Server /\ toGcs' \in Seq(Answer)
<1>1. Last(replies) \in Answer
  <2>1. Len(replies) \in Nat /\ Len(replies) # 0
    BY LenProperties, EmptySeq
  <2>2. Len(replies) \in 1..Len(replies)
    BY <2>1
  <2>3. replies[Len(replies)] \in Answer
    BY <2>2, ElementOfSeq
  <2> QED BY <2>3 DEF Last
<1>2. PICK a \in Answer : a = Last(replies)
  BY <1>1
<1>3. srv' = [s EXCEPT !.last = a] /\ toGcs' = toGcs \o replies
  BY <1>2 DEF Serves
<1>4. [s EXCEPT !.last = a] \in Server
  BY DEF Server
<1>5. toGcs \o replies \in Seq(Answer)
  BY ConcatProperties
<1> QED BY <1>3, <1>4, <1>5

LEMMA ServesOne ==
    ASSUME toGcs \in Seq(Answer), NEW m, NEW s \in Server, NEW a \in Answer, Serves(m, s, <<a>>)
    PROVE  srv' \in Server /\ toGcs' \in Seq(Answer)
<1>1. PICK r : r = <<a>>
  OBVIOUS
<1>2. r \in Seq(Answer) /\ r # <<>>
  BY <1>1
<1>3. Serves(m, s, r)
  BY <1>1
<1> QED BY <1>2, <1>3, ServesTypes

LEMMA UploadSet ==
    ASSUME bound \in Nat \X Nat, NEW k \in Name, NEW u, u = [name |-> k, buffer |-> <<>>]
    PROVE  u \in [name : Name, buffer : Content]
<1>1. PICK c \in Content : c = <<>>
  BY EmptySeq DEF Content
<1> QED BY <1>1

LEMMA FinalizedType ==
    ASSUME bound \in Nat \X Nat, NEW s \in Server
    PROVE  Finalized(s) \in Server
<1>1. CASE s.upload.name = 0
  BY <1>1 DEF Finalized
<1>2. CASE s.upload.name # 0
  <2>1. s.upload.name \in 1..MaxOps /\ s.upload.buffer \in Content /\ s.stored \in [1..MaxOps -> Content]
    <3>1. s.upload.name \in Name /\ s.upload.buffer \in Content /\ s.stored \in [1..MaxOps -> Content]
      BY DEF Server
    <3>2. MaxOps \in Nat
      BY Names
    <3> QED BY <1>2, <3>1, <3>2 DEF Name
  <2>2. PICK f : f = [s.stored EXCEPT ![s.upload.name] = s.upload.buffer]
    OBVIOUS
  <2>3. f \in [1..MaxOps -> Content]
    BY <2>1, <2>2
  <2>4. PICK u \in [name : Name, buffer : Content] : u = [name |-> 0, buffer |-> <<>>]
    BY Names, UploadSet
  <2>5. Finalized(s) = [s EXCEPT !.stored = f, !.upload = u]
    BY <1>2, <2>2, <2>4 DEF Finalized
  <2>6. [s EXCEPT !.stored = f, !.upload = u] \in Server
    BY <2>3 DEF Server
  <2> QED BY <2>5, <2>6
<1> QED BY <1>1, <1>2

Serving(m) == bound \in Nat \X Nat /\ srv \in Server /\ toGcs \in Seq(Answer) /\ m \in Request

LEMMA Refuses ==
    ASSUME NEW m, Serving(m), NEW err \in {"none", "session", "eof", "fail", "unknown"}, Serves(m, srv, <<Nak(m, err)>>)
    PROVE  srv' \in Server /\ toGcs' \in Seq(Answer)
BY NakType, ServesOne DEF Serving

LEMMA Closed ==
    ASSUME bound \in Nat \X Nat, srv \in Server
    PROVE  Finalized([srv EXCEPT !.open = 0]) \in Server
<1>1. PICK k \in Name : k = 0
  BY Names
<1>2. PICK s : s = [srv EXCEPT !.open = k]
  OBVIOUS
<1>3. s \in Server
  BY <1>2 DEF Server
<1> QED BY <1>1, <1>2, <1>3, FinalizedType

LEMMA ResetServed ==
    ASSUME NEW m, Serving(m), _resetCommand(m)
    PROVE  srv' \in Server /\ toGcs' \in Seq(Answer)
<1>1. Ack(m) \in Answer
  BY AckType DEF Serving, _resetCommand, OfRange
<1> QED BY <1>1, Closed, ServesOne DEF Serving, _resetCommand

LEMMA TerminateServed ==
    ASSUME NEW m, Serving(m), _terminateCommand(m)
    PROVE  srv' \in Server /\ toGcs' \in Seq(Answer)
<1>1. Ack(m) \in Answer
  BY AckType DEF Serving, _terminateCommand, OfRange
<1>2. CASE Serves(m, srv, <<Nak(m, "session")>>)
  BY <1>2, Refuses
<1>3. CASE Serves(m, Finalized([srv EXCEPT !.open = 0]), <<Ack(m)>>)
  BY <1>1, <1>3, Closed, ServesOne DEF Serving
<1> QED BY <1>2, <1>3 DEF _terminateCommand

LEMMA Numbered ==
    ASSUME srv \in Server, NEW m \in Request, ~OfRange(m), NEW n \in Nat, NEW a,
           a = [Ack(m) EXCEPT !.session = NewSession, !.n = n] \/ a = [Ack(m) EXCEPT !.session = NewSession]
    PROVE  a \in Answer
<1>1. PICK b \in Answer : b = Ack(m) /\ b.req = m.req
  BY AckType
<1>2. PICK k \in Nat : k = NewSession
  BY ServerTypes
<1>3. a = [b EXCEPT !.session = k, !.n = n] \/ a = [b EXCEPT !.session = k]
  BY <1>1, <1>2
<1>4. b.req \notin {"burst", "read"}
  BY <1>1 DEF OfRange
<1> QED BY <1>3, <1>4, ZenonT(40) DEF Answer, OfRange

LEMMA OpenServed ==
    ASSUME NEW m, Serving(m), _openCommand(m)
    PROVE  srv' \in Server /\ toGcs' \in Seq(Answer)
<1>1. m \in Request /\ ~OfRange(m) /\ m.name \in Name /\ m.n \in Nat /\ srv \in Server /\ bound \in Nat \X Nat
      /\ toGcs \in Seq(Answer)
  BY RequestTypes DEF Serving, _openCommand, OfRange
<1>2. CASE Serves(m, [srv EXCEPT !.upload = [name |-> 0, buffer |-> <<>>]], <<Nak(m, "fail")>>)
  <2>1. PICK u \in [name : Name, buffer : Content] : u = [name |-> 0, buffer |-> <<>>]
    BY <1>1, Names, UploadSet
  <2>2. PICK s : s = [srv EXCEPT !.upload = u]
    OBVIOUS
  <2>3. s \in Server
    BY <1>1, <2>2 DEF Server
  <2>4. PICK a \in Answer : a = Nak(m, "fail")
    BY <1>1, NakType
  <2>5. Serves(m, s, <<a>>)
    BY <1>2, <2>1, <2>2, <2>4
  <2> QED BY <1>1, <2>3, <2>5, ServesOne
<1>3. CASE Serves(m, [srv EXCEPT !.open = m.name, !.session = NewSession, !.upload = [name |-> 0, buffer |-> <<>>]],
                  <<[Ack(m) EXCEPT !.session = NewSession, !.n = FileSize + m.n]>>)
  <2>1. PICK n \in Nat : n = FileSize + m.n
    BY <1>1, FileAssumption
  <2>2. PICK a \in Answer : a = [Ack(m) EXCEPT !.session = NewSession, !.n = FileSize + m.n]
    BY <1>1, <2>1, Numbered
  <2>3. PICK u \in [name : Name, buffer : Content] : u = [name |-> 0, buffer |-> <<>>]
    BY <1>1, Names, UploadSet
  <2>4. PICK k \in Nat : k = NewSession
    BY <1>1, ServerTypes
  <2>5. PICK o \in Name : o = m.name
    BY <1>1
  <2>6. PICK s : s = [srv EXCEPT !.open = o, !.session = k, !.upload = u]
    OBVIOUS
  <2>7. s \in Server
    BY <1>1, <2>6 DEF Server
  <2>8. Serves(m, s, <<a>>)
    BY <1>3, <2>2, <2>3, <2>4, <2>5, <2>6
  <2> QED BY <1>1, <2>7, <2>8, ServesOne
<1> QED BY <1>2, <1>3 DEF _openCommand

LEMMA ReadServed ==
    ASSUME NEW m, Serving(m), _readCommand(m)
    PROVE  srv' \in Server /\ toGcs' \in Seq(Answer)
<1>1. /\ m \in Request /\ m.off \in Nat /\ m.n \in Nat /\ m.n > 0 /\ m.seq \in Seqs /\ srv \in Server
      /\ toGcs \in Seq(Answer) /\ FileSize \in Nat
  BY RequestTypes, FileAssumption DEF Serving, _readCommand
<1>2. CASE Serves(m, srv, <<Nak(m, "session")>>)
  BY <1>2, Refuses
<1>3. CASE Serves(m, srv, <<Nak(m, "eof")>>)
  BY <1>3, Refuses
<1>4. CASE /\ srv.open # 0 /\ ~(m.off >= FileSize)
           /\ Serves(m, srv, <<Data(m, m.off, Smaller(m.n, FileSize - m.off))>>)
  <2>1. PICK o \in Nat, n \in Nat : o = m.off /\ n = Smaller(m.n, FileSize - m.off) /\ n > 0 /\ o + n <= FileSize
    BY <1>1, <1>4 DEF Smaller
  <2>2. PICK s \in Seqs : s = Plus(m.seq, 1)
    BY <1>1, SeqNext
  <2>3. PICK a : a = [Data(m, o, n) EXCEPT !.seq = s, !.last = FALSE]
    OBVIOUS
  <2>4. a \in Answer
    BY <1>1, <1>4, <2>1, <2>3, DataType
  <2>5. a = Data(m, o, n)
    <3>1. PICK r, v, k : r = m.req /\ v = srv.session /\ k = srv.open
      OBVIOUS
    <3>2. PICK b : b = Ack(m)
      OBVIOUS
    <3>3. b = [req |-> r, ok |-> TRUE, err |-> "none", seq |-> s, session |-> v, off |-> o, n |-> 0,
               last |-> FALSE, name |-> k]
      BY <2>1, <2>2, <3>1, <3>2 DEF Ack, Reply
    <3>4. PICK d : d = [b EXCEPT !.off = o, !.n = n]
      OBVIOUS
    <3>5. d = [req |-> r, ok |-> TRUE, err |-> "none", seq |-> s, session |-> v, off |-> o, n |-> n,
               last |-> FALSE, name |-> k]
      BY <3>3, <3>4
    <3>6. Data(m, o, n) = d
      BY <3>2, <3>4 DEF Data
    <3>7. PICK e : e = [d EXCEPT !.seq = s, !.last = FALSE]
      OBVIOUS
    <3>8. e = [req |-> r, ok |-> TRUE, err |-> "none", seq |-> s, session |-> v, off |-> o, n |-> n,
               last |-> FALSE, name |-> k]
      BY <3>5, <3>7
    <3> QED BY <2>3, <3>5, <3>6, <3>7, <3>8
  <2>6. Serves(m, srv, <<a>>)
    BY <1>4, <2>1, <2>5
  <2> QED BY <1>1, <2>4, <2>6, ServesOne
<1> QED BY <1>2, <1>3, <1>4 DEF _readCommand

LEMMA BurstServed ==
    ASSUME NEW m, Serving(m), _burstReadCommand(m)
    PROVE  srv' \in Server /\ toGcs' \in Seq(Answer)
<1>1. m \in Request /\ m.req = "burst" /\ srv \in Server /\ toGcs \in Seq(Answer)
  BY DEF Serving, _burstReadCommand
<1>2. CASE Serves(m, srv, <<Nak(m, "fail")>>)
  BY <1>2, Refuses
<1>3. CASE Serves(m, srv, <<Nak(m, "session")>>)
  BY <1>3, Refuses
<1>4. CASE srv.open # 0 /\ Serves(m, srv, BurstReplies(m))
  BY <1>1, <1>4, BurstRepliesType, ServesTypes
<1> QED BY <1>2, <1>3, <1>4 DEF _burstReadCommand

LEMMA CreateServed ==
    ASSUME NEW m, Serving(m), _createFileCommand(m)
    PROVE  srv' \in Server /\ toGcs' \in Seq(Answer)
<1>1. m \in Request /\ ~OfRange(m) /\ m.name \in Name /\ srv \in Server /\ bound \in Nat \X Nat /\ toGcs \in Seq(Answer)
  BY RequestTypes DEF Serving, _createFileCommand, OfRange
<1>2. PICK a \in Answer : a = [Ack(m) EXCEPT !.session = NewSession]
  BY <1>1, Numbered
<1>3. PICK u \in [name : Name, buffer : Content] : u = [name |-> m.name, buffer |-> <<>>]
  BY <1>1, UploadSet
<1>4. PICK k \in Nat : k = NewSession
  BY <1>1, ServerTypes
<1>5. PICK s : s = [srv EXCEPT !.session = k, !.upload = u]
  OBVIOUS
<1>6. s \in Server
  BY <1>1, <1>5 DEF Server
<1>7. Serves(m, s, <<a>>)
  BY <1>2, <1>3, <1>4, <1>5 DEF _createFileCommand
<1> QED BY <1>1, <1>6, <1>7, ServesOne

LEMMA WriteServed ==
    ASSUME NEW m, Serving(m), _writeCommand(m)
    PROVE  srv' \in Server /\ toGcs' \in Seq(Answer)
<1>1. m \in Request /\ ~OfRange(m) /\ m.name \in Name /\ m.off \in Nat /\ srv \in Server /\ toGcs \in Seq(Answer)
  BY RequestTypes DEF Serving, _writeCommand, OfRange
<1>2. CASE Serves(m, srv, <<Nak(m, "session")>>)
  BY <1>2, Refuses
<1>3. CASE Serves(m, srv, <<Nak(m, "fail")>>)
  BY <1>3, Refuses
<1>4. CASE Serves(m, [srv EXCEPT !.upload.buffer = IF m.off < Len(@) THEN ReplaceAt(@, m.off + 1, <<m.name, m.off>>)
                                                   ELSE Append(@, <<m.name, m.off>>)], <<Ack(m)>>)
  <2>1. srv.upload \in [name : Name, buffer : Content]
    BY <1>1, ServerTypes
  <2>2. PICK b \in Content : b = srv.upload.buffer
    BY <2>1
  <2>3. PICK e \in Name \X Nat : e = <<m.name, m.off>>
    BY <1>1
  <2>4. b \in Seq(Name \X Nat) /\ Len(b) \in Nat
    BY LenProperties DEF Content
  <2>5. PICK c \in Content : c = IF m.off < Len(b) THEN ReplaceAt(b, m.off + 1, e) ELSE Append(b, e)
    <3>1. ASSUME m.off < Len(b) PROVE ReplaceAt(b, m.off + 1, e) \in Content
      <4>1. PICK i \in 1..Len(b) : i = m.off + 1
        BY <1>1, <2>4, <3>1
      <4>2. [b EXCEPT ![i] = e] \in Seq(Name \X Nat)
        BY <2>4, ExceptSeq
      <4> QED BY <4>1, <4>2 DEF ReplaceAt, Content
    <3>2. Append(b, e) \in Content
      BY <2>4, AppendProperties DEF Content
    <3> QED BY <3>1, <3>2
  <2>6. PICK u \in [name : Name, buffer : Content] : u = [srv.upload EXCEPT !.buffer = c]
    BY <2>1
  <2>7. PICK s : s = [srv EXCEPT !.upload = u]
    OBVIOUS
  <2>8. s \in Server
    BY <1>1, <2>7 DEF Server
  <2>9. Serves(m, s, <<Ack(m)>>)
    <3>1. c = IF m.off < Len(srv.upload.buffer) THEN ReplaceAt(srv.upload.buffer, m.off + 1, <<m.name, m.off>>)
              ELSE Append(srv.upload.buffer, <<m.name, m.off>>)
      BY <2>2, <2>3, <2>5
    <3>2. s = [srv EXCEPT !.upload = [srv.upload EXCEPT !.buffer = c]]
      BY <2>6, <2>7
    <3>3. s = [srv EXCEPT !.upload.buffer = c]
      BY <3>2
    <3>4. s = [srv EXCEPT !.upload.buffer = IF m.off < Len(@) THEN ReplaceAt(@, m.off + 1, <<m.name, m.off>>)
                                            ELSE Append(@, <<m.name, m.off>>)]
      BY <3>1, <3>3
    <3> QED BY <1>4, <3>4
  <2>10. Ack(m) \in Answer
    BY <1>1, AckType
  <2> QED BY <1>1, <2>8, <2>9, <2>10, ServesOne
<1> QED BY <1>2, <1>3, <1>4 DEF _writeCommand

LEMMA ListServed ==
    ASSUME NEW m, Serving(m), _listCommand(m)
    PROVE  srv' \in Server /\ toGcs' \in Seq(Answer)
<1>1. m \in Request /\ ~OfRange(m) /\ srv \in Server /\ toGcs \in Seq(Answer)
  BY DEF Serving, _listCommand, OfRange
<1>2. PICK time \in srv.time :
        Serves(m, [srv EXCEPT !.time = {time}],
               <<IF m.req = "listTime" /\ ~time THEN Nak(m, "unknown")
                 ELSE IF m.off < FileSize THEN Ack(m) ELSE Nak(m, "eof")>>)
  BY DEF _listCommand
<1>7. PICK a : a = IF m.req = "listTime" /\ ~time THEN Nak(m, "unknown")
                   ELSE IF m.off < FileSize THEN Ack(m) ELSE Nak(m, "eof")
  OBVIOUS
<1>3. a \in Answer
  BY <1>1, <1>7, AckType, NakType
<1>4. PICK t \in SUBSET BOOLEAN : t = {time}
  BY <1>1, ServerTypes
<1>5. PICK s : s = [srv EXCEPT !.time = t]
  OBVIOUS
<1>6. s \in Server
  BY <1>1, <1>5 DEF Server
<1> QED BY <1>1, <1>2, <1>3, <1>4, <1>5, <1>6, <1>7, ServesOne

LEMMA RemoveServed ==
    ASSUME NEW m, Serving(m), _removeFileCommand(m)
    PROVE  srv' \in Server /\ toGcs' \in Seq(Answer)
<1>1. m \in Request /\ ~OfRange(m) /\ srv \in Server /\ toGcs \in Seq(Answer)
  BY DEF Serving, _removeFileCommand, OfRange
<1>2. PICK a : a = IF srv.present THEN Ack(m) ELSE Nak(m, "fail")
  OBVIOUS
<1>3. a \in Answer
  BY <1>1, <1>2, AckType, NakType
<1>4. PICK s : s = [srv EXCEPT !.present = FALSE]
  OBVIOUS
<1>5. s \in Server
  BY <1>1, <1>4 DEF Server
<1>6. Serves(m, s, <<a>>)
  BY <1>2, <1>4 DEF _removeFileCommand
<1> QED BY <1>1, <1>3, <1>5, <1>6, ServesOne

LEMMA RequestArrives ==
    ASSUME NEW fit, Stands(fit), mavlinkMessageReceived
    PROVE  Stands(fit)'
<1>0. IInv
  BY DEF Stands
<1>1. PICK i \in DOMAIN toVehicle, refused \in {0, 1} :
        /\ toVehicle' = RemoveAt(toVehicle, i)
        /\ Spend((IF i = 1 THEN 0 ELSE 1) + refused) /\ reordered' = (reordered \/ i > 1)
        /\ \/ srv.last # NoReply /\ toGcs' = Append(toGcs, srv.last) /\ UNCHANGED srv
           \/ Serves(toVehicle[i], srv, <<Nak(toVehicle[i], "fail")>>)
           \/ Command(toVehicle[i])
        /\ UNCHANGED <<g, started, linkUp, bound>>
  BY DEF mavlinkMessageReceived
<1>2. /\ faults \in Nat /\ bound \in Nat \X Nat /\ toGcs \in Seq(Answer) /\ toVehicle \in Seq(Request)
      /\ reordered \in BOOLEAN /\ linkUp \in BOOLEAN /\ srv \in Server
  BY <1>0, Settled
<1>3. faults' \in 0..MaxFaults
  <2>1. PICK cost \in Nat : cost = (IF i = 1 THEN 0 ELSE 1) + refused
    OBVIOUS
  <2> QED BY <1>1, <1>2, <2>1, Spent
<1>4. toVehicle' \in Seq(Request) /\ reordered' \in BOOLEAN
  <2>1. RemoveAt(toVehicle, i) \in Seq(Request)
    BY <1>2, RemovedType
  <2> QED BY <1>1, <2>1
<1>5. PICK m : m = toVehicle[i]
  OBVIOUS
<1>6. Serving(m)
  <2>1. m \in Request
    BY <1>2, <1>5
  <2> QED BY <1>2, <2>1 DEF Serving
<1>7. srv' \in Server /\ toGcs' \in Seq(Answer)
  <2>1. CASE srv.last # NoReply /\ toGcs' = Append(toGcs, srv.last) /\ UNCHANGED srv
    <3>1. srv.last \in Answer
      BY <1>2, <2>1, ServerTypes
    <3>2. Append(toGcs, srv.last) \in Seq(Answer)
      BY <1>2, <3>1, AppendProperties
    <3> QED BY <1>2, <2>1, <3>2
  <2>2. CASE Serves(m, srv, <<Nak(m, "fail")>>)
    BY <1>6, <2>2, Refuses
  <2>3. CASE Command(m)
    BY <1>6, <2>3, ResetServed, TerminateServed, OpenServed, ReadServed, BurstServed, CreateServed, WriteServed,
       ListServed, RemoveServed DEF Command
  <2> QED BY <1>1, <1>5, <2>1, <2>2, <2>3
<1> QED BY <1>1, <1>2, <1>3, <1>4, <1>7, MembersStay

(***************************************************************************)
(* The link and the vehicle.                                               *)

LEMMA LinkSteps ==
    ASSUME NEW fit, Stands(fit), Link
    PROVE  Stands(fit)'
<1>0. IInv
  BY DEF Stands
<1>1. /\ faults \in Nat /\ bound \in Nat \X Nat /\ toGcs \in Seq(Answer) /\ toVehicle \in Seq(Request)
      /\ reordered \in BOOLEAN /\ linkUp \in BOOLEAN /\ srv \in Server /\ faults \in 0..MaxFaults
  BY <1>0, Settled
<1>2. ASSUME Spend(1) PROVE faults' \in 0..MaxFaults
  <2>1. PICK cost \in Nat : cost = 1
    OBVIOUS
  <2> QED BY <1>1, <1>2, <2>1, Spent
<1>3. CASE Lose
  <2>1. toVehicle' \in Seq(Request) /\ toGcs' \in Seq(Answer)
    <3>1. ASSUME NEW i \in DOMAIN toVehicle PROVE RemoveAt(toVehicle, i) \in Seq(Request)
      BY <1>1, RemovedType
    <3>2. ASSUME NEW i \in DOMAIN toGcs PROVE RemoveAt(toGcs, i) \in Seq(Answer)
      BY <1>1, RemovedType
    <3> QED BY <1>1, <1>3, <3>1, <3>2 DEF Lose
  <2>2. Spend(1) /\ UNCHANGED <<g, started, srv, linkUp, reordered, bound>>
    BY <1>3 DEF Lose
  <2> QED BY <1>1, <1>2, <2>1, <2>2, MembersStay
<1>4. CASE Repeat
  <2>1. toGcs' \in Seq(Answer)
    <3>1. PICK i \in DOMAIN toGcs : toGcs' = Append(toGcs, toGcs[i])
      BY <1>4 DEF Repeat
    <3>2. toGcs[i] \in Answer
      BY <1>1
    <3> QED BY <1>1, <3>1, <3>2, AppendProperties
  <2>2. Spend(1) /\ reordered' = TRUE /\ UNCHANGED <<g, started, toVehicle, srv, linkUp, bound>>
    BY <1>4 DEF Repeat
  <2> QED BY <1>1, <1>2, <2>1, <2>2, MembersStay
<1>5. CASE SessionExpires
  <2>1. Spend(1) /\ srv' = [srv EXCEPT !.open = 0] /\ UNCHANGED <<g, started, toVehicle, toGcs, linkUp, reordered, bound>>
    BY <1>5 DEF SessionExpires
  <2>2. srv' \in Server
    <3>1. PICK k \in Name : k = 0
      BY <1>1, Names
    <3>2. [srv EXCEPT !.open = k] \in Server
      BY <1>1 DEF Server
    <3> QED BY <2>1, <3>1, <3>2
  <2> QED BY <1>1, <1>2, <2>1, <2>2, MembersStay
<1>6. CASE LinkDrops
  <2>1. /\ Spend(1) /\ linkUp' = FALSE /\ toVehicle' = <<>> /\ toGcs' = <<>>
        /\ UNCHANGED <<g, started, srv, reordered, bound>>
    BY <1>6 DEF LinkDrops
  <2>2. toVehicle' \in Seq(Request) /\ toGcs' \in Seq(Answer)
    BY <2>1, EmptySeq
  <2> QED BY <1>1, <1>2, <2>1, <2>2, MembersStay
<1>7. CASE LinkReturns
  <2>1. linkUp' = TRUE /\ UNCHANGED <<g, started, toVehicle, toGcs, srv, faults, reordered, bound>>
    BY <1>7 DEF LinkReturns
  <2> QED BY <1>1, <2>1, MembersStay
<1> QED BY <1>3, <1>4, <1>5, <1>6, <1>7 DEF Link

(***************************************************************************)
(* The theorems.                                                           *)

LEMMA Starts == Init => IInv
<1> SUFFICES ASSUME Init PROVE IInv
  OBVIOUS
<1>1. bound \in Nat \X Nat
  BY LimitAssumption DEF Init
<1>2. PICK s \in StartSeqs :
        g = [op |-> "none", at |-> "idle", timer |-> FALSE, expected |-> s, clearRetries |-> 0,
             dl |-> NoDownload, ul |-> NoUpload, ls |-> NoList, rm |-> NoDelete,
             withTime |-> "unknown", out |-> <<>>, reports |-> <<>>,
             numbered |-> TRUE, drifted |-> FALSE, misclosed |-> FALSE]
  BY DEF Init
<1>3. g \in Members
  <2>1. PICK e \in Seqs : e = s
    BY SeqAssumption
  <2>2. PICK o \in Seq(Request), r \in Seq(Notice) : o = <<>> /\ r = <<>>
    BY EmptySeq
  <2>3. PICK d \in Download, u \in Upload, l \in Listing, k \in Deletion :
          d = NoDownload /\ u = NoUpload /\ l = NoList /\ k = NoDelete
    BY <1>1, NoMembers
  <2>4. g = [op |-> "none", at |-> "idle", timer |-> FALSE, expected |-> e, clearRetries |-> 0,
             dl |-> d, ul |-> u, ls |-> l, rm |-> k, withTime |-> "unknown", out |-> o, reports |-> r,
             numbered |-> TRUE, drifted |-> FALSE, misclosed |-> FALSE]
    BY <1>2, <2>1, <2>2, <2>3
  <2> QED BY <2>4 DEF Members
<1>4. g.out = <<>> /\ Staged(g)
  <2>1. g.op = "none" /\ g.at = "idle" /\ g.timer = FALSE /\ g.out = <<>>
    BY <1>2
  <2> QED BY <2>1, StagesAre DEF Staged
<1>5. started = <<>> /\ toVehicle = <<>> /\ toGcs = <<>> /\ linkUp = TRUE /\ faults = 0 /\ reordered = FALSE
  BY DEF Init
<1>6. started \in Seq(Operation) /\ toVehicle \in Seq(Request) /\ toGcs \in Seq(Answer) /\ Len(started) = 0
  BY <1>5, EmptySeq
<1>7. MaxOps \in Nat /\ MaxFaults \in Nat
  BY <1>1, Names
<1>8. srv \in Server
  <2>1. PICK single \in BOOLEAN :
          srv = [single |-> single, time |-> BOOLEAN, session |-> 0, open |-> 0,
                 upload |-> [name |-> 0, buffer |-> <<>>],
                 stored |-> [k \in 1..bound[1] |-> <<>>], present |-> TRUE, last |-> NoReply]
    BY DEF Init
  <2>2. PICK u \in [name : Name, buffer : Content] : u = [name |-> 0, buffer |-> <<>>]
    BY <1>1, Names, UploadSet
  <2>3. PICK c \in [1..MaxOps -> Content] : c = [k \in 1..bound[1] |-> <<>>]
    <3>1. <<>> \in Content
      BY EmptySeq DEF Content
    <3> QED BY <3>1 DEF MaxOps
  <2>4. PICK o \in Name : o = 0
    BY <1>1, Names
  <2>5. PICK l \in Answer \cup {NoReply} : l = NoReply
    OBVIOUS
  <2>6. srv = [single |-> single, time |-> BOOLEAN, session |-> 0, open |-> o, upload |-> u, stored |-> c,
               present |-> TRUE, last |-> l]
    BY <2>1, <2>2, <2>3, <2>4, <2>5
  <2> QED BY <2>6 DEF Server
<1>9. Typed
  <2>1. Len(started) <= MaxOps
    BY <1>6, <1>7
  <2>2. faults \in 0..MaxFaults
    BY <1>5, <1>7
  <2>3. linkUp \in BOOLEAN /\ reordered \in BOOLEAN
    BY <1>5
  <2>4. started \in Seq(Operation) /\ toVehicle \in Seq(Request) /\ toGcs \in Seq(Answer)
    BY <1>6
  <2> QED BY <1>1, <1>3, <1>4, <1>8, <2>1, <2>2, <2>3, <2>4 DEF Typed
<1>10. OneAtATime(g, started)
  <2>1. /\ g.op = "none" /\ g.dl.active = FALSE /\ g.ul.open = FALSE /\ g.rm.name = 0 /\ g.reports = <<>>
    BY <1>2 DEF NoDownload, NoUpload, NoDelete
  <2>2. Len(g.reports) = 0
    BY <2>1, EmptySeq
  <2> QED BY <1>6, <2>1, <2>2 DEF OneAtATime
<1>11. Pursues(g)
  <2>1. g.op = "none" /\ g.at = "idle"
    BY <1>2
  <2> QED BY <2>1 DEF Pursues
<1> QED BY <1>9, <1>10, <1>11 DEF IInv

LEMMA Stutters ==
    ASSUME NEW fit, Stands(fit), UNCHANGED vars
    PROVE  Stands(fit)'
<1>0. IInv
  BY DEF Stands
<1>1. UNCHANGED <<g, started, bound, toVehicle, toGcs, srv, linkUp, faults, reordered>>
  BY DEF vars
<1> QED BY <1>0, <1>1, Settled, MembersStay

LEMMA Keeps ==
    ASSUME NEW fit, Stands(fit), fit => AnswersFit, [Next]_vars
    PROVE  Stands(fit)'
BY UserSteps, AnswerArrives, TimerExpires, RequestArrives, LinkSteps, Stutters DEF Next

(* The members, the messages in flight and the server keep to their types, *)
(* the operation that runs is in a state of its own table, and, while no   *)
(* closing went astray, it is the operation started last and the earlier   *)
(* ones have each been reported (FTPManager.cc, MockLinkFTP.cc).           *)
THEOREM Inductive == Spec => []IInv
<1>1. Init => Stands(FALSE)
  BY Starts DEF Stands, Accounted
<1>2. ASSUME Stands(FALSE), [Next]_vars PROVE Stands(FALSE)'
  BY <1>2, Keeps
<1>3. Stands(FALSE) => IInv
  BY DEF Stands
<1> QED BY <1>1, <1>2, <1>3, PTL DEF Spec

(* Every member keeps to its type: the numbers stay within sixteen bits,   *)
(* no retry is made beyond _maxRetry, no offset leaves the file, and       *)
(* nothing is left unsent (FTPManager.h).                                  *)
THEOREM TypeCorrect == Spec => []TypeOK
<1>1. ASSUME IInv PROVE TypeOK
  <2>1. /\ g \in Members /\ g.out = <<>> /\ bound \in Nat \X Nat /\ toVehicle \in Seq(Request) /\ toGcs \in Seq(Answer)
        /\ faults \in 0..MaxFaults /\ Len(started) \in Nat /\ Len(started) <= MaxOps
    BY <1>1, Settled DEF IInv, Typed
  <2>2. /\ g.op \in {"none", "download", "upload", "list", "delete", "terminate"}
        /\ g.at \in {"idle", "clear", "open", "burst", "fill", "reset", "create", "write", "list", "remove", "terminate"}
        /\ g.timer \in BOOLEAN /\ g.expected \in Seqs /\ g.clearRetries \in 0..2
    BY <2>1 DEF Members
  <2>3. /\ g.dl.missing \in Seq(Hole) /\ g.dl.file \in [Blocks -> (0..MaxOps) \X Blocks] /\ g.dl.retry \in 0..MaxRetry
        /\ g.dl.reopens \in 0..(MaxReopens + 1) /\ g.dl.expectedOffset \in 0..FileSize
    <3>1. g.dl \in Download
      BY <2>1, MemberTypes
    <3> QED BY <3>1 DEF Download, Name
  <2>4. g.ul.sent \in 0..FileSize /\ g.ul.retry \in 0..MaxRetry
    BY <2>1, UploadTypes
  <2>5. g.rm.retry \in 0..MaxRetry
    BY <2>1, MemberTypes DEF Deletion
  <2>6. ASSUME NEW i \in DOMAIN toVehicle PROVE toVehicle[i].seq \in Seqs
    <3>1. toVehicle[i] \in Request
      BY <2>1
    <3> QED BY <3>1, RequestTypes
  <2>7. ASSUME NEW i \in DOMAIN toGcs PROVE toGcs[i].seq \in Seqs
    <3>1. toGcs[i] \in Answer
      BY <2>1
    <3> QED BY <3>1, AnswerTypes
  <2>8. Len(started) \in 0..MaxOps
    <3>1. MaxOps \in Nat
      BY <2>1, Names
    <3> QED BY <2>1, <3>1
  <2> QED BY <2>1, <2>2, <2>3, <2>4, <2>5, <2>6, <2>7, <2>8 DEF TypeOK
<1> QED BY <1>1, Inductive, PTL

(* When no operation runs, each operation started has been reported        *)
(* exactly once, by its own signal, whatever was lost, repeated, refused   *)
(* or cancelled; an upload whose closing went unanswered aside.            *)
THEOREM EachOperationReported == Spec => []EveryOperationReported
<1>1. ASSUME IInv PROVE EveryOperationReported
  <2> SUFFICES ASSUME g.op = "none", ~g.misclosed, NEW k \in DOMAIN started
               PROVE  /\ Cardinality({i \in DOMAIN g.reports : g.reports[i].name = k}) = 1
                      /\ \E i \in DOMAIN g.reports : g.reports[i].name = k /\ g.reports[i].sig = started[k].kind
    BY DEF EveryOperationReported
  <2>1. OneAtATime(g, started) /\ g \in Members /\ started \in Seq(Operation)
    BY <1>1, Settled
  <2>2. Len(g.reports) = Len(started) /\ \A i \in 1..Len(g.reports) : g.reports[i].name = i /\ g.reports[i].sig = started[i].kind
    BY <2>1 DEF OneAtATime
  <2>3. g.reports \in Seq(Notice)
    BY <2>1, MemberTypes
  <2>4. DOMAIN started = 1..Len(started) /\ DOMAIN g.reports = 1..Len(g.reports)
    BY <2>1, <2>3, LenProperties
  <2>5. k \in DOMAIN g.reports
    BY <2>2, <2>4
  <2>6. {i \in DOMAIN g.reports : g.reports[i].name = k} = {k}
    BY <2>2, <2>4, <2>5
  <2>7. Cardinality({k}) = 1
    BY FS_Singleton
  <2> QED BY <2>2, <2>4, <2>5, <2>6, <2>7
<1> QED BY <1>1, Inductive, PTL

(* What the holes are to be, of the members of any download.               *)
Exact(d) ==
    /\ d.bytesWritten = Cardinality(Written(d))
    /\ {b \in Blocks : \E c \in Written(d) : b < c} \ Written(d) = UNION {Covered(d.missing[i]) : i \in DOMAIN d.missing}
    /\ \A i, j \in DOMAIN d.missing : i # j => Covered(d.missing[i]) \cap Covered(d.missing[j]) = {}

LEMMA KeptExact ==
    ASSUME NEW d \in Download, NEW f, Kept(d, f)
    PROVE  Exact(d)
<1>1. d.missing \in Seq(Hole) /\ FileSize \in Nat
  BY FileAssumption DEF Download
<1>2. PICK w \in SUBSET Blocks : w = Written(d)
  BY DEF Written
<1>3. Accounts(w, d.missing, f) /\ d.bytesWritten = Cardinality(w) /\ f \in 0..FileSize
  BY <1>2 DEF Kept, Counted, Accounts
<1>4. f \in Nat /\ f <= FileSize
  BY <1>1, <1>3
<1>5. ASSUME NEW i \in DOMAIN d.missing
      PROVE  \E o \in Nat, e \in Nat : /\ o = d.missing[i].off /\ e = d.missing[i].off + d.missing[i].n /\ e <= f
                                      /\ \A b : b \in Covered(d.missing[i]) <=> b \in Int /\ o <= b /\ b < e
  <2>1. d.missing[i] \in Hole
    BY <1>1
  <2>2. PICK o \in Nat, n \in Nat : o = d.missing[i].off /\ n = d.missing[i].n
    BY <2>1, HoleTypes
  <2>3. PICK e \in Nat : e = o + n
    OBVIOUS
  <2>4. e <= f
    BY <1>3, <2>2, <2>3 DEF Accounts
  <2>5. Covered(d.missing[i]) = o..(e - 1)
    BY <2>2, <2>3 DEF Covered
  <2>6. \A b : b \in o..(e - 1) <=> b \in Int /\ o <= b /\ b < e
    OBVIOUS
  <2> QED BY <2>2, <2>3, <2>4, <2>5, <2>6
<1>6. ASSUME NEW b \in Blocks, NEW c \in w, b < c, b \notin w
      PROVE  \E i \in DOMAIN d.missing : b \in Covered(d.missing[i])
  <2>1. b \in Int /\ 0 <= b /\ c \in Int
    BY <1>1, <1>6 DEF Blocks
  <2>2. c < f
    BY <1>3, <1>6 DEF Accounts
  <2>3. b \in 0..(f - 1)
    BY <1>4, <1>6, <2>1, <2>2
  <2> QED BY <1>3, <1>6, <2>3 DEF Accounts
<1>7. ASSUME NEW i \in DOMAIN d.missing, NEW b \in Covered(d.missing[i])
      PROVE  b \in Blocks /\ b \notin w /\ \E c \in w : b < c
  <2>1. b \in Int /\ 0 <= b /\ b < f
    <3>1. PICK o \in Nat, e \in Nat : e <= f /\ b \in Int /\ o <= b /\ b < e
      BY <1>5, <1>7
    <3> QED BY <1>4, <3>1
  <2>2. b \in 0..(f - 1) /\ b \in Blocks
    BY <1>1, <1>4, <2>1 DEF Blocks
  <2>3. b \notin w
    BY <1>3, <1>7, <2>2 DEF Accounts
  <2>4. f - 1 \in w
    <3>1. f > 0
      BY <1>4, <2>1
    <3> QED BY <1>3, <3>1 DEF Accounts
  <2>5. b # f - 1
    BY <2>3, <2>4
  <2>6. b < f - 1
    BY <1>4, <2>1, <2>5
  <2> QED BY <2>2, <2>3, <2>4, <2>6
<1>8. {b \in Blocks : \E c \in w : b < c} \ w = UNION {Covered(d.missing[i]) : i \in DOMAIN d.missing}
  BY <1>6, <1>7
<1>9. ASSUME NEW i \in DOMAIN d.missing, NEW j \in DOMAIN d.missing, i < j
      PROVE  Covered(d.missing[i]) \cap Covered(d.missing[j]) = {}
  <2>1. d.missing[i].off + d.missing[i].n <= d.missing[j].off
    BY <1>3, <1>9 DEF Accounts
  <2>2. PICK a \in Nat, e \in Nat : /\ e = d.missing[i].off + d.missing[i].n
                                  /\ \A b : b \in Covered(d.missing[i]) <=> b \in Int /\ a <= b /\ b < e
    BY <1>5
  <2>3. PICK o \in Nat, k \in Nat : /\ o = d.missing[j].off
                                  /\ \A b : b \in Covered(d.missing[j]) <=> b \in Int /\ o <= b /\ b < k
    BY <1>5
  <2>4. e <= o
    BY <2>1, <2>2, <2>3
  <2>5. ASSUME NEW b \in Covered(d.missing[i]), b \in Covered(d.missing[j]) PROVE FALSE
    <3>1. b \in Int /\ b < e /\ o <= b
      BY <2>2, <2>3, <2>5
    <3> QED BY <2>4, <3>1
  <2> QED BY <2>5
<1>10. ASSUME NEW i \in DOMAIN d.missing, NEW j \in DOMAIN d.missing, i # j
       PROVE  Covered(d.missing[i]) \cap Covered(d.missing[j]) = {}
  <2>1. i \in Int /\ j \in Int
    BY <1>1
  <2>2. i < j \/ j < i
    BY <1>10, <2>1
  <2>3. CASE i < j
    BY <1>9, <2>3
  <2>4. CASE j < i
    <3>1. Covered(d.missing[j]) \cap Covered(d.missing[i]) = {}
      BY <1>9, <2>4
    <3> QED BY <3>1
  <2> QED BY <2>2, <2>3, <2>4
<1> QED BY <1>2, <1>3, <1>8, <1>10 DEF Exact

(* During a burst, also one resumed after the session was lost, the        *)
(* recorded holes are exactly what is missing and every block is counted   *)
(* once, whatever was lost, delayed, overtaken or repeated                 *)
(* (FTPManager.cc, the burst's ack function and _claimMissingRange).       *)
THEOREM BurstHolesAreWhatIsMissing == Spec => [](g.at = "burst" => HolesAreWhatIsMissing)
<1>1. ASSUME IInv, g.at = "burst" PROVE HolesAreWhatIsMissing
  <2>1. g.dl \in Download
    BY <1>1, MemberTypes DEF IInv, Typed
  <2>2. Kept(g.dl, g.dl.expectedOffset)
    BY <1>1 DEF IInv, Pursues
  <2>3. Exact(g.dl)
    BY <2>1, <2>2, KeptExact
  <2> QED BY <2>3 DEF Exact, Written, HolesAreWhatIsMissing
<1>2. IInv => (g.at = "burst" => HolesAreWhatIsMissing)
  BY <1>1
<1> QED BY <1>2, Inductive, PTL

(* The same holds in every state while the file is open, as long as no     *)
(* answer to a request for a hole is longer than the hole: the code        *)
(* compares its offset only (FTPManager.cc, the fill's ack function).      *)
THEOREM HolesAreKept == Spec /\ []AnswersFit => []HolesAreWhatIsMissing
<1>1. Init => Stands(TRUE)
  <2> SUFFICES ASSUME Init PROVE Stands(TRUE)
    OBVIOUS
  <2>1. ~g.dl.open
    BY DEF Init, NoDownload
  <2> QED BY <2>1, Starts DEF Stands, Accounted
<1>2. ASSUME Stands(TRUE), AnswersFit, [Next]_vars PROVE Stands(TRUE)'
  BY <1>2, Keeps
<1>3. ASSUME Stands(TRUE) PROVE HolesAreWhatIsMissing
  <2> SUFFICES ASSUME g.dl.open PROVE HolesAreWhatIsMissing
    BY DEF HolesAreWhatIsMissing
  <2>1. g.dl \in Download
    BY <1>3, MemberTypes DEF Stands, IInv, Typed
  <2>2. PICK f \in 0..FileSize : Kept(g.dl, f)
    BY <1>3 DEF Stands, Accounted
  <2>3. Exact(g.dl)
    BY <2>1, <2>2, KeptExact
  <2> QED BY <2>3 DEF Exact, Written, HolesAreWhatIsMissing
<1> QED BY <1>1, <1>2, <1>3, PTL DEF Spec

=============================================================================
