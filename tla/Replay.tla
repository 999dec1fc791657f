------------------------------- MODULE Replay -------------------------------
(***************************************************************************)
(* claviger replay (cmd/replay.go, internal/replay): one request, or every *)
(* request of a corpus, is sent under each --as identity in turn, with a   *)
(* session of a running daemon or of the command's own store.  A failure   *)
(* of one identity is a cell of the table, never the end of the run; the   *)
(* table is printed at the end, rows whose identities got different        *)
(* statuses are marked, and the exit code says whether everything failed.  *)
(*                                                                         *)
(* Meanwhile the daemon's other callers use the same store, the daemon may *)
(* be stopped or killed, and another one may take its place.               *)
(***************************************************************************)
EXTENDS ControlPlane, Corpus

CONSTANTS Anon,      \* the identity "anon", sent without a session
          AsLists,   \* the --as lists a run may be given
          Files,     \* the corpus files it may be given
          Statuses,  \* the statuses the target answers with
          CutStatuses  \* those of them whose body may be cut short

ASSUME ReplayAssumption ==
  /\ Command \in Caller /\ Anon \in Unmanaged
  /\ AsLists \subseteq Seq(Id \cup Unmanaged)
  /\ CutStatuses \subseteq Statuses

VARIABLE run   \* the state of the replay command

rvars == <<vars, control, run>>

NoFile == [ext |-> "", mentions |-> FALSE, kind |-> "path", items |-> <<>>]

\* src says whose store is asked, table holds the finished rows, row the cells
\* of the one in progress, sess the session of the exchange in progress.
NotRun ==
  [stage |-> "start", src |-> "none", ids |-> <<>>, reqs |-> <<>>,
   file |-> NoFile, unsafe |-> FALSE,
   table |-> <<>>, row |-> <<>>, sess |-> Nil, printed |-> <<>>, exit |-> 0]

ReplayInit == ControlInit /\ run = NotRun

At(stage) == run.stage = stage

-----------------------------------------------------------------------------
(* The command line.                                                       *)

\* Errors before anything is sent: nothing is printed on stdout.
Refuse == run' = [run EXCEPT !.stage = "done", !.exit = 1]

\* replaySource: a daemon if there is a socket file, else a store of its own.
Launch(ids, reqs, f, unsafe) ==
  run' = [run EXCEPT !.stage = "cell", !.ids = ids, !.reqs = reqs, !.file = f,
                     !.unsafe = unsafe,
                     !.src = IF SocketExists THEN "daemon" ELSE "own"]

\* --path, with a configuration that loads or does not.
RunPath(ids, method) ==
  /\ At("start")
  /\ \/ Refuse
     \/ ids # <<>> /\ Launch(ids, <<Shape(method, 0)>>, NoFile, FALSE)
  /\ UNCHANGED <<vars, control>>

HasRequest(reqs, n) == n \in DOMAIN reqs

\* --corpus, alone or with flags that contradict it.
RunCorpus(ids, f, format, unsafe) ==
  LET corpus == LoadOptions(f, format, unsafe) IN
  /\ At("start")
  /\ \/ Refuse
     \/ /\ ids # <<>>
        /\ corpus.ok /\ HasRequest(corpus.reqs, 1)
        /\ Launch(ids, corpus.reqs, f, unsafe)
  /\ UNCHANGED <<vars, control>>

-----------------------------------------------------------------------------
(* One cell: the current request under the current identity.               *)

CurrentReq == run.reqs[Len(run.table) + 1]
CurrentId  == run.ids[Len(run.row) + 1]

StoreUp == run.src = "own" \/ Listening

\* sent tells an exchange that took place from a failure before it, foreign is what
\* the request itself carries of somebody's identity.
Cell(err, status, sent) ==
  [id |-> CurrentId, err |-> err, status |-> status, sent |-> sent, sess |-> run.sess,
   foreign |-> CurrentReq.headers \cap IdentityHeaders]

\* After the last identity the next request comes, or the report.
AfterRow == IF HasRequest(run.reqs, Len(run.table) + 2) THEN "cell" ELSE "print"

RecordUnlessFailed(cell) ==
  IF cell.err
    THEN run' = [run EXCEPT !.table = Append(@, run.row), !.row = <<>>,
                            !.stage = AfterRow]
    ELSE run' = [run EXCEPT !.row = Append(@, cell), !.stage = "cell"]

\* A cell is recorded and the run moves on to the next identity or request.
Record(cell) ==
  LET row  == Append(run.row, cell)
      next == [run EXCEPT !.sess = Nil, !.stage = "cell"]
  IN  run' = IF Len(row) < Len(run.ids)
               THEN [next EXCEPT !.row = row]
               ELSE [next EXCEPT !.row = <<>>, !.table = Append(@, row), !.stage = AfterRow]

Buildable == CurrentReq.method # BadMethod

\* http.NewRequest refuses the method or the URL.
RequestFails ==
  /\ At("cell") /\ ~Buildable
  /\ Record(Cell(TRUE, 0, FALSE))
  /\ UNCHANGED <<vars, control>>

SendBare ==
  /\ At("cell") /\ Buildable
  /\ CurrentId = Anon
  /\ run' = [run EXCEPT !.stage = "sent"]
  /\ UNCHANGED <<vars, control>>

AskSession ==
  /\ At("cell") /\ Buildable
  /\ CurrentId # Anon /\ StoreUp
  /\ CallGet(Command, CurrentId)
  /\ run' = [run EXCEPT !.stage = "asked"]
  /\ UNCHANGED control

\* Nobody listens on the socket.
DialFails ==
  /\ At("cell") /\ Buildable
  /\ CurrentId # Anon /\ ~StoreUp
  /\ Record(Cell(TRUE, 0, FALSE))
  /\ UNCHANGED <<vars, control>>

\* Get, or /creds with a 200, returned a session; or it failed.
TakeSession ==
  /\ At("asked")
  /\ Return(Command)
  /\ IF res[Command].kind = "ok"
       THEN run' = [run EXCEPT !.sess = res[Command].sess, !.stage = "sent"]
       ELSE Record(Cell(TRUE, 0, FALSE))
  /\ UNCHANGED control

\* The daemon ended before it answered.
ConnectionLost ==
  /\ At("asked")
  /\ pc[Command] = "idle"
  /\ Record(Cell(TRUE, 0, FALSE))
  /\ UNCHANGED <<vars, control>>

\* The target answers, the transport fails, or the body cannot be read to its end.
Exchange ==
  /\ At("sent")
  /\ \/ \E status \in Statuses : Record(Cell(FALSE, status, TRUE))
     \/ Record(Cell(TRUE, 0, TRUE))
     \/ \E status \in CutStatuses : Record(Cell(TRUE, status, TRUE))
  /\ UNCHANGED <<vars, control>>

-----------------------------------------------------------------------------
(* The report.                                                             *)

DiffersFromFirst(row) ==
  \E k \in DOMAIN row : ~row[k].err /\ row[k].status # row[1].status

\* The statuses of the cells that did not fail are not all equal.
Differs(row) ==
  \E j, k \in DOMAIN row :
    ~row[j].err /\ ~row[k].err /\ row[j].status # row[k].status

RowFailed(row) == \A k \in DOMAIN row : row[k].err

AnyRowFailed(table) == IF \E k \in DOMAIN table : RowFailed(table[k]) THEN 1 ELSE 0

ExitCode(table) == IF \A k \in DOMAIN table : RowFailed(table[k]) THEN 1 ELSE 0

WithCorpus == run.file.kind # "path"

\* A run with --path prints its one row without a marker.
PrintedRow(k) ==
  [req |-> run.reqs[k], marked |-> WithCorpus /\ Differs(run.table[k]),
   cells |-> run.table[k]]

Report ==
  /\ At("print")
  /\ run' = [run EXCEPT !.stage = "done", !.exit = ExitCode(run.table),
                        !.printed = [k \in DOMAIN run.table |-> PrintedRow(k)],
                        !.table = <<>>]
  /\ UNCHANGED <<vars, control>>

-----------------------------------------------------------------------------
Methods == {"GET", BadMethod}

ReplayStep ==
  \/ RequestFails \/ SendBare \/ AskSession \/ DialFails
  \/ TakeSession \/ ConnectionLost \/ Exchange \/ Report

StoreWorks == StoreUp /\ CallProceeds /\ UNCHANGED run

Begin ==
  \E ids \in AsLists :
    \/ \E method \in Methods : RunPath(ids, method)
    \/ \E f \in Files, format \in Formats \cup {""}, unsafe \in BOOLEAN :
         RunCorpus(ids, f, format, unsafe)

\* What becomes of a daemon matters to a run that has not looked, or is attached.
DaemonStep ==
  /\ run.src # "own" /\ ~At("done")
  /\ DaemonEnds \/ DaemonStarts \/ \E c \in Caller : DaemonServes(c)
  /\ UNCHANGED run

Finished == At("done") /\ UNCHANGED rvars

ReplayNext ==
  \/ Begin \/ ReplayStep \/ StoreWorks \/ DaemonStep
  \/ ~At("done") /\ Tick /\ UNCHANGED <<control, run>>
  \/ Finished

ReplaySpec == ReplayInit /\ [][ReplayNext]_rvars

-----------------------------------------------------------------------------
(* Properties.                                                             *)

Printed == At("done") /\ run.printed # <<>>

Asked(r) == <<r.path, r.method>>

\* The requests a corpus file stands for, read off the file.
MeantBy(f, unsafe) ==
  IF f.kind = "openapi"
    THEN {o \in f.items : o[2] \in Replayed(unsafe)}
    ELSE {Asked(f.items[k].req) : k \in {k \in DOMAIN f.items : f.items[k].kind = "request"}}

Meant(f, unsafe) ==
  IF f.kind = "path" THEN {Asked(run.printed[1].req)} ELSE MeantBy(f, unsafe)

\* "One bad row never erases the whole comparison table" (replay.go:28-30): the
\* printed matrix has every request of the corpus once, and for
\* each a cell for every identity in the order asked, although identities
\* fail, the daemon dies and comes back, and the file is read in three formats.
MatrixComplete ==
  Printed =>
    /\ {Asked(run.printed[k].req) : k \in DOMAIN run.printed} = Meant(run.file, run.unsafe)
    /\ Len(run.printed) = Cardinality(Meant(run.file, run.unsafe))
    /\ \A k \in DOMAIN run.printed :
         [n \in DOMAIN run.printed[k].cells |-> run.printed[k].cells[n].id] = run.ids

\* The statuses of the cells that were answered.
Answers(row) == {row[n].status : n \in {n \in DOMAIN row : ~row[n].err}}

\* "A DIFFERS marker when a corpus row's identities do not all return the same
\* status" (docs/design.md:87-88): a row is marked exactly if two identities were
\* answered with different statuses, whatever failed cells lie between them.
MarkerHonest ==
  Printed /\ WithCorpus =>
    \A k \in DOMAIN run.printed :
      run.printed[k].marked <=> Cardinality(Answers(run.printed[k].cells)) > 1

\* "Exit non-zero only when every request failed for every identity" (cmd/
\* replay.go:157-158), and a run that printed nothing never exits with 0.
ExitHonest ==
  At("done") =>
    (run.exit = 0 <=> \E k \in DOMAIN run.printed :
                        \E n \in DOMAIN run.printed[k].cells : ~run.printed[k].cells[n].err)

\* A cell carries one identity, the one it is printed under: what a browser
\* captured for its user never goes out, and "anon" carries nothing (har.go:11-20).
OneIdentityPerCell ==
  Printed =>
    \A k \in DOMAIN run.printed : \A n \in DOMAIN run.printed[k].cells :
      LET c == run.printed[k].cells[n]
      IN  c.sent => c.foreign = {} /\ (c.sess = Nil <=> c.id = Anon)

\* The cells of one identity in the order they were sent.
Later(j, m, k, n) == j < k \/ (j = k /\ m < n)

SentPairs ==
  {p \in [j : DOMAIN run.printed, m : DOMAIN run.ids,
          k : DOMAIN run.printed, n : DOMAIN run.ids] :
     /\ Later(p.j, p.m, p.k, p.n)
     /\ run.ids[p.m] = run.ids[p.n]
     /\ run.printed[p.j].cells[p.m].sent /\ run.printed[p.k].cells[p.n].sent}

Sent(k, n) == run.printed[k].cells[n].sess

\* Within a run the sessions of one identity only move forward, although other
\* callers renew them and daemons come and go: a later row is never sent with
\* credentials older than an earlier row's.
RunNeverRegresses ==
  Printed => \A p \in SentPairs : Sent(p.j, p.m).tok <= Sent(p.k, p.n).tok

\* The rows of a standalone run are comparable: an identity keeps one session
\* until it expires, so a difference between rows is not a difference between
\* logins ("the hard part was having three valid sessions at once", design.md:93-94).
OneSessionPerIdentity ==
  Printed /\ run.src = "own" =>
    \A p \in SentPairs :
      Sent(p.j, p.m).tok # Sent(p.k, p.n).tok
        => Sent(p.j, p.m).exp # Unknown /\ Sent(p.j, p.m).exp < now

-----------------------------------------------------------------------------
(* The inductive invariant behind these properties.                        *)

Cells ==
  [id : Id \cup Unmanaged, err : BOOLEAN, status : Statuses \cup {0}, sent : BOOLEAN,
   sess : Session, foreign : SUBSET IdentityHeaders]

RunTypeOK ==
  /\ DOMAIN run = DOMAIN NotRun
  /\ run.stage \in {"start", "cell", "asked", "sent", "print", "done"}
  /\ run.src \in {"none", "daemon", "own"}
  /\ run.ids \in Seq(Id \cup Unmanaged)
  /\ run.row \in Seq(Cells) /\ run.table \in Seq(Seq(Cells))
  /\ run.sess \in Session

\* A cell in progress has an identity and a request; the command is in a call only
\* while it waits for a session, and only ever in Get.
ProgressOK ==
  /\ At("start") => run = NotRun
  /\ run.stage \in {"cell", "asked", "sent"} =>
       Len(run.row) < Len(run.ids) /\ HasRequest(run.reqs, Len(run.table) + 1)
  /\ At("print") => run.row = <<>>
  /\ ~At("sent") => run.sess = Nil
  /\ ~At("done") => run.printed = <<>>
  /\ \A k \in DOMAIN run.reqs : run.reqs[k].headers \cap IdentityHeaders = {}
  /\ \A k \in DOMAIN run.table : Len(run.table[k]) = Len(run.ids)
  /\ ~At("asked") => pc[Command] = "idle"
  /\ At("asked") =>
       CurrentId # Anon /\ pc[Command] \in {"idle", "getWait", "establish", "renew", "returned"}
  /\ pc[Command] # "idle" => want[Command] = CurrentId
  /\ At("sent") /\ CurrentId # Anon => CurrentId \in Id /\ run.sess # Nil
  /\ At("sent") /\ CurrentId = Anon => run.sess = Nil

\* The finished cells, those of the current row included.
Rows == Append(run.table, run.row)

CellOK(x, n) ==
  /\ x.id = run.ids[n]
  /\ x.sent => x.foreign = {} /\ (x.sess = Nil <=> x.id = Anon) /\ (x.id # Anon => x.id \in Id)

\* Whoever gets a session of i from now on gets t or something newer.
Ahead(i, t) ==
  /\ t <= logins
  /\ session[i] # Nil => t <= session[i].tok
  /\ \A c \in Caller : LoggingIn(c) /\ want[c] = i => t < login[c]

\* s may be sent before t for one identity.
Precedes(s, t) ==
  s.tok <= t.tok /\ (run.src = "own" /\ s.tok # t.tok => Expired(s, now))

Answered == pc[Command] = "returned" /\ res[Command].kind = "ok"

\* What the command was answered with is a session, in its own store the current one.
AnswerOK ==
  /\ Answered =>
       /\ want[Command] \in Id /\ res[Command].sess # Nil
       /\ Ahead(want[Command], res[Command].sess.tok)
       /\ run.src = "own" => res[Command].sess = session[want[Command]]
  /\ At("sent") /\ CurrentId \in Id =>
       /\ Ahead(CurrentId, run.sess.tok)
       /\ run.src = "own" => run.sess = session[CurrentId]

\* A session that was sent is not overtaken by an older one on its way.
SentOK(x) ==
  x.sent /\ x.id \in Id =>
    /\ Ahead(x.id, x.sess.tok)
    /\ Answered /\ want[Command] = x.id => Precedes(x.sess, res[Command].sess)
    /\ At("sent") /\ CurrentId = x.id => Precedes(x.sess, run.sess)
    /\ run.src = "own" => x.sess = session[x.id] \/ Expired(x.sess, now)

OrderOK ==
  \A j, k \in DOMAIN Rows : \A m \in DOMAIN Rows[j], n \in DOMAIN Rows[k] :
    LET x == Rows[j][m]  y == Rows[k][n]
    IN  Later(j, m, k, n) /\ x.id = y.id /\ x.sent /\ y.sent => Precedes(x.sess, y.sess)

RowsOK ==
  /\ \A k \in DOMAIN Rows : \A n \in DOMAIN Rows[k] : CellOK(Rows[k][n], n) /\ SentOK(Rows[k][n])
  /\ OrderOK

\* Nobody but the command uses a store of its own, which it only renews when it must.
OwnOK ==
  /\ ~Listening /\ run.src # "own" => \A c \in Caller : pc[c] = "idle"
  /\ run.src = "own" =>
       /\ \A c \in Caller \ {Command} : pc[c] = "idle"
       /\ pc[Command] = "establish" => session[want[Command]] = Nil
       /\ pc[Command] = "renew" => Expired(session[want[Command]], now)

EachOnce(reqs, meant) ==
  /\ IsFiniteSet(meant) /\ DOMAIN reqs = 1 .. Cardinality(meant)
  /\ {Asked(reqs[k]) : k \in DOMAIN reqs} = meant

\* The reading of a file gives each request it stands for once; Load keeps a request
\* that a file has twice, and replay prints it twice.
LoadsOnce ==
  \A f \in Files, format \in Formats \cup {""}, unsafe \in BOOLEAN :
    LET corpus == LoadOptions(f, format, unsafe)
    IN  corpus.ok => EachOnce(corpus.reqs, MeantBy(f, unsafe))

\* The printed rows are the requests loaded, none of them left out, in their order,
\* and the cells of each are the identities asked for, in theirs.
MatrixFollows ==
  Printed =>
    /\ \A k \in DOMAIN run.printed :
         /\ HasRequest(run.reqs, k) /\ run.printed[k].req = run.reqs[k]
         /\ [n \in DOMAIN run.printed[k].cells |-> run.printed[k].cells[n].id] = run.ids
    /\ ~HasRequest(run.reqs, Len(run.printed) + 1)

\* The requests are those of the one path or of the file.
SourceOK ==
  IF WithCorpus
    THEN \E format \in Formats \cup {""} :
           LET corpus == LoadOptions(run.file, format, run.unsafe)
           IN  /\ run.file \in Files /\ run.unsafe \in BOOLEAN
               /\ corpus.ok /\ run.reqs = corpus.reqs
    ELSE DOMAIN run.reqs = {1}

\* The finished rows belong to the first requests, at the end to all of them.
FollowOK ==
  /\ run.stage \in {"cell", "asked", "sent", "print"} =>
       SourceOK /\ \A k \in DOMAIN run.table : HasRequest(run.reqs, k)
  /\ At("print") => run.table # <<>> /\ ~HasRequest(run.reqs, Len(run.table) + 1)
  /\ Printed => /\ SourceOK /\ Len(run.printed) \in Nat \ {0}
                /\ DOMAIN run.printed = 1 .. Len(run.printed)
  /\ MatrixFollows

ReportHonest ==
  MarkerHonest /\ ExitHonest /\ OneIdentityPerCell /\ RunNeverRegresses /\ OneSessionPerIdentity

ReplayInv ==
  LastingInv /\ RunTypeOK /\ ProgressOK /\ AnswerOK /\ RowsOK /\ OwnOK /\ ReportHonest
=============================================================================
