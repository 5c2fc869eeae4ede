--------------------------------- MODULE Ftp ---------------------------------
(***************************************************************************)
(* wget 1.15 retrieving over FTP: the walk through the directories of the  *)
(* server (ftp_retrieve_glob, _list and _dirs), the tries for each listing *)
(* and file (ftp_loop_internal), and the dialogue on the control           *)
(* connection (getftp), which is left open from one file to the next.  One *)
(* action per command that can fail or block.                              *)
(*                                                                         *)
(* The server answers each command once, in order; wget takes the oldest   *)
(* answer it has not read for that of the command it has just sent.        *)
(***************************************************************************)
EXTENDS Integers, Sequences

CONSTANTS
    Tree,    \* [directories -> their files, hidden files and directories], "" is the top
    N,       \* the length of a file
    Ntry,    \* opt.ntry
    Worlds   \* the calls of wget and the servers they meet: see WorldsAssumption

\* A call of wget: what it retrieves ("tree": all of the server, "one": a file and
\* its listing first, "own": just the file), -l, -c, -N, PASV tried first;
\* and the server: whether it knows PASV, what SYST tells wget of it, and whether
\* "LIST -a" shows hidden files or takes "-a" for a name.
ASSUME WorldsAssumption ==
    /\ N \in Nat \ {0} /\ Ntry \in Nat \ {0}
    /\ Worlds \subseteq [mode : {"tree", "one", "own"}, dir : DOMAIN Tree, file : STRING,
                         reclevel : Nat, rest : BOOLEAN, stamp : BOOLEAN, ftp_pasv : BOOLEAN,
                         pasv : BOOLEAN, system : {"list", "list_a", "unknown"}, list_a : BOOLEAN]

\* No directory but the top is called "", and the directories listed exist.
ASSUME TreeAssumption ==
    /\ DOMAIN Tree \subseteq STRING /\ "" \in DOMAIN Tree
    /\ \A d \in DOMAIN Tree :
          /\ Tree[d].files \in Seq(STRING) /\ Tree[d].hidden \in Seq(STRING)
          /\ Tree[d].dirs \in Seq(DOMAIN Tree \ {""})

VARIABLES
    world,     \* the one of Worlds this is
    stage,     \* where the program is
    plan,      \* the commands getftp has still to send
    con,       \* the connection: ccon
    session,   \* the server's side of it
    job,       \* the locals of ftp_loop_internal and getftp
    stack,     \* the directories ftp_retrieve_list is in, the innermost last
    disk,      \* the files retrieved
    listing,   \* the file .listing
    retrieved  \* the files ftp_loop_internal returned RETROK for
vars == <<world, stage, plan, con, session, job, stack, disk, listing, retrieved>>

Byte(f, i) == <<f, i>>
Doc(f) == [i \in 1 .. N |-> Byte(f, i)]
Outdated == <<Byte("outdated", 1)>>
Files(d) == { Tree[d].files[i] : i \in DOMAIN Tree[d].files }
            \cup { Tree[d].hidden[i] : i \in DOMAIN Tree[d].hidden }
Dirs(d) == { Tree[d].dirs[i] : i \in DOMAIN Tree[d].dirs }

Once(names) == \A i, j \in DOMAIN names : names[i] = names[j] => i = j
InOnePlace ==
    \A d \in DOMAIN Tree :
        /\ Once(Tree[d].hidden \o Tree[d].files) /\ Once(Tree[d].dirs)
        /\ \A e \in DOMAIN Tree \ {d} : Files(d) \cap Files(e) = {} /\ Dirs(d) \cap Dirs(e) = {}

\* Each file and each directory is in one place: names stand for paths here.  No
\* file is called "".
ASSUME NamesAssumption == InOnePlace /\ \A d \in DOMAIN Tree : "" \notin Files(d)

With(f, x, v) == [y \in DOMAIN f \cup {x} |-> IF y = x THEN v ELSE f[y]]

\* An entry of a listing.
Entry(kind, name) == [kind |-> kind, name |-> name]
Entries(kind, names) == [i \in DOMAIN names |-> Entry(kind, names[i])]
Listed(d, hidden) ==
    (IF hidden THEN Entries("file", Tree[d].hidden) ELSE <<>>)
    \o Entries("file", Tree[d].files) \o Entries("dir", Tree[d].dirs)

NoData == [of |-> "none", items |-> <<>>]
Session == [cwd |-> "", rest |-> 0, open |-> FALSE, data |-> NoData, replies |-> <<>>]
Job(op, of, dir, sized) ==
    [op |-> op, of |-> of, dir |-> dir, sized |-> sized, count |-> 0, restval |-> 0,
     qtyread |-> 0, pasv |-> FALSE, rest_failed |-> FALSE, list_a |-> FALSE, before |-> 0,
     res |-> 0, err |-> "none"]
Con == [own |-> TRUE, alive |-> FALSE, done_cwd |-> FALSE,
        avoid_a |-> FALSE, avoid_list |-> FALSE, checked |-> FALSE]

\* What an earlier wget may have left of world.file: the beginning of it
\* with -c, anything with -N, an older file otherwise.
LeftBehind(f) ==
    IF world.rest THEN { SubSeq(Doc(f), 1, k) : k \in 0 .. N }
    ELSE IF world.stamp THEN {Outdated, Doc(f)}
    ELSE IF world.mode = "tree" THEN {Outdated} ELSE {}

NoJob == Job("none", "none", "", FALSE)
ListJob(d) == Job("LIST", d, d, FALSE)
FileJob(f, d, sized) == Job("RETR", f, d, sized)

\* ftp_loop.
Init ==
    /\ world \in Worlds
    /\ disk \in { <<>> } \cup { With(<<>>, world.file, c) : c \in LeftBehind(world.file) }
    /\ stage = "try" /\ plan = <<>> /\ session = Session
    /\ con = [Con EXCEPT !.own = world.mode = "own"]
    /\ job = IF world.mode = "own" THEN FileJob(world.file, world.dir, FALSE)
             ELSE ListJob(IF world.mode = "one" THEN world.dir ELSE "")
    /\ stack = <<>> /\ listing = <<>>
    /\ retrieved = {}

(***************************************************************************)
(* ftp_loop_internal: THE loop                                             *)
(***************************************************************************)
\* A file is continued where the one on disk ends with -c, and where the last
\* try left off otherwise.
Restval ==
    IF job.op = "LIST" THEN 0
    ELSE IF world.rest /\ job.of \in DOMAIN disk THEN Len(disk[job.of])
    ELSE IF job.count > 0 THEN job.qtyread ELSE 0

\* The commands of one call of getftp.  On a connection that is left open there is
\* no login, and no CWD when DONE_CWD says that it is in the right directory; no
\* CWD is needed to get to the top.
Mode == IF world.ftp_pasv THEN "pasv" ELSE "port"
ListCommand == IF con.avoid_a THEN "list" ELSE "list_a"
Given(condition, command) == IF condition THEN <<command>> ELSE <<>>
Commands(restval) ==
    Given(~con.alive, "login")
    \o Given(job.dir # "" /\ ~ (IF con.own THEN con.alive ELSE con.done_cwd), "cwd")
    \o Given(job.op = "RETR" /\ ~job.sized, "size") \o <<Mode>>
    \o Given(restval > 0, "rest") \o <<IF job.op = "RETR" THEN "retr" ELSE ListCommand>>

Uncounted == job.count    \* Mutation
Counted == job.count + 1

Try ==
    /\ stage = "try"
    /\ job' = [Job(job.op, job.of, job.dir, job.sized) EXCEPT
                   !.count = Counted, !.restval = Restval, !.qtyread = Restval]
    /\ plan' = Commands(Restval)
    /\ stage' = "getftp"
    /\ UNCHANGED <<world, con, session, stack, disk, listing, retrieved>>

(***************************************************************************)
(* getftp: the dialogue                                                    *)
(***************************************************************************)
\* getftp returns err, with the control connection left open or closed.
Return(err) ==
    /\ job' = [job EXCEPT !.err = err] /\ stage' = "outcome" /\ plan' = <<>>
    /\ con' = con
CloseReturn(err) ==
    /\ job' = [job EXCEPT !.err = err] /\ stage' = "outcome" /\ plan' = <<>>
    /\ con' = [con EXCEPT !.alive = FALSE] /\ session' = Session
Proceed(rest) == plan' = rest /\ UNCHANGED <<stage, con>>
Sending(command) == stage = "getftp" /\ plan # <<>> /\ Head(plan) = command
Locals == <<world, stack, disk, listing, retrieved>>

\* The command is sent, after which the server is in state s, and an answer read.
Class(reply) == reply \div 100
Heard(s) == Head(s.replies)
Ask(s) == session' = [s EXCEPT !.replies = Tail(@)]
Answer(s, r) == [s EXCEPT !.replies = Append(@, r)]
\* The control connection may break at any command.
Broken == CloseReturn("FTPRERR")

\* connect_to_host, USER, PASS, SYST, PWD and TYPE, in a new session.  What SYST
\* says may settle which of the two LIST commands to use.
Login ==
    /\ Sending("login")
    /\ \/ /\ session' = Session
          /\ con' = [con EXCEPT !.alive = TRUE,
                        !.checked = @ \/ world.system # "unknown",
                        !.avoid_a = @ \/ world.system = "list",
                        !.avoid_list = @ \/ world.system = "list_a"]
          /\ plan' = IF con'.avoid_a /\ job.op = "LIST"
                     THEN SubSeq(plan, 2, Len(plan) - 1) \o <<"list">> ELSE Tail(plan)
          /\ UNCHANGED <<stage, job>>
       \/ \E err \in {"HOSTERR", "CONERROR", "FTPRERR", "FTPLOGINC"} : CloseReturn(err)
    /\ UNCHANGED Locals

\* The directory is relative to the initial one, so it does not matter where the
\* session was.
Cwd ==
    /\ Sending("cwd")
    /\ \/ \E r \in {250, 450, 550} :
             LET s == Answer([session EXCEPT !.cwd = IF r = 250 THEN job.dir ELSE @], r)
             IN CASE Class(Heard(s)) = 2 -> Ask(s) /\ Proceed(Tail(plan)) /\ UNCHANGED job
                  [] Class(Heard(s)) = 5 -> CloseReturn("FTPNSFOD")
                  [] OTHER -> CloseReturn("FTPRERR")
       \/ Broken
    /\ UNCHANGED Locals

\* A file that has this size already is not retrieved.
Size ==
    /\ Sending("size")
    /\ \/ \E r \in {213, 550} :
             LET s == Answer(session, r)
             IN IF Heard(s) = 213 /\ job.restval = N THEN CloseReturn("RETRFINISHED")
                ELSE Ask(s) /\ Proceed(Tail(plan)) /\ UNCHANGED job
       \/ Broken
    /\ UNCHANGED Locals

\* wget connects to where the server listens, or else falls back to PORT, unless
\* PASV has worked before in this call of getftp.
Pasv ==
    /\ Sending("pasv")
    /\ \/ LET s == Answer([session EXCEPT !.open = world.pasv], IF world.pasv THEN 227 ELSE 502)
          IN IF Heard(s) = 227
             THEN \/ /\ Ask(s) /\ Proceed(Tail(plan))
                     /\ job' = [job EXCEPT !.pasv = TRUE]
                  \/ \E err \in {"CONERROR", "CONIMPOSSIBLE"} : CloseReturn(err)
             ELSE /\ Ask(s) /\ UNCHANGED job
                  /\ Proceed(IF job.pasv THEN Tail(plan) ELSE <<"port">> \o Tail(plan))
       \/ Broken
    /\ UNCHANGED Locals

Port ==
    /\ Sending("port")
    /\ \/ \E r \in {200, 500} :
             LET s == Answer([session EXCEPT !.open = r = 200], r)
             IN IF Class(Heard(s)) = 2 THEN Ask(s) /\ Proceed(Tail(plan)) /\ UNCHANGED job
                ELSE CloseReturn("FTPPORTERR")
       \/ Return("FTPSYSERR") /\ UNCHANGED session    \* no port could be bound
       \/ Broken
    /\ UNCHANGED Locals

Rest ==
    /\ Sending("rest")
    /\ \/ \E r \in {350, 502} :
             LET s == Answer([session EXCEPT !.rest = IF r = 350 THEN job.restval ELSE @], r)
             IN /\ Ask(s) /\ Proceed(Tail(plan))
                /\ job' = [job EXCEPT !.rest_failed = Class(Heard(s)) # 3]
       \/ Broken
    /\ UNCHANGED Locals

\* The server's answers to a command that transfers items: it refuses (and may be
\* ready for another one, or not), or opens the data connection, and in the end tells whether it has sent everything.
Refused(r, open) == Answer([session EXCEPT !.rest = 0, !.open = open], r)
Sent(of, items, last) ==
    [session EXCEPT !.rest = 0, !.open = FALSE, !.replies = @ \o <<150, last>>,
                    !.data = [of |-> of, items |-> items]]
Refusals ==
    { Refused(r, FALSE) : r \in {450, 550} } \cup { Refused(r, session.open) : r \in {450, 550} }
Transfers(of, items) ==
    Refusals
    \cup (IF session.open
          THEN {Sent(of, items, 226)}
               \cup { Sent(of, SubSeq(items, 1, k), 426) : k \in 0 .. Len(items) }
          ELSE {})
Requested(s, list_a) ==
    CASE Class(Heard(s)) = 1 ->
            Ask(s) /\ Proceed(<<"open">>) /\ job' = [job EXCEPT !.list_a = list_a]
      [] Class(Heard(s)) = 5 -> Ask(s) /\ Return("FTPNSFOD")
      [] OTHER -> CloseReturn("FTPRERR")

Retr ==
    /\ Sending("retr")
    /\ \/ \E s \in IF job.of \in Files(session.cwd)
                  THEN Transfers(job.of, SubSeq(Doc(job.of), session.rest + 1, N)) ELSE Refusals :
             Requested(s, FALSE)
       \/ Broken
    /\ UNCHANGED Locals

\* "LIST -a", and LIST if that is answered with anything but success.
ListA ==
    /\ Sending("list_a")
    /\ \/ \E s \in Transfers(session.cwd, IF world.list_a THEN Listed(session.cwd, TRUE) ELSE <<>>) :
             IF Class(Heard(s)) = 1 \/ con.avoid_list THEN Requested(s, TRUE)
             ELSE Ask(s) /\ Proceed(<<"list">>) /\ UNCHANGED job
       \/ Broken
    /\ UNCHANGED Locals

List ==
    /\ Sending("list")
    /\ \/ \E s \in Transfers(session.cwd, Listed(session.cwd, FALSE)) : Requested(s, FALSE)
       \/ Broken
    /\ UNCHANGED Locals

(***************************************************************************)
(* getftp: the data                                                        *)
(***************************************************************************)
\* In active mode the server has to connect in time.  If it does not, the control
\* connection stays open, and so does the port: the answer is still to come.
Open ==
    /\ Sending("open")
    /\ \/ /\ job.pasv \/ session.data # NoData
          /\ \/ /\ Proceed(<<"read">>)
                /\ IF job.op = "LIST" THEN listing' = <<>> /\ UNCHANGED disk
                   ELSE /\ disk' = IF job.restval > 0 /\ job.of \in DOMAIN disk THEN disk
                                   ELSE With(disk, job.of, <<>>)
                        /\ UNCHANGED listing
                /\ UNCHANGED <<job, session>>
             \/ CloseReturn("FOPENERR") /\ UNCHANGED <<disk, listing>>
       \/ /\ ~job.pasv /\ Return("CONERROR")
          /\ session' = [session EXCEPT !.data = NoData]
          /\ UNCHANGED <<disk, listing>>
    /\ UNCHANGED <<world, stack, retrieved>>

\* fd_read_body: some of the items arrive and are written, but those to be skipped.
\* The end of the connection, when all have arrived, is not an error.
SkipNothing == 0    \* Mutation
Skip == IF job.rest_failed THEN job.restval ELSE 0

Read ==
    /\ Sending("read")
    /\ \E k \in 0 .. Len(session.data.items) :
          LET new == SubSeq(session.data.items, Skip + 1, k)
          IN /\ IF job.op = "LIST" THEN listing' = listing \o new /\ UNCHANGED disk
                ELSE disk' = [disk EXCEPT ![job.of] = @ \o new] /\ UNCHANGED listing
             /\ \/ \E res \in {-1} \cup (IF k = Len(session.data.items) THEN {0} ELSE {}) :
                      job' = [job EXCEPT !.res = res, !.qtyread = @ + Len(new)]
                   /\ session' = [session EXCEPT !.data = NoData]
                   /\ Proceed(<<"done">>)
                \/ CloseReturn("FWRITEERR")
    /\ UNCHANGED <<world, stack, retrieved>>

\* The size of the listing, and of the one "LIST -a" gave before, tell which of the
\* two commands to use.  LIST that gave less has to be undone.
Probing == job.op = "LIST" /\ ~con.checked
Settle(avoid_a, avoid_list) ==
    con' = [con EXCEPT !.checked = TRUE, !.avoid_a = avoid_a, !.avoid_list = avoid_list]
Compare ==
    LET size == Len(listing)
        finish == job' = [job EXCEPT !.err = "RETRFINISHED"] /\ stage' = "outcome" /\ plan' = <<>>
        again == job' = [job EXCEPT !.before = size] /\ UNCHANGED stage
    IN CASE ~con.avoid_a /\ job.list_a ->
                 /\ con' = [con EXCEPT !.avoid_a = TRUE]
                 /\ again /\ plan' = <<Mode, "list">>
         [] ~con.avoid_a /\ ~job.list_a -> Settle(TRUE, con.avoid_list) /\ finish
         [] con.avoid_a /\ size > job.before -> Settle(TRUE, con.avoid_list) /\ finish
         [] con.avoid_a /\ size < job.before ->
                 /\ Settle(FALSE, TRUE)
                 /\ again /\ plan' = <<Mode, "list_a">>
         [] con.avoid_a /\ size = job.before /\ size = 0 ->
                 con' = [con EXCEPT !.avoid_a = FALSE] /\ finish
         [] OTHER -> Settle(FALSE, TRUE) /\ finish

\* The server tells whether it has sent everything.
Response ==
    /\ Sending("done")
    /\ \/ /\ Ask(session)
          /\ IF Class(Heard(session)) # 2 \/ job.res = -1 THEN Return("FTPRETRINT")
             ELSE IF Probing THEN Compare ELSE Return("RETRFINISHED")
       \/ CloseReturn("FTPRETRINT")
    /\ UNCHANGED Locals

(***************************************************************************)
(* The rest of ftp_loop_internal                                           *)
(***************************************************************************)
Fatal == {"HOSTERR", "CONIMPOSSIBLE", "FWRITEERR", "FOPENERR", "FTPNSFOD", "FTPLOGINC"}
\* An interrupted file that has the size of the listing is complete.
Succeeded ==
    \/ job.err = "RETRFINISHED"
    \/ job.err = "FTPRETRINT" /\ job.sized /\ job.qtyread = N

\* ftp_loop_internal returns err.
Returned(c, err) ==
    /\ job' = [Job(job.op, job.of, job.dir, job.sized) EXCEPT !.err = err]
    /\ stage' = "returned"
    /\ con' = c
    /\ retrieved' = IF job.op = "RETR" /\ err = "RETROK" THEN retrieved \cup {job.of} ELSE retrieved
Loop ==
    /\ stage = "outcome"
    /\ LET c == [con EXCEPT !.done_cwd = con.alive]
           done == IF con.own THEN [c EXCEPT !.alive = FALSE] ELSE c
       IN CASE job.err \in Fatal -> Returned(c, job.err)
            [] Succeeded -> Returned(done, "RETROK")
            [] OTHER -> IF job.count < Ntry
                        THEN /\ job' = [Job(job.op, job.of, job.dir, job.sized) EXCEPT
                                           !.count = job.count, !.qtyread = job.qtyread]
                             /\ stage' = "try" /\ con' = c /\ UNCHANGED retrieved
                        ELSE Returned(done, "TRYLIMEXC")
    /\ session' = IF con'.alive THEN session ELSE Session
    /\ UNCHANGED <<world, plan, stack, disk, listing>>

(***************************************************************************)
(* The walk                                                                *)
(***************************************************************************)
Walking == stage' = "walk" /\ job' = NoJob
Wanted(e) == e.kind = "file" /\ (world.mode = "one" => e.name = world.file)
Frame == [dir |-> job.dir, files |-> listing,
          dirs |-> IF world.mode = "one" THEN <<>> ELSE listing]

\* ftp_retrieve_glob with the listing of a directory.  A file that is not in it is
\* tried all the same; and "" is, the file of the URL of the top, if nothing is listed
\* there (GLOB_GETONE; no such thing is tried further down, GLOB_GETALL).
NotListed ==
    IF world.mode = "one" THEN ~ \E i \in DOMAIN listing : listing[i].name = world.file
    ELSE stack = <<>> /\ listing = <<>>
UrlFile == IF world.mode = "one" THEN world.file ELSE ""

GotListing ==
    /\ stage = "returned" /\ job.op = "LIST"
    /\ IF job.err # "RETROK" THEN Walking /\ UNCHANGED <<stack, con>>
       ELSE IF NotListed
       THEN /\ job' = FileJob(UrlFile, job.dir, FALSE)
            /\ con' = [Con EXCEPT !.alive = con.alive]
            /\ stage' = "try" /\ UNCHANGED stack
       ELSE /\ stack' = IF listing = <<>> THEN stack ELSE Append(stack, Frame)
            /\ Walking /\ UNCHANGED con
    /\ listing' = <<>>
    /\ UNCHANGED <<world, plan, session, disk, retrieved>>

\* The next entry of the list: directories are passed over, and a file that is on
\* disk and as new and as long.
Top == stack[Len(stack)]
UpToDate(f) == world.stamp /\ f \in DOMAIN disk /\ disk[f] = Doc(f)
NextFile ==
    /\ stage = "walk" /\ stack # <<>> /\ Top.files # <<>>
    /\ LET e == Head(Top.files)
       IN IF Wanted(e) /\ ~UpToDate(e.name)
          THEN job' = FileJob(e.name, Top.dir, TRUE) /\ stage' = "try"
          ELSE UNCHANGED <<job, stage>>
    /\ stack' = [stack EXCEPT ![Len(stack)].files = Tail(@)]
    /\ UNCHANGED <<world, plan, con, session, disk, listing, retrieved>>

\* After some errors the rest of the files is given up, but not the directories.
GotFile ==
    /\ stage = "returned" /\ job.op = "RETR"
    /\ Walking
    /\ stack' = IF job.err \in {"HOSTERR", "FWRITEERR"} /\ stack # <<>>
                THEN [stack EXCEPT ![Len(stack)].files = <<>>] ELSE stack
    /\ UNCHANGED <<world, plan, con, session, disk, listing, retrieved>>

\* ftp_retrieve_dirs: down into the next directory, past an entry that is none, or
\* back up.
EnterNot == con' = con    \* Mutation
Enter == con' = [con EXCEPT !.done_cwd = FALSE]

NextDir ==
    /\ stage = "walk" /\ stack # <<>> /\ Top.files = <<>>
    /\ IF Top.dirs # <<>> /\ Len(stack) < world.reclevel
       THEN /\ IF Head(Top.dirs).kind = "dir"
               THEN job' = ListJob(Head(Top.dirs).name) /\ stage' = "try" /\ Enter
               ELSE UNCHANGED <<job, stage, con>>
            /\ stack' = [stack EXCEPT ![Len(stack)].dirs = Tail(@)]
       ELSE /\ stack' = SubSeq(stack, 1, Len(stack) - 1)
            /\ UNCHANGED <<job, stage, con>>
    /\ UNCHANGED <<world, plan, session, disk, listing, retrieved>>

\* ftp_loop: a connection that is left is closed.
End ==
    /\ stage = "walk" /\ stack = <<>>
    /\ stage' = "over" /\ con' = [con EXCEPT !.alive = FALSE] /\ session' = Session
    /\ UNCHANGED <<world, plan, job, stack, disk, listing, retrieved>>

Over == stage = "over"
Terminated == Over /\ UNCHANGED vars
Dialogue == Login \/ Cwd \/ Size \/ Pasv \/ Port \/ Rest \/ Retr \/ ListA \/ List
Transfer == Open \/ Read \/ Response
Walk == GotListing \/ NextFile \/ GotFile \/ NextDir \/ End
Run == Try \/ Dialogue \/ Transfer \/ Loop \/ Walk
Next == Run \/ Terminated

\* Every wait of wget ends, with an answer or with a timeout.
Spec == Init /\ [][Next]_vars /\ WF_vars(Run)

(***************************************************************************)
(* Properties                                                              *)
(***************************************************************************)
\* What is read from a data connection is what was asked for, from the directory
\* it is in: across reconnections, directories that cannot be entered, and answers
\* to commands that were given up ("DONE_CWD: The current working directory is
\* correct", ftp.h).
RightPlace ==
    stage = "getftp" /\ plan = <<"read">> /\ session.data # NoData =>
        session.data.of = job.of /\ session.cwd = job.dir

\* A file holds the beginning of the one it is named for, each byte once and in
\* order, or what it held before; one reported as retrieved holds all of it.
SavedWhole ==
    /\ \A f \in DOMAIN disk :
          disk[f] = Outdated \/ (Len(disk[f]) <= N /\ disk[f] = SubSeq(Doc(f), 1, Len(disk[f])))
    /\ \A f \in retrieved : f \in DOMAIN disk /\ disk[f] = Doc(f)

\* The walk ends, whatever fails and however often the listing is asked for again.
Ends == <>Over
=============================================================================
