-------------------------------- MODULE Http --------------------------------
(***************************************************************************)
(* wget 1.15 retrieving the documents of its command line over HTTP:       *)
(* main's loop over the URLs, retrieve_url's redirections, http_loop's     *)
(* tries, gethttp's request and response, and the one connection kept open *)
(* between requests (pconn).  One action per call that can fail or block.  *)
(*                                                                         *)
(* The server answers a request with any reply it may send (Replies), and  *)
(* the network may cut it anywhere.  A document is N bytes; a byte, a head *)
(* and the end of a connection are one item of the wire each.              *)
(***************************************************************************)
EXTENDS Integers, Sequences

CONSTANTS
    Urls,         \* the URLs
    Worlds,       \* the calls of wget and what the server does: see WorldsAssumption
    N,            \* the bytes of a document
    Ntry,         \* bound: opt.ntry
    MaxRedirect,  \* opt.max_redirect
    MaxKills,     \* bound: how often the user stops wget and starts it again
    Backups       \* opt.backups > 0

ASSUME HttpAssumption ==
    /\ N \in Nat \ {0} /\ Ntry \in Nat \ {0}
    /\ MaxRedirect \in Nat /\ MaxKills \in Nat /\ Backups \in BOOLEAN
    /\ Urls \cap {"outdated", "error", "stray"} = {}   \* whose bytes no document has

\* A call of wget: -c, -N, -t, the URLs of the command line; and its surroundings:
\* whether the server dates documents, whether the URLs are on one host, where
\* each URL is redirected (to itself: it is not), how often the user stops wget;
\* loose: the server may send what no head announces.
ASSUME WorldsAssumption ==
    Worlds \subseteq [rest : BOOLEAN, stamp : BOOLEAN, tries : 1 .. Ntry,
                      args : Seq(Urls), dated : BOOLEAN,
                      shared : BOOLEAN, moved : [Urls -> Urls], kills : 0 .. MaxKills,
                      loose : BOOLEAN]

VARIABLES
    world,   \* the one of Worlds this is
    file,    \* the files on disk: [names -> sequences of bytes]
    stage,   \* where the program is
    job,     \* retrieve_url's locals
    loop,    \* http_loop's locals
    hs,      \* struct http_stat, and what gethttp returned (err)
    req,     \* gethttp's locals
    wire,    \* [open sockets -> what was sent on them and not yet read]
    pconn,   \* the connection registered as persistent
    into,    \* [Urls -> the name of the local file]
    result,  \* [Urls -> what retrieve_url returned]
    exit,    \* final_exit_status
    kills
vars == <<world, file, stage, job, loop, hs, req, wire, pconn, into, result, exit, kills>>

(***************************************************************************)
(* Documents, files and replies                                            *)
(***************************************************************************)
Byte(u, i) == [t |-> "byte", of |-> u, at |-> i]
Doc(u) == [i \in 1 .. N |-> Byte(u, i)]
Outdated == <<Byte("outdated", 1)>>
ErrorPage == <<Byte("error", 1)>>
Stray == <<Byte("stray", 1)>>
Eof == <<[t |-> "eof"]>>
Silence == <<[t |-> "silence"]>>
SeenEof == <<[t |-> "gone"]>>     \* an end of the connection that was read
LastChunk == <<[t |-> "last"]>>

Without(f, S) == [x \in DOMAIN f \ S |-> f[x]]
With(f, x, v) == [y \in DOMAIN f \cup {x} |-> IF y = x THEN v ELSE f[y]]

\* A response head.  length is -1 without a Content-Length or Content-Range,
\* range is the first byte of the Content-Range, or 0.
ReplyHead(status, length, range, close, chunked) ==
    [t |-> "head", status |-> status, length |-> length, range |-> range,
     close |-> close, chunked |-> chunked]

\* A reply with the body, framed in one of the ways the server may choose: by
\* its length, by chunks, or by closing the connection.
ByLength(status, range, body) ==
    { <<ReplyHead(status, Len(body), range, c, FALSE)>> \o body : c \in BOOLEAN }
ByChunks(status, body) ==
    { <<ReplyHead(status, -1, 0, FALSE, TRUE)>> \o body \o LastChunk }
ByClosing(status, body) ==
    { <<ReplyHead(status, -1, 0, TRUE, FALSE)>> \o body \o Eof }

\* The whole replies to a request for u from byte from + 1.  A server may ignore
\* the range, or answer another one; 416 says that nothing is left.
GetReplies(u, from) ==
    ByLength(200, 0, Doc(u)) \cup ByChunks(200, Doc(u)) \cup ByClosing(200, Doc(u))
    \cup (IF from > 0 /\ from < N
          THEN ByLength(206, from, SubSeq(Doc(u), from + 1, N)) ELSE {})
    \cup (IF from > 0 THEN ByLength(206, 0, Doc(u)) ELSE {})
    \cup (IF from >= N THEN ByLength(416, 0, ErrorPage) ELSE {})
    \cup ByLength(404, 0, ErrorPage) \cup ByChunks(404, ErrorPage)
\* An older file that -c would continue is told from a beginning by the answer to
\* HEAD alone: the server does not fail to give one then.
HeadReplies ==
    { <<ReplyHead(200, l, 0, FALSE, FALSE)>> : l \in {-1, N} }
    \cup { <<ReplyHead(404, 1, 0, FALSE, FALSE)>> }
    \cup (IF world.rest /\ world.stamp /\ world.dated THEN {}
          ELSE { <<ReplyHead(500, 1, 0, FALSE, FALSE)>> })
Announced(u, from, head_only, authed) ==
    (IF world.moved[u] # u
     THEN { IF head_only THEN SubSeq(r, 1, 1) ELSE r : r \in ByLength(302, 0, ErrorPage) }
     ELSE IF head_only THEN HeadReplies ELSE GetReplies(u, from))
    \cup (IF authed \/ head_only THEN {} ELSE ByLength(401, 0, ErrorPage))

\* What else a server may send: more than the length says, a body with the answer
\* to HEAD, an error page that only the end of the connection ends.
Unannounced(replies) ==
    { r \o Stray : r \in { x \in replies : x[Len(x)] # Eof[1] } }
    \cup UNION { ByClosing(r[1].status, ErrorPage) :
                  r \in { x \in replies : x[1].status \notin {200, 206} } }
Replies(u, from, head_only, authed) ==
    LET announced == Announced(u, from, head_only, authed)
    IN announced \cup (IF world.loose THEN Unannounced(announced) ELSE {})

\* The network delivers a reply whole, or up to anywhere, and then the connection
\* is closed or falls silent, until the read times out (a reset is the same read
\* error).  Nothing follows on such a connection.
Cut(r) == {r, r \o Eof} \cup
          { SubSeq(r, 1, k) \o e : k \in 0 .. Len(r) - 1, e \in {Silence, Eof} }
Dead(w) == w # <<>> /\ w[Len(w)].t \in {"silence", "eof"}
NothingIn(w) == w = <<>> \/ w[1].t = "silence"
\* Data that would be taken for a part of the next answer.
Unread(w) == { i \in DOMAIN w : w[i].t \in {"head", "byte", "last"} }

(***************************************************************************)
(* The start                                                               *)
(***************************************************************************)
Names == Urls \X (0 .. MaxKills + 1)   \* a file and its numbered variants
NoJob == [url |-> "none", cur |-> "none", redirs |-> 0]
NoLoop == [count |-> 0, got_head |-> FALSE, head_first |-> FALSE, full |-> FALSE]
NoStat == [len |-> 0, contlen |-> 0, restval |-> 0, res |-> 0,
           status |-> 0, dated |-> FALSE, err |-> "none"]
NoReq == [head_only |-> FALSE, authed |-> FALSE, sock |-> 0, keep_alive |-> FALSE,
          head |-> ReplyHead(0, -1, 0, FALSE, FALSE), left |-> -1, skip |-> 0]
NoPconn == [sock |-> 0, host |-> "none"]

\* The URLs that redirections lead to from u, and the one where they end, if they do.
LeadsTo(u) ==
    { v \in Urls : \A S \in SUBSET Urls :
          u \in S /\ (\A x \in S : world.moved[x] \in S) => v \in S }
Ends(v) == world.moved[v] = v
Final(u) ==
    IF \E v \in LeadsTo(u) : Ends(v) THEN CHOOSE v \in LeadsTo(u) : Ends(v) ELSE u
Origin(n) == Doc(Final(n[1]))
Clobber == world.rest \/ world.stamp \/ Backups

\* What an earlier wget may have left: with -c the beginning of the document,
\* with -N that or an older version.  (With both, an older version is told from
\* a beginning by the date only, so the server must send one.)
LeftBehind(n) ==
    (IF world.rest \/ world.stamp
     THEN { SubSeq(Origin(n), 1, k) : k \in 0 .. N } ELSE {ErrorPage})
    \cup (IF world.stamp /\ (world.rest => world.dated) THEN {Outdated} ELSE {})

Init ==
    /\ world \in Worlds
    /\ \E n \in Names : n[2] = 0
          /\ \E f \in LeftBehind(n) : file \in { [x \in {n} |-> f], <<>> }
    /\ stage = "idle" /\ job = NoJob /\ loop = NoLoop /\ hs = NoStat /\ req = NoReq
    /\ wire = <<>> /\ pconn = NoPconn
    /\ into = [u \in Urls |-> <<u, 0>>]
    /\ result = [u \in Urls |-> "none"]
    /\ exit = 0 /\ kills = 0

(***************************************************************************)
(* The connections: persistent_available_p, register_persistent and the    *)
(* CLOSE_ macros                                                           *)
(***************************************************************************)
Name == into[job.url]
HostOf(u) == IF world.shared THEN "host" ELSE u
Matches == pconn.sock # 0 /\ pconn.host = HostOf(job.cur)

\* The outcomes of test_socket_open: a socket on which something waits to be
\* read counts as closed, but what is still on its way is not seen.
TestSocketOpen(s) ==
    IF NothingIn(wire[s]) THEN {TRUE}
    ELSE IF wire[s] = SeenEof THEN {FALSE} ELSE BOOLEAN

\* Mutation: the connection that was closed is still registered.
CloseKeeping(s) == wire' = Without(wire, {s}) /\ UNCHANGED pconn

Close(s) ==
    /\ wire' = Without(wire, {s})
    /\ pconn' = IF pconn.sock = s THEN NoPconn ELSE pconn
CloseInvalidate == Close(req.sock)
CloseFinish(rest) ==
    IF req.keep_alive THEN wire' = [wire EXCEPT ![req.sock] = rest] /\ UNCHANGED pconn
                      ELSE Close(req.sock)
\* Mutation: a connection registered before is forgotten, not closed.
RegisterOver(rest) ==
    /\ wire' = With(wire, req.sock, rest)
    /\ pconn' = [sock |-> req.sock, host |-> HostOf(job.cur)]

RegisterPersistent(rest) ==
    /\ wire' = With(IF pconn.sock \in {0, req.sock} THEN wire ELSE Without(wire, {pconn.sock}),
                    req.sock, rest)
    /\ pconn' = IF pconn.sock = req.sock THEN pconn
                ELSE [sock |-> req.sock, host |-> HostOf(job.cur)]

(***************************************************************************)
(* retrieve_url and the head of http_loop                                  *)
(***************************************************************************)
\* url_file_name: a name not taken yet, unless files may be overwritten.
LocalFile(u) ==
    IF Clobber \/ <<u, 0>> \notin DOMAIN file THEN <<u, 0>>
    ELSE CHOOSE n \in Names :
            /\ n[1] = u /\ n \notin DOMAIN file
            /\ \A k \in 0 .. n[2] - 1 : <<u, k>> \in DOMAIN file

BeginLoop(u, cur, redirs) ==
    /\ job' = [url |-> u, cur |-> cur, redirs |-> redirs]
    /\ into' = [into EXCEPT ![u] = LocalFile(u)]
    /\ loop' = [NoLoop EXCEPT !.head_first = world.stamp /\ LocalFile(u) \in DOMAIN file]
    /\ hs' = NoStat
    /\ stage' = "attempt"

\* main takes the next URL of the command line.
RetrieveUrl(u) ==
    /\ stage = "idle" /\ result[u] = "none"
    /\ \E i \in DOMAIN world.args :
          /\ u = world.args[i]
          /\ \A j \in 1 .. i - 1 : result[world.args[j]] # "none"
    /\ BeginLoop(u, u, 0)
    /\ UNCHANGED <<world, file, req, wire, pconn, result, exit, kills>>

\* The body of THE loop up to gethttp: whether to send HEAD, and where to
\* continue.  With -c that is the size on disk, even after a failed try; without,
\* what the last try received, which is nothing if it failed before the body.
\* Mutation: -c is heeded at the first try only.
RestvalOfTry ==
    IF loop.full \/ loop.count > 0 THEN hs.len
    ELSE IF world.rest /\ Name \in DOMAIN file THEN Len(file[Name]) ELSE 0

Restval ==
    IF loop.full THEN hs.len
    ELSE IF world.rest /\ Name \in DOMAIN file THEN Len(file[Name])
    ELSE IF loop.count > 0 THEN hs.len ELSE 0

\* gethttp begins by clearing its results: a try that fails early leaves no length.
Afresh(restval) == [NoStat EXCEPT !.restval = restval, !.contlen = -1, !.res = -1]

Attempt ==
    /\ stage = "attempt"
    /\ loop' = [loop EXCEPT !.count = @ + 1]
    /\ hs' = Afresh(Restval)
    /\ req' = [NoReq EXCEPT !.head_only = loop.head_first /\ ~loop.got_head]
    /\ stage' = "connect"
    /\ UNCHANGED <<world, file, job, wire, pconn, into, result, exit, kills>>

(***************************************************************************)
(* gethttp                                                                 *)
(***************************************************************************)
\* gethttp returns err, with h in the struct http_stat; its locals are gone.
ReturnWith(h, err) ==
    /\ hs' = [h EXCEPT !.err = err]
    /\ stage' = "outcome"
    /\ req' = [NoReq EXCEPT !.head_only = req.head_only]
Return(err) == ReturnWith(hs, err)

Reuse ==
    /\ stage = "connect" /\ Matches /\ TRUE \in TestSocketOpen(pconn.sock)
    /\ req' = [req EXCEPT !.sock = pconn.sock, !.keep_alive = TRUE]
    /\ stage' = "send"
    /\ UNCHANGED <<world, file, job, loop, hs, wire, pconn, into, result, exit, kills>>

\* connect_to_host, after a persistent connection that was found closed is
\* given up.  The host may be unknown (HOSTERR; a host that refuses the
\* connection, CONIMPOSSIBLE, is as fatal) or may not answer.
Connect ==
    /\ stage = "connect"
    /\ Matches => FALSE \in TestSocketOpen(pconn.sock)
    /\ LET open == IF Matches THEN Without(wire, {pconn.sock}) ELSE wire
           sock == CHOOSE s \in 1 .. 2 : s \notin DOMAIN open
       IN \/ /\ wire' = With(open, sock, <<>>)
             /\ req' = [req EXCEPT !.sock = sock, !.keep_alive = TRUE]
             /\ stage' = "send"
             /\ UNCHANGED hs
          \/ /\ wire' = open
             /\ \E err \in {"HOSTERR", "CONERROR"} : Return(err)
    /\ pconn' = IF Matches THEN NoPconn ELSE pconn
    /\ UNCHANGED <<world, file, job, loop, into, result, exit, kills>>

\* The request is written and the server replies, unless it has left.
Send ==
    /\ stage = "send"
    /\ \/ /\ \E r \in Replies(job.cur, hs.restval, req.head_only, req.authed) :
                \E c \in Cut(r) :
                   wire' = [wire EXCEPT ![req.sock] = IF Dead(@) THEN @ ELSE @ \o c]
          /\ stage' = "head"
          /\ UNCHANGED <<hs, req, pconn>>
       \/ CloseInvalidate /\ Return("WRITEFAILED")
    /\ UNCHANGED <<world, file, job, loop, into, result, exit, kills>>

\* read_http_response_head: data that does not begin with a head is taken for
\* the body of an HTTP/0.9 answer and left unread.
Http09 == ReplyHead(200, -1, 0, FALSE, FALSE)
ReadHead ==
    /\ stage = "head"
    /\ LET w == wire[req.sock]
           h == IF w[1].t = "head" THEN w[1] ELSE Http09
           rest == IF w[1].t = "head" THEN Tail(w) ELSE w
           keep_alive == ~ (h.length # -1 /\ h.close)
       IN IF NothingIn(w) \/ w[1].t = "eof"
          THEN /\ CloseInvalidate
               /\ Return(IF ~NothingIn(w) /\ w[1].t = "eof" THEN "HEOF" ELSE "HERR")
          ELSE /\ req' = [req EXCEPT !.head = h, !.keep_alive = keep_alive]
               /\ IF keep_alive THEN RegisterPersistent(rest)
                  ELSE wire' = [wire EXCEPT ![req.sock] = rest] /\ UNCHANGED pconn
               /\ stage' = "reply"
               /\ UNCHANGED hs
    /\ UNCHANGED <<world, file, job, loop, into, result, exit, kills>>

\* Mutation: the body is left on the connection.
SkipNoBody == CloseFinish(wire[req.sock])

\* The body of an answer the user does not want is skipped so that the
\* connection can be used again; if that fails, or the body is long, the
\* connection is closed.  Without a length and chunks nothing is skipped.
SkipShortBody ==
    LET w == wire[req.sock]
        ends == { i \in DOMAIN w : w[i].t = "last" }
    IN \/ req.head.length > 0 /\ CloseInvalidate
       \/ /\ req.head.length \in 0 .. Len(w)
          /\ \A i \in 1 .. req.head.length : w[i].t = "byte"
          /\ CloseFinish(SubSeq(w, req.head.length + 1, Len(w)))
       \/ /\ req.head.length = -1 /\ ~req.head.chunked
          /\ CloseFinish(w)
       \/ /\ req.head.chunked /\ ends # {}
          /\ \E i \in ends : CloseFinish(SubSeq(w, i + 1, Len(w)))
       \/ /\ req.head.chunked /\ ends = {}
          /\ CloseInvalidate \/ CloseFinish(IF w # <<>> /\ w[Len(w)].t # "silence"
                                            THEN SeenEof ELSE Silence)
Dispose == IF req.head_only THEN CloseInvalidate ELSE SkipShortBody

\* 401: once with the user's credentials, then it is final.
Unauthorized ==
    /\ stage = "reply" /\ req.head.status = 401
    /\ IF req.keep_alive THEN Dispose ELSE CloseInvalidate
    /\ IF req.authed THEN Return("AUTHFAILED")
       ELSE /\ req' = [req EXCEPT !.authed = TRUE]
            /\ stage' = "connect"
            /\ UNCHANGED hs
    /\ UNCHANGED <<world, file, job, loop, into, result, exit, kills>>

Redirected ==
    /\ stage = "reply" /\ req.head.status = 302
    /\ IF req.keep_alive THEN Dispose ELSE CloseInvalidate
    /\ ReturnWith([hs EXCEPT !.len = 0, !.res = 0, !.restval = 0], "NEWLOCATION")
    /\ UNCHANGED <<world, file, job, loop, into, result, exit, kills>>

\* Nothing is left to retrieve: the server says so, or ignored the range and
\* sends no more than there is on disk.
AlreadyThere ==
    \/ req.head.status = 416
    \/ /\ ~world.stamp /\ hs.restval > 0 /\ req.head.status = 200
       /\ req.head.range = 0 /\ req.head.length >= 0 /\ hs.restval >= req.head.length
RangeWrong ==
    \/ req.head.range # 0 /\ req.head.range # hs.restval
    \/ req.head.status = 206 /\ req.head.range = 0
Unwanted == req.head_only \/ req.head.status \notin {200, 206}

Unneeded ==
    /\ stage = "reply" /\ req.head.status \notin {401, 302} /\ AlreadyThere
    /\ CloseInvalidate
    /\ ReturnWith([hs EXCEPT !.len = req.head.length, !.res = 0], "RETRUNNEEDED")
    /\ UNCHANGED <<world, file, job, loop, into, result, exit, kills>>

RangeError ==
    /\ stage = "reply" /\ req.head.status = 206 /\ ~AlreadyThere /\ RangeWrong
    /\ CloseInvalidate /\ Return("RANGEERR")
    /\ UNCHANGED <<world, file, job, loop, into, result, exit, kills>>

\* The length of the whole document, as far as the answer tells it.
Contlen == IF req.head.length = -1 THEN -1 ELSE req.head.length + req.head.range

\* The answer to HEAD, or an error: only the head is of interest.
NoBody ==
    /\ stage = "reply" /\ req.head.status \notin {401, 302}
    /\ ~AlreadyThere /\ ~RangeWrong /\ Unwanted
    /\ ReturnWith([hs EXCEPT !.len = 0, !.res = 0, !.restval = 0, !.contlen = Contlen,
                             !.status = req.head.status, !.dated = world.dated],
                  "RETRFINISHED")
    /\ IF req.head_only THEN CloseFinish(wire[req.sock])
       ELSE IF req.keep_alive THEN SkipShortBody ELSE CloseInvalidate
    /\ UNCHANGED <<world, file, job, loop, into, result, exit, kills>>

\* The file is opened, to append when the retrieval continues; --backups first
\* renames what is there.
Renamed ==
    IF ~Backups \/ Name \notin DOMAIN file THEN file
    ELSE With(Without(file, {Name}), <<job.url, 1>>, file[Name])

\* What is on disk already is skipped in an answer that begins at the beginning.
SkipNothing == 0    \* Mutation
Skip == IF req.head.range = 0 THEN hs.restval ELSE 0

OpenFile ==
    /\ stage = "reply" /\ req.head.status \notin {401, 302}
    /\ ~AlreadyThere /\ ~RangeWrong /\ ~Unwanted
    /\ \/ /\ file' = With(Renamed, Name,
                          IF hs.restval > 0 /\ Name \in DOMAIN Renamed
                          THEN Renamed[Name] ELSE <<>>)
          /\ hs' = [hs EXCEPT !.len = hs.restval, !.res = 0, !.contlen = Contlen,
                              !.status = req.head.status, !.dated = world.dated]
          /\ req' = [req EXCEPT !.left = req.head.length, !.head = [@ EXCEPT !.length = -1],
                                  !.skip = Skip]
          /\ stage' = "body"
          /\ UNCHANGED <<wire, pconn>>
       \/ CloseInvalidate /\ Return("FOPENERR") /\ UNCHANGED file
    /\ UNCHANGED <<world, job, loop, into, result, exit, kills>>

\* fd_read_body: one byte is read and, unless it is to be skipped, written.
ReadByte ==
    /\ stage = "body" /\ req.left # 0
    /\ LET w == wire[req.sock]
       IN /\ ~NothingIn(w) /\ w[1].t # "eof"
          /\ ~ (req.head.chunked /\ w[1].t = "last")
          /\ \/ /\ req' = [req EXCEPT !.left = IF @ = -1 THEN -1 ELSE @ - 1,
                                      !.skip = IF @ > 0 THEN @ - 1 ELSE 0]
                /\ wire' = [wire EXCEPT ![req.sock] = Tail(w)]
                /\ file' = IF req.skip > 0 THEN file
                           ELSE [file EXCEPT ![Name] = Append(@, w[1])]
                /\ hs' = [hs EXCEPT !.len = IF req.skip > 0 THEN @ ELSE @ + 1, !.res = 1]
                /\ UNCHANGED <<stage, pconn>>
             \/ /\ req.skip = 0
                /\ CloseInvalidate /\ Return("FWRITEERR") /\ UNCHANGED file
    /\ UNCHANGED <<world, job, loop, into, result, exit, kills>>

\* The body ends: all of it read, the last chunk, the end of the connection, an
\* error, or nothing for longer than the timeout.
EndOfBody ==
    /\ stage = "body"
    /\ LET w == wire[req.sock]
           BodyEnds(res, rest) ==
               /\ ReturnWith([hs EXCEPT !.res = res], "RETRFINISHED")
               /\ IF res >= 0 THEN CloseFinish(rest) ELSE CloseInvalidate
       IN \/ req.left = 0 /\ BodyEnds(hs.res, w)
          \/ req.left # 0 /\ w # <<>> /\
             \/ w[1].t = "last" /\ req.head.chunked /\ BodyEnds(0, Tail(w))
             \/ w[1].t = "eof" /\ BodyEnds(0, SeenEof)
             \/ w[1].t = "eof" /\ req.head.chunked /\ BodyEnds(-1, <<>>)
          \/ req.left # 0 /\ NothingIn(w) /\ BodyEnds(-1, <<>>)
    /\ UNCHANGED <<world, file, job, loop, into, result, exit, kills>>

(***************************************************************************)
(* The rest of http_loop: what became of the try                           *)
(***************************************************************************)
\* http_loop returns err.  RETROK of a document whose length the server did not
\* tell is written ASSUMED here.
Done(err) ==
    /\ hs' = [NoStat EXCEPT !.err = err] /\ stage' = "done"
    /\ req' = NoReq
    /\ UNCHANGED loop
\* The next try is told no more of this one than the length it received.
Again(l) ==
    IF l.count < world.tries
    THEN /\ loop' = l /\ hs' = [NoStat EXCEPT !.len = hs.len] /\ req' = NoReq
         /\ stage' = "attempt"
    ELSE Done("TRYLIMEXC")

Finished == stage = "outcome" /\ hs.err = "RETRFINISHED"
Refused == hs.status \notin {200, 206}
LocalVars == <<world, file, job, wire, pconn, into, result, exit, kills>>

TryFailed ==
    /\ stage = "outcome"
    /\ hs.err \in {"HERR", "HEOF", "CONERROR", "WRITEFAILED", "RANGEERR"}
    /\ Again(loop)
    /\ UNCHANGED LocalVars

Fatal ==
    /\ stage = "outcome"
    /\ hs.err \in {"HOSTERR", "FOPENERR", "FWRITEERR", "AUTHFAILED",
                   "NEWLOCATION"}
    /\ Done(hs.err)
    /\ UNCHANGED LocalVars

NothingToDo ==
    /\ stage = "outcome" /\ hs.err = "RETRUNNEEDED"
    /\ Done("RETROK")
    /\ UNCHANGED LocalVars

ServerError ==
    /\ Finished /\ Refused
    /\ IF req.head_only /\ hs.status = 500
       THEN Again([loop EXCEPT !.got_head = TRUE])
       ELSE Done("WRONGCODE")
    /\ UNCHANGED LocalVars

\* The time-stamping section: the local file is kept if it is not older than
\* the server's and has its size; an older one is retrieved from the start.
HeadOk == Finished /\ ~Refused /\ ~loop.got_head /\ loop.head_first
Newer == file[Name] # Outdated
\* The file is to be retrieved, and a file that is older than the server's not
\* continued.
HeadAgain(older) == [loop EXCEPT !.count = 0, !.full = @ \/ older]    \* Mutation
ThenGet(older) == [HeadAgain(older) EXCEPT !.got_head = TRUE]

TimeStamp ==
    /\ HeadOk
    /\ LET compare == hs.dated /\ Name \in DOMAIN file
       IN IF compare /\ Newer /\ hs.contlen \in {-1, Len(file[Name])}
          THEN Done(IF hs.contlen = -1 THEN "ASSUMED" ELSE "RETROK")
          ELSE Again(ThenGet(compare /\ ~Newer))
    /\ UNCHANGED LocalVars

Judge ==
    /\ Finished /\ ~Refused /\ ~HeadOk
    /\ LET l == [loop EXCEPT !.got_head = TRUE]
       IN IF hs.len = hs.contlen THEN Done("RETROK")
          ELSE IF hs.res = 0 /\ hs.contlen = -1 THEN Done("ASSUMED")
          ELSE IF hs.res = 0 /\ hs.len >= hs.contlen
          THEN hs.len = hs.restval /\ Done("RETROK")
          ELSE Again(l)
    /\ UNCHANGED LocalVars

(***************************************************************************)
(* The rest of retrieve_url, and the whole                                 *)
(***************************************************************************)
\* get_status_for_err and inform_exit_status: the most important problem stays.
StatusFor(err) ==
    CASE err \in {"RETROK", "ASSUMED"} -> 0
      [] err \in {"FOPENERR", "FWRITEERR"} -> 3
      [] err \in {"HOSTERR", "TRYLIMEXC"} -> 4
      [] err = "AUTHFAILED" -> 6
      [] err = "WRONGCODE" -> 8
InformLast(err) == StatusFor(err)    \* Mutation: the last URL counts
Inform(err) ==
    IF StatusFor(err) # 0 /\ (exit = 0 \/ StatusFor(err) < exit)
    THEN StatusFor(err) ELSE exit

Follow ==
    /\ stage = "done" /\ hs.err = "NEWLOCATION" /\ job.redirs < MaxRedirect
    /\ BeginLoop(job.url, world.moved[job.cur], job.redirs + 1)
    /\ UNCHANGED <<world, file, req, wire, pconn, result, exit, kills>>

UrlDone ==
    /\ stage = "done" /\ (hs.err = "NEWLOCATION" => job.redirs >= MaxRedirect)
    /\ LET err == IF hs.err = "NEWLOCATION" THEN "WRONGCODE" ELSE hs.err
       IN result' = [result EXCEPT ![job.url] = err] /\ exit' = Inform(err)
    /\ stage' = "idle" /\ job' = NoJob /\ loop' = NoLoop /\ hs' = NoStat /\ req' = NoReq
    /\ UNCHANGED <<world, file, wire, pconn, into, kills>>

\* The user stops wget anywhere and starts the same command again: only the
\* files remain.
Kill ==
    /\ kills < world.kills
    /\ kills' = kills + 1
    /\ stage' = "idle" /\ job' = NoJob /\ loop' = NoLoop /\ hs' = NoStat /\ req' = NoReq
    /\ wire' = <<>> /\ pconn' = NoPconn
    /\ into' = [u \in Urls |-> <<u, 0>>]
    /\ result' = [u \in Urls |-> "none"] /\ exit' = 0
    /\ UNCHANGED <<world, file>>

AllDone == stage = "idle" /\ \A i \in DOMAIN world.args : result[world.args[i]] # "none"
Terminated == AllDone /\ UNCHANGED vars

Request == Attempt \/ Reuse \/ Connect \/ Send
Response == ReadHead \/ Unauthorized \/ Redirected \/ Unneeded \/ RangeError \/ NoBody
            \/ OpenFile \/ ReadByte \/ EndOfBody
Verdict == TryFailed \/ Fatal \/ NothingToDo \/ ServerError \/ TimeStamp \/ Judge
Run == (\E u \in Urls : RetrieveUrl(u)) \/ Request \/ Response \/ Verdict
       \/ Follow \/ UrlDone
Next == Run \/ Kill \/ Terminated

\* Every wait of wget ends, with data or with a timeout.
Spec == Init /\ [][Next]_vars /\ WF_vars(Run)

(***************************************************************************)
(* Properties                                                              *)
(***************************************************************************)
\* The server announces all it sends: by a length or chunks or, of a document, by
\* closing the connection behind it.
Announces == ~world.loose

Codes == {"none", "RETROK", "ASSUMED", "FOPENERR", "FWRITEERR", "HOSTERR", "CONERROR",
          "TRYLIMEXC", "AUTHFAILED", "WRONGCODE", "NEWLOCATION", "HERR",
          "HEOF", "WRITEFAILED", "RANGEERR", "RETRUNNEEDED", "RETRFINISHED"}

\* The values the variables take.
TypeOK ==
    /\ DOMAIN file \subseteq Names
    /\ stage \in {"idle", "attempt", "connect", "send", "head", "reply", "body",
                  "outcome", "done"}
    /\ loop.count \in 0 .. Ntry /\ job.redirs \in 0 .. MaxRedirect
    /\ hs.len \in 0 .. N /\ hs.restval \in 0 .. N /\ hs.contlen \in -1 .. N
    /\ hs.err \in Codes /\ hs.res \in {-1, 0, 1}
    /\ result \in [Urls -> Codes] /\ exit \in {0, 3, 4, 6, 8} /\ kills \in 0 .. MaxKills
    /\ DOMAIN wire \subseteq {1, 2} /\ pconn.sock \in {0} \cup DOMAIN wire

\* A file holds the document's bytes, each once and in order, whatever was cut,
\* retried, redirected, answered in part or continued by a second call of wget:
\* the try that continues "where the previous try left off" (http_loop) asks for
\* and writes exactly what is missing, and one that cannot begins the file anew.
Untouched(n) == file[n] \in {Outdated, ErrorPage}
SavedIsPrefix ==
    \A n \in DOMAIN file :
       \/ Untouched(n)
       \/ Len(file[n]) <= N /\ file[n] = SubSeq(Origin(n), 1, Len(file[n]))

\* A request goes out on a connection with nothing left unread on it: "if a broken
\* server sends message body in response to HEAD, or if it sends more than
\* conent-length data, we won't reuse the corrupted connection" (http.c:1372-1376).
\* That is so if the server Announces what it sends, and only then.
ReuseIsQuiet == stage = "send" => Unread(wire[req.sock]) = {}

\* No connection is lost: between two requests the only one open is the one
\* registered for reuse, and during a request that one and the request's own.
SocketsAccounted ==
    DOMAIN wire \subseteq {pconn.sock} \cup
        (IF stage \in {"send", "head", "reply", "body"} THEN {req.sock} ELSE {})

\* The exit status is 0 exactly when every URL so far was retrieved, even when
\* later ones went well (inform_exit_status).
ExitTells ==
    exit = 0 <=> \A u \in Urls : result[u] \in {"none", "RETROK", "ASSUMED"}

\* wget ends: tries, redirections and HEAD requests are all used up some time.
Terminates == <>AllDone

\* What the user sees of a retrieval is what Download promises.
Busy(n) == stage # "idle" /\ job.url = n[1] /\ Name = n
Kept(n) == IF n \notin DOMAIN file \/ Untouched(n) THEN -1 ELSE Len(file[n])
StateOf(n) ==
    IF Busy(n) THEN IF loop.full THEN "renewing" ELSE "busy"
    ELSE IF n # into[n[1]] THEN "idle"
    ELSE CASE result[n[1]] = "none" -> "idle"
           [] result[n[1]] = "RETROK" -> "complete"
           [] result[n[1]] = "ASSUMED" -> "assumed"
           [] OTHER -> "failed"
Promise == INSTANCE Download WITH
    Size <- N, Interrupts <- MaxKills, continuing <- world.rest, stops <- kills,
    kept <- [n \in Names |-> Kept(n)], state <- [n \in Names |-> StateOf(n)]
DownloadKept == Promise!DSpec
=============================================================================
