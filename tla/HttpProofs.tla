------------------------------ MODULE HttpProofs ------------------------------
(***************************************************************************)
(* Theorems about Http.  With any server: no connection is lost, and the   *)
(* exit status tells of every failure.  With a server that announces what  *)
(* it sends (Announces): a connection that is used again has nothing of an *)
(* earlier answer on it, a file holds the first bytes of its document,     *)
(* each once, and a retrieval keeps what Download promises of it.  All for *)
(* any URLs, documents of any length, number of tries, redirections and    *)
(* interruptions, and wherever the network cuts the answers.               *)
(***************************************************************************)
EXTENDS Http, TLAPS, SequenceTheorems

(***************************************************************************)
(* The connections                                                         *)
(***************************************************************************)
\* gethttp has a socket of its own.
OnSocket == stage \in {"send", "head", "reply", "body"}

\* A request that keeps its connection has registered it once the head is read,
\* so the connection may be left open when the request ends.
Registers ==
    /\ {"sock", "keep_alive", "head_only"} \subseteq DOMAIN req
    /\ stage \in {"reply", "body"} /\ req.keep_alive => pconn.sock = req.sock
\* 0 is no socket: it stands for none.
Sockets ==
    /\ OnSocket => req.sock # 0
    /\ 0 \notin DOMAIN wire
    /\ DOMAIN wire \subseteq {pconn.sock} \cup (IF OnSocket THEN {req.sock} ELSE {})
Connections == Registers /\ Sockets

\* What becomes of the connection of a request that ends: it is closed, or left
\* open if it is registered (CLOSE_INVALIDATE, CLOSE_FINISH).
Released ==
    /\ 0 \notin DOMAIN wire'
    /\ DOMAIN wire' \subseteq {pconn'.sock}

\* invalidate_persistent goes with the closing of the registered connection.
LEMMA CloseReleases ==
    ASSUME Connections, OnSocket, Close(req.sock)
    PROVE  Released
  <1>1. DOMAIN wire' = DOMAIN wire \ {req.sock}
    BY DEF Close, Without
  <1>2. CASE pconn.sock = req.sock
    BY <1>1, <1>2 DEF Connections, Sockets, Released
  <1>3. CASE pconn.sock # req.sock
    <2>1. pconn' = pconn
      BY <1>3 DEF Close
    <2> QED BY <1>1, <2>1 DEF Connections, Sockets, Released
  <1> QED BY <1>2, <1>3

\* CLOSE_FINISH keeps the connection only if it is registered.
LEMMA FinishReleases ==
    ASSUME NEW rest, Connections, stage \in {"reply", "body"}, CloseFinish(rest)
    PROVE  Released
  <1>1. CASE req.keep_alive
    <2>1. DOMAIN wire' = DOMAIN wire /\ pconn' = pconn
      BY <1>1 DEF CloseFinish
    <2>2. pconn.sock = req.sock
      BY <1>1 DEF Connections, Registers
    <2> QED BY <2>1, <2>2 DEF Connections, Sockets, Released
  <1>2. CASE ~req.keep_alive
    <2>1. Close(req.sock)
      BY <1>2 DEF CloseFinish
    <2> QED BY <2>1, CloseReleases DEF OnSocket
  <1> QED BY <1>1, <1>2

\* The same of skip_short_body and of what the code does with it.
LEMMA SkipReleases ==
    ASSUME Connections, stage \in {"reply", "body"}, SkipShortBody
    PROVE  Released
  <1>1. CASE CloseInvalidate
    BY <1>1, CloseReleases DEF CloseInvalidate, OnSocket
  <1>2. ASSUME NEW rest, CloseFinish(rest) PROVE Released
    BY <1>2, FinishReleases
  <1> QED BY <1>1, <1>2 DEF SkipShortBody

\* A step that leaves the connections and the request alone, on whichever side of
\* gethttp.
LEMMA NoSocketUsed ==
    ASSUME Connections, ~OnSocket, ~OnSocket', UNCHANGED <<req, wire, pconn>>
    PROVE  Connections'
  BY DEF Connections, Registers, Sockets, OnSocket

\* A request that ends in gethttp's return has released its connection.
LEMMA ReturnKeeps ==
    ASSUME NEW h, NEW err, Released, ReturnWith(h, err)
    PROVE  Connections'
  <1>1. stage' = "outcome" /\ {"sock", "keep_alive", "head_only"} \subseteq DOMAIN req'
    BY DEF ReturnWith, NoReq
  <1> QED BY <1>1 DEF Connections, Registers, Sockets, Released, OnSocket

\* http_loop's verdicts use no connection.
LEMMA VerdictKeeps ==
    ASSUME Connections, Verdict
    PROVE  Connections'
  <1>1. /\ ~OnSocket /\ ~OnSocket' /\ UNCHANGED <<wire, pconn>>
        /\ {"sock", "keep_alive", "head_only"} \subseteq DOMAIN req'
    <2>1. ASSUME NEW l, Again(l) PROVE /\ stage' \in {"attempt", "done"} /\ req' = NoReq
      BY <2>1 DEF Again, Done
    <2>2. ASSUME NEW err, Done(err) PROVE /\ stage' \in {"attempt", "done"} /\ req' = NoReq
      BY <2>2 DEF Done
    <2>3. stage = "outcome" /\ UNCHANGED <<wire, pconn>>
      BY DEF Verdict, TryFailed, Fatal, NothingToDo, ServerError, TimeStamp, Judge,
             HeadOk, Finished, LocalVars
    <2>4. stage' \in {"attempt", "done"} /\ req' = NoReq
      <3>1. CASE TryFailed BY <3>1, <2>1 DEF TryFailed
      <3>2. CASE Fatal BY <3>2, <2>2 DEF Fatal
      <3>3. CASE NothingToDo BY <3>3, <2>2 DEF NothingToDo
      <3>4. CASE ServerError BY <3>4, <2>1, <2>2 DEF ServerError
      <3>5. CASE TimeStamp BY <3>5, <2>1, <2>2 DEF TimeStamp
      <3>6. CASE Judge BY <3>6, <2>1, <2>2 DEF Judge
      <3> QED BY <3>1, <3>2, <3>3, <3>4, <3>5, <3>6 DEF Verdict
    <2> QED BY <2>3, <2>4 DEF OnSocket, NoReq
  <1> QED BY <1>1 DEF Connections, Registers, Sockets, OnSocket

\* A new connection gets a number no open socket has: at most the registered one
\* is open when gethttp begins.
LEMMA FreeSocket ==
    ASSUME NEW S, NEW s, S \subseteq {s}
    PROVE  (CHOOSE n \in 1 .. 2 : n \notin S) \in 1 .. 2
  <1>1. \E n \in 1 .. 2 : n \notin S
    <2>1. CASE s = 1
      <3>1. 2 \in 1 .. 2 /\ 2 \notin S BY <2>1
      <3> QED BY <3>1
    <2>2. CASE s # 1
      <3>1. 1 \in 1 .. 2 /\ 1 \notin S BY <2>2
      <3> QED BY <3>1
    <2> QED BY <2>1, <2>2
  <1> QED BY <1>1

LEMMA ConnectKeeps ==
    ASSUME Connections, Connect
    PROVE  Connections'
  <1> DEFINE open == IF Matches THEN Without(wire, {pconn.sock}) ELSE wire
             sock == CHOOSE s \in 1 .. 2 : s \notin DOMAIN open
  <1>1. /\ DOMAIN open \subseteq {pconn.sock} /\ 0 \notin DOMAIN open
        /\ Matches => DOMAIN open = {}
    BY DEF Connect, Connections, Sockets, OnSocket, Without
  <1>2. sock \in 1 .. 2
    BY <1>1, FreeSocket
  <1>3. pconn' = IF Matches THEN NoPconn ELSE pconn
    BY DEF Connect
  <1>4. DOMAIN open \subseteq {pconn'.sock}
    BY <1>1, <1>3
  <1>5. CASE /\ wire' = With(open, sock, <<>>)
             /\ req' = [req EXCEPT !.sock = sock, !.keep_alive = TRUE]
             /\ stage' = "send"
    <2> HIDE DEF open
    <2>1. DOMAIN wire' = DOMAIN open \cup {sock}
      BY <1>5 DEF With
    <2>2. req'.sock = sock /\ {"sock", "keep_alive", "head_only"} \subseteq DOMAIN req'
      BY <1>5 DEF Connections, Registers
    <2> HIDE DEF sock
    <2> QED BY <1>1, <1>2, <1>4, <1>5, <2>1, <2>2 DEF Connections, Registers, Sockets, OnSocket
  <1>6. ASSUME NEW err, wire' = open, Return(err) PROVE Connections'
    <2>1. Released
      BY <1>1, <1>4, <1>6 DEF Released
    <2> QED BY <1>6, <2>1, ReturnKeeps DEF Return
  <1>7. \/ /\ wire' = With(open, sock, <<>>)
           /\ req' = [req EXCEPT !.sock = sock, !.keep_alive = TRUE]
           /\ stage' = "send"
        \/ wire' = open /\ \E err \in {"HOSTERR", "CONERROR"} : Return(err)
    BY DEF Connect
  <1> HIDE DEF open, sock
  <1> QED BY <1>5, <1>6, <1>7

\* The head is read, and the connection registered unless it will be closed.
LEMMA ReadHeadKeeps ==
    ASSUME Connections, ReadHead
    PROVE  Connections'
  <1>0. OnSocket /\ stage = "head"
    BY DEF ReadHead, OnSocket
  <1>1. ASSUME NEW err, CloseInvalidate, Return(err) PROVE Connections'
    BY <1>0, <1>1, CloseReleases, ReturnKeeps DEF CloseInvalidate, Return
  <1>2. ASSUME NEW h, NEW rest, NEW keep \in BOOLEAN,
               req' = [req EXCEPT !.head = h, !.keep_alive = keep],
               IF keep THEN RegisterPersistent(rest)
                       ELSE wire' = [wire EXCEPT ![req.sock] = rest] /\ UNCHANGED pconn,
               stage' = "reply"
        PROVE  Connections'
    <2>1. /\ {"sock", "keep_alive", "head_only"} \subseteq DOMAIN req'
          /\ req'.sock = req.sock /\ req'.keep_alive = keep
      BY <1>2 DEF Connections, Registers
    <2>2. CASE keep
      <3>1. pconn'.sock = req.sock
        BY <1>2, <2>2 DEF RegisterPersistent
      <3>2. DOMAIN wire' \subseteq {req.sock}
        <4>1. CASE pconn.sock \in {0, req.sock}
          <5>1. DOMAIN wire' = DOMAIN wire \cup {req.sock}
            BY <1>2, <2>2, <4>1 DEF RegisterPersistent, With
          <5> QED BY <4>1, <5>1, <1>0 DEF Connections, Sockets
        <4>2. CASE pconn.sock \notin {0, req.sock}
          <5>1. DOMAIN wire' = (DOMAIN wire \ {pconn.sock}) \cup {req.sock}
            BY <1>2, <2>2, <4>2 DEF RegisterPersistent, With, Without
          <5> QED BY <5>1, <1>0 DEF Connections, Sockets
        <4> QED BY <4>1, <4>2
      <3> QED BY <1>0, <1>2, <2>1, <3>1, <3>2 DEF Connections, Registers, Sockets, OnSocket
    <2>3. CASE ~keep
      <3>1. DOMAIN wire' = DOMAIN wire /\ pconn' = pconn
        BY <1>2, <2>3
      <3> QED BY <1>0, <1>2, <2>1, <2>3, <3>1 DEF Connections, Registers, Sockets, OnSocket
    <2> QED BY <2>2, <2>3
  <1>3. CASE NothingIn(wire[req.sock]) \/ wire[req.sock][1].t = "eof"
    BY <1>1, <1>3 DEF ReadHead
  <1>4. CASE ~ (NothingIn(wire[req.sock]) \/ wire[req.sock][1].t = "eof")
    BY <1>2, <1>4 DEF ReadHead
  <1> QED BY <1>3, <1>4

\* The answers that end the request at once.
LEMMA DisposeReleases ==
    ASSUME Connections, stage \in {"reply", "body"}, Dispose
    PROVE  Released
  BY CloseReleases, SkipReleases DEF Dispose, CloseInvalidate, OnSocket

LEMMA UnauthorizedKeeps ==
    ASSUME Connections, Unauthorized
    PROVE  Connections'
  <1>1. Released
    BY DisposeReleases, CloseReleases DEF Unauthorized, CloseInvalidate, OnSocket
  <1>2. CASE Return("AUTHFAILED")
    BY <1>1, <1>2, ReturnKeeps DEF Return
  <1>3. CASE req' = [req EXCEPT !.authed = TRUE] /\ stage' = "connect"
    <2>1. {"sock", "keep_alive", "head_only"} \subseteq DOMAIN req'
      BY <1>3 DEF Connections, Registers
    <2> QED BY <1>1, <1>3, <2>1 DEF Connections, Registers, Sockets, Released, OnSocket
  <1> QED BY <1>2, <1>3 DEF Unauthorized

LEMMA NoBodyKeeps ==
    ASSUME Connections, NoBody
    PROVE  Connections'
  <1>1. stage = "reply" /\ OnSocket
    BY DEF NoBody, OnSocket
  <1>2. Released
    <2>1. CASE req.head_only
      BY <1>1, <2>1, FinishReleases DEF NoBody
    <2>2. CASE ~req.head_only /\ req.keep_alive
      BY <1>1, <2>2, SkipReleases DEF NoBody
    <2>3. CASE ~req.head_only /\ ~req.keep_alive
      BY <1>1, <2>3, CloseReleases DEF NoBody, CloseInvalidate
    <2> QED BY <2>1, <2>2, <2>3
  <1>3. PICK h : ReturnWith(h, "RETRFINISHED")
    BY DEF NoBody
  <1> QED BY <1>2, <1>3, ReturnKeeps

\* The answers that end the request at once: its connection is closed, or skipped
\* over, and gethttp returns.
LEMMA RefusedKeeps ==
    ASSUME Connections, Redirected \/ Unneeded \/ RangeError
    PROVE  Connections'
  <1>1. stage = "reply" /\ OnSocket
    BY DEF Redirected, Unneeded, RangeError, OnSocket
  <1>2. Released
    BY <1>1, DisposeReleases, CloseReleases
       DEF Redirected, Unneeded, RangeError, CloseInvalidate
  <1>3. \E h, err : ReturnWith(h, err)
    BY DEF Redirected, Unneeded, RangeError, Return
  <1> QED BY <1>2, <1>3, ReturnKeeps

\* While the body is read the connection stays; a write error closes it.
LEMMA OpenFileKeeps ==
    ASSUME Connections, OpenFile
    PROVE  Connections'
  <1>1. stage = "reply" /\ OnSocket
    BY DEF OpenFile, OnSocket
  <1>2. CASE CloseInvalidate /\ Return("FOPENERR")
    BY <1>1, <1>2, CloseReleases, ReturnKeeps DEF CloseInvalidate, Return
  <1>3. CASE /\ req' = [req EXCEPT !.left = req.head.length, !.head = [@ EXCEPT !.length = -1],
                                   !.skip = Skip]
             /\ stage' = "body" /\ UNCHANGED <<wire, pconn>>
    <2>1. /\ DOMAIN req' = DOMAIN req
          /\ req'.sock = req.sock /\ req'.keep_alive = req.keep_alive
      BY <1>3 DEF Connections, Registers
    <2> QED BY <1>1, <1>3, <2>1 DEF Connections, Registers, Sockets, OnSocket
  <1> QED BY <1>2, <1>3 DEF OpenFile

LEMMA ReadByteKeeps ==
    ASSUME Connections, ReadByte
    PROVE  Connections'
  <1>1. stage = "body" /\ OnSocket
    BY DEF ReadByte, OnSocket
  <1>2. CASE CloseInvalidate /\ Return("FWRITEERR")
    BY <1>1, <1>2, CloseReleases, ReturnKeeps DEF CloseInvalidate, Return
  <1>3. CASE /\ req' = [req EXCEPT !.left = IF @ = -1 THEN -1 ELSE @ - 1,
                                   !.skip = IF @ > 0 THEN @ - 1 ELSE 0]
             /\ wire' = [wire EXCEPT ![req.sock] = Tail(wire[req.sock])]
             /\ UNCHANGED <<stage, pconn>>
    <2>1. /\ DOMAIN req' = DOMAIN req /\ DOMAIN wire' = DOMAIN wire
          /\ req'.sock = req.sock /\ req'.keep_alive = req.keep_alive
      BY <1>3 DEF Connections, Registers
    <2> QED BY <1>1, <1>3, <2>1 DEF Connections, Registers, Sockets, OnSocket
  <1> QED BY <1>2, <1>3 DEF ReadByte

LEMMA EndOfBodyKeeps ==
    ASSUME Connections, EndOfBody
    PROVE  Connections'
  <1>1. stage = "body" /\ OnSocket
    BY DEF EndOfBody, OnSocket
  <1>2. \E h, rest : /\ ReturnWith(h, "RETRFINISHED")
                     /\ CloseFinish(rest) \/ CloseInvalidate
    BY DEF EndOfBody
  <1>3. Released
    BY <1>1, <1>2, FinishReleases, CloseReleases DEF CloseInvalidate
  <1> QED BY <1>2, <1>3, ReturnKeeps

LEMMA SendKeeps ==
    ASSUME Connections, Send
    PROVE  Connections'
  <1>1. stage = "send" /\ OnSocket
    BY DEF Send, OnSocket
  <1>2. CASE CloseInvalidate /\ Return("WRITEFAILED")
    BY <1>1, <1>2, CloseReleases, ReturnKeeps DEF CloseInvalidate, Return
  <1>3. CASE /\ \E w : wire' = [wire EXCEPT ![req.sock] = w]
             /\ stage' = "head" /\ UNCHANGED <<req, pconn>>
    <2>1. DOMAIN wire' = DOMAIN wire
      BY <1>3
    <2> QED BY <1>1, <1>3, <2>1 DEF Connections, Registers, Sockets, OnSocket
  <1> QED BY <1>2, <1>3 DEF Send

\* A connection is reused only if it is the registered one.
LEMMA ReuseKeeps ==
    ASSUME Connections, Reuse
    PROVE  Connections'
  <1>1. /\ stage = "connect" /\ stage' = "send" /\ UNCHANGED <<wire, pconn>>
        /\ pconn.sock # 0
    BY DEF Reuse, Matches
  <1>2. req'.sock = pconn.sock /\ DOMAIN req' = DOMAIN req
    BY DEF Reuse, Connections, Registers
  <1> QED BY <1>1, <1>2 DEF Connections, Registers, Sockets, OnSocket

LEMMA ConnectionsKnown == Spec => []Connections
  <1>1. Init => Connections
    BY DEF Init, Connections, Registers, Sockets, OnSocket, NoReq
  <1>2. Connections /\ [Next]_vars => Connections'
    <2> SUFFICES ASSUME Connections, [Next]_vars PROVE Connections'
      OBVIOUS
    <2>1. ASSUME NEW u \in Urls, RetrieveUrl(u) PROVE Connections'
      BY <2>1, NoSocketUsed DEF RetrieveUrl, BeginLoop, OnSocket
    <2>2. CASE Attempt
      <3>1. ~OnSocket /\ ~OnSocket' /\ UNCHANGED <<wire, pconn>>
            /\ {"sock", "keep_alive", "head_only"} \subseteq DOMAIN req'
        BY <2>2 DEF Attempt, Afresh, OnSocket, NoReq
      <3> QED BY <3>1 DEF Connections, Registers, Sockets, OnSocket
    <2>3. CASE Request
      BY <2>2, <2>3, ReuseKeeps, ConnectKeeps, SendKeeps DEF Request
    <2>4. CASE Response
      BY <2>4, ReadHeadKeeps, UnauthorizedKeeps, RefusedKeeps, NoBodyKeeps, OpenFileKeeps,
         ReadByteKeeps, EndOfBodyKeeps DEF Response
    <2>5. CASE Verdict
      BY <2>5, VerdictKeeps
    <2>6. CASE Follow
      BY <2>6, NoSocketUsed DEF Follow, BeginLoop, OnSocket
    <2>7. CASE UrlDone
      BY <2>7 DEF UrlDone, Connections, Registers, Sockets, OnSocket, NoReq
    <2>8. CASE Kill
      BY <2>8 DEF Kill, Connections, Registers, Sockets, OnSocket, NoReq
    <2>9. CASE UNCHANGED vars
      BY <2>9 DEF vars, Connections, Registers, Sockets, OnSocket
    <2> QED BY <2>1, <2>3, <2>4, <2>5, <2>6, <2>7, <2>8, <2>9 DEF Next, Run, Terminated
  <1> QED BY <1>1, <1>2, PTL DEF Spec

\* SocketsAccounted: no connection is lost, whatever fails when.
THEOREM NoConnectionLost == Spec => []SocketsAccounted
  <1>1. Connections => SocketsAccounted
    BY DEF Connections, Sockets, SocketsAccounted, OnSocket
  <1> QED BY <1>1, ConnectionsKnown, PTL

(***************************************************************************)
(* The exit status                                                         *)
(***************************************************************************)
\* What http_loop returns.
Good == {"RETROK", "ASSUMED"}
Bad == {"FOPENERR", "FWRITEERR", "HOSTERR", "TRYLIMEXC", "AUTHFAILED", "WRONGCODE"}

\* While a URL is retrieved nothing has been reported of it, and what http_loop
\* returned is one of its codes.
Reported ==
    /\ exit \in Nat
    /\ result \in [Urls -> {"none"} \cup Good \cup Bad]
    /\ stage # "idle" => job.url \in Urls /\ result[job.url] = "none"
    /\ stage = "done" => hs.err \in Good \cup Bad \cup {"NEWLOCATION"}
ExitInv == Reported /\ ExitTells

\* inform_exit_status forgets no failure.
LEMMA InformTells ==
    ASSUME exit \in Nat, NEW err \in Good \cup Bad
    PROVE  Inform(err) \in Nat /\ (Inform(err) = 0 <=> exit = 0 /\ err \in Good)
  <1>1. CASE err \in Good
    <2>1. StatusFor(err) = 0
      BY <1>1 DEF StatusFor, Good
    <2> QED BY <1>1, <2>1 DEF Inform
  <1>2. CASE err \in Bad
    <2>1. StatusFor(err) \in {3, 4, 6, 8}
      <3>1. CASE err \in {"FOPENERR", "FWRITEERR"}
        BY <3>1 DEF StatusFor
      <3>2. CASE err \in {"HOSTERR", "TRYLIMEXC"}
        BY <3>2 DEF StatusFor
      <3>3. CASE err = "AUTHFAILED"
        BY <3>3 DEF StatusFor
      <3>4. CASE err = "WRONGCODE"
        BY <3>4 DEF StatusFor
      <3> QED BY <1>2, <3>1, <3>2, <3>3, <3>4 DEF Bad
    <2>2. err \notin Good
      BY <1>2 DEF Good, Bad
    <2> QED BY <2>1, <2>2 DEF Inform
  <1> QED BY <1>1, <1>2

\* A step inside the retrieval of a URL reports nothing.
LEMMA StillRetrieving ==
    ASSUME ExitInv, stage # "idle", UNCHANGED <<job, result, exit>>,
           stage' # "idle",
           stage' = "done" => hs'.err \in Good \cup Bad \cup {"NEWLOCATION"}
    PROVE  ExitInv'
  BY DEF ExitInv, Reported, ExitTells

LEMMA VerdictReportsNothing ==
    ASSUME ExitInv, Verdict
    PROVE  ExitInv'
  <1> DEFINE Said == /\ stage' \in {"attempt", "done"}
                     /\ stage' = "done" => hs'.err \in Good \cup Bad \cup {"NEWLOCATION"}
  <1>1. ASSUME NEW err \in Good \cup Bad \cup {"NEWLOCATION"}, Done(err) PROVE Said
    <2>1. hs'.err = err
      BY <1>1 DEF Done, NoStat
    <2> QED BY <1>1, <2>1 DEF Done
  <1>2. ASSUME NEW l, Again(l) PROVE Said
    BY <1>1, <1>2 DEF Again, Bad
  <1>3. Said
    <2> HIDE DEF Said
    <2>1. CASE TryFailed BY <2>1, <1>2 DEF TryFailed
    <2>2. CASE Fatal BY <2>2, <1>1 DEF Fatal, Bad
    <2>3. CASE NothingToDo BY <2>3, <1>1 DEF NothingToDo, Good
    <2>4. CASE ServerError BY <2>4, <1>1, <1>2 DEF ServerError, Bad
    <2>5. CASE TimeStamp BY <2>5, <1>1, <1>2 DEF TimeStamp, Good
    <2>6. CASE Judge BY <2>6, <1>1, <1>2 DEF Judge, Good
    <2> QED BY <2>1, <2>2, <2>3, <2>4, <2>5, <2>6 DEF Verdict
  <1>4. stage = "outcome" /\ UNCHANGED <<job, result, exit>>
    BY DEF Verdict, TryFailed, Fatal, NothingToDo, ServerError, TimeStamp, Judge,
           HeadOk, Finished, LocalVars
  <1> QED BY <1>3, <1>4, StillRetrieving

\* Requests and answers end in "outcome", if gethttp returns at all.
LEMMA GethttpReportsNothing ==
    ASSUME ExitInv, Request \/ Response
    PROVE  ExitInv'
  <1>1. ASSUME NEW h, NEW err, ReturnWith(h, err) PROVE stage' = "outcome"
    BY <1>1 DEF ReturnWith
  <1>2. stage \notin {"idle", "done"} /\ stage' \notin {"idle", "done"}
        /\ UNCHANGED <<job, result, exit>>
    <2>1. CASE Request
      BY <2>1, <1>1 DEF Request, Attempt, Afresh, Reuse, Connect, Send, Return
    <2>2. CASE ReadHead
      BY <2>2, <1>1 DEF ReadHead, Return
    <2>3. CASE Unauthorized \/ Redirected \/ Unneeded \/ RangeError \/ NoBody
      BY <2>3, <1>1 DEF Unauthorized, Redirected, Unneeded, RangeError, NoBody, Return
    <2>4. CASE OpenFile \/ ReadByte
      BY <2>4, <1>1 DEF OpenFile, ReadByte, Return
    <2>5. CASE EndOfBody
      BY <2>5, <1>1 DEF EndOfBody
    <2> QED BY <2>1, <2>2, <2>3, <2>4, <2>5 DEF Response
  <1> QED BY <1>2, StillRetrieving

LEMMA UrlDoneReports ==
    ASSUME ExitInv, UrlDone
    PROVE  ExitInv'
  <1> DEFINE err == IF hs.err = "NEWLOCATION" THEN "WRONGCODE" ELSE hs.err
  <1>1. err \in Good \cup Bad /\ exit \in Nat
    BY DEF UrlDone, ExitInv, Reported, Good, Bad
  <1>2. /\ stage = "done" /\ stage' = "idle"
        /\ result' = [result EXCEPT ![job.url] = err] /\ exit' = Inform(err)
    BY DEF UrlDone
  <1> HIDE DEF err
  <1>3. exit' \in Nat /\ (exit' = 0 <=> exit = 0 /\ err \in Good)
    BY <1>1, <1>2, InformTells
  <1>4. /\ result \in [Urls -> {"none"} \cup Good \cup Bad]
        /\ job.url \in Urls /\ result[job.url] = "none"
    BY <1>2 DEF ExitInv, Reported
  <1>5. result' \in [Urls -> {"none"} \cup Good \cup Bad]
    BY <1>1, <1>2, <1>4
  <1>6. exit' = 0 <=> \A u \in Urls : result'[u] \in {"none"} \cup Good
    <2>1. result'[job.url] = err /\ \A u \in Urls \ {job.url} : result'[u] = result[u]
      BY <1>2, <1>4
    <2>2. exit = 0 <=> \A u \in Urls : result[u] \in {"none"} \cup Good
      BY DEF ExitInv, ExitTells, Good
    <2>3. err # "none"
      BY <1>1 DEF Good, Bad
    <2> QED BY <1>3, <1>4, <2>1, <2>2, <2>3
  <1> QED BY <1>2, <1>3, <1>5, <1>6 DEF ExitInv, Reported, ExitTells, Good

LEMMA ReportsKnown == Spec => []ExitInv
  <1>1. Init => ExitInv
    BY DEF Init, ExitInv, Reported, ExitTells
  <1>2. ExitInv /\ [Next]_vars => ExitInv'
    <2> SUFFICES ASSUME ExitInv, [Next]_vars PROVE ExitInv'
      OBVIOUS
    <2>1. ASSUME NEW u \in Urls, RetrieveUrl(u) PROVE ExitInv'
      BY <2>1 DEF RetrieveUrl, BeginLoop, ExitInv, Reported, ExitTells
    <2>2. CASE Request \/ Response
      BY <2>2, GethttpReportsNothing
    <2>3. CASE Verdict
      BY <2>3, VerdictReportsNothing
    <2>4. CASE Follow
      BY <2>4 DEF Follow, BeginLoop, ExitInv, Reported, ExitTells
    <2>5. CASE UrlDone
      BY <2>5, UrlDoneReports
    <2>6. CASE Kill
      BY <2>6 DEF Kill, ExitInv, Reported, ExitTells
    <2>7. CASE UNCHANGED vars
      BY <2>7 DEF vars, ExitInv, Reported, ExitTells
    <2> QED BY <2>1, <2>2, <2>3, <2>4, <2>5, <2>6, <2>7 DEF Next, Run, Terminated
  <1> QED BY <1>1, <1>2, PTL DEF Spec

\* ExitTells: the exit status is 0 exactly when no URL failed.
THEOREM ExitStatusTells == Spec => []ExitTells
  <1>1. ExitInv => ExitTells
    BY DEF ExitInv
  <1> QED BY <1>1, ReportsKnown, PTL


(***************************************************************************)
(* What may stand on the wire                                              *)
(***************************************************************************)
\* The part of a document that an answer sends which begins behind its first bytes.
Sent(u, range) == SubSeq(Doc(u), range + 1, N)

\* What follows a body of which q bytes were sent: an interruption anywhere, and
\* behind the last byte the end its framing gives it.
Endings(q, body, end) ==
    {Silence, Eof} \cup (IF q = Len(body) THEN {end, end \o Eof} ELSE {})
Part(w, body, p, q, e) == w = SubSeq(body, p + 1, q) \o e
\* Of a body of which p bytes are read, w is what the network leaves of the rest.
Remains(w, body, p, end) ==
    \E q \in p .. Len(body) : \E e \in Endings(q, body, end) : Part(w, body, p, q, e)

\* What a head announces.
BodyOf(h) ==
    IF req.head_only THEN <<>>
    ELSE IF h.status \in {200, 206} THEN Sent(job.cur, h.range) ELSE ErrorPage
EndOf(h) ==
    IF h.chunked THEN LastChunk
    ELSE IF h.length = -1 /\ ~req.head_only THEN Eof ELSE <<>>

Heads == [t : {"head"}, status : {0, 200, 206, 302, 401, 404, 416, 500},
          length : -1 .. N, range : 0 .. N, close : BOOLEAN, chunked : BOOLEAN]

\* The heads the server sends to this request.  Only a document is framed by the
\* end of the connection, never an error page.
Document(h) ==
    /\ h.status \in {200, 206} /\ Ends(job.cur)
    /\ h.range < N /\ (h.range # 0 => h.status = 206 /\ h.range = hs.restval)
    /\ \/ h.length = N - h.range /\ ~h.chunked
       \/ h.length = -1 /\ h.range = 0
Page(h) ==
    /\ h.status \in {302, 401, 404, 416} /\ h.range = 0
    /\ \/ h.length = 1 /\ ~h.chunked
       \/ h.length = -1 /\ h.chunked
    /\ h.status = 302 => ~Ends(job.cur)
    /\ h.status = 416 => hs.restval >= N /\ h.length = 1
HeadOnly(h) ==
    /\ h.status \in {200, 302, 404, 500} /\ h.range = 0 /\ ~h.chunked
    /\ h.status = 200 => Ends(job.cur) /\ h.length \in {-1, N}
    /\ h.status = 302 => ~Ends(job.cur)
    /\ h.status = 500 => ~ (world.rest /\ world.stamp /\ world.dated)
Sound(h) ==
    /\ h \in Heads
    /\ IF req.head_only THEN HeadOnly(h) ELSE Document(h) \/ Page(h)

\* A connection nobody is reading from.
Quiet(w) == w \in {<<>>, Silence, Eof, SeenEof}

OnHead(w) ==
    w \in {Silence, Eof} \/ /\ w # <<>>
                            /\ Sound(w[1])
                            /\ Remains(Tail(w), BodyOf(w[1]), 0, EndOf(w[1]))
OnReply(w) == Sound(req.head) /\ Remains(w, BodyOf(req.head), 0, EndOf(req.head))

\* How much of the answer's body has been read: skipped, or written to the file.
Read == hs.len - req.skip - req.head.range
InBody(w) ==
    /\ Ends(job.cur) /\ ~req.head_only
    /\ req.head.range < N /\ Read \in 0 .. N - req.head.range
    /\ req.left \in {-1, N - req.head.range - Read}
    /\ req.head.chunked => req.left = -1
    /\ Remains(w, Sent(job.cur, req.head.range), Read,
               IF req.head.chunked THEN LastChunk ELSE IF req.left = -1 THEN Eof ELSE <<>>)

\* The registered connection and the request's own are open.
Open ==
    /\ pconn.sock # 0 => pconn.sock \in DOMAIN wire
    /\ OnSocket => req.sock \in DOMAIN wire
    /\ DOMAIN wire \subseteq {1, 2}
Wires ==
    /\ \A s \in DOMAIN wire : s # req.sock \/ ~OnSocket => Quiet(wire[s])
    /\ stage = "send" => wire[req.sock] \in {<<>>, Silence, Eof}
    /\ stage = "head" => OnHead(wire[req.sock])
    /\ stage = "reply" => OnReply(wire[req.sock])
    /\ stage = "body" => InBody(wire[req.sock])

(***************************************************************************)
(* The files                                                               *)
(***************************************************************************)
Content == { Byte(u, i) : u \in Urls \cup {"error", "outdated"}, i \in 1 .. N }
Stats == [len : 0 .. N, contlen : -1 .. N, restval : 0 .. N, res : {-1, 0, 1},
          status : {0, 200, 206, 302, 401, 404, 416, 500}, dated : BOOLEAN, err : Codes]
Reqs == [head_only : BOOLEAN, authed : BOOLEAN, sock : {0, 1, 2}, keep_alive : BOOLEAN,
         head : Heads, left : -1 .. N, skip : 0 .. N]
Loops == [count : 0 .. Ntry, got_head : BOOLEAN, head_first : BOOLEAN, full : BOOLEAN]
Jobs == [url : Urls, cur : Urls, redirs : 0 .. MaxRedirect]
Stages == {"idle", "attempt", "connect", "send", "head", "reply", "body", "outcome", "done"}

Typed ==
    /\ world \in Worlds /\ ~world.loose
    /\ file = [n \in DOMAIN file |-> file[n]] /\ DOMAIN file \subseteq Names
    /\ \A n \in DOMAIN file : file[n] \in Seq(Content) /\ Len(file[n]) <= N
    /\ stage \in Stages
    /\ IF stage = "idle" THEN job = NoJob ELSE job \in Jobs /\ job.cur \in LeadsTo(job.url)
    /\ loop \in Loops /\ hs \in Stats /\ req \in Reqs
    /\ stage = "attempt" => loop.count < world.tries
    /\ into \in [Urls -> Names] /\ \A u \in Urls : into[u][1] = u
    /\ exit \in {0, 3, 4, 6, 8} /\ kills \in 0 .. world.kills

\* A file is the beginning of the document its name stands for.
Prefix(n) == file[n] = SubSeq(Origin(n), 1, Len(file[n]))
InLoop == stage \in {"attempt", "connect", "send", "head", "reply", "body", "outcome"}

\* How much of the document wget takes to be on disk is there.
Progress ==
    InLoop /\ hs.len > 0 /\ (stage = "outcome" => hs.err # "RETRUNNEEDED") =>
        Name \in DOMAIN file /\ Prefix(Name) /\ Len(file[Name]) = hs.len
Continued ==
    stage \in {"connect", "send", "head", "reply"} /\ ~req.head_only /\ hs.restval > 0 =>
        Name \in DOMAIN file /\ Prefix(Name) /\ Len(file[Name]) = hs.restval
Written ==
    stage = "body" => Name \in DOMAIN file /\ Prefix(Name) /\ Len(file[Name]) = hs.len

\* An older version is on disk only with -N, and it is told by the answer to HEAD
\* before anything is continued.
Older ==
    world.rest => \A n \in DOMAIN file : ~Prefix(n) =>
        /\ world.stamp /\ world.dated /\ file[n] = Outdated
        /\ InLoop /\ n = Name => loop.full \/ (loop.head_first /\ ~loop.got_head)
HeadsAnswered ==
    /\ stage \in {"connect", "send", "head", "reply", "body", "outcome"} =>
          (req.head_only <=> loop.head_first /\ ~loop.got_head)
    /\ stage = "outcome" /\ req.head_only /\ hs.err = "RETRFINISHED" => hs.dated = world.dated
    /\ stage = "outcome" /\ req.head_only /\ hs.err = "RETRFINISHED" =>
          (hs.status = 500 => ~ (world.rest /\ world.stamp /\ world.dated))
    /\ loop.head_first => world.stamp
    /\ stage \in {"outcome", "done"} /\ hs.err = "NEWLOCATION" => ~Ends(job.cur)

\* New names are taken in order, one for each URL and call of wget at most.
Taken(u, m) == \A k \in 0 .. MaxKills + 1 : <<u, k>> \in DOMAIN file <=> k < m
Fetched(u) ==
    result[u] # "none" \/ (stage # "idle" /\ job.url = u /\ Name \in DOMAIN file)
Numbered ==
    ~Clobber =>
        /\ \A u \in Urls : \E m \in 0 .. kills + 2 : Taken(u, m) /\ (m = kills + 2 => Fetched(u))
        /\ stage # "idle" =>
              /\ \A k \in 0 .. Name[2] - 1 : <<job.url, k>> \in DOMAIN file
              /\ ~Ends(job.cur) => Name \notin DOMAIN file
Overwriting == Clobber => \A u \in Urls : into[u] = <<u, 0>>

\* What holds with backups too, when the file may be shorter than wget believes.
Bounded ==
    stage = "body" => Name \in DOMAIN file /\ Len(file[Name]) <= hs.len

Files ==
    /\ Numbered /\ Overwriting /\ Bounded /\ HeadsAnswered
    /\ ~Backups => SavedIsPrefix /\ Progress /\ Continued /\ Written /\ Older

FInv == Typed /\ Open /\ Wires /\ Files

(***************************************************************************)
(* Sequences: what is sent, cut and read                                   *)
(***************************************************************************)
Mark == { [t |-> "eof"], [t |-> "silence"], [t |-> "last"], [t |-> "gone"] }
Item == Content \cup Heads \cup Mark
Framing == {<<>>, LastChunk, Eof}

LEMMA LengthNat ==
    ASSUME NEW v \in Seq(Item)
    PROVE  Len(v) \in Nat
  BY LenProperties

LEMMA Marks ==
    /\ Silence \in Seq(Item) /\ Len(Silence) = 1 /\ Silence[1].t = "silence"
    /\ Eof \in Seq(Item) /\ Len(Eof) = 1 /\ Eof[1].t = "eof"
    /\ LastChunk \in Seq(Item) /\ Len(LastChunk) = 1 /\ LastChunk[1].t = "last"
    /\ <<>> \in Seq(Item)
    /\ Framing \subseteq Seq(Item)
  <1>1. /\ [t |-> "silence"] \in Item /\ [t |-> "eof"] \in Item /\ [t |-> "last"] \in Item
    BY DEF Item, Mark
  <1>2. \A x \in Item : <<x>> \in Seq(Item) /\ Len(<<x>>) = 1 /\ <<x>>[1] = x
    OBVIOUS
  <1> QED BY <1>1, <1>2, EmptySeq DEF Silence, Eof, LastChunk, Framing

\* One item and what is behind it.
LEMMA Cons ==
    ASSUME NEW x \in Item, NEW v \in Seq(Item)
    PROVE  /\ <<x>> \o v \in Seq(Item) /\ <<x>> \o v # <<>>
           /\ Len(<<x>> \o v) = 1 + Len(v)
           /\ (<<x>> \o v)[1] = x
           /\ Tail(<<x>> \o v) = v
  <1> DEFINE c == <<x>> \o v
  <1>1. <<x>> \in Seq(Item) /\ Len(<<x>>) = 1 /\ <<x>>[1] = x
    OBVIOUS
  <1>2. /\ c \in Seq(Item) /\ Len(c) = 1 + Len(v)
        /\ \A i \in 1 .. 1 + Len(v) : c[i] = IF i <= 1 THEN <<x>>[i] ELSE v[i - 1]
    BY <1>1, ConcatProperties
  <1>3. Len(v) \in Nat
    BY LenProperties
  <1> HIDE DEF c
  <1>4. c # <<>> /\ c[1] = x
    BY <1>1, <1>2, <1>3, EmptySeq
  <1>5. Tail(c) = v
    <2>1. /\ Tail(c) \in Seq(Item) /\ Len(Tail(c)) = Len(c) - 1
          /\ \A i \in 1 .. Len(Tail(c)) : Tail(c)[i] = c[i + 1]
      BY <1>2, <1>4, HeadTailProperties
    <2>2. Len(Tail(c)) = Len(v)
      BY <1>2, <1>3, <2>1
    <2>3. ASSUME NEW i \in 1 .. Len(v) PROVE Tail(c)[i] = v[i]
      <3>1. i + 1 \in 1 .. 1 + Len(v) /\ ~(i + 1 <= 1) /\ (i + 1) - 1 = i
        BY <1>3
      <3> QED BY <1>2, <2>1, <2>2, <3>1
    <2> QED BY <2>1, <2>2, <2>3, SeqEqual
  <1> QED BY <1>2, <1>4, <1>5 DEF c

LEMMA Doubled ==
    ASSUME NEW end \in {LastChunk, Eof}
    PROVE  /\ end \o Eof \in Seq(Item) /\ Len(end \o Eof) = 2
           /\ (end \o Eof)[1] = end[1] /\ (end \o Eof)[2] = Eof[1]
  <1>1. end \in Seq(Item) /\ Len(end) = 1 /\ Eof \in Seq(Item) /\ Len(Eof) = 1
    BY Marks
  <1> DEFINE z == end \o Eof
  <1>2. /\ z \in Seq(Item) /\ Len(z) = Len(end) + Len(Eof)
        /\ \A i \in 1 .. Len(end) + Len(Eof) :
              z[i] = IF i <= Len(end) THEN end[i] ELSE Eof[i - Len(end)]
    BY <1>1, ConcatProperties
  <1> HIDE DEF z
  <1>3. Len(z) = 2 /\ z[1] = end[1] /\ z[2] = Eof[1]
    BY <1>1, <1>2
  <1> QED BY <1>2, <1>3 DEF z

\* An ending holds no data, and the end of the chunks at its beginning only.
LEMMA EndingShape ==
    ASSUME NEW q, NEW body, NEW end \in Framing, NEW e \in Endings(q, body, end)
    PROVE  /\ e \in Seq(Item)
           /\ Len(e) \in 0 .. 2
           /\ \A i \in 1 .. Len(e) : e[i].t \in {"silence", "eof", "last"}
           /\ \A i \in 1 .. Len(e) : e[i].t = "last" =>
                 i = 1 /\ e \in {LastChunk, LastChunk \o Eof}
           /\ e = <<>> \/ e[1].t \in {"silence", "eof"} \/ end = LastChunk
  <1>1. e \in {Silence, Eof, end, end \o Eof}
    BY DEF Endings
  <1>2. CASE e \in {Silence, Eof, LastChunk}
    BY <1>1, <1>2, Marks DEF Framing
  <1>3. CASE e = <<>>
    BY <1>3, Marks
  <1>4. CASE e = end \o Eof /\ end \in {LastChunk, Eof}
    BY <1>4, Doubled, Marks
  <1>5. <<>> \o Eof = Eof
    BY Marks, ConcatEmptySeq
  <1> QED BY <1>1, <1>2, <1>3, <1>4, <1>5 DEF Framing

\* The items of a part that is followed by its ending.
LEMMA PartShape ==
    ASSUME NEW body \in Seq(Item), NEW p \in 0 .. Len(body), NEW q \in p .. Len(body),
           NEW e \in Seq(Item), NEW w, Part(w, body, p, q, e)
    PROVE  /\ w \in Seq(Item) /\ Len(w) = (q - p) + Len(e)
           /\ \A i \in 1 .. q - p : w[i] = body[p + i]
           /\ \A i \in 1 .. Len(e) : w[(q - p) + i] = e[i]
  <1>1. Len(body) \in Nat /\ Len(e) \in Nat /\ p \in Nat /\ q \in Nat
    BY LenProperties
  <1> DEFINE s == SubSeq(body, p + 1, q)
  <1>2. s \in Seq(Item) /\ Len(s) = q - p /\ \A i \in 1 .. q - p : s[i] = body[p + i]
    <2>1. \A i \in p + 1 .. q : body[i] \in Item
      BY <1>1, ElementOfSeq
    <2>2. /\ s \in Seq(Item)
          /\ Len(s) = IF p + 1 <= q THEN q - (p + 1) + 1 ELSE 0
          /\ \A i \in 1 .. q - (p + 1) + 1 : s[i] = body[(p + 1) + i - 1]
      BY <1>1, <2>1, SubSeqProperties
    <2>3. q - (p + 1) + 1 = q - p /\ \A i \in 1 .. q - p : (p + 1) + i - 1 = p + i
      BY <1>1
    <2> QED BY <1>1, <2>2, <2>3
  <1> HIDE DEF s
  <1>3. /\ w \in Seq(Item) /\ Len(w) = Len(s) + Len(e)
        /\ \A i \in 1 .. Len(s) + Len(e) : w[i] = IF i <= Len(s) THEN s[i] ELSE e[i - Len(s)]
    <2>1. w = s \o e
      BY DEF Part, s
    <2> QED BY <1>2, <2>1, ConcatProperties
  <1>4. ASSUME NEW i \in 1 .. q - p PROVE w[i] = body[p + i]
    <2>1. i \in 1 .. Len(s) + Len(e) /\ i <= Len(s)
      BY <1>1, <1>2
    <2> QED BY <1>2, <1>3, <2>1
  <1>5. ASSUME NEW i \in 1 .. Len(e) PROVE w[(q - p) + i] = e[i]
    <2>1. (q - p) + i \in 1 .. Len(s) + Len(e) /\ ~((q - p) + i <= Len(s))
          /\ ((q - p) + i) - Len(s) = i
      BY <1>1, <1>2
    <2> QED BY <1>3, <2>1
  <1> QED BY <1>2, <1>3, <1>4, <1>5

LEMMA Associative ==
    ASSUME NEW a \in Seq(Item), NEW b \in Seq(Item), NEW c \in Seq(Item)
    PROVE  (a \o b) \o c = a \o (b \o c)
  BY ConcatAssociative

LEMMA CutCases ==
    ASSUME NEW r, NEW c \in Cut(r)
    PROVE  \/ c \in {r, r \o Eof}
           \/ \E k \in 0 .. Len(r) - 1 : \E e \in {Silence, Eof} : c = SubSeq(r, 1, k) \o e
  BY DEF Cut

\* What the network makes of an answer: nothing, or its head and a part of its body.
LEMMA CutRemains ==
    ASSUME NEW h \in Item, NEW body \in Seq(Item), NEW end \in Framing,
           NEW r, r = (<<h>> \o body) \o end, NEW c \in Cut(r)
    PROVE  \/ c \in {Silence, Eof}
           \/ c \in Seq(Item) /\ c # <<>> /\ c[1] = h /\ Remains(Tail(c), body, 0, end)
  <1>1. <<h>> \in Seq(Item) /\ Len(<<h>>) = 1 /\ end \in Seq(Item) /\ Len(body) \in Nat
        /\ Eof \in Seq(Item) /\ Silence \in Seq(Item) /\ Len(end) \in {0, 1}
    <2>1. <<h>> \in Seq(Item) /\ Len(<<h>>) = 1
      OBVIOUS
    <2>2. end \in Seq(Item) /\ Len(end) \in {0, 1}
      BY Marks, EmptySeq DEF Framing
    <2>3. Len(body) \in Nat
      BY LenProperties
    <2> QED BY <2>1, <2>2, <2>3, Marks
  <1>2. ASSUME NEW q \in 0 .. Len(body), NEW e \in Endings(q, body, end), e \in Seq(Item),
               c = <<h>> \o (SubSeq(body, 1, q) \o e)
        PROVE  c \in Seq(Item) /\ c # <<>> /\ c[1] = h /\ Remains(Tail(c), body, 0, end)
    <2> DEFINE v == SubSeq(body, 0 + 1, q) \o e
    <2>1. v \in Seq(Item)
      <3>1. 0 \in 0 .. Len(body) /\ Part(v, body, 0, q, e)
        BY <1>1 DEF Part
      <3> HIDE DEF v
      <3> QED BY <1>2, <3>1, PartShape
    <2>2. v = SubSeq(body, 1, q) \o e
      OBVIOUS
    <2> HIDE DEF v
    <2>3. c \in Seq(Item) /\ c # <<>> /\ c[1] = h /\ Tail(c) = v
      BY <1>2, <2>1, <2>2, Cons
    <2>4. Part(v, body, 0, q, e)
      BY DEF Part, v
    <2>5. Remains(v, body, 0, end)
      BY <1>1, <1>2, <2>4 DEF Remains
    <2> QED BY <2>3, <2>5
  <1>3. SubSeq(body, 1, Len(body)) = body
    BY SubSeqFull
  <1>4. r = <<h>> \o (body \o end)
    BY <1>1, ConcatAssociative
  <1>5. CASE c = r
    <2>1. end \in Endings(Len(body), body, end)
      BY DEF Endings
    <2>2. c = <<h>> \o (SubSeq(body, 1, Len(body)) \o end)
      BY <1>3, <1>4, <1>5
    <2>3. Len(body) \in 0 .. Len(body)
      BY <1>1
    <2> QED BY <1>1, <1>2, <2>1, <2>2, <2>3
  <1>6. CASE c = r \o Eof
    <2>1. end \o Eof \in Endings(Len(body), body, end) /\ end \o Eof \in Seq(Item)
      BY <1>1, ConcatProperties DEF Endings
    <2>2. c = <<h>> \o (body \o (end \o Eof))
      <3>1. body \o end \in Seq(Item)
        BY <1>1, ConcatProperties
      <3>2. c = <<h>> \o ((body \o end) \o Eof)
        BY <1>1, <1>4, <1>6, <3>1, ConcatAssociative
      <3> QED BY <1>1, <3>2, ConcatAssociative
    <2>3. c = <<h>> \o (SubSeq(body, 1, Len(body)) \o (end \o Eof))
      BY <1>3, <2>2
    <2>4. Len(body) \in 0 .. Len(body)
      BY <1>1
    <2> QED BY <1>2, <2>1, <2>3, <2>4
  <1>7. ASSUME NEW k \in 0 .. Len(r) - 1, NEW e \in {Silence, Eof}, c = SubSeq(r, 1, k) \o e
        PROVE  c = e \/ \E q \in 0 .. Len(body) : c = <<h>> \o (SubSeq(body, 1, q) \o e)
    <2>1. r \in Seq(Item) /\ Len(r) = 1 + (Len(body) + Len(end))
          /\ \A i \in 1 .. Len(r) : r[i] = IF i <= 1 THEN <<h>>[i] ELSE (body \o end)[i - 1]
      <3>1. body \o end \in Seq(Item) /\ Len(body \o end) = Len(body) + Len(end)
        BY <1>1, ConcatProperties
      <3> QED BY <1>1, <1>4, <3>1, ConcatProperties
    <2>2. CASE k = 0
      <3>1. SubSeq(r, 1, k) = <<>>
        BY <2>2, SubSeqEmpty
      <3> QED BY <1>1, <1>7, <3>1, ConcatEmptySeq
    <2>3. CASE k > 0
      <3> DEFINE q == k - 1
                 s == SubSeq(body, 1, q)
                 z == SubSeq(r, 1, k)
      <3>1. q \in 0 .. Len(body) /\ k \in Nat /\ k = 1 + q /\ k <= Len(r)
        <4>1. k \in Nat /\ k <= Len(r) - 1 /\ Len(r) \in Nat
          BY <2>1, LenProperties
        <4>2. Len(r) = 1 + (Len(body) + Len(end)) /\ Len(body) \in Nat /\ Len(end) \in {0, 1}
          BY <1>1, <2>1
        <4>3. k - 1 \in 0 .. Len(body) /\ k = 1 + (k - 1)
          BY <2>3, <4>1, <4>2
        <4> QED BY <4>1, <4>3
      <3>2. s \in Seq(Item) /\ Len(s) = q /\ \A i \in 1 .. q : s[i] = body[i]
        <4>1. \A i \in 1 .. q : body[i] \in Item
          BY <1>1, <3>1, ElementOfSeq
        <4>2. /\ s \in Seq(Item) /\ Len(s) = (IF 1 <= q THEN q - 1 + 1 ELSE 0)
              /\ \A i \in 1 .. q - 1 + 1 : s[i] = body[1 + i - 1]
          BY <3>1, <4>1, SubSeqProperties
        <4> QED BY <3>1, <4>2
      <3>3. z \in Seq(Item) /\ Len(z) = k /\ \A i \in 1 .. k : z[i] = r[i]
        <4>1. \A i \in 1 .. k : r[i] \in Item
          BY <2>1, <3>1, ElementOfSeq
        <4>2. /\ z \in Seq(Item) /\ Len(z) = (IF 1 <= k THEN k - 1 + 1 ELSE 0)
              /\ \A i \in 1 .. k - 1 + 1 : z[i] = r[1 + i - 1]
          BY <3>1, <4>1, SubSeqProperties
        <4> QED BY <2>3, <3>1, <4>2
      <3> HIDE DEF s, z
      <3>4. /\ <<h>> \o s \in Seq(Item) /\ Len(<<h>> \o s) = 1 + q
            /\ \A i \in 1 .. 1 + q : (<<h>> \o s)[i] = IF i <= 1 THEN <<h>>[i] ELSE s[i - 1]
        BY <1>1, <3>2, ConcatProperties
      <3>5. ASSUME NEW i \in 1 .. k PROVE z[i] = (<<h>> \o s)[i]
        <4>1. CASE i = 1
          BY <2>1, <3>1, <3>3, <3>4, <4>1
        <4>2. CASE i # 1
          <5>1. i - 1 \in 1 .. q /\ i - 1 \in 1 .. Len(body) /\ ~(i <= 1) /\ i \in 1 .. Len(r)
                /\ i \in 1 .. 1 + q
            BY <1>1, <3>1, <4>2
          <5>2. (body \o end)[i - 1] = body[i - 1]
            <6>1. i - 1 \in 1 .. Len(body) + Len(end) /\ i - 1 <= Len(body)
              BY <1>1, <5>1
            <6> QED BY <1>1, <6>1, ConcatProperties
          <5>3. z[i] = body[i - 1]
            BY <2>1, <3>3, <5>1, <5>2
          <5>4. (<<h>> \o s)[i] = body[i - 1]
            BY <3>2, <3>4, <5>1
          <5> QED BY <5>3, <5>4
        <4> QED BY <4>1, <4>2
      <3>6. z = <<h>> \o s
        BY <3>1, <3>3, <3>4, <3>5, SeqEqual
      <3>7. c = <<h>> \o (s \o e)
        <4>1. c = (<<h>> \o s) \o e
          BY <1>7, <3>6 DEF z
        <4>2. e \in Seq(Item)
          BY <1>1
        <4>3. <<h>> \in Seq(Item) /\ s \in Seq(Item)
          BY <1>1, <3>2
        <4>4. (<<h>> \o s) \o e = <<h>> \o (s \o e)
          BY <4>2, <4>3, Associative
        <4> QED BY <4>1, <4>4
      <3>8. c = <<h>> \o (SubSeq(body, 1, q) \o e)
        BY <3>7 DEF s
      <3> HIDE DEF q
      <3> QED BY <3>1, <3>8
    <2>4. k = 0 \/ k > 0
      <3>1. Len(r) \in Nat
        BY <2>1, LenProperties
      <3> QED BY <3>1
    <2> QED BY <2>2, <2>3, <2>4
  <1>8. CASE \E k \in 0 .. Len(r) - 1 : \E e \in {Silence, Eof} : c = SubSeq(r, 1, k) \o e
    <2>1. PICK k \in 0 .. Len(r) - 1, e \in {Silence, Eof} : c = SubSeq(r, 1, k) \o e
      BY <1>8
    <2>2. c = e \/ \E q \in 0 .. Len(body) : c = <<h>> \o (SubSeq(body, 1, q) \o e)
      BY <1>7, <2>1
    <2>3. \A q : e \in Endings(q, body, end)
      BY DEF Endings
    <2>4. e \in Seq(Item)
      BY <1>1
    <2>5. CASE c = e
      BY <2>5
    <2>6. CASE \E q \in 0 .. Len(body) : c = <<h>> \o (SubSeq(body, 1, q) \o e)
      BY <1>2, <2>3, <2>4, <2>6
    <2> QED BY <2>2, <2>5, <2>6
  <1> QED BY <1>5, <1>6, <1>8, CutCases

(***************************************************************************)
(* Sequences: reading what remains of a body                               *)
(***************************************************************************)
Bytes(body) == body \in Seq(Item) /\ \A i \in 1 .. Len(body) : body[i].t = "byte"

LEMMA OneItem ==
    ASSUME NEW w \in Seq(Item), NEW k \in 1 .. Len(w)
    PROVE  /\ SubSeq(w, k, k) \in Seq(Item) /\ Len(SubSeq(w, k, k)) = 1
           /\ SubSeq(w, k, k)[1] = w[k]
  <1>1. k \in Int /\ \A i \in k .. k : w[i] \in Item
    BY LengthNat, ElementOfSeq
  <1> DEFINE z == SubSeq(w, k, k)
  <1>2. /\ z \in Seq(Item) /\ Len(z) = IF k <= k THEN k - k + 1 ELSE 0
        /\ \A i \in 1 .. k - k + 1 : z[i] = w[k + i - 1]
    BY <1>1, SubSeqProperties
  <1> HIDE DEF z
  <1>3. Len(z) = 1 /\ z[1] = w[k]
    BY <1>1, <1>2
  <1> QED BY <1>2, <1>3 DEF z

\* The next item is the next byte of the body, or the ending has begun.
LEMMA NextItem ==
    ASSUME NEW body, Bytes(body), NEW p \in 0 .. Len(body), NEW end \in Framing,
           NEW w, Remains(w, body, p, end)
    PROVE  \/ /\ p < Len(body) /\ w # <<>> /\ w[1] = body[p + 1]
              /\ Remains(Tail(w), body, p + 1, end)
           \/ w \in Endings(p, body, end)
  <1>1. body \in Seq(Item) /\ Len(body) \in Nat
    <2>1. body \in Seq(Item)
      BY DEF Bytes
    <2> QED BY <2>1, LengthNat
  <1>0. PICK q \in p .. Len(body) : \E e \in Endings(q, body, end) : Part(w, body, p, q, e)
    BY DEF Remains
  <1>2. PICK e \in Endings(q, body, end) : Part(w, body, p, q, e)
    BY <1>0
  <1>3. e \in Seq(Item)
    BY EndingShape
  <1>4. CASE q = p
    <2>1. SubSeq(body, p + 1, q) = <<>>
      BY <1>1, <1>4, SubSeqEmpty
    <2>2. w = e
      BY <1>2, <1>3, <2>1, ConcatEmptySeq DEF Part
    <2> QED BY <1>4, <2>2
  <1>5. CASE q # p
    <2> DEFINE v == SubSeq(body, p + 2, q) \o e
    <2>1. p + 1 \in 1 .. Len(body) /\ q \in p + 1 .. Len(body) /\ p + 1 \in 0 .. Len(body)
      BY <1>1, <1>5
    <2>2. SubSeq(body, p + 1, q) = <<body[p + 1]>> \o SubSeq(body, (p + 1) + 1, q)
      BY <1>1, <2>1, SubSeqRecursiveFirst
    <2>3. (p + 1) + 1 = p + 2
      BY <1>1
    <2>a. Part(v, body, p + 1, q, e)
      BY <2>3 DEF Part
    <2>4. v \in Seq(Item)
      <3> HIDE DEF v
      <3> QED BY <1>1, <1>3, <2>1, <2>a, PartShape
    <2>5. body[p + 1] \in Item
      BY <1>1, <2>1, ElementOfSeq
    <2>6. w = <<body[p + 1]>> \o v
      <3>1. SubSeq(body, p + 2, q) \in Seq(Item)
        <4>1. \A i \in p + 2 .. q : body[i] \in Item
          BY <1>1, ElementOfSeq
        <4> QED BY <1>1, <4>1, SubSeqProperties
      <3>2. <<body[p + 1]>> \in Seq(Item)
        BY <2>5
      <3>3. w = (<<body[p + 1]>> \o SubSeq(body, p + 2, q)) \o e
        BY <1>2, <2>2, <2>3 DEF Part
      <3> QED BY <1>3, <3>1, <3>2, <3>3, Associative
    <2> HIDE DEF v
    <2>7. w # <<>> /\ w[1] = body[p + 1] /\ Tail(w) = v
      BY <2>4, <2>5, <2>6, Cons
    <2>8. Remains(v, body, p + 1, end)
      BY <2>1, <2>a DEF Remains
    <2>9. p < Len(body)
      BY <1>1, <2>1
    <2>10. Remains(Tail(w), body, p + 1, end)
      BY <2>7, <2>8
    <2> QED BY <2>7, <2>9, <2>10
  <1> QED BY <1>4, <1>5

\* A whole body of known length is skipped: the ending is left.
LEMMA BodySkipped ==
    ASSUME NEW body, Bytes(body), NEW end \in Framing, NEW w, Remains(w, body, 0, end),
           Len(body) <= Len(w), \A i \in 1 .. Len(body) : w[i].t = "byte"
    PROVE  SubSeq(w, Len(body) + 1, Len(w)) \in Endings(Len(body), body, end)
  <1>1. body \in Seq(Item) /\ Len(body) \in Nat
    BY LenProperties DEF Bytes
  <1>0. PICK q \in 0 .. Len(body) : \E e \in Endings(q, body, end) : Part(w, body, 0, q, e)
    BY DEF Remains
  <1>2. PICK e \in Endings(q, body, end) : Part(w, body, 0, q, e)
    BY <1>0
  <1>3. /\ e \in Seq(Item) /\ Len(e) \in Nat
        /\ \A i \in 1 .. Len(e) : e[i].t \in {"silence", "eof", "last"}
    BY EndingShape
  <1>4. /\ Len(w) = (q - 0) + Len(e)
        /\ \A i \in 1 .. Len(e) : w[(q - 0) + i] = e[i]
    <2>1. 0 \in 0 .. Len(body)
      BY <1>1
    <2> QED BY <1>1, <1>2, <1>3, <2>1, PartShape
  <1>5. q = Len(body)
    <2> SUFFICES ASSUME q # Len(body) PROVE FALSE
      OBVIOUS
    <2>1. 1 \in 1 .. Len(e) /\ q + 1 \in 1 .. Len(body)
      BY <1>1, <1>3, <1>4
    <2>2. w[q + 1] = e[1]
      BY <1>4, <2>1
    <2> QED BY <1>3, <2>1, <2>2
  <1>6. w = body \o e
    <2>1. SubSeq(body, 1, Len(body)) = body
      BY <1>1, SubSeqFull
    <2>2. w = SubSeq(body, 0 + 1, q) \o e
      BY <1>2 DEF Part
    <2>3. 0 + 1 = 1
      OBVIOUS
    <2>4. w = SubSeq(body, 1, Len(body)) \o e
      BY <1>5, <2>2, <2>3
    <2> QED BY <2>1, <2>4
  <1>7. SubSeq(w, Len(body) + 1, Len(w)) = e
    <2>1. CASE Len(e) = 0
      <3>1. e = <<>>
        BY <1>3, <2>1, EmptySeq
      <3>2. SubSeq(w, Len(body) + 1, Len(w)) = <<>>
        BY <1>1, <1>4, <1>5, <2>1, SubSeqEmpty
      <3> QED BY <3>1, <3>2
    <2>2. CASE Len(e) # 0
      <3>1. Len(body) + 1 \in Len(body) + 1 .. Len(body) + Len(e)
            /\ Len(w) = Len(body) + Len(e)
            /\ Len(w) \in Len(body) + 1 .. Len(body) + Len(e)
            /\ (Len(body) + 1) - Len(body) = 1 /\ Len(w) - Len(body) = Len(e)
        BY <1>1, <1>3, <1>4, <1>5, <2>2
      <3>2. SubSeq(body \o e, Len(body) + 1, Len(w))
                = SubSeq(e, (Len(body) + 1) - Len(body), Len(w) - Len(body))
        BY <1>1, <1>3, <3>1, SubSeqOfConcat2
      <3>3. SubSeq(e, 1, Len(e)) = e
        BY <1>3, SubSeqFull
      <3> QED BY <1>6, <3>1, <3>2, <3>3
    <2> QED BY <2>1, <2>2
  <1> QED BY <1>5, <1>7

\* Behind the last chunk there is the end of the connection at most.
LEMMA ChunksSkipped ==
    ASSUME NEW body, Bytes(body), NEW p \in 0 .. Len(body), NEW end \in Framing,
           NEW w, Remains(w, body, p, end),
           NEW i \in DOMAIN w, w[i].t = "last"
    PROVE  SubSeq(w, i + 1, Len(w)) \in {<<>>, Eof}
  <1>1. body \in Seq(Item) /\ Len(body) \in Nat
    BY LenProperties DEF Bytes
  <1>0. PICK q \in p .. Len(body) : \E e \in Endings(q, body, end) : Part(w, body, p, q, e)
    BY DEF Remains
  <1>2. PICK e \in Endings(q, body, end) : Part(w, body, p, q, e)
    BY <1>0
  <1>3. /\ e \in Seq(Item) /\ Len(e) \in 0 .. 2
        /\ \A k \in 1 .. Len(e) : e[k].t = "last" =>
              k = 1 /\ e \in {LastChunk, LastChunk \o Eof}
    BY EndingShape
  <1>4. /\ w \in Seq(Item) /\ Len(w) = (q - p) + Len(e)
        /\ \A k \in 1 .. q - p : w[k] = body[p + k]
        /\ \A k \in 1 .. Len(e) : w[(q - p) + k] = e[k]
    BY <1>1, <1>2, <1>3, PartShape
  <1>5. i \in 1 .. Len(w) /\ i \in Nat
    BY <1>4, LenProperties
  <1>6. ~(i <= q - p)
    <2> SUFFICES ASSUME i <= q - p PROVE FALSE
      OBVIOUS
    <2>1. i \in 1 .. q - p /\ p + i \in 1 .. Len(body)
      BY <1>1, <1>5
    <2>2. w[i] = body[p + i] /\ body[p + i].t = "byte"
      BY <1>4, <2>1 DEF Bytes
    <2> QED BY <2>2
  <1>7. i - (q - p) \in 1 .. Len(e) /\ (q - p) + (i - (q - p)) = i
    <2>1. q \in Nat /\ p \in Nat /\ Len(e) \in Nat
      BY <1>1, <1>3
    <2>2. Len(w) = (q - p) + Len(e) /\ i \in Nat /\ i <= Len(w)
      BY <1>4, <1>5
    <2> QED BY <1>6, <2>1, <2>2
  <1>8. e[i - (q - p)].t = "last"
    BY <1>4, <1>7
  <1>9. i - (q - p) = 1 /\ e \in {LastChunk, LastChunk \o Eof}
    BY <1>3, <1>7, <1>8
  <1>10. CASE e = LastChunk
    <2>1. Len(w) = i
      BY <1>1, <1>4, <1>5, <1>9, <1>10, Marks
    <2> QED BY <1>5, <2>1, SubSeqEmpty
  <1>11. CASE e = LastChunk \o Eof
    <2>1. Len(e) = 2 /\ e[2] = Eof[1]
      BY <1>11, Doubled
    <2>2. Len(w) = i + 1 /\ w[i + 1] = Eof[1]
      <3>1. Len(w) = (q - p) + 2 /\ q \in Nat /\ p \in Nat /\ i - (q - p) = 1
        <4>1. q \in Nat /\ p \in Nat
          BY <1>1
        <4> QED BY <1>4, <1>9, <2>1, <4>1
      <3>2. i = (q - p) + 1
        BY <1>5, <3>1
      <3>a. Len(w) = i + 1 /\ 2 \in 1 .. Len(e) /\ (q - p) + 2 = i + 1
        BY <2>1, <3>1, <3>2
      <3> QED BY <1>4, <2>1, <3>a
    <2> DEFINE z == SubSeq(w, i + 1, i + 1)
    <2>3. z \in Seq(Item) /\ Len(z) = 1 /\ z[1] = w[i + 1]
      <3>1. i + 1 \in 1 .. Len(w)
        BY <1>5, <2>2
      <3> QED BY <1>4, <3>1, OneItem
    <2> HIDE DEF z
    <2>4. z = Eof
      <3>1. Eof \in Seq(Item) /\ Len(Eof) = 1
        BY Marks
      <3>2. \A k \in 1 .. 1 : z[k] = Eof[k]
        BY <2>2, <2>3
      <3> QED BY <2>3, <3>1, <3>2, SeqEqual
    <2> QED BY <2>2, <2>4 DEF z
  <1> QED BY <1>9, <1>10, <1>11

(***************************************************************************)
(* What the server sends                                                   *)
(***************************************************************************)
LEMMA DocBytes ==
    ASSUME NEW u \in Urls
    PROVE  /\ Bytes(Doc(u)) /\ Len(Doc(u)) = N
           /\ \A i \in 1 .. N : Doc(u)[i] = Byte(u, i)
           /\ Doc(u) \in Seq(Content)
  <1>1. N \in Nat
    BY HttpAssumption
  <1>2. \A i \in 1 .. N : Byte(u, i) \in Content /\ Byte(u, i) \in Item
    BY DEF Content, Item
  <1>3. Doc(u) \in Seq(Content) /\ Doc(u) \in Seq(Item)
    BY <1>1, <1>2, IsASeq DEF Doc
  <1>4. Len(Doc(u)) = N /\ \A i \in 1 .. N : Doc(u)[i] = Byte(u, i)
    BY <1>1, <1>3, LenProperties DEF Doc
  <1>5. \A i \in 1 .. N : Byte(u, i).t = "byte"
    BY DEF Byte
  <1> QED BY <1>3, <1>4, <1>5 DEF Bytes

LEMMA SentBytes ==
    ASSUME NEW u \in Urls, NEW from \in 0 .. N
    PROVE  /\ Bytes(Sent(u, from)) /\ Len(Sent(u, from)) = N - from
           /\ \A i \in 1 .. N - from : Sent(u, from)[i] = Byte(u, from + i)
  <1>1. N \in Nat
    BY HttpAssumption
  <1>2. Doc(u) \in Seq(Item) /\ Len(Doc(u)) = N /\ \A i \in 1 .. N : Doc(u)[i] = Byte(u, i)
    BY DocBytes DEF Bytes
  <1> DEFINE e == <<>>
  <1>3. Part(Sent(u, from), Doc(u), from, N, e)
    <2>1. Sent(u, from) \in Seq(Item)
      <3>1. \A i \in from + 1 .. N : Doc(u)[i] \in Item
        BY <1>1, <1>2, ElementOfSeq
      <3> QED BY <1>1, <1>2, <3>1, SubSeqProperties DEF Sent
    <2> QED BY <2>1, ConcatEmptySeq DEF Part, Sent
  <1>4. from \in 0 .. Len(Doc(u)) /\ N \in from .. Len(Doc(u)) /\ e \in Seq(Item)
        /\ Len(e) = 0
    BY <1>1, <1>2, EmptySeq
  <1> HIDE DEF e
  <1>5. /\ Sent(u, from) \in Seq(Item) /\ Len(Sent(u, from)) = (N - from) + Len(e)
        /\ \A i \in 1 .. N - from : Sent(u, from)[i] = Doc(u)[from + i]
    <2>1. Doc(u) \in Seq(Item)
      BY <1>2
    <2>2. \A q \in from .. Len(Doc(u)) : \A x \in Seq(Item) :
            Part(Sent(u, from), Doc(u), from, q, x) =>
            /\ Sent(u, from) \in Seq(Item) /\ Len(Sent(u, from)) = (q - from) + Len(x)
            /\ \A i \in 1 .. q - from : Sent(u, from)[i] = Doc(u)[from + i]
      BY <1>4, <2>1, PartShape
    <2> QED BY <1>1, <1>3, <1>4, <2>2
  <1>6. \A i \in 1 .. N - from : from + i \in 1 .. N
    BY <1>1
  <1>7. \A i \in 1 .. N : Byte(u, i).t = "byte"
    BY DEF Byte
  <1>8. Len(Sent(u, from)) = N - from
    BY <1>1, <1>4, <1>5
  <1>9. \A i \in 1 .. N - from : Sent(u, from)[i] = Byte(u, from + i)
    BY <1>2, <1>5, <1>6
  <1> QED BY <1>5, <1>6, <1>7, <1>8, <1>9 DEF Bytes

LEMMA SentAll ==
    ASSUME NEW u \in Urls
    PROVE  Sent(u, 0) = Doc(u)
  <1>1. Doc(u) \in Seq(Item) /\ Len(Doc(u)) = N
    BY DocBytes DEF Bytes
  <1>2. SubSeq(Doc(u), 1, Len(Doc(u))) = Doc(u)
    BY <1>1, SubSeqFull
  <1>3. 0 + 1 = 1
    OBVIOUS
  <1> QED BY <1>1, <1>2, <1>3 DEF Sent

LEMMA ErrorBytes == Bytes(ErrorPage) /\ Len(ErrorPage) = 1
  <1>1. Byte("error", 1) \in Item /\ Byte("error", 1).t = "byte"
    BY HttpAssumption DEF Item, Content, Byte
  <1>2. \A x \in Item : <<x>> \in Seq(Item) /\ Len(<<x>>) = 1 /\ <<x>>[1] = x
    OBVIOUS
  <1> QED BY <1>1, <1>2 DEF Bytes, ErrorPage

\* The body that belongs to a head the server sends.
LEMMA BodyBytes ==
    ASSUME Typed, stage # "idle", NEW h, Sound(h)
    PROVE  /\ Bytes(BodyOf(h)) /\ EndOf(h) \in Framing
           /\ ~req.head_only /\ h.length # -1 => h.length = Len(BodyOf(h))
           /\ h.chunked => EndOf(h) = LastChunk
           /\ ~h.chunked => EndOf(h) # LastChunk
  <1>1. job.cur \in Urls
    BY DEF Typed, Jobs
  <1>2. h.range \in 0 .. N /\ N \in Nat /\ h.chunked \in BOOLEAN
    BY HttpAssumption DEF Sound, Heads
  <1>3. CASE req.head_only
    <2>1. BodyOf(h) = <<>> /\ ~h.chunked
      BY <1>3 DEF BodyOf, Sound, HeadOnly
    <2>2. EndOf(h) = <<>>
      BY <1>3, <2>1 DEF EndOf
    <2> QED BY <1>3, <2>1, <2>2, Marks, EmptySeq DEF Bytes, Framing, LastChunk
  <1>4. CASE ~req.head_only /\ Document(h)
    <2>1. BodyOf(h) = Sent(job.cur, h.range)
      BY <1>4 DEF BodyOf, Document
    <2>2. Bytes(Sent(job.cur, h.range)) /\ Len(Sent(job.cur, h.range)) = N - h.range
      BY <1>1, <1>2, SentBytes
    <2>3. EndOf(h) \in Framing /\ (h.chunked => EndOf(h) = LastChunk)
          /\ (~h.chunked => EndOf(h) \in {Eof, <<>>})
      BY DEF EndOf, Framing
    <2> QED BY <1>4, <2>1, <2>2, <2>3, Marks DEF Document
  <1>5. CASE ~req.head_only /\ Page(h)
    <2>1. BodyOf(h) = ErrorPage
      BY <1>5 DEF BodyOf, Page
    <2>3. EndOf(h) \in Framing /\ (h.chunked => EndOf(h) = LastChunk)
          /\ (~h.chunked => EndOf(h) \in {Eof, <<>>})
      BY DEF EndOf, Framing
    <2> QED BY <1>5, <2>1, <2>3, ErrorBytes, Marks DEF Page
  <1> QED BY <1>3, <1>4, <1>5 DEF Sound

\* A reply is a head, its body and the end its framing gives it.
Framed(r) == \E h : Sound(h) /\ r = (<<h>> \o BodyOf(h)) \o EndOf(h)

LEMMA NoEnd ==
    ASSUME Typed, stage # "idle", NEW h, Sound(h), EndOf(h) = <<>>
    PROVE  Framed(<<h>> \o BodyOf(h))
  <1>1. <<h>> \o BodyOf(h) \in Seq(Item)
    <2>1. h \in Item
      BY DEF Sound, Item
    <2>2. BodyOf(h) \in Seq(Item)
      BY BodyBytes DEF Bytes
    <2> QED BY <2>1, <2>2, Cons
  <1>2. (<<h>> \o BodyOf(h)) \o <<>> = <<h>> \o BodyOf(h)
    BY <1>1, ConcatEmptySeq
  <1> QED BY <1>2 DEF Framed

LEMMA LengthFramed ==
    ASSUME Typed, stage # "idle", ~req.head_only,
           NEW st, NEW range, NEW body, Len(body) # -1,
           \A c \in BOOLEAN : /\ Sound(ReplyHead(st, Len(body), range, c, FALSE))
                             /\ BodyOf(ReplyHead(st, Len(body), range, c, FALSE)) = body,
           NEW r \in ByLength(st, range, body)
    PROVE  Framed(r)
  <1>1. PICK c \in BOOLEAN : r = <<ReplyHead(st, Len(body), range, c, FALSE)>> \o body
    BY DEF ByLength
  <1> DEFINE h == ReplyHead(st, Len(body), range, c, FALSE)
  <1>2. EndOf(h) = <<>>
    BY DEF EndOf, ReplyHead
  <1> HIDE DEF h
  <1>3. Sound(h) /\ BodyOf(h) = body /\ r = <<h>> \o body
    BY <1>1 DEF h
  <1> QED BY <1>2, <1>3, NoEnd

LEMMA ChunksFramed ==
    ASSUME Typed, ~req.head_only, NEW st, NEW body,
           Sound(ReplyHead(st, -1, 0, FALSE, TRUE)),
           BodyOf(ReplyHead(st, -1, 0, FALSE, TRUE)) = body,
           NEW r \in ByChunks(st, body)
    PROVE  Framed(r)
  <1> DEFINE h == ReplyHead(st, -1, 0, FALSE, TRUE)
  <1>1. EndOf(h) = LastChunk
    BY DEF EndOf, ReplyHead
  <1>2. r = (<<h>> \o body) \o LastChunk
    BY DEF ByChunks
  <1> HIDE DEF h
  <1>3. Sound(h) /\ BodyOf(h) = body
    BY DEF h
  <1> QED BY <1>1, <1>2, <1>3 DEF Framed

LEMMA ClosingFramed ==
    ASSUME Typed, ~req.head_only, NEW st, NEW body,
           Sound(ReplyHead(st, -1, 0, TRUE, FALSE)),
           BodyOf(ReplyHead(st, -1, 0, TRUE, FALSE)) = body,
           NEW r \in ByClosing(st, body)
    PROVE  Framed(r)
  <1> DEFINE h == ReplyHead(st, -1, 0, TRUE, FALSE)
  <1>1. EndOf(h) = Eof
    BY DEF EndOf, ReplyHead
  <1>2. r = (<<h>> \o body) \o Eof
    BY DEF ByClosing
  <1> HIDE DEF h
  <1>3. Sound(h) /\ BodyOf(h) = body
    BY DEF h
  <1> QED BY <1>1, <1>2, <1>3 DEF Framed

LEMMA PageFramed ==
    ASSUME Typed, stage # "idle", ~req.head_only,
           NEW st \in {302, 401, 404, 416},
           st = 302 => ~Ends(job.cur), st = 416 => hs.restval >= N,
           NEW r \in ByLength(st, 0, ErrorPage)
    PROVE  Framed(r)
  <1>1. Len(ErrorPage) = 1 /\ N \in Nat \ {0}
    BY ErrorBytes, HttpAssumption
  <1>2. ASSUME NEW c \in BOOLEAN
        PROVE  /\ Sound(ReplyHead(st, Len(ErrorPage), 0, c, FALSE))
               /\ BodyOf(ReplyHead(st, Len(ErrorPage), 0, c, FALSE)) = ErrorPage
    <2> DEFINE h == ReplyHead(st, Len(ErrorPage), 0, c, FALSE)
    <2>1. /\ h \in Heads /\ h.status = st /\ h.length = 1 /\ h.range = 0 /\ ~h.chunked
      BY <1>1 DEF ReplyHead, Heads
    <2> HIDE DEF h
    <2>2. Page(h) /\ BodyOf(h) = ErrorPage
      BY <2>1 DEF Page, BodyOf
    <2> QED BY <2>1, <2>2 DEF Sound, h
  <1>3. Len(ErrorPage) # -1
    BY <1>1
  <1> QED BY <1>2, <1>3, LengthFramed

LEMMA ChunkedPageFramed ==
    ASSUME Typed, stage # "idle", ~req.head_only, NEW r \in ByChunks(404, ErrorPage)
    PROVE  Framed(r)
  <1> DEFINE h == ReplyHead(404, -1, 0, FALSE, TRUE)
  <1>1. /\ h \in Heads /\ h.status = 404 /\ h.length = -1 /\ h.range = 0 /\ h.chunked
    BY HttpAssumption DEF ReplyHead, Heads
  <1> HIDE DEF h
  <1>2. Page(h) /\ BodyOf(h) = ErrorPage
    BY <1>1 DEF Page, BodyOf
  <1>3. Sound(h)
    BY <1>1, <1>2 DEF Sound
  <1> QED BY <1>2, <1>3, ChunksFramed DEF h

LEMMA DocumentFramed ==
    ASSUME Typed, stage # "idle", ~req.head_only, Ends(job.cur),
           NEW r \in ByLength(200, 0, Doc(job.cur)) \cup ByChunks(200, Doc(job.cur))
                    \cup ByClosing(200, Doc(job.cur)) \cup ByLength(206, 0, Doc(job.cur))
    PROVE  Framed(r)
  <1>1. /\ job.cur \in Urls /\ N \in Nat \ {0}
        /\ Doc(job.cur) = Sent(job.cur, 0) /\ Len(Doc(job.cur)) = N
    BY HttpAssumption, SentAll, DocBytes DEF Typed, Jobs
  <1>2. ASSUME NEW h \in Heads, h.status \in {200, 206}, h.range = 0,
               h.length = -1 \/ (h.length = N /\ ~h.chunked)
        PROVE  Sound(h) /\ BodyOf(h) = Doc(job.cur)
    <2>1. Document(h)
      BY <1>1, <1>2 DEF Document
    <2>2. BodyOf(h) = Doc(job.cur)
      BY <1>1, <1>2 DEF BodyOf
    <2> QED BY <2>1, <2>2 DEF Sound
  <1>3. ASSUME NEW st \in {200, 206}, r \in ByLength(st, 0, Doc(job.cur)) PROVE Framed(r)
    <2>1. ASSUME NEW c \in BOOLEAN
          PROVE  /\ Sound(ReplyHead(st, Len(Doc(job.cur)), 0, c, FALSE))
                 /\ BodyOf(ReplyHead(st, Len(Doc(job.cur)), 0, c, FALSE)) = Doc(job.cur)
      <3> DEFINE h == ReplyHead(st, Len(Doc(job.cur)), 0, c, FALSE)
      <3>1. h \in Heads /\ h.status = st /\ h.length = N /\ h.range = 0 /\ ~h.chunked
        BY <1>1 DEF ReplyHead, Heads
      <3> HIDE DEF h
      <3>2. Sound(h) /\ BodyOf(h) = Doc(job.cur)
        BY <1>2, <3>1
      <3> QED BY <3>2 DEF h
    <2>2. Len(Doc(job.cur)) # -1
      BY <1>1
    <2> QED BY <1>3, <2>1, <2>2, LengthFramed
  <1>4. ASSUME NEW c \in BOOLEAN, NEW k \in BOOLEAN
        PROVE  /\ Sound(ReplyHead(200, -1, 0, c, k))
               /\ BodyOf(ReplyHead(200, -1, 0, c, k)) = Doc(job.cur)
    <2> DEFINE h == ReplyHead(200, -1, 0, c, k)
    <2>1. h \in Heads /\ h.status = 200 /\ h.length = -1 /\ h.range = 0
      BY <1>1 DEF ReplyHead, Heads
    <2> HIDE DEF h
    <2>2. Sound(h) /\ BodyOf(h) = Doc(job.cur)
      BY <1>2, <2>1
    <2> QED BY <2>2 DEF h
  <1>5. CASE r \in ByChunks(200, Doc(job.cur))
    BY <1>4, <1>5, ChunksFramed
  <1>6. CASE r \in ByClosing(200, Doc(job.cur))
    BY <1>4, <1>6, ClosingFramed
  <1> QED BY <1>3, <1>5, <1>6

LEMMA RangeFramed ==
    ASSUME Typed, stage # "idle", ~req.head_only, Ends(job.cur),
           hs.restval > 0, hs.restval < N,
           NEW r \in ByLength(206, hs.restval, SubSeq(Doc(job.cur), hs.restval + 1, N))
    PROVE  Framed(r)
  <1> DEFINE from == hs.restval
             body == SubSeq(Doc(job.cur), from + 1, N)
  <1>1. job.cur \in Urls /\ N \in Nat \ {0} /\ from \in 0 .. N
    BY HttpAssumption DEF Typed, Jobs, Stats
  <1>2. body = Sent(job.cur, from)
    BY DEF Sent
  <1>3. Len(body) = N - from
    BY <1>1, <1>2, SentBytes
  <1> HIDE DEF body
  <1>4. ASSUME NEW c \in BOOLEAN
        PROVE  /\ Sound(ReplyHead(206, Len(body), from, c, FALSE))
               /\ BodyOf(ReplyHead(206, Len(body), from, c, FALSE)) = body
    <2> DEFINE h == ReplyHead(206, Len(body), from, c, FALSE)
    <2>0. Len(body) \in 0 .. N
      BY <1>1, <1>3
    <2>1. h \in Heads /\ h.status = 206 /\ h.length = N - from /\ h.range = from /\ ~h.chunked
      BY <1>1, <1>3, <2>0 DEF ReplyHead, Heads
    <2> HIDE DEF h
    <2>2. Document(h) /\ BodyOf(h) = body
      BY <1>1, <1>2, <2>1 DEF Document, BodyOf
    <2> QED BY <2>1, <2>2 DEF Sound, h
  <1>5. Len(body) # -1
    BY <1>1, <1>3
  <1> QED BY <1>4, <1>5, LengthFramed DEF body

LEMMA HeadFramed ==
    ASSUME Typed, stage # "idle", req.head_only, NEW r,
           \/ Ends(job.cur) /\ r \in HeadReplies
           \/ ~Ends(job.cur) /\ \E v \in ByLength(302, 0, ErrorPage) : r = SubSeq(v, 1, 1)
    PROVE  Framed(r)
  <1>1. ASSUME NEW h, h \in Heads, HeadOnly(h), r = <<h>> PROVE Framed(r)
    <2>1. Sound(h)
      BY <1>1 DEF Sound
    <2>2. BodyOf(h) = <<>> /\ EndOf(h) = <<>>
      BY <1>1 DEF BodyOf, EndOf, HeadOnly
    <2>3. <<h>> \o <<>> = <<h>>
      BY <1>1, ConcatEmptySeq
    <2> QED BY <1>1, <2>1, <2>2, <2>3, NoEnd
  <1>2. CASE Ends(job.cur) /\ r \in HeadReplies
    <2>1. ASSUME NEW l \in {-1, N}, r = <<ReplyHead(200, l, 0, FALSE, FALSE)>> PROVE Framed(r)
      <3> DEFINE h == ReplyHead(200, l, 0, FALSE, FALSE)
      <3>1. h \in Heads /\ HeadOnly(h)
        BY <1>2, HttpAssumption DEF ReplyHead, Heads, HeadOnly
      <3> HIDE DEF h
      <3> QED BY <1>1, <2>1, <3>1 DEF h
    <2>2. ASSUME NEW status \in {404, 500},
                 status = 500 => ~ (world.rest /\ world.stamp /\ world.dated),
                 r = <<ReplyHead(status, 1, 0, FALSE, FALSE)>>
          PROVE  Framed(r)
      <3> DEFINE h == ReplyHead(status, 1, 0, FALSE, FALSE)
      <3>1. h \in Heads /\ HeadOnly(h)
        BY <2>2, HttpAssumption DEF ReplyHead, Heads, HeadOnly
      <3> HIDE DEF h
      <3>2. r = <<h>>
        BY <2>2 DEF h
      <3> QED BY <1>1, <3>1, <3>2
    <2>3. r = <<ReplyHead(404, 1, 0, FALSE, FALSE)>> => Framed(r)
      BY <2>2
    <2>4. \/ \E l \in {-1, N} : r = <<ReplyHead(200, l, 0, FALSE, FALSE)>>
          \/ r = <<ReplyHead(404, 1, 0, FALSE, FALSE)>>
          \/ /\ ~ (world.rest /\ world.stamp /\ world.dated)
             /\ r = <<ReplyHead(500, 1, 0, FALSE, FALSE)>>
      BY <1>2 DEF HeadReplies
    <2> QED BY <2>1, <2>2, <2>3, <2>4
  <1>3. ASSUME ~Ends(job.cur), NEW v \in ByLength(302, 0, ErrorPage), r = SubSeq(v, 1, 1)
        PROVE  Framed(r)
    <2>1. PICK c \in BOOLEAN : v = <<ReplyHead(302, Len(ErrorPage), 0, c, FALSE)>> \o ErrorPage
      BY DEF ByLength
    <2> DEFINE h == ReplyHead(302, Len(ErrorPage), 0, c, FALSE)
    <2>2. h \in Heads /\ HeadOnly(h)
      BY <1>3, ErrorBytes, HttpAssumption DEF ReplyHead, Heads, HeadOnly
    <2>3. v = <<h>> \o ErrorPage
      BY <2>1
    <2> HIDE DEF h
    <2>4. v \in Seq(Item) /\ v[1] = h /\ Len(v) = 2
      <3>1. h \in Item /\ ErrorPage \in Seq(Item) /\ Len(ErrorPage) = 1
        BY <2>2, ErrorBytes DEF Item, Bytes
      <3> QED BY <2>3, <3>1, Cons
    <2>5. SubSeq(v, 1, 1) = <<h>>
      <3> DEFINE z == SubSeq(v, 1, 1)
      <3>1. z \in Seq(Item) /\ Len(z) = 1 /\ z[1] = h
        BY <2>4, OneItem
      <3> HIDE DEF z
      <3>2. <<h>> \in Seq(Item) /\ Len(<<h>>) = 1 /\ <<h>>[1] = h
        BY <2>2 DEF Item
      <3>3. z = <<h>>
        BY <3>1, <3>2, SeqEqual
      <3> QED BY <3>3 DEF z
    <2> QED BY <1>1, <1>3, <2>2, <2>5
  <1> QED BY <1>2, <1>3

LEMMA RepliesFramed ==
    ASSUME Typed, stage # "idle",
           NEW r \in Replies(job.cur, hs.restval, req.head_only, req.authed)
    PROVE  Framed(r)
  <1>0. r \in Announced(job.cur, hs.restval, req.head_only, req.authed)
    BY DEF Replies, Typed
  <1>1. CASE req.head_only
    BY <1>0, <1>1, HeadFramed DEF Announced, Ends
  <1>2. CASE ~req.head_only /\ r \in ByLength(401, 0, ErrorPage)
    BY <1>2, PageFramed
  <1>3. CASE ~req.head_only /\ ~Ends(job.cur) /\ r \in ByLength(302, 0, ErrorPage)
    BY <1>3, PageFramed
  <1>4. CASE ~req.head_only /\ Ends(job.cur) /\ r \in GetReplies(job.cur, hs.restval)
    <2> DEFINE A == ByLength(200, 0, Doc(job.cur))
               B == ByChunks(200, Doc(job.cur))
               C == ByClosing(200, Doc(job.cur))
               D == ByLength(206, hs.restval, SubSeq(Doc(job.cur), hs.restval + 1, N))
               E == ByLength(206, 0, Doc(job.cur))
               F == ByLength(416, 0, ErrorPage)
               G == ByLength(404, 0, ErrorPage)
               H == ByChunks(404, ErrorPage)
    <2>1. CASE r \in G \/ (hs.restval >= N /\ r \in F)
      BY <1>4, <2>1, PageFramed
    <2>2. CASE r \in H
      BY <1>4, <2>2, ChunkedPageFramed
    <2>3. CASE r \in A \cup B \cup C \cup E
      BY <1>4, <2>3, DocumentFramed
    <2>4. CASE hs.restval > 0 /\ hs.restval < N /\ r \in D
      BY <1>4, <2>4, RangeFramed
    <2>5. r \in A \cup B \cup C \cup (IF hs.restval > 0 /\ hs.restval < N THEN D ELSE {})
               \cup (IF hs.restval > 0 THEN E ELSE {})
               \cup (IF hs.restval >= N THEN F ELSE {}) \cup G \cup H
      BY <1>4 DEF GetReplies
    <2> HIDE DEF A, B, C, D, E, F, G, H
    <2>6. r \in G \/ (hs.restval >= N /\ r \in F) \/ r \in H \/ r \in A \cup B \cup C \cup E
          \/ (hs.restval > 0 /\ hs.restval < N /\ r \in D)
      BY <2>5
    <2> QED BY <2>1, <2>2, <2>3, <2>4, <2>6
  <1> QED BY <1>0, <1>1, <1>2, <1>3, <1>4 DEF Announced, Ends

(***************************************************************************)
(* gethttp returns                                                         *)
(***************************************************************************)
Inv == FInv /\ Connections /\ ExitInv

LEMMA Empty == NoReq \in Reqs /\ NoStat \in Stats /\ NoLoop \in Loops
  <1>1. NoReq \in Reqs
    BY HttpAssumption DEF NoReq, Reqs, ReplyHead, Heads
  <1>2. NoStat \in Stats
    BY HttpAssumption DEF NoStat, Stats, Codes
  <1>3. NoLoop \in Loops
    BY HttpAssumption DEF NoLoop, Loops
  <1> QED BY <1>1, <1>2, <1>3

\* What a URL stands for depends on the server only.
LEMMA SameWorld ==
    ASSUME UNCHANGED world
    PROVE  /\ \A u : LeadsTo(u)' = LeadsTo(u)
           /\ \A u : Ends(u)' <=> Ends(u)
           /\ \A n : Origin(n)' = Origin(n)
  <1>1. \A u : LeadsTo(u)' = LeadsTo(u)
    BY DEF LeadsTo
  <1>2. \A u : Ends(u)' <=> Ends(u)
    BY DEF Ends
  <1>3. \A u : Final(u)' = Final(u)
    BY <1>1, <1>2 DEF Final
  <1> QED BY <1>1, <1>2, <1>3 DEF Origin

\* Every connection that is left is quiet.
Hushed ==
    /\ \A s \in DOMAIN wire' : Quiet(wire'[s])
    /\ pconn'.sock # 0 => pconn'.sock \in DOMAIN wire'
    /\ DOMAIN wire' \subseteq {1, 2}

LEMMA CloseHushes ==
    ASSUME Open, Wires, OnSocket, CloseInvalidate
    PROVE  Hushed
  <1>1. wire' = [s \in DOMAIN wire \ {req.sock} |-> wire[s]]
    BY DEF CloseInvalidate, Close, Without
  <1>2. pconn' = IF pconn.sock = req.sock THEN NoPconn ELSE pconn
    BY DEF CloseInvalidate, Close
  <1> QED BY <1>1, <1>2 DEF Hushed, Open, Wires, NoPconn

LEMMA FinishHushes ==
    ASSUME Open, Wires, OnSocket, NEW rest, Quiet(rest), CloseFinish(rest)
    PROVE  Hushed
  <1>1. CASE req.keep_alive
    <2>1. wire' = [wire EXCEPT ![req.sock] = rest] /\ pconn' = pconn
      BY <1>1 DEF CloseFinish
    <2> QED BY <2>1 DEF Hushed, Open, Wires
  <1>2. CASE ~req.keep_alive
    BY <1>2, CloseHushes DEF CloseFinish, CloseInvalidate
  <1> QED BY <1>1, <1>2

LEMMA Returned ==
    ASSUME Inv, Hushed, stage \in {"connect", "send", "head", "reply", "body"},
           NEW h \in Stats, NEW err \in Codes, ReturnWith(h, err),
           UNCHANGED <<world, file, job, loop, into, result, exit, kills>>,
           h.len > 0 /\ err # "RETRUNNEEDED" => h.len = hs.len,
           err = "RETRFINISHED" /\ req.head_only =>
               /\ h.dated = world.dated
               /\ h.status = 500 => ~ (world.rest /\ world.stamp /\ world.dated),
           err = "NEWLOCATION" => ~Ends(job.cur)
    PROVE  FInv'
  <1>1. /\ hs' = [h EXCEPT !.err = err] /\ stage' = "outcome"
        /\ req' = [NoReq EXCEPT !.head_only = req.head_only]
    BY DEF ReturnWith
  <1>2. /\ hs' \in Stats /\ hs'.err = err /\ hs'.len = h.len /\ hs'.dated = h.dated
        /\ hs'.status = h.status
    BY <1>1 DEF Stats
  <1>3. req \in Reqs /\ req' \in Reqs /\ req'.head_only = req.head_only
    BY <1>1, Empty DEF Inv, FInv, Typed, Reqs
  <1>4. Typed'
    BY <1>1, <1>2, <1>3, SameWorld DEF Inv, FInv, Typed, Stages
  <1>5. Open' /\ Wires'
    BY <1>1 DEF Hushed, Open, Wires, OnSocket
  <1>6. Files'
    <2>1. Numbered' /\ Overwriting' /\ Bounded'
      BY <1>1 DEF Inv, FInv, Files, Numbered, Overwriting, Bounded, Clobber, Taken, Fetched,
                  Name, Ends
    <2>2. HeadsAnswered'
      BY <1>1, <1>2, <1>3 DEF Inv, FInv, Files, HeadsAnswered, Ends
    <2>3. ASSUME ~Backups PROVE SavedIsPrefix' /\ Progress' /\ Continued' /\ Written' /\ Older'
      <3>1. SavedIsPrefix'
        BY <1>1, <2>3, SameWorld DEF Inv, FInv, Files, SavedIsPrefix, Untouched
      <3>2. Progress'
        BY <1>1, <1>2, <2>3, SameWorld DEF Inv, FInv, Files, Progress, InLoop, Name, Prefix
      <3>3. Continued' /\ Written'
        BY <1>1 DEF Continued, Written
      <3>4. Older'
        BY <1>1, <2>3, SameWorld DEF Inv, FInv, Files, Older, InLoop, Name, Prefix
      <3> QED BY <3>1, <3>2, <3>3, <3>4
    <2> QED BY <2>1, <2>2, <2>3 DEF Files
  <1> QED BY <1>4, <1>5, <1>6 DEF FInv

LEMMA ReturnedAsIs ==
    ASSUME Inv, Hushed, stage \in {"connect", "send", "head", "reply", "body"},
           NEW err \in Codes \ {"RETRFINISHED", "NEWLOCATION"}, Return(err),
           UNCHANGED <<world, file, job, loop, into, result, exit, kills>>
    PROVE  FInv'
  <1>1. hs \in Stats
    BY DEF Inv, FInv, Typed
  <1> QED BY <1>1, Returned DEF Return

\* skip_short_body leaves nothing of the answer on the connection it keeps.
LEMMA SkipHushes ==
    ASSUME Inv, stage = "reply", ~req.head_only, Page(req.head), SkipShortBody
    PROVE  Hushed
  <1> DEFINE w == wire[req.sock]
             h == req.head
  <1>1. Open /\ Wires /\ OnSocket /\ Typed
    BY DEF Inv, FInv, OnSocket
  <1>2. Sound(h) /\ Remains(w, BodyOf(h), 0, EndOf(h))
    BY <1>1 DEF Wires, OnReply
  <1>3. /\ Bytes(BodyOf(h)) /\ EndOf(h) \in Framing
        /\ h.length # -1 => h.length = Len(BodyOf(h))
        /\ h.chunked \in BOOLEAN
        /\ ~h.chunked => EndOf(h) = <<>>
    <2>1. h.chunked \in BOOLEAN /\ (~h.chunked => EndOf(h) = <<>>)
      BY <1>2 DEF Page, EndOf, Sound, Heads
    <2> QED BY <1>1, <1>2, <2>1, BodyBytes
  <1> HIDE DEF w, h
  <1>4. CASE CloseInvalidate
    BY <1>1, <1>4, CloseHushes
  <1>5. CASE /\ h.length \in 0 .. Len(w)
             /\ \A i \in 1 .. h.length : w[i].t = "byte"
             /\ CloseFinish(SubSeq(w, h.length + 1, Len(w)))
    <2>1. h.length = Len(BodyOf(h)) /\ ~h.chunked
      BY <1>3, <1>5 DEF Page, h
    <2>2. SubSeq(w, h.length + 1, Len(w)) \in Endings(h.length, BodyOf(h), <<>>)
      <3>1. Len(BodyOf(h)) <= Len(w)
        BY <1>5, <2>1
      <3>2. \A i \in 1 .. Len(BodyOf(h)) : w[i].t = "byte"
        BY <1>5, <2>1
      <3> QED BY <1>2, <1>3, <2>1, <3>1, <3>2, BodySkipped
    <2>3. <<>> \o Eof = Eof
      BY Marks, ConcatEmptySeq
    <2>4. Quiet(SubSeq(w, h.length + 1, Len(w)))
      BY <2>2, <2>3 DEF Endings, Quiet
    <2> QED BY <1>1, <1>5, <2>4, FinishHushes
  <1>6. ASSUME h.chunked, NEW i \in DOMAIN w, w[i].t = "last",
               CloseFinish(SubSeq(w, i + 1, Len(w)))
        PROVE  Hushed
    <2>1. SubSeq(w, i + 1, Len(w)) \in {<<>>, Eof}
      <3>1. 0 \in 0 .. Len(BodyOf(h))
        BY <1>3, LengthNat DEF Bytes
      <3> QED BY <1>2, <1>3, <1>6, <3>1, ChunksSkipped
    <2> QED BY <1>1, <1>6, <2>1, FinishHushes DEF Quiet
  <1>7. ASSUME NEW rest \in {SeenEof, Silence}, CloseFinish(rest) PROVE Hushed
    BY <1>1, <1>7, FinishHushes DEF Quiet
  <1>8. ~(h.length = -1 /\ ~h.chunked)
    BY DEF Page, h
  <1> QED BY <1>4, <1>5, <1>6, <1>7, <1>8 DEF SkipShortBody, w, h

LEMMA DisposeHushes ==
    ASSUME Inv, stage = "reply", req.head.status \notin {200, 206}, Dispose
    PROVE  Hushed
  <1>1. Open /\ Wires /\ OnSocket /\ Sound(req.head)
    BY DEF Inv, FInv, OnSocket, Wires, OnReply
  <1>2. CASE req.head_only
    BY <1>1, <1>2, CloseHushes DEF Dispose
  <1>3. CASE ~req.head_only
    <2>1. Page(req.head)
      BY <1>1, <1>3 DEF Sound, Document
    <2> QED BY <1>3, <2>1, SkipHushes DEF Dispose
  <1> QED BY <1>2, <1>3

LEMMA RefusedHushes ==
    ASSUME Inv, stage = "reply", req.head.status \notin {200, 206},
           IF req.keep_alive THEN Dispose ELSE CloseInvalidate
    PROVE  Hushed
  <1>1. Open /\ Wires /\ OnSocket
    BY DEF Inv, FInv, OnSocket
  <1> QED BY <1>1, DisposeHushes, CloseHushes

\* Nothing is known of the answer, or it is an error: the connection is closed.
LEMMA ClosedAsIs ==
    ASSUME Inv, OnSocket, CloseInvalidate,
           NEW err \in Codes \ {"RETRFINISHED", "NEWLOCATION"}, Return(err),
           UNCHANGED <<world, file, job, loop, into, result, exit, kills>>
    PROVE  FInv'
  <1>1. Hushed
    BY CloseHushes DEF Inv, FInv
  <1> QED BY <1>1, ReturnedAsIs DEF OnSocket

\* What is cleared when there is no body to read.
LEMMA Cleared ==
    ASSUME hs \in Stats
    PROVE  /\ [hs EXCEPT !.len = 0, !.res = 0, !.restval = 0] \in Stats
           /\ [hs EXCEPT !.len = 0, !.res = 0, !.restval = 0].len = 0
  <1> DEFINE a == [hs EXCEPT !.len = 0]
             b == [a EXCEPT !.res = 0]
             c == [b EXCEPT !.restval = 0]
  <1>1. N \in Nat
    BY HttpAssumption
  <1>2. a \in Stats /\ a.len = 0
    BY <1>1 DEF Stats
  <1> HIDE DEF a
  <1>3. b \in Stats /\ b.len = 0
    BY <1>1, <1>2 DEF Stats
  <1> HIDE DEF b
  <1>4. c \in Stats /\ c.len = 0
    BY <1>1, <1>3 DEF Stats
  <1>5. c = [hs EXCEPT !.len = 0, !.res = 0, !.restval = 0]
    BY DEF a, b
  <1> QED BY <1>4, <1>5

LEMMA RedirectedKeepsFiles ==
    ASSUME Inv, Redirected
    PROVE  FInv'
  <1> DEFINE h == [hs EXCEPT !.len = 0, !.res = 0, !.restval = 0]
  <1>1. Hushed
    BY RefusedHushes DEF Redirected
  <1>2. h \in Stats /\ h.len = 0
    BY Cleared DEF Inv, FInv, Typed
  <1>3. ~Ends(job.cur)
    <2>1. Sound(req.head) /\ req.head.status = 302
      BY DEF Inv, FInv, Wires, OnReply, Redirected
    <2> QED BY <2>1 DEF Sound, HeadOnly, Document, Page
  <1>4. ReturnWith(h, "NEWLOCATION")
    BY DEF Redirected
  <1> HIDE DEF h
  <1>5. "NEWLOCATION" \in Codes
    BY DEF Codes
  <1> QED BY <1>1, <1>2, <1>3, <1>4, <1>5, Returned DEF Redirected

LEMMA UnneededKeepsFiles ==
    ASSUME Inv, Unneeded
    PROVE  FInv'
  <1> DEFINE h == [hs EXCEPT !.len = req.head.length, !.res = 0]
  <1>1. Open /\ Wires /\ OnSocket /\ Sound(req.head) /\ Typed /\ HeadsAnswered
    BY DEF Inv, FInv, Files, OnSocket, Wires, OnReply, Unneeded
  <1>2. req.head.length \in 0 .. N
    <2>1. req.head.length \in -1 .. N /\ N \in Nat \ {0}
      BY <1>1, HttpAssumption DEF Sound, Heads
    <2>2. CASE req.head.status = 416
      <3>1. req.head.length = 1
        BY <1>1, <2>2 DEF Sound, HeadOnly, Document, Page
      <3> QED BY <2>1, <3>1
    <2>3. CASE req.head.length >= 0
      BY <2>1, <2>3
    <2> QED BY <2>2, <2>3 DEF Unneeded, AlreadyThere
  <1>3. h \in Stats
    <2>1. hs \in Stats
      BY <1>1 DEF Typed
    <2> QED BY <1>2, <2>1 DEF Stats
  <1>4. ReturnWith(h, "RETRUNNEEDED") /\ CloseInvalidate
    BY DEF Unneeded
  <1> HIDE DEF h
  <1>5. Hushed
    BY <1>1, <1>4, CloseHushes
  <1>6. "RETRUNNEEDED" \in Codes
    BY DEF Codes
  <1> QED BY <1>3, <1>4, <1>5, <1>6, Returned DEF Unneeded

LEMMA RangeErrorKeepsFiles ==
    ASSUME Inv, RangeError
    PROVE  FInv'
  <1>1. "RANGEERR" \in Codes \ {"RETRFINISHED", "NEWLOCATION"}
    BY DEF Codes
  <1> QED BY <1>1, ClosedAsIs DEF RangeError, OnSocket

\* The document's length, as far as a sound head tells it.
LEMMA ContlenTyped ==
    ASSUME Sound(req.head)
    PROVE  Contlen \in -1 .. N
  <1>1. N \in Nat \ {0} /\ req.head.length \in -1 .. N /\ req.head.range \in 0 .. N
    BY HttpAssumption DEF Sound, Heads
  <1>2. \/ req.head.length = -1 \/ req.head.range = 0
        \/ req.head.length = N - req.head.range
    BY DEF Sound, HeadOnly, Document, Page
  <1> QED BY <1>1, <1>2 DEF Contlen

LEMMA NoBodyKeepsFiles ==
    ASSUME Inv, NoBody
    PROVE  FInv'
  <1> DEFINE h == [hs EXCEPT !.len = 0, !.res = 0, !.restval = 0, !.contlen = Contlen,
                             !.status = req.head.status, !.dated = world.dated]
  <1>1. Open /\ Wires /\ OnSocket /\ Typed
        /\ Sound(req.head) /\ Remains(wire[req.sock], BodyOf(req.head), 0, EndOf(req.head))
    BY DEF Inv, FInv, OnSocket, Wires, OnReply, NoBody
  <1>2. /\ h \in Stats /\ h.len = 0 /\ h.dated = world.dated
        /\ h.status = req.head.status
    <2>1. Contlen \in -1 .. N /\ world.dated \in BOOLEAN /\ N \in Nat
          /\ req.head.status \in {0, 200, 206, 302, 401, 404, 416, 500}
      BY <1>1, ContlenTyped, HttpAssumption, WorldsAssumption DEF Typed, Sound, Heads
    <2> DEFINE a == [hs EXCEPT !.len = 0, !.res = 0, !.restval = 0]
               b == [a EXCEPT !.contlen = Contlen]
               c == [b EXCEPT !.status = req.head.status]
               d == [c EXCEPT !.dated = world.dated]
    <2>2. a \in Stats /\ a.len = 0
      BY <1>1, Cleared DEF Typed
    <2>3. h = d
      OBVIOUS
    <2> HIDE DEF a
    <2>4. b \in Stats /\ b.len = 0
      BY <2>1, <2>2 DEF Stats
    <2> HIDE DEF b
    <2>5. c \in Stats /\ c.len = 0 /\ c.status = req.head.status
      BY <2>1, <2>4 DEF Stats
    <2> HIDE DEF c
    <2>6. /\ d \in Stats /\ d.len = 0 /\ d.dated = world.dated
          /\ d.status = req.head.status
      BY <2>1, <2>5 DEF Stats
    <2> QED BY <2>3, <2>6
  <1>3. ReturnWith(h, "RETRFINISHED")
    BY DEF NoBody
  <1>4. req.head_only => 
        (h.status = 500 => ~ (world.rest /\ world.stamp /\ world.dated))
    BY <1>1, <1>2 DEF Sound, HeadOnly
  <1> HIDE DEF h
  <1>5. Hushed
    <2>1. CASE req.head_only
      <3>1. BodyOf(req.head) = <<>> /\ EndOf(req.head) = <<>>
        BY <1>1, <2>1 DEF Sound, HeadOnly, BodyOf, EndOf
      <3> DEFINE b == BodyOf(req.head)
                 w == wire[req.sock]
      <3>2. Bytes(b) /\ Len(b) = 0
        BY <1>1, <3>1, BodyBytes, EmptySeq DEF Inv, FInv, NoBody
      <3>3. Remains(w, b, 0, <<>>)
        BY <1>1, <3>1
      <3> HIDE DEF b, w
      <3>4. w \in Endings(0, b, <<>>)
        <4>1. 0 \in 0 .. Len(b) /\ ~(0 < Len(b)) /\ <<>> \in Framing
          BY <3>2 DEF Framing
        <4> QED BY <3>2, <3>3, <4>1, NextItem
      <3>5. <<>> \o Eof = Eof
        BY Marks, ConcatEmptySeq
      <3>6. Quiet(w)
        BY <3>4, <3>5 DEF Endings, Quiet
      <3>7. CloseFinish(w)
        BY <2>1 DEF NoBody, w
      <3> QED BY <1>1, <3>6, <3>7, FinishHushes
    <2>2. CASE ~req.head_only /\ req.keep_alive
      <3>1. Page(req.head)
        BY <1>1, <2>2 DEF Sound, Document, NoBody, Unwanted
      <3> QED BY <2>2, <3>1, SkipHushes DEF NoBody
    <2>3. CASE ~req.head_only /\ ~req.keep_alive
      BY <1>1, <2>3, CloseHushes DEF NoBody
    <2> QED BY <2>1, <2>2, <2>3
  <1>6. "RETRFINISHED" \in Codes
    BY DEF Codes
  <1> QED BY <1>2, <1>3, <1>4, <1>5, <1>6, Returned DEF NoBody

\* The framing of a body that is read.
EndOfRead == IF req.head.chunked THEN LastChunk ELSE IF req.left = -1 THEN Eof ELSE <<>>

\* What is next on the connection a body is read from.
LEMMA NextRead ==
    ASSUME Inv, stage = "body"
    PROVE  LET w == wire[req.sock]
               body == Sent(job.cur, req.head.range)
           IN /\ Read \in 0 .. N - req.head.range /\ req.head.range \in 0 .. N
              /\ \/ /\ Read < N - req.head.range /\ w # <<>>
                    /\ w[1] = Byte(job.cur, req.head.range + (Read + 1))
                    /\ Remains(Tail(w), body, Read + 1, EndOfRead)
                 \/ w \in {Silence, Eof}
                 \/ Read = N - req.head.range /\ w \in {EndOfRead, EndOfRead \o Eof}
  <1> DEFINE w == wire[req.sock]
             body == Sent(job.cur, req.head.range)
             from == req.head.range
             p == Read
  <1>1. InBody(w) /\ job.cur \in Urls /\ N \in Nat /\ from \in 0 .. N
    BY HttpAssumption DEF Inv, FInv, Wires, Typed, Jobs, Reqs, Heads
  <1>2. Bytes(body) /\ Len(body) = N - from /\ \A i \in 1 .. N - from : body[i] = Byte(job.cur, from + i)
    BY <1>1, SentBytes
  <1>3. p \in 0 .. N - from /\ Remains(w, body, p, EndOfRead) /\ EndOfRead \in Framing
    BY <1>1 DEF InBody, EndOfRead, Framing
  <1>4. p \in 0 .. Len(body)
    BY <1>2, <1>3
  <1> HIDE DEF w, body, from, p
  <1>5. \/ /\ p < Len(body) /\ w # <<>> /\ w[1] = body[p + 1]
           /\ Remains(Tail(w), body, p + 1, EndOfRead)
        \/ w \in Endings(p, body, EndOfRead)
    BY <1>2, <1>3, <1>4, NextItem
  <1>6. CASE /\ p < Len(body) /\ w # <<>> /\ w[1] = body[p + 1]
             /\ Remains(Tail(w), body, p + 1, EndOfRead)
    <2>1. p + 1 \in 1 .. N - from
      BY <1>1, <1>2, <1>3, <1>6
    <2>2. w[1] = Byte(job.cur, from + (p + 1)) /\ p < N - from
      BY <1>2, <1>6, <2>1
    <2> QED BY <1>1, <1>3, <1>6, <2>2 DEF w, body, from, p
  <1>7. CASE w \in Endings(p, body, EndOfRead)
    <2>1. w \in {Silence, Eof} \/ (p = N - from /\ w \in {EndOfRead, EndOfRead \o Eof})
      BY <1>2, <1>7 DEF Endings
    <2> QED BY <1>1, <1>3, <2>1 DEF w, body, from, p
  <1> QED BY <1>5, <1>6, <1>7

\* Once all of a body is read, what is left on a connection that is kept is quiet.
LEMMA EndHushes ==
    ASSUME Inv, stage = "body", NEW rest, CloseFinish(rest),
           LET w == wire[req.sock]
           IN \/ req.left = 0 /\ rest = w
              \/ w # <<>> /\ w[1].t = "last" /\ req.head.chunked /\ rest = Tail(w)
              \/ rest = SeenEof
    PROVE  Hushed
  <1> DEFINE w == wire[req.sock]
  <1>1. /\ Open /\ Wires /\ OnSocket /\ InBody(w) /\ N \in Nat /\ req.head.range \in 0 .. N
        /\ req.head.chunked \in BOOLEAN
    BY HttpAssumption DEF Inv, FInv, OnSocket, Wires, Typed, Reqs, Heads
  <1>2. /\ Read \in 0 .. N - req.head.range
        /\ \/ /\ Read < N - req.head.range /\ w # <<>>
              /\ w[1] = Byte(job.cur, req.head.range + (Read + 1))
           \/ w \in {Silence, Eof}
           \/ w \in {EndOfRead, EndOfRead \o Eof}
    BY NextRead
  <1>3. <<>> \o Eof = Eof
    BY Marks, ConcatEmptySeq
  <1> HIDE DEF w
  <1>4. CASE req.left = 0 /\ rest = w
    <2>1. Read = N - req.head.range /\ ~req.head.chunked
      BY <1>1, <1>2, <1>4 DEF InBody
    <2>2. EndOfRead = <<>>
      BY <1>4, <2>1 DEF EndOfRead
    <2>3. w \in {Silence, Eof, <<>>}
      BY <1>1, <1>2, <1>3, <2>1, <2>2
    <2> QED BY <1>1, <1>4, <2>3, FinishHushes DEF Quiet
  <1>5. CASE w # <<>> /\ w[1].t = "last" /\ req.head.chunked /\ rest = Tail(w)
    <2>1. EndOfRead = LastChunk
      BY <1>5 DEF EndOfRead
    <2>2. w \in {LastChunk, LastChunk \o Eof}
      BY <1>2, <1>5, <2>1, Marks DEF Byte
    <2>3. CASE w = LastChunk
      <3>1. /\ Tail(w) \in Seq(Item) /\ Len(Tail(w)) = 0
        BY <1>5, <2>3, Marks, HeadTailProperties
      <3>2. rest = <<>>
        BY <1>5, <3>1, EmptySeq
      <3> QED BY <1>1, <3>2, FinishHushes DEF Quiet
    <2>4. CASE w = LastChunk \o Eof
      <3>1. [t |-> "last"] \in Item /\ Eof \in Seq(Item)
        BY Marks DEF Item, Mark
      <3>2. rest = Eof
        BY <1>5, <2>4, <3>1, Cons DEF LastChunk
      <3> QED BY <1>1, <3>2, FinishHushes DEF Quiet
    <2> QED BY <2>2, <2>3, <2>4
  <1>6. CASE rest = SeenEof
    BY <1>1, <1>6, FinishHushes DEF Quiet
  <1> QED BY <1>4, <1>5, <1>6 DEF w

LEMMA EndOfBodyKeepsFiles ==
    ASSUME Inv, EndOfBody
    PROVE  FInv'
  <1> DEFINE w == wire[req.sock]
  <1>1. Open /\ Wires /\ OnSocket /\ stage = "body" /\ hs \in Stats /\ InBody(w)
    BY DEF Inv, FInv, OnSocket, EndOfBody, Wires, Typed
  <1>2. PICK res \in {-1, 0, 1} :
            /\ ReturnWith([hs EXCEPT !.res = res], "RETRFINISHED")
            /\ \/ CloseInvalidate
               \/ \E rest : /\ CloseFinish(rest)
                            /\ \/ req.left = 0 /\ rest = w
                               \/ w # <<>> /\ w[1].t = "last" /\ req.head.chunked /\ rest = Tail(w)
                               \/ rest = SeenEof
    <2>1. hs.res \in {-1, 0, 1}
      BY <1>1 DEF Stats
    <2> DEFINE BodyEnds(res, rest) ==
                 /\ ReturnWith([hs EXCEPT !.res = res], "RETRFINISHED")
                 /\ IF res >= 0 THEN CloseFinish(rest) ELSE CloseInvalidate
    <2>2. \/ req.left = 0 /\ BodyEnds(hs.res, w)
          \/ w # <<>> /\ w[1].t = "last" /\ req.head.chunked /\ BodyEnds(0, Tail(w))
          \/ BodyEnds(0, SeenEof)
          \/ BodyEnds(-1, <<>>)
      BY DEF EndOfBody
    <2> HIDE DEF w
    <2>3. CASE req.left = 0 /\ BodyEnds(hs.res, w)
      BY <2>1, <2>3
    <2>4. CASE w # <<>> /\ w[1].t = "last" /\ req.head.chunked /\ BodyEnds(0, Tail(w))
      BY <2>4
    <2>5. CASE BodyEnds(0, SeenEof)
      BY <2>5
    <2>6. CASE BodyEnds(-1, <<>>)
      BY <2>6
    <2> QED BY <2>2, <2>3, <2>4, <2>5, <2>6
  <1>3. Hushed
    BY <1>1, <1>2, CloseHushes, EndHushes
  <1> DEFINE h == [hs EXCEPT !.res = res]
  <1>4. h \in Stats /\ h.len = hs.len
    BY <1>1 DEF Stats
  <1>5. ReturnWith(h, "RETRFINISHED")
    BY <1>2
  <1> HIDE DEF h
  <1>6. "RETRFINISHED" \in Codes
    BY DEF Codes
  <1>7. ~req.head_only
    BY <1>1 DEF InBody
  <1>8. UNCHANGED <<world, file, job, loop, into, result, exit, kills>>
    BY DEF EndOfBody
  <1> QED BY <1>1, <1>3, <1>4, <1>5, <1>6, <1>7, <1>8, Returned

(***************************************************************************)
(* Where redirections lead                                                 *)
(***************************************************************************)
LEMMA Leads ==
    ASSUME world \in Worlds, NEW u \in Urls
    PROVE  /\ u \in LeadsTo(u)
           /\ \A x \in LeadsTo(u) : world.moved[x] \in LeadsTo(u)
  <1>1. world.moved \in [Urls -> Urls]
    BY WorldsAssumption
  <1> QED BY <1>1 DEF LeadsTo

\* At most one of the URLs that redirections lead to is their end.
LEMMA OneEnd ==
    ASSUME world \in Worlds, NEW u \in Urls,
           NEW v \in LeadsTo(u), Ends(v), NEW w \in LeadsTo(u), Ends(w)
    PROVE  v = w
  <1>1. world.moved \in [Urls -> Urls] /\ v \in Urls /\ w \in Urls
    BY WorldsAssumption DEF LeadsTo
  <1> DEFINE S == { x \in Urls : v \in LeadsTo(x) }
  <1>2. u \in S
    OBVIOUS
  <1>3. ASSUME NEW x \in S PROVE world.moved[x] \in S
    <2>1. CASE x = v
      BY <1>1, <2>1 DEF Ends
    <2>2. CASE x # v
      <3> DEFINE y == world.moved[x]
      <3>1. y \in Urls
        BY <1>1
      <3>2. ASSUME NEW T \in SUBSET Urls, y \in T, \A z \in T : world.moved[z] \in T
            PROVE  v \in T
        <4>1. T \cup {x} \in SUBSET Urls
          OBVIOUS
        <4>2. \A z \in T \cup {x} : world.moved[z] \in T \cup {x}
          BY <3>2
        <4>3. v \in T \cup {x}
          BY <4>1, <4>2 DEF LeadsTo
        <4> QED BY <2>2, <4>3
      <3>3. v \in LeadsTo(y)
        BY <1>1, <3>2 DEF LeadsTo
      <3> QED BY <3>1, <3>3
    <2> QED BY <2>1, <2>2
  <1>4. w \in S
    <2>1. S \in SUBSET Urls
      OBVIOUS
    <2> HIDE DEF S
    <2> QED BY <1>2, <1>3, <2>1 DEF LeadsTo
  <1>5. v \in LeadsTo(w)
    BY <1>4
  <1>6. {w} \in SUBSET Urls /\ \A z \in {w} : world.moved[z] \in {w}
    BY <1>1 DEF Ends
  <1>7. v \in {w}
    BY <1>5, <1>6 DEF LeadsTo
  <1> QED BY <1>7

LEMMA EndReached ==
    ASSUME Typed, stage # "idle", Ends(job.cur)
    PROVE  Final(job.url) = job.cur
  <1>1. world \in Worlds /\ job.url \in Urls /\ job.cur \in LeadsTo(job.url)
    BY DEF Typed, Jobs
  <1>2. \A w \in LeadsTo(job.url) : Ends(w) => w = job.cur
    BY <1>1, OneEnd
  <1> QED BY <1>1, <1>2 DEF Final

LEMMA FinalUrl ==
    ASSUME world \in Worlds, NEW u \in Urls
    PROVE  Final(u) \in Urls
  BY DEF Final, LeadsTo

(***************************************************************************)
(* The body is read                                                        *)
(***************************************************************************)
\* The next byte of the document, appended to its beginning.
LEMMA Grown ==
    ASSUME NEW u \in Urls, NEW s \in Seq(Content), Len(s) < N,
           s = SubSeq(Doc(u), 1, Len(s))
    PROVE  Append(s, Byte(u, Len(s) + 1)) = SubSeq(Doc(u), 1, Len(s) + 1)
  <1> DEFINE k == Len(s)
             d == Doc(u)
  <1>1. k \in Nat /\ N \in Nat
    BY HttpAssumption, LenProperties
  <1>2. d \in Seq(Content) /\ Len(d) = N /\ d[k + 1] = Byte(u, k + 1)
    BY <1>1, DocBytes
  <1>3. s = SubSeq(d, 1, k)
    OBVIOUS
  <1> HIDE DEF k, d
  <1>4. 1 \in 1 .. Len(d) /\ k + 1 \in 1 .. Len(d) /\ (k + 1) - 1 = k
    BY <1>1, <1>2 DEF k
  <1>5. SubSeq(d, 1, k + 1) = SubSeq(d, 1, (k + 1) - 1) \o <<d[k + 1]>>
    BY <1>2, <1>4, SubSeqRecursiveSecond
  <1>6. SubSeq(d, 1, k + 1) = s \o <<d[k + 1]>>
    BY <1>3, <1>4, <1>5
  <1>7. d[k + 1] \in Content
    BY <1>2, <1>4, ElementOfSeq
  <1>8. Append(s, d[k + 1]) = s \o <<d[k + 1]>>
    BY <1>7, AppendIsConcat
  <1> QED BY <1>2, <1>6, <1>8 DEF k, d

LEMMA Counted ==
    ASSUME NEW h \in Stats, NEW l \in 0 .. N
    PROVE  /\ [h EXCEPT !.len = l, !.res = 1] \in Stats
           /\ [h EXCEPT !.len = l, !.res = 1].len = l
  <1> DEFINE a == [h EXCEPT !.len = l]
             b == [a EXCEPT !.res = 1]
  <1>1. a \in Stats /\ a.len = l
    BY DEF Stats
  <1>2. b = [h EXCEPT !.len = l, !.res = 1]
    OBVIOUS
  <1> HIDE DEF a
  <1>3. b \in Stats /\ b.len = l
    BY <1>1 DEF Stats
  <1> QED BY <1>2, <1>3

\* What a byte that is read does: the rest of the body remains, and the file has
\* one byte more, unless it was skipped.
LEMMA ByteRead ==
    ASSUME Inv, ReadByte, stage' = "body"
    PROVE  /\ job.cur \in Urls /\ Final(job.url) = job.cur
           /\ Name \in DOMAIN file /\ N \in Nat
           /\ Read \in 0 .. N - req.head.range - 1
           /\ Remains(Tail(wire[req.sock]), Sent(job.cur, req.head.range), Read + 1, EndOfRead)
           /\ req.left = -1 \/ req.left > 0
           /\ req' = [req EXCEPT !.left = IF @ = -1 THEN -1 ELSE @ - 1,
                                 !.skip = IF @ > 0 THEN @ - 1 ELSE 0]
           /\ wire' = [wire EXCEPT ![req.sock] = Tail(wire[req.sock])]
           /\ hs' = [hs EXCEPT !.len = IF req.skip > 0 THEN @ ELSE @ + 1, !.res = 1]
           /\ UNCHANGED <<stage, pconn>>
           /\ req.skip = 0 => /\ hs.len \in 0 .. N - 1
                              /\ file' = [file EXCEPT ![Name] =
                                                  Append(@, Byte(job.cur, hs.len + 1))]
           /\ req.skip # 0 => file' = file
  <1> DEFINE w == wire[req.sock]
  <1>1. /\ stage = "body" /\ req.left # 0 /\ Typed /\ InBody(w)
        /\ ~NothingIn(w) /\ w[1].t # "eof"
        /\ ~ (req.head.chunked /\ w[1].t = "last")
    BY DEF ReadByte, Inv, FInv, Wires
  <1>2. N \in Nat /\ job.cur \in Urls /\ req.head.range \in 0 .. N /\ req.skip \in 0 .. N
        /\ hs.len \in 0 .. N /\ req.left \in -1 .. N
    BY <1>1, HttpAssumption DEF Typed, Jobs, Reqs, Heads, Stats
  <1>3. Final(job.url) = job.cur /\ Name \in DOMAIN file
    BY <1>1, EndReached DEF InBody, Inv, FInv, Files, Bounded
  <1>4. /\ Read \in 0 .. N - req.head.range
        /\ \/ /\ Read < N - req.head.range /\ w # <<>>
              /\ w[1] = Byte(job.cur, req.head.range + (Read + 1))
              /\ Remains(Tail(w), Sent(job.cur, req.head.range), Read + 1, EndOfRead)
           \/ w \in {Silence, Eof}
           \/ w \in {EndOfRead, EndOfRead \o Eof}
    BY <1>1, NextRead
  <1>5. <<>> \o Eof = Eof
    BY Marks, ConcatEmptySeq
  <1> HIDE DEF w
  <1>6. w \notin {Silence, Eof, <<>>}
    BY <1>1, Marks DEF NothingIn
  <1>7. w \notin {EndOfRead, EndOfRead \o Eof}
    <2>1. CASE req.head.chunked
      <3>1. EndOfRead = LastChunk
        BY <2>1 DEF EndOfRead
      <3>2. LastChunk[1].t = "last" /\ (LastChunk \o Eof)[1] = LastChunk[1]
        BY Marks, Doubled
      <3> QED BY <1>1, <2>1, <3>1, <3>2
    <2>2. CASE ~req.head.chunked /\ req.left = -1
      <3>1. EndOfRead = Eof
        BY <2>2 DEF EndOfRead
      <3>2. Eof[1].t = "eof" /\ (Eof \o Eof)[1] = Eof[1]
        BY Marks, Doubled
      <3> QED BY <1>1, <3>1, <3>2
    <2>3. CASE ~req.head.chunked /\ req.left # -1
      <3>1. EndOfRead = <<>>
        BY <2>3 DEF EndOfRead
      <3> QED BY <1>5, <1>6, <3>1
    <2> QED BY <2>1, <2>2, <2>3
  <1>8. /\ Read < N - req.head.range
        /\ w[1] = Byte(job.cur, req.head.range + (Read + 1))
        /\ Remains(Tail(w), Sent(job.cur, req.head.range), Read + 1, EndOfRead)
    BY <1>4, <1>6, <1>7
  <1>9. req.skip = 0 => hs.len \in 0 .. N - 1 /\ req.head.range + (Read + 1) = hs.len + 1
    BY <1>2, <1>8 DEF Read
  <1>10. /\ req' = [req EXCEPT !.left = IF @ = -1 THEN -1 ELSE @ - 1,
                                !.skip = IF @ > 0 THEN @ - 1 ELSE 0]
         /\ wire' = [wire EXCEPT ![req.sock] = Tail(w)]
         /\ hs' = [hs EXCEPT !.len = IF req.skip > 0 THEN @ ELSE @ + 1, !.res = 1]
         /\ UNCHANGED <<stage, pconn>>
         /\ file' = IF req.skip > 0 THEN file ELSE [file EXCEPT ![Name] = Append(@, w[1])]
    BY DEF ReadByte, Return, ReturnWith, w
  <1>11. Read \in 0 .. N - req.head.range - 1 /\ (req.left = -1 \/ req.left > 0)
    BY <1>1, <1>2, <1>4, <1>8
  <1>12. ASSUME req.skip = 0
         PROVE  file' = [file EXCEPT ![Name] = Append(@, Byte(job.cur, hs.len + 1))]
    <2>1. w[1] = Byte(job.cur, hs.len + 1)
      BY <1>8, <1>9, <1>12
    <2>2. file' = [file EXCEPT ![Name] = Append(@, w[1])]
      BY <1>10, <1>12
    <2> QED BY <2>1, <2>2
  <1>13. req.skip # 0 => file' = file
    BY <1>2, <1>10
  <1> QED BY <1>2, <1>3, <1>8, <1>9, <1>10, <1>11, <1>12, <1>13 DEF w

\* The file afterwards.
LEMMA ByteWritten ==
    ASSUME Inv, ReadByte, stage' = "body"
    PROVE  /\ DOMAIN file' = DOMAIN file
           /\ \A n \in DOMAIN file : n # Name => file'[n] = file[n]
           /\ file' = [n \in DOMAIN file' |-> file'[n]]
           /\ file'[Name] \in Seq(Content) /\ Len(file'[Name]) \in 0 .. N
           /\ hs' \in Stats /\ Len(file'[Name]) <= hs'.len
           /\ ~Backups => Len(file'[Name]) = hs'.len
                          /\ file'[Name] = SubSeq(Origin(Name), 1, Len(file'[Name]))
  <1>1. /\ job.cur \in Urls /\ Final(job.url) = job.cur /\ Name \in DOMAIN file /\ N \in Nat
        /\ hs' = [hs EXCEPT !.len = IF req.skip > 0 THEN @ ELSE @ + 1, !.res = 1]
        /\ req.skip = 0 => /\ hs.len \in 0 .. N - 1
                           /\ file' = [file EXCEPT ![Name] = Append(@, Byte(job.cur, hs.len + 1))]
        /\ req.skip # 0 => file' = file
    BY ByteRead
  <1>2. /\ file[Name] \in Seq(Content) /\ Len(file[Name]) <= N /\ Len(file[Name]) <= hs.len
        /\ hs \in Stats /\ req.skip \in 0 .. N
        /\ file = [n \in DOMAIN file |-> file[n]]
        /\ into[job.url][1] = job.url
    BY <1>1 DEF Inv, FInv, Typed, Files, Bounded, ReadByte, Reqs, Jobs
  <1>3. Len(file[Name]) \in Nat /\ hs.len \in 0 .. N
    BY <1>2, LenProperties DEF Stats
  <1>4. Origin(Name) = Doc(job.cur)
    BY <1>1, <1>2 DEF Origin, Name
  <1>5. ~Backups => /\ Len(file[Name]) = hs.len
                    /\ file[Name] = SubSeq(Doc(job.cur), 1, Len(file[Name]))
    BY <1>4 DEF Inv, FInv, Files, Written, Prefix, ReadByte
  <1>6. CASE req.skip # 0
    <2>1. hs' \in Stats /\ hs'.len = hs.len /\ file' = file
      <3>1. hs' = [hs EXCEPT !.len = 0 + hs.len, !.res = 1] /\ file' = file
        <4>1. ~(req.skip > 0) \/ 0 + hs.len = hs.len
          BY <1>3
        <4>2. req.skip > 0
          BY <1>2, <1>6
        <4> QED BY <1>1, <1>3, <1>6, <4>1, <4>2
      <3>2. 0 + hs.len \in 0 .. N /\ 0 + hs.len = hs.len
        BY <1>3
      <3> QED BY <1>2, <3>1, <3>2, Counted
    <2> QED BY <1>2, <1>3, <1>4, <1>5, <2>1
  <1>7. CASE req.skip = 0
    <2> DEFINE b == Byte(job.cur, hs.len + 1)
               v == Append(file[Name], b)
    <2>1. hs' \in Stats /\ hs'.len = hs.len + 1
      <3>1. hs' = [hs EXCEPT !.len = hs.len + 1, !.res = 1]
        BY <1>1, <1>7
      <3>2. hs.len + 1 \in 0 .. N
        BY <1>1, <1>7
      <3> QED BY <1>2, <3>1, <3>2, Counted
    <2>2. b \in Content
      BY <1>1, <1>7 DEF Content
    <2>3. file' = [file EXCEPT ![Name] = v]
      BY <1>1, <1>7
    <2> HIDE DEF b
    <2>4. v \in Seq(Content) /\ Len(v) = Len(file[Name]) + 1
      BY <1>2, <2>2, AppendProperties
    <2>5. ASSUME ~Backups PROVE v = SubSeq(Doc(job.cur), 1, Len(v)) /\ Len(v) = hs'.len
      <3>1. Len(file[Name]) < N /\ Len(file[Name]) + 1 = hs.len + 1
        BY <1>1, <1>3, <1>5, <1>7, <2>5
      <3>2. Append(file[Name], Byte(job.cur, Len(file[Name]) + 1))
                = SubSeq(Doc(job.cur), 1, Len(file[Name]) + 1)
        BY <1>1, <1>2, <1>5, <2>5, <3>1, Grown
      <3>3. v = SubSeq(Doc(job.cur), 1, Len(file[Name]) + 1)
        BY <3>1, <3>2 DEF b
      <3> HIDE DEF v
      <3> QED BY <2>1, <2>4, <3>1, <3>3
    <2>6. Len(v) \in 0 .. N /\ Len(v) <= hs'.len
      <3> HIDE DEF v
      <3> QED BY <1>1, <1>2, <1>3, <1>7, <2>1, <2>4
    <2> HIDE DEF v
    <2>7. DOMAIN file' = DOMAIN file /\ file'[Name] = v
          /\ \A n \in DOMAIN file : n # Name => file'[n] = file[n]
      BY <1>1, <2>3
    <2>8. file' = [n \in DOMAIN file' |-> file'[n]]
      BY <2>3
    <2> QED BY <1>4, <2>1, <2>4, <2>5, <2>6, <2>7, <2>8
  <1> QED BY <1>6, <1>7

LEMMA ReadByteKeepsFiles ==
    ASSUME Inv, ReadByte
    PROVE  FInv'
  <1>1. CASE CloseInvalidate /\ Return("FWRITEERR") /\ UNCHANGED file
    <2>1. "FWRITEERR" \in Codes \ {"RETRFINISHED", "NEWLOCATION"}
      BY DEF Codes
    <2> QED BY <1>1, <2>1, ClosedAsIs DEF ReadByte, OnSocket
  <1>2. CASE UNCHANGED <<stage, pconn>>
    <2>1. /\ stage = "body" /\ stage' = "body" /\ InLoop /\ InLoop'
          /\ UNCHANGED <<world, job, loop, into, result, exit, kills>>
      BY <1>2 DEF ReadByte, InLoop
    <2>2. /\ job.cur \in Urls /\ Final(job.url) = job.cur
          /\ Name \in DOMAIN file /\ N \in Nat
          /\ Read \in 0 .. N - req.head.range - 1
          /\ Remains(Tail(wire[req.sock]), Sent(job.cur, req.head.range), Read + 1, EndOfRead)
          /\ req.left = -1 \/ req.left > 0
          /\ req' = [req EXCEPT !.left = IF @ = -1 THEN -1 ELSE @ - 1,
                                !.skip = IF @ > 0 THEN @ - 1 ELSE 0]
          /\ wire' = [wire EXCEPT ![req.sock] = Tail(wire[req.sock])]
          /\ hs' = [hs EXCEPT !.len = IF req.skip > 0 THEN @ ELSE @ + 1, !.res = 1]
          /\ pconn' = pconn
      BY <2>1, ByteRead
    <2>3. /\ DOMAIN file' = DOMAIN file
          /\ \A n \in DOMAIN file : n # Name => file'[n] = file[n]
          /\ file' = [n \in DOMAIN file' |-> file'[n]]
          /\ file'[Name] \in Seq(Content) /\ Len(file'[Name]) \in 0 .. N
          /\ hs' \in Stats /\ Len(file'[Name]) <= hs'.len
          /\ ~Backups => Len(file'[Name]) = hs'.len
                         /\ file'[Name] = SubSeq(Origin(Name), 1, Len(file'[Name]))
      BY <2>1, ByteWritten
    <2>4. req \in Reqs /\ hs \in Stats /\ InBody(wire[req.sock]) /\ Open /\ Wires
      BY <2>1 DEF Inv, FInv, Typed, Wires
    <2>5. /\ req' \in Reqs /\ req'.sock = req.sock /\ req'.head = req.head
          /\ req'.head_only = req.head_only
          /\ req'.left = (IF req.left = -1 THEN -1 ELSE req.left - 1)
          /\ req'.skip = (IF req.skip > 0 THEN req.skip - 1 ELSE 0)
      <3> DEFINE l == IF req.left = -1 THEN -1 ELSE req.left - 1
                 k == IF req.skip > 0 THEN req.skip - 1 ELSE 0
      <3>1. req' = [req EXCEPT !.left = l, !.skip = k]
        BY <2>2
      <3>2. l \in -1 .. N /\ k \in 0 .. N
        BY <2>2, <2>4 DEF Reqs
      <3> HIDE DEF l, k
      <3>3. /\ req' \in Reqs /\ req'.sock = req.sock /\ req'.head = req.head
            /\ req'.head_only = req.head_only /\ req'.left = l /\ req'.skip = k
        <4>1. req \in Reqs
          BY <2>4
        <4> DEFINE a == [req EXCEPT !.left = l]
        <4>2. /\ a \in Reqs /\ a.sock = req.sock /\ a.head = req.head
              /\ a.head_only = req.head_only /\ a.left = l
          BY <3>2, <4>1 DEF Reqs
        <4>3. req' = [a EXCEPT !.skip = k]
          BY <3>1
        <4> HIDE DEF a
        <4> QED BY <3>2, <4>2, <4>3 DEF Reqs
      <3> QED BY <3>3 DEF l, k
    <2>6. Name' = Name
      BY <2>1 DEF Name
    <2>7. Typed'
      BY <2>1, <2>3, <2>5, SameWorld DEF Inv, FInv, Typed
    <2>8. Open'
      BY <2>1, <2>2, <2>4, <2>5 DEF Open, OnSocket
    <2>9. InBody(wire[req.sock])'
      <3> DEFINE from == req.head.range
                 p == Read
      <3>1. from \in 0 .. N /\ hs.len \in 0 .. N /\ req.skip \in 0 .. N /\ req.left \in -1 .. N
        BY <2>4 DEF Reqs, Heads, Stats
      <3>2. Read' = p + 1
        <4>1. hs'.len = IF req.skip > 0 THEN hs.len ELSE hs.len + 1
          BY <2>2, <2>4 DEF Stats
        <4> QED BY <2>5, <3>1, <4>1 DEF Read
      <3>3. p \in 0 .. N - from /\ p + 1 \in 0 .. N - from
        BY <2>2, <3>1
      <3>4. req'.left \in {-1, N - from - (p + 1)}
        <4>1. req.left \in {-1, N - from - p}
          BY <2>4 DEF InBody
        <4> HIDE DEF p, from
        <4> QED BY <2>2, <2>5, <3>1, <3>3, <4>1
      <3>5. req'.head.range = from
        BY <2>5
      <3>6. EndOfRead' = EndOfRead
        <4>1. req'.left = -1 <=> req.left = -1
          BY <2>2, <2>5, <3>1
        <4> QED BY <2>5, <4>1 DEF EndOfRead
      <3>7. wire'[req'.sock] = Tail(wire[req.sock])
        BY <2>1, <2>2, <2>4, <2>5 DEF Open, OnSocket
      <3>8. Sent(job.cur, from)' = Sent(job.cur, from)
        BY <2>1, <2>5
      <3>9. Remains(Tail(wire[req.sock]), Sent(job.cur, from), p + 1, EndOfRead)
        BY <2>2
      <3>10. /\ Ends(job.cur)' /\ ~req'.head_only /\ from < N
             /\ req'.head.chunked => req'.left = -1
        BY <2>1, <2>4, <2>5, SameWorld DEF InBody
      <3> HIDE DEF p, from
      <3>11. Remains(wire[req.sock], Sent(job.cur, req.head.range), Read, EndOfRead)'
        BY <2>1, <3>2, <3>5, <3>6, <3>7, <3>9 DEF Remains, Part, Sent, Endings
      <3> QED BY <3>2, <3>3, <3>4, <3>5, <3>10, <3>11 DEF InBody, EndOfRead
    <2>10. Wires'
      <3>1. \A s \in DOMAIN wire' : s # req.sock => Quiet(wire'[s])
        BY <2>1, <2>2, <2>4 DEF Wires
      <3> QED BY <2>1, <2>5, <2>9, <3>1 DEF Wires, OnSocket
    <2>11. Files'
      <3>1. Numbered' /\ Overwriting'
        BY <2>1, <2>3, <2>6 DEF Inv, FInv, Files, Numbered, Overwriting, Clobber, Taken,
                                Fetched, Ends
      <3>2. Bounded' /\ HeadsAnswered'
        BY <2>1, <2>2, <2>3, <2>5, <2>6 DEF Inv, FInv, Files, Bounded, HeadsAnswered
      <3>3. ASSUME ~Backups PROVE SavedIsPrefix' /\ Progress' /\ Continued' /\ Written' /\ Older'
        <4> PICK m \in DOMAIN file : m = Name
          BY <2>2
        <4>a. m' = m /\ Name' = m
          BY <2>6
        <4>b. Prefix(m)' /\ m \in DOMAIN file' /\ Len(file'[m]) = hs'.len /\ Len(file'[m]) <= N
          BY <2>1, <2>2, <2>3, <2>6, <3>3, SameWorld DEF Prefix
        <4>1. Prefix(Name)' /\ Name \in DOMAIN file'
          BY <4>a, <4>b DEF Prefix
        <4>2. ASSUME NEW n \in DOMAIN file, n # Name
              PROVE  (Prefix(n)' <=> Prefix(n)) /\ file'[n] = file[n]
          BY <2>1, <2>3, <4>2, SameWorld DEF Prefix
        <4>3. SavedIsPrefix'
          <5>1. \A n \in DOMAIN file' : Untouched(n)' \/ (Len(file'[n]) <= N /\ Prefix(n)')
            <6>1. ASSUME NEW n \in DOMAIN file, n # Name
                  PROVE  Untouched(n)' \/ (Len(file'[n]) <= N /\ Prefix(n)')
              <7>1. Untouched(n) \/ (Len(file[n]) <= N /\ Prefix(n))
                BY <3>3 DEF Inv, FInv, Files, SavedIsPrefix, Prefix
              <7>2. file'[n] = file[n] /\ Origin(n)' = Origin(n)
                BY <2>1, <2>3, <6>1, SameWorld
              <7>3. CASE Untouched(n)
                BY <7>2, <7>3 DEF Untouched
              <7>4. CASE Len(file[n]) <= N /\ Prefix(n)
                BY <7>2, <7>4 DEF Prefix
              <7> QED BY <7>1, <7>3, <7>4
            <6> QED BY <2>3, <4>b, <6>1
          <5> QED BY <5>1 DEF SavedIsPrefix, Prefix
        <4>4. Progress' /\ Continued' /\ Written'
          BY <2>1, <2>3, <2>6, <3>3, <4>1 DEF Progress, Continued, Written
        <4>5. Older'
          BY <2>1, <2>3, <2>6, <3>3, <4>1, <4>2 DEF Inv, FInv, Files, Older
        <4> QED BY <4>3, <4>4, <4>5
      <3> QED BY <3>1, <3>2, <3>3 DEF Files
    <2> QED BY <2>7, <2>8, <2>10, <2>11 DEF FInv
  <1> QED BY <1>1, <1>2 DEF ReadByte

(***************************************************************************)
(* The file is opened                                                      *)
(***************************************************************************)
\* A new name is the next one.
LEMMA NumberedOpened ==
    ASSUME Inv, stage = "reply", stage' = "body", Ends(job.cur),
           DOMAIN file' = DOMAIN file \cup {Name},
           UNCHANGED <<world, job, into, result, kills>>
    PROVE  Numbered'
  <1> SUFFICES ASSUME ~Clobber PROVE Numbered'
    BY DEF Numbered, Clobber
  <1>0. Name' = Name /\ Ends(job.cur)' /\ Fetched(job.url)' /\ kills \in Nat
    <2>1. kills \in Nat
      BY WorldsAssumption, HttpAssumption DEF Inv, FInv, Typed
    <2> QED BY <2>1, SameWorld DEF Name, Fetched
  <1>1. /\ \A u \in Urls : \E m \in 0 .. kills + 2 : Taken(u, m) /\ (m = kills + 2 => Fetched(u))
        /\ \A k \in 0 .. Name[2] - 1 : <<job.url, k>> \in DOMAIN file
    BY DEF Inv, FInv, Files, Numbered
  <1>2. job.url \in Urls /\ result[job.url] = "none"
    BY DEF Inv, FInv, Typed, Jobs, ExitInv, Reported
  <1>3. Name = <<job.url, Name[2]>> /\ Name[2] \in 0 .. MaxKills + 1
    BY <1>2 DEF Inv, FInv, Typed, Name, Names
  <1>4. ASSUME NEW u \in Urls
        PROVE  \E m \in 0 .. kills + 2 : Taken(u, m)' /\ (m = kills + 2 => Fetched(u)')
    <2>1. PICK m \in 0 .. kills + 2 : Taken(u, m) /\ (m = kills + 2 => Fetched(u))
      BY <1>1
    <2>2. CASE u # job.url
      <3>1. Taken(u, m)'
        <4>1. \A k : <<u, k>> \in DOMAIN file' <=> <<u, k>> \in DOMAIN file
          BY <1>3, <2>2
        <4> QED BY <2>1, <4>1 DEF Taken
      <3>2. m = kills + 2 => Fetched(u)'
        BY <2>1, <2>2 DEF Fetched
      <3> QED BY <2>1, <3>1, <3>2
    <2>3. CASE u = job.url /\ Name \in DOMAIN file
      <3>1. Taken(u, m)'
        BY <2>1, <2>3 DEF Taken
      <3> QED BY <1>0, <2>1, <2>3, <3>1
    <2>4. CASE u = job.url /\ Name \notin DOMAIN file
      <3>1. m \in 0 .. kills + 1
        <4>1. ~Fetched(u)
          BY <1>2, <2>4 DEF Fetched
        <4> QED BY <1>0, <2>1, <4>1
      <3>2. m \in 0 .. MaxKills + 1
        <4>1. kills \in 0 .. MaxKills
          BY WorldsAssumption, HttpAssumption DEF Inv, FInv, Typed
        <4> QED BY <3>1, <4>1, HttpAssumption
      <3>3. Name[2] = m
        <4> DEFINE j == Name[2]
        <4>1. <<job.url, j>> \notin DOMAIN file /\ j \in 0 .. MaxKills + 1
          BY <1>3, <2>4
        <4>2. \A k \in 0 .. j - 1 : <<job.url, k>> \in DOMAIN file
          BY <1>1
        <4>3. \A k \in 0 .. MaxKills + 1 : <<job.url, k>> \in DOMAIN file <=> k < m
          BY <2>1, <2>4 DEF Taken
        <4> HIDE DEF j
        <4>4. ~(j < m)
          BY <4>1, <4>3
        <4>5. ~(m \in 0 .. j - 1)
          <5>1. <<job.url, m>> \notin DOMAIN file
            <6>1. ~(m < m)
              BY <3>1, <1>0
            <6> QED BY <3>2, <4>3, <6>1
          <5> QED BY <4>2, <5>1
        <4>6. j = m
          BY <3>2, <4>1, <4>4, <4>5, HttpAssumption
        <4> QED BY <4>6 DEF j
      <3>4. Taken(u, m + 1)'
        <4>1. ASSUME NEW k \in 0 .. MaxKills + 1
              PROVE  <<u, k>> \in DOMAIN file' <=> k < m + 1
          <5>1. <<u, k>> \in DOMAIN file <=> k < m
            BY <2>1 DEF Taken
          <5>2. <<u, k>> = Name <=> k = m
            BY <1>3, <2>4, <3>3
          <5>3. k \in Int /\ m \in Int
            BY <3>2, HttpAssumption
          <5> QED BY <5>1, <5>2, <5>3
        <4> QED BY <4>1 DEF Taken
      <3>5. m + 1 \in 0 .. kills + 2
        BY <1>0, <3>1
      <3> QED BY <1>0, <2>4, <3>4, <3>5
    <2> QED BY <2>2, <2>3, <2>4
  <1>5. \A k \in 0 .. Name[2] - 1 : <<job.url, k>> \in DOMAIN file'
    BY <1>1
  <1> QED BY <1>0, <1>4, <1>5 DEF Numbered

\* The file continues with what is known to be on disk, or begins empty.
LEMMA FileOpened ==
    ASSUME Inv, OpenFile, stage' = "body"
    PROVE  /\ Name \in DOMAIN file' /\ DOMAIN file' \subseteq Names
           /\ file' = [n \in DOMAIN file' |-> file'[n]]
           /\ \A n \in DOMAIN file' : file'[n] \in Seq(Content) /\ Len(file'[n]) <= N
           /\ Len(file'[Name]) <= hs.restval
           /\ ~Backups =>
                 /\ DOMAIN file' = DOMAIN file \cup {Name}
                 /\ \A n \in DOMAIN file : n # Name => file'[n] = file[n]
                 /\ Len(file'[Name]) = hs.restval
                 /\ file'[Name] = SubSeq(Origin(Name), 1, Len(file'[Name]))
  <1> DEFINE v == IF hs.restval > 0 /\ Name \in DOMAIN Renamed THEN Renamed[Name] ELSE <<>>
  <1>1. /\ stage = "reply" /\ ~req.head_only /\ file' = With(Renamed, Name, v)
    BY DEF OpenFile, Return, ReturnWith, Unwanted
  <1>2. /\ DOMAIN file \subseteq Names /\ hs.restval \in 0 .. N /\ N \in Nat /\ MaxKills \in Nat
        /\ \A n \in DOMAIN file : file[n] \in Seq(Content) /\ Len(file[n]) <= N
        /\ job.url \in Urls /\ Name \in Names /\ Name[1] = job.url
    BY <1>1, HttpAssumption DEF Inv, FInv, Typed, Stats, Jobs, Name
  <1>3. <<>> \in Seq(Content) /\ Len(<<>>) = 0
    BY EmptySeq
  <1>4. /\ Name \in DOMAIN file' /\ file'[Name] = v
        /\ DOMAIN file' = DOMAIN Renamed \cup {Name}
        /\ \A n \in DOMAIN Renamed : n # Name => file'[n] = Renamed[n]
        /\ file' = [n \in DOMAIN file' |-> file'[n]]
    <2> HIDE DEF v
    <2> QED BY <1>1 DEF With
  <1>5. CASE ~Backups
    <2>1. Renamed = file
      BY <1>5 DEF Renamed
    <2>2. hs.restval > 0 => /\ Name \in DOMAIN file /\ Len(file[Name]) = hs.restval
                            /\ file[Name] = SubSeq(Origin(Name), 1, Len(file[Name]))
      BY <1>1, <1>5 DEF Inv, FInv, Files, Continued, Prefix
    <2>3. CASE hs.restval > 0
      <3>1. v = file[Name]
        BY <2>1, <2>2, <2>3
      <3> HIDE DEF v
      <3> QED BY <1>2, <1>4, <1>5, <2>1, <2>2, <2>3, <3>1
    <2>4. CASE ~(hs.restval > 0)
      <3>1. v = <<>>
        BY <2>4
      <3>2. SubSeq(Origin(Name), 1, 0) = <<>>
        BY SubSeqEmpty
      <3>3. hs.restval = 0
        BY <1>2, <2>4
      <3> DEFINE e == <<>>
      <3>4. v = e /\ e \in Seq(Content) /\ Len(e) = 0 /\ SubSeq(Origin(Name), 1, Len(e)) = e
        BY <1>3, <3>1, <3>2
      <3> HIDE DEF v, e
      <3>5. /\ file'[Name] = e /\ Len(file'[Name]) = hs.restval
            /\ file'[Name] = SubSeq(Origin(Name), 1, Len(file'[Name]))
        BY <1>4, <3>3, <3>4
      <3>6. \A n \in DOMAIN file' : file'[n] \in Seq(Content) /\ Len(file'[n]) <= N
        <4>1. ASSUME NEW n \in DOMAIN file', n # Name
              PROVE  file'[n] \in Seq(Content) /\ Len(file'[n]) <= N
          BY <1>2, <1>4, <2>1, <4>1
        <4>2. e \in Seq(Content) /\ Len(e) <= N
          BY <1>2, <3>4
        <4> QED BY <3>5, <4>1, <4>2
      <3> QED BY <1>2, <1>4, <2>1, <3>3, <3>5, <3>6
    <2> QED BY <2>3, <2>4
  <1>6. CASE Backups
    <2>1. Name = <<job.url, 0>>
      BY <1>2, <1>6 DEF Inv, FInv, Files, Overwriting, Clobber, Name
    <2>2. Name \notin DOMAIN Renamed
      <3>1. CASE Name \notin DOMAIN file
        BY <3>1 DEF Renamed
      <3>2. CASE Name \in DOMAIN file
        <4>1. DOMAIN Renamed = (DOMAIN file \ {Name}) \cup {<<job.url, 1>>}
          BY <1>6, <3>2 DEF Renamed, With, Without
        <4>2. <<job.url, 1>> # <<job.url, 0>>
          OBVIOUS
        <4> QED BY <2>1, <4>1, <4>2
      <3> QED BY <3>1, <3>2
    <2>3. v = <<>>
      BY <2>2
    <2>4. /\ DOMAIN Renamed \subseteq Names
          /\ \A n \in DOMAIN Renamed : Renamed[n] \in Seq(Content) /\ Len(Renamed[n]) <= N
      <3>1. CASE Name \notin DOMAIN file
        BY <1>2, <3>1 DEF Renamed
      <3>2. CASE Name \in DOMAIN file
        <4> DEFINE m == <<job.url, 1>>
        <4>1. m \in Names
          <5>1. 1 \in 0 .. MaxKills + 1
            BY <1>2
          <5> QED BY <1>2, <5>1 DEF Names
        <4> HIDE DEF m
        <4>2. /\ DOMAIN Renamed = (DOMAIN file \ {Name}) \cup {m}
              /\ \A n \in DOMAIN Renamed :
                    Renamed[n] = IF n = m THEN file[Name] ELSE file[n]
          BY <1>6, <3>2 DEF Renamed, With, Without, m
        <4> QED BY <1>2, <3>2, <4>1, <4>2
      <3> QED BY <3>1, <3>2
    <2> DEFINE e == <<>>
    <2>5. v = e /\ e \in Seq(Content) /\ Len(e) = 0
      BY <1>3, <2>3
    <2> HIDE DEF v, e
    <2>6. \A n \in DOMAIN file' : file'[n] \in Seq(Content) /\ Len(file'[n]) <= N
      <3>1. ASSUME NEW n \in DOMAIN file', n # Name
            PROVE  file'[n] \in Seq(Content) /\ Len(file'[n]) <= N
        BY <1>4, <2>4, <3>1
      <3>2. e \in Seq(Content) /\ Len(e) <= N
        BY <1>2, <2>5
      <3> QED BY <1>4, <2>5, <3>1, <3>2
    <2>7. Len(file'[Name]) <= hs.restval
      BY <1>2, <1>4, <2>5
    <2> QED BY <1>2, <1>4, <1>6, <2>4, <2>6, <2>7
  <1> QED BY <1>5, <1>6

\* The body begins where the file ends, or what the file holds is to be skipped.
LEMMA HeadOpened ==
    ASSUME Inv, OpenFile, stage' = "body"
    PROVE  /\ Ends(job.cur) /\ hs' \in Stats /\ hs'.len = hs.restval
           /\ req' \in Reqs /\ req'.sock = req.sock /\ req'.head_only = req.head_only
           /\ InBody(wire[req.sock])'
  <1> DEFINE w == wire[req.sock]
             r == req.head.range
  <1>1. /\ stage = "reply" /\ ~req.head_only /\ req.head.status \in {200, 206}
        /\ hs' = [hs EXCEPT !.len = hs.restval, !.res = 0, !.contlen = Contlen,
                            !.status = req.head.status, !.dated = world.dated]
        /\ req' = [req EXCEPT !.left = req.head.length, !.head = [@ EXCEPT !.length = -1],
                              !.skip = Skip]
        /\ UNCHANGED <<world, job, wire, pconn>>
    BY DEF OpenFile, Return, ReturnWith, Unwanted
  <1>2. Typed /\ Open /\ Sound(req.head) /\ Remains(w, BodyOf(req.head), 0, EndOf(req.head))
    BY <1>1 DEF Inv, FInv, Wires, OnReply
  <1>3. Document(req.head) /\ req.head \in Heads
    BY <1>1, <1>2 DEF Sound, Page
  <1>4. /\ N \in Nat /\ r \in 0 .. N /\ req.head.length \in -1 .. N /\ hs.restval \in 0 .. N
        /\ world.dated \in BOOLEAN /\ hs \in Stats /\ req \in Reqs /\ Contlen \in -1 .. N
        /\ req.head.status \in {0, 200, 206, 302, 401, 404, 416, 500}
        /\ req.head.chunked \in BOOLEAN
    BY <1>2, <1>3, ContlenTyped, HttpAssumption, WorldsAssumption DEF Typed, Heads, Stats
  <1>5. hs' \in Stats /\ hs'.len = hs.restval
    <2> DEFINE a == [hs EXCEPT !.len = hs.restval]
               b == [a EXCEPT !.res = 0]
               c == [b EXCEPT !.contlen = Contlen]
               d == [c EXCEPT !.status = req.head.status]
               f == [d EXCEPT !.dated = world.dated]
    <2>1. hs' = f
      BY <1>1
    <2>2. a \in Stats /\ a.len = hs.restval
      BY <1>4 DEF Stats
    <2> HIDE DEF a
    <2>3. b \in Stats /\ b.len = hs.restval
      BY <2>2 DEF Stats
    <2> HIDE DEF b
    <2>4. c \in Stats /\ c.len = hs.restval
      BY <1>4, <2>3 DEF Stats
    <2> HIDE DEF c
    <2>5. d \in Stats /\ d.len = hs.restval
      BY <1>4, <2>4 DEF Stats
    <2> HIDE DEF d
    <2>6. f \in Stats /\ f.len = hs.restval
      BY <1>4, <2>5 DEF Stats
    <2> QED BY <2>1, <2>6
  <1>6. /\ req' \in Reqs /\ req'.sock = req.sock /\ req'.head_only = req.head_only
        /\ req'.left = req.head.length /\ req'.skip = Skip
        /\ req'.head.range = r /\ req'.head.chunked = req.head.chunked
    <2> DEFINE a == [req EXCEPT !.left = req.head.length]
               g == [req.head EXCEPT !.length = -1]
               b == [a EXCEPT !.head = g]
               c == [b EXCEPT !.skip = Skip]
    <2>1. Skip \in 0 .. N
      BY <1>4 DEF Skip
    <2>2. a \in Reqs /\ a.sock = req.sock /\ a.head_only = req.head_only
          /\ a.left = req.head.length /\ a.head = req.head
      BY <1>4 DEF Reqs
    <2>3. g \in Heads /\ g.range = r /\ g.chunked = req.head.chunked
      BY <1>3, <1>4 DEF Heads
    <2>4. req' = c
      BY <1>1
    <2> HIDE DEF a, g
    <2>5. b \in Reqs /\ b.sock = req.sock /\ b.head_only = req.head_only
          /\ b.left = req.head.length /\ b.head = g
      BY <2>2, <2>3 DEF Reqs
    <2> HIDE DEF b
    <2>6. c \in Reqs /\ c.sock = req.sock /\ c.head_only = req.head_only
          /\ c.left = req.head.length /\ c.head = g /\ c.skip = Skip
      BY <2>1, <2>5 DEF Reqs
    <2> QED BY <2>3, <2>4, <2>6
  <1>7. Read' = 0
    <2>1. Read' = hs.restval - Skip - r
      BY <1>5, <1>6 DEF Read
    <2>2. CASE r = 0
      BY <1>4, <2>1, <2>2 DEF Skip
    <2>3. CASE r # 0
      <3>1. r = hs.restval
        BY <1>3, <2>3 DEF Document
      <3> QED BY <1>4, <2>1, <2>3, <3>1 DEF Skip
    <2> QED BY <2>2, <2>3
  <1>8. /\ r < N /\ req.head.length \in {-1, N - r}
        /\ req.head.chunked => req.head.length = -1
    BY <1>3 DEF Document
  <1>9. /\ BodyOf(req.head) = Sent(job.cur, r)
        /\ EndOf(req.head) = IF req.head.chunked THEN LastChunk
                             ELSE IF req.head.length = -1 THEN Eof ELSE <<>>
    BY <1>1 DEF BodyOf, EndOf
  <1>10. Ends(job.cur) /\ Ends(job.cur)'
    BY <1>1, <1>3, SameWorld DEF Document
  <1>11. wire'[req'.sock] = w /\ job' = job
    BY <1>1, <1>6
  <1> DEFINE end == IF req.head.chunked THEN LastChunk
                    ELSE IF req.head.length = -1 THEN Eof ELSE <<>>
  <1>12. Remains(w, Sent(job.cur, r), 0, end)
    BY <1>2, <1>9
  <1>13. N - r - 0 = N - r /\ 0 \in 0 .. N - r
    BY <1>4
  <1> HIDE DEF w, r
  <1>14. InBody(wire[req.sock])'
    <2>1. Remains(wire[req.sock], Sent(job.cur, req.head.range), Read,
               IF req.head.chunked THEN LastChunk ELSE IF req.left = -1 THEN Eof ELSE <<>>)'
      BY <1>6, <1>7, <1>11, <1>12 DEF Remains, Part, Sent, Endings
    <2>2. ~req'.head_only /\ req'.head.range < N /\ Read' \in 0 .. N - req'.head.range
          /\ req'.left \in {-1, N - req'.head.range - Read'}
          /\ (req'.head.chunked => req'.left = -1)
      BY <1>1, <1>6, <1>7, <1>8, <1>13
    <2> QED BY <1>10, <2>1, <2>2 DEF InBody
  <1> QED BY <1>5, <1>6, <1>10, <1>14

LEMMA OpenFileKeepsFiles ==
    ASSUME Inv, OpenFile
    PROVE  FInv'
  <1>1. CASE CloseInvalidate /\ Return("FOPENERR") /\ UNCHANGED file
    <2>1. "FOPENERR" \in Codes \ {"RETRFINISHED", "NEWLOCATION"}
      BY DEF Codes
    <2> QED BY <1>1, <2>1, ClosedAsIs DEF OpenFile, OnSocket
  <1>2. CASE stage' = "body" /\ UNCHANGED <<wire, pconn>>
    <2>1. /\ stage = "reply" /\ stage' = "body" /\ InLoop' /\ OnSocket /\ OnSocket'
          /\ UNCHANGED <<world, job, loop, into, result, exit, kills, wire, pconn>>
      BY <1>2 DEF OpenFile, InLoop, OnSocket
    <2>2. /\ Ends(job.cur) /\ hs' \in Stats /\ hs'.len = hs.restval
          /\ req' \in Reqs /\ req'.sock = req.sock /\ req'.head_only = req.head_only
          /\ InBody(wire[req.sock])'
      BY <2>1, HeadOpened
    <2>3. /\ Name \in DOMAIN file' /\ DOMAIN file' \subseteq Names
          /\ file' = [n \in DOMAIN file' |-> file'[n]]
          /\ \A n \in DOMAIN file' : file'[n] \in Seq(Content) /\ Len(file'[n]) <= N
          /\ Len(file'[Name]) <= hs.restval
      BY <2>1, FileOpened
    <2>4. ~Backups => /\ DOMAIN file' = DOMAIN file \cup {Name}
                      /\ \A n \in DOMAIN file : n # Name => file'[n] = file[n]
                      /\ Len(file'[Name]) = hs.restval
                      /\ file'[Name] = SubSeq(Origin(Name), 1, Len(file'[Name]))
      BY <2>1, FileOpened
    <2>5. PICK m \in Names : m = Name
      BY <2>3
    <2>6. Name' = m
      BY <2>1, <2>5 DEF Name
    <2>7. Typed'
      <3>1. Typed
        BY DEF Inv, FInv
      <3>2. stage # "idle" /\ job' \in Jobs /\ job'.cur \in LeadsTo(job.url)'
        BY <2>1, <3>1, SameWorld DEF Typed
      <3>3. stage' \in Stages
        BY <2>1 DEF Stages
      <3> QED BY <2>1, <2>2, <2>3, <3>1, <3>2, <3>3 DEF Typed
    <2>8. Open'
      BY <2>1, <2>2 DEF Inv, FInv, Open, OnSocket
    <2>9. Wires'
      <3>1. \A s \in DOMAIN wire : s # req.sock => Quiet(wire[s])
        BY <2>1 DEF Inv, FInv, Wires
      <3> QED BY <2>1, <2>2, <3>1 DEF Wires, OnSocket
    <2>10. Files'
      <3>1. Numbered'
        <4>1. Clobber' <=> Clobber
          BY <2>1 DEF Clobber
        <4>2. CASE Clobber
          BY <4>1, <4>2 DEF Numbered
        <4>3. CASE ~Clobber
          <5>1. ~Backups
            BY <4>3 DEF Clobber
          <5> QED BY <2>1, <2>2, <2>4, <5>1, NumberedOpened
        <4> QED BY <4>2, <4>3
      <3>2. Overwriting' /\ HeadsAnswered'
        BY <2>1, <2>2 DEF Inv, FInv, Files, Overwriting, HeadsAnswered, Clobber
      <3>3. Bounded'
        BY <2>2, <2>3, <2>5, <2>6 DEF Bounded
      <3>4. ASSUME ~Backups PROVE SavedIsPrefix' /\ Progress' /\ Continued' /\ Written' /\ Older'
        <4>1. Prefix(m)' /\ m \in DOMAIN file' /\ Len(file'[m]) = hs'.len /\ Len(file'[m]) <= N
          BY <2>1, <2>2, <2>3, <2>4, <2>5, <3>4, SameWorld DEF Prefix
        <4>2. Prefix(Name)' /\ Name' \in DOMAIN file' /\ Len(file'[Name']) = hs'.len
          BY <2>6, <4>1 DEF Prefix
        <4>3. ASSUME NEW n \in DOMAIN file', n # m
              PROVE  n \in DOMAIN file /\ (Prefix(n)' <=> Prefix(n)) /\ file'[n] = file[n]
          BY <2>1, <2>4, <2>5, <3>4, <4>3, SameWorld DEF Prefix
        <4>4. SavedIsPrefix'
          <5>1. ASSUME NEW n \in DOMAIN file' PROVE Untouched(n)' \/ (Len(file'[n]) <= N /\ Prefix(n)')
            <6>1. CASE n # m
              <7>1. Untouched(n) \/ (Len(file[n]) <= N /\ Prefix(n))
                BY <3>4, <4>3, <6>1 DEF Inv, FInv, Files, SavedIsPrefix, Prefix
              <7> QED BY <4>3, <6>1, <7>1 DEF Untouched
            <6> QED BY <4>1, <6>1
          <5> QED BY <5>1 DEF SavedIsPrefix, Prefix
        <4>5. Progress' /\ Continued' /\ Written'
          BY <2>1, <4>2 DEF Progress, Continued, Written
        <4>6. Older'
          BY <2>1, <2>5, <2>6, <3>4, <4>1, <4>3 DEF Inv, FInv, Files, Older
        <4> QED BY <4>4, <4>5, <4>6
      <3> QED BY <3>1, <3>2, <3>3, <3>4 DEF Files
    <2> QED BY <2>7, <2>8, <2>9, <2>10 DEF FInv
  <1> QED BY <1>1, <1>2 DEF OpenFile

(***************************************************************************)
(* The request and the head of its answer                                  *)
(***************************************************************************)
Asking == stage \in {"connect", "send", "head", "reply"}

\* Until the body comes only the connection changes.
LEMMA StillAsking ==
    ASSUME Inv, Asking, Asking', UNCHANGED <<world, file, job, loop, hs, into, result, exit, kills>>,
           req' \in Reqs, req'.head_only = req.head_only, Open', Wires'
    PROVE  FInv'
  <1>1. Typed'
    <2>1. Typed
      BY DEF Inv, FInv
    <2>2. stage # "idle" /\ job' \in Jobs /\ job'.cur \in LeadsTo(job.url)'
      BY <2>1, SameWorld DEF Typed, Asking
    <2>3. stage' \in Stages /\ stage' \notin {"idle", "attempt"}
      BY DEF Stages, Asking
    <2> QED BY <2>1, <2>2, <2>3 DEF Typed
  <1>2. Numbered' /\ Overwriting'
    BY DEF Inv, FInv, Files, Numbered, Overwriting, Clobber, Taken, Fetched, Name, Ends, Asking
  <1>3. Bounded' /\ HeadsAnswered'
    BY DEF Inv, FInv, Files, Bounded, HeadsAnswered, Asking
  <1>4. ASSUME ~Backups PROVE SavedIsPrefix' /\ Progress' /\ Continued' /\ Written' /\ Older'
    <2>1. InLoop /\ InLoop' /\ Name' = Name
      BY DEF Asking, InLoop, Name
    <2>2. SavedIsPrefix'
      BY <1>4, SameWorld DEF Inv, FInv, Files, SavedIsPrefix, Untouched
    <2>3. Progress'
      BY <1>4, <2>1, SameWorld DEF Inv, FInv, Files, Progress, Asking, Prefix, Name
    <2>4. Continued' /\ Written'
      BY <1>4, SameWorld DEF Inv, FInv, Files, Continued, Written, Asking, Prefix, Name
    <2>5. Older'
      BY <1>4, <2>1, SameWorld DEF Inv, FInv, Files, Older, Prefix
    <2> QED BY <2>2, <2>3, <2>4, <2>5
  <1> QED BY <1>1, <1>2, <1>3, <1>4 DEF FInv, Files

LEMMA SocketTaken ==
    ASSUME NEW r \in Reqs, NEW s \in {1, 2}
    PROVE  LET q == [r EXCEPT !.sock = s, !.keep_alive = TRUE]
           IN q \in Reqs /\ q.head_only = r.head_only /\ q.sock = s
  <1> DEFINE a == [r EXCEPT !.sock = s]
             b == [a EXCEPT !.keep_alive = TRUE]
  <1>1. a \in Reqs /\ a.head_only = r.head_only /\ a.sock = s
    BY DEF Reqs
  <1>2. b = [r EXCEPT !.sock = s, !.keep_alive = TRUE]
    OBVIOUS
  <1> HIDE DEF a
  <1>3. b \in Reqs /\ b.head_only = r.head_only /\ b.sock = s
    BY <1>1 DEF Reqs
  <1> QED BY <1>2, <1>3

\* test_socket_open finds nothing to read on a connection that is used again.
LEMMA ReuseKeepsFiles ==
    ASSUME Inv, Reuse
    PROVE  FInv'
  <1>1. /\ stage = "connect" /\ stage' = "send" /\ pconn.sock # 0
        /\ TRUE \in TestSocketOpen(pconn.sock)
        /\ req' = [req EXCEPT !.sock = pconn.sock, !.keep_alive = TRUE]
        /\ UNCHANGED <<world, file, job, loop, hs, wire, pconn, into, result, exit, kills>>
    BY DEF Reuse, Matches
  <1>2. /\ Open /\ Wires /\ ~OnSocket /\ OnSocket' /\ req \in Reqs
        /\ pconn.sock \in DOMAIN wire /\ pconn.sock \in {1, 2}
    BY <1>1 DEF Inv, FInv, Open, OnSocket, Typed
  <1>3. req' \in Reqs /\ req'.head_only = req.head_only /\ req'.sock = pconn.sock
    BY <1>1, <1>2, SocketTaken
  <1>4. \A s \in DOMAIN wire : Quiet(wire[s])
    BY <1>2 DEF Wires
  <1>5. wire[pconn.sock] \in {<<>>, Silence, Eof}
    <2>1. ~NothingIn(SeenEof) /\ FALSE # TRUE
      <3>1. [t |-> "gone"] \in Item
        BY DEF Item, Mark
      <3>2. SeenEof # <<>> /\ SeenEof[1].t = "gone"
        <4>1. \A x \in Item : <<x>> # <<>> /\ <<x>>[1] = x
          OBVIOUS
        <4> QED BY <3>1, <4>1 DEF SeenEof
      <3> QED BY <3>2 DEF NothingIn
    <2>2. wire[pconn.sock] # SeenEof
      BY <1>1, <2>1 DEF TestSocketOpen
    <2> QED BY <1>2, <1>4, <2>2 DEF Quiet
  <1>6. Open' /\ Wires'
    BY <1>1, <1>2, <1>3, <1>4, <1>5 DEF Open, Wires, OnSocket
  <1> QED BY <1>1, <1>3, <1>6, StillAsking DEF Asking

LEMMA ConnectKeepsFiles ==
    ASSUME Inv, Connect
    PROVE  FInv'
  <1> DEFINE open == IF Matches THEN Without(wire, {pconn.sock}) ELSE wire
             sock == CHOOSE s \in 1 .. 2 : s \notin DOMAIN open
  <1>1. /\ stage = "connect" /\ Open /\ Wires /\ ~OnSocket /\ req \in Reqs /\ Connections
        /\ UNCHANGED <<world, file, job, loop, into, result, exit, kills>>
    BY DEF Inv, FInv, OnSocket, Typed, Connect
  <1>2. \A s \in DOMAIN wire : Quiet(wire[s])
    BY <1>1 DEF Wires
  <1>3. pconn' = IF Matches THEN NoPconn ELSE pconn
    BY DEF Connect
  <1>4. /\ DOMAIN open \subseteq {1, 2} /\ DOMAIN open \subseteq {pconn.sock}
        /\ \A s \in DOMAIN open : Quiet(open[s])
        /\ pconn'.sock # 0 => pconn'.sock \in DOMAIN open
    BY <1>1, <1>2, <1>3 DEF Open, Without, NoPconn, Connections, Sockets, OnSocket
  <1>5. sock \in 1 .. 2
    BY <1>4, FreeSocket
  <1> HIDE DEF open, sock
  <1>6. CASE /\ wire' = With(open, sock, <<>>)
             /\ req' = [req EXCEPT !.sock = sock, !.keep_alive = TRUE]
             /\ stage' = "send" /\ UNCHANGED hs
    <2>1. req' \in Reqs /\ req'.head_only = req.head_only /\ req'.sock = sock
      <3>1. sock \in {1, 2}
        BY <1>5
      <3> QED BY <1>1, <1>6, <3>1, SocketTaken
    <2>2. /\ DOMAIN wire' = DOMAIN open \cup {sock} /\ wire'[sock] = <<>>
          /\ \A s \in DOMAIN open : s # sock => wire'[s] = open[s]
      BY <1>6 DEF With
    <2>3. Open' /\ Wires'
      BY <1>4, <1>5, <1>6, <2>1, <2>2 DEF Open, Wires, OnSocket
    <2> QED BY <1>1, <1>6, <2>1, <2>3, StillAsking DEF Asking
  <1>7. CASE wire' = open /\ \E err \in {"HOSTERR", "CONERROR"} : Return(err)
    <2>1. Hushed
      BY <1>4, <1>7 DEF Hushed
    <2>2. {"HOSTERR", "CONERROR"} \subseteq Codes \ {"RETRFINISHED", "NEWLOCATION"}
      BY DEF Codes
    <2> QED BY <1>1, <1>7, <2>1, <2>2, ReturnedAsIs
  <1>8. \/ /\ wire' = With(open, sock, <<>>)
           /\ req' = [req EXCEPT !.sock = sock, !.keep_alive = TRUE]
           /\ stage' = "send" /\ UNCHANGED hs
        \/ wire' = open /\ \E err \in {"HOSTERR", "CONERROR"} : Return(err)
    BY DEF Connect, open, sock
  <1> QED BY <1>6, <1>7, <1>8

\* What the server sends goes on a connection with nothing on it.
LEMMA SendKeepsFiles ==
    ASSUME Inv, Send
    PROVE  FInv'
  <1>1. /\ stage = "send" /\ Typed /\ Open /\ Wires /\ OnSocket /\ req \in Reqs
        /\ UNCHANGED <<world, file, job, loop, into, result, exit, kills>>
    BY DEF Inv, FInv, OnSocket, Typed, Send
  <1>2. CASE CloseInvalidate /\ Return("WRITEFAILED")
    <2>1. "WRITEFAILED" \in Codes \ {"RETRFINISHED", "NEWLOCATION"}
      BY DEF Codes
    <2> QED BY <1>1, <1>2, <2>1, ClosedAsIs
  <1>3. ASSUME NEW r \in Replies(job.cur, hs.restval, req.head_only, req.authed), NEW c \in Cut(r),
               wire' = [wire EXCEPT ![req.sock] = IF Dead(@) THEN @ ELSE @ \o c],
               stage' = "head", UNCHANGED <<hs, req, pconn>>
        PROVE  FInv'
    <2> DEFINE w == wire[req.sock]
               v == IF Dead(w) THEN w ELSE w \o c
    <2>1. w \in {<<>>, Silence, Eof} /\ req.sock \in DOMAIN wire
      BY <1>1 DEF Wires, Open
    <2>2. wire' = [wire EXCEPT ![req.sock] = v]
      BY <1>3
    <2>3. v \in {Silence, Eof, c}
      <3>1. CASE w = <<>>
        <4>1. ~Dead(w)
          BY <3>1 DEF Dead
        <4>2. PICK h : Sound(h) /\ r = (<<h>> \o BodyOf(h)) \o EndOf(h)
          BY <1>1, RepliesFramed DEF Framed
        <4>3. c \in Seq(Item)
          <5>1. h \in Item /\ BodyOf(h) \in Seq(Item) /\ EndOf(h) \in Framing
            BY <1>1, <4>2, BodyBytes DEF Bytes, Sound, Item
          <5> QED BY <4>2, <5>1, CutRemains, Marks
        <4>4. w \o c = c
          BY <3>1, <4>3, ConcatEmptySeq
        <4> QED BY <4>1, <4>4
      <3>2. CASE w \in {Silence, Eof}
        <4>1. w # <<>> /\ w[Len(w)].t \in {"silence", "eof"}
          BY <3>2, Marks, EmptySeq
        <4> QED BY <3>2, <4>1 DEF Dead
      <3> QED BY <2>1, <3>1, <3>2
    <2>4. OnHead(c)
      <3>1. PICK h : Sound(h) /\ r = (<<h>> \o BodyOf(h)) \o EndOf(h)
        BY <1>1, RepliesFramed DEF Framed
      <3>2. h \in Item /\ BodyOf(h) \in Seq(Item) /\ EndOf(h) \in Framing
        BY <1>1, <3>1, BodyBytes DEF Bytes, Sound, Item
      <3>3. \/ c \in {Silence, Eof}
            \/ c # <<>> /\ c[1] = h /\ Remains(Tail(c), BodyOf(h), 0, EndOf(h))
        BY <3>1, <3>2, CutRemains
      <3> QED BY <3>1, <3>3 DEF OnHead
    <2>5. OnHead(v)
      BY <2>3, <2>4 DEF OnHead
    <2> HIDE DEF v
    <2>6. wire'[req.sock] = v /\ DOMAIN wire' = DOMAIN wire
          /\ \A s \in DOMAIN wire : s # req.sock => wire'[s] = wire[s]
      BY <2>1, <2>2
    <2>7. OnHead(wire[req.sock])'
      <3>1. wire'[req'.sock] = v
        BY <1>3, <2>6
      <3>2. CASE v \in {Silence, Eof}
        BY <3>1, <3>2 DEF OnHead
      <3>3. CASE v # <<>> /\ Sound(v[1]) /\ Remains(Tail(v), BodyOf(v[1]), 0, EndOf(v[1]))
        <4>1. Sound(wire[req.sock][1])'
          BY <1>1, <1>3, <3>1, <3>3 DEF Sound, HeadOnly, Document, Page, Ends
        <4>2. Remains(Tail(wire[req.sock]), BodyOf(wire[req.sock][1]), 0, EndOf(wire[req.sock][1]))'
          <5>1. BodyOf(wire[req.sock][1])' = BodyOf(v[1])
            <6>1. job'.cur = job.cur /\ req'.head_only = req.head_only
              BY <1>1, <1>3
            <6> QED BY <3>1, <6>1 DEF BodyOf
          <5>2. EndOf(wire[req.sock][1])' = EndOf(v[1])
            BY <1>1, <1>3, <3>1 DEF EndOf
          <5> QED BY <3>1, <3>3, <5>1, <5>2
        <4> QED BY <3>1, <3>3, <4>1, <4>2 DEF OnHead
      <3> QED BY <2>5, <3>2, <3>3 DEF OnHead
    <2>8. Open' /\ Wires'
      BY <1>1, <1>3, <2>6, <2>7 DEF Open, Wires, OnSocket
    <2> QED BY <1>1, <1>3, <2>8, StillAsking DEF Asking
  <1> QED BY <1>2, <1>3 DEF Send

\* Only heads of this request's answer are read.
LEMMA ReadHeadKeepsFiles ==
    ASSUME Inv, ReadHead
    PROVE  FInv'
  <1> DEFINE w == wire[req.sock]
  <1>1. /\ stage = "head" /\ Typed /\ Open /\ Wires /\ OnSocket /\ req \in Reqs
        /\ OnHead(w)
        /\ UNCHANGED <<world, file, job, loop, into, result, exit, kills>>
    BY DEF Inv, FInv, OnSocket, Typed, ReadHead, Wires
  <1>2. CASE NothingIn(w) \/ w[1].t = "eof"
    <2>1. CloseInvalidate /\ \E err \in {"HEOF", "HERR"} : Return(err)
      BY <1>2 DEF ReadHead
    <2>2. {"HEOF", "HERR"} \subseteq Codes \ {"RETRFINISHED", "NEWLOCATION"}
      BY DEF Codes
    <2> QED BY <1>1, <2>1, <2>2, ClosedAsIs
  <1>3. CASE ~ (NothingIn(w) \/ w[1].t = "eof")
    <2> DEFINE h == w[1]
               keep == ~ (h.length # -1 /\ h.close)
    <2>1. Sound(h) /\ Remains(Tail(w), BodyOf(h), 0, EndOf(h)) /\ h.t = "head" /\ h \in Heads
      <3>1. w \notin {Silence, Eof}
        BY <1>3, Marks DEF NothingIn
      <3> QED BY <1>1, <3>1 DEF OnHead, Sound, Heads
    <2>2. /\ req' = [req EXCEPT !.head = h, !.keep_alive = keep]
          /\ IF keep THEN RegisterPersistent(Tail(w))
             ELSE wire' = [wire EXCEPT ![req.sock] = Tail(w)] /\ UNCHANGED pconn
          /\ stage' = "reply" /\ UNCHANGED hs
      BY <1>3, <2>1 DEF ReadHead
    <2> HIDE DEF w, h, keep
    <2>3. keep \in BOOLEAN
      BY DEF keep
    <2>4. req' \in Reqs /\ req'.head_only = req.head_only /\ req'.sock = req.sock /\ req'.head = h
      <3> DEFINE a == [req EXCEPT !.head = h]
      <3>1. a \in Reqs /\ a.head_only = req.head_only /\ a.sock = req.sock /\ a.head = h
        BY <1>1, <2>1 DEF Reqs
      <3>2. req' = [a EXCEPT !.keep_alive = keep]
        BY <2>2
      <3> HIDE DEF a
      <3> QED BY <2>3, <3>1, <3>2 DEF Reqs
    <2>5. /\ DOMAIN wire' \subseteq DOMAIN wire /\ req.sock \in DOMAIN wire'
          /\ wire'[req.sock] = Tail(w)
          /\ \A s \in DOMAIN wire' : s # req.sock => wire'[s] = wire[s]
          /\ pconn'.sock # 0 => pconn'.sock \in DOMAIN wire'
      <3>1. req.sock \in DOMAIN wire
        BY <1>1 DEF Open
      <3>2. CASE keep /\ pconn.sock \in {0, req.sock}
        BY <1>1, <2>2, <3>1, <3>2 DEF RegisterPersistent, With, Open
      <3>3. CASE keep /\ pconn.sock \notin {0, req.sock}
        <4> DEFINE rest == Without(wire, {pconn.sock})
        <4>1. /\ DOMAIN rest = DOMAIN wire \ {pconn.sock}
              /\ \A s \in DOMAIN rest : rest[s] = wire[s]
          BY DEF Without
        <4>2. wire' = With(rest, req.sock, Tail(w)) /\ pconn'.sock = req.sock
          BY <2>2, <3>3 DEF RegisterPersistent
        <4> HIDE DEF rest
        <4>3. /\ DOMAIN wire' = DOMAIN rest \cup {req.sock}
              /\ wire'[req.sock] = Tail(w)
              /\ \A s \in DOMAIN rest : s # req.sock => wire'[s] = rest[s]
          BY <4>2 DEF With
        <4> QED BY <3>1, <4>1, <4>2, <4>3
      <3>4. CASE ~keep
        BY <1>1, <2>2, <3>1, <3>4 DEF Open
      <3> QED BY <3>2, <3>3, <3>4
    <2>6. OnReply(wire[req.sock])'
      <3>1. wire'[req'.sock] = Tail(w)
        BY <2>4, <2>5
      <3>2. Sound(req.head)'
        BY <1>1, <2>1, <2>2, <2>4 DEF Sound, HeadOnly, Document, Page, Ends
      <3>3. Remains(wire[req.sock], BodyOf(req.head), 0, EndOf(req.head))'
        <4>1. BodyOf(req.head)' = BodyOf(h)
          BY <1>1, <2>4 DEF BodyOf, Sent
        <4>2. EndOf(req.head)' = EndOf(h)
          BY <2>4 DEF EndOf
        <4> QED BY <2>1, <3>1, <4>1, <4>2
      <3> QED BY <3>2, <3>3 DEF OnReply
    <2>7. Open' /\ Wires'
      BY <1>1, <2>2, <2>4, <2>5, <2>6 DEF Open, Wires, OnSocket
    <2> QED BY <1>1, <2>2, <2>4, <2>7, StillAsking DEF Asking
  <1> QED BY <1>2, <1>3

LEMMA UnauthorizedKeepsFiles ==
    ASSUME Inv, Unauthorized
    PROVE  FInv'
  <1>1. /\ stage = "reply" /\ Hushed /\ req \in Reqs
        /\ UNCHANGED <<world, file, job, loop, into, result, exit, kills>>
    BY RefusedHushes DEF Unauthorized, Inv, FInv, Typed
  <1>2. CASE Return("AUTHFAILED")
    <2>1. "AUTHFAILED" \in Codes \ {"RETRFINISHED", "NEWLOCATION"}
      BY DEF Codes
    <2> QED BY <1>1, <1>2, <2>1, ReturnedAsIs
  <1>3. CASE req' = [req EXCEPT !.authed = TRUE] /\ stage' = "connect" /\ UNCHANGED hs
    <2>1. req' \in Reqs /\ req'.head_only = req.head_only
      BY <1>1, <1>3 DEF Reqs
    <2>2. Open' /\ Wires'
      BY <1>1, <1>3 DEF Hushed, Open, Wires, OnSocket
    <2> QED BY <1>1, <1>3, <2>1, <2>2, StillAsking DEF Asking
  <1> QED BY <1>2, <1>3 DEF Unauthorized

(***************************************************************************)
(* The loop of tries                                                       *)
(***************************************************************************)
LEMMA StillQuiet ==
    ASSUME Open, Wires, ~OnSocket, ~OnSocket', UNCHANGED <<wire, pconn>>
    PROVE  Open' /\ Wires'
  BY DEF Open, Wires, OnSocket

\* Between the start and the end of a URL only ReadByte and OpenFile touch the files.
LEMMA SameFiles ==
    ASSUME Inv, UNCHANGED <<world, file, job, into, result, kills>>,
           stage # "idle", stage' # "idle"
    PROVE  /\ Numbered' /\ Overwriting'
           /\ ~Backups => SavedIsPrefix'
  <1>1. Numbered' /\ Overwriting'
    BY DEF Inv, FInv, Files, Numbered, Overwriting, Clobber, Taken, Fetched, Name, Ends
  <1>2. ~Backups => SavedIsPrefix'
    BY SameWorld DEF Inv, FInv, Files, SavedIsPrefix, Untouched
  <1> QED BY <1>1, <1>2

\* Where a try continues is the end of what is there; an older version is not
\* continued, for the answer to HEAD has told it.
LEMMA AttemptKeepsFiles ==
    ASSUME Inv, Attempt
    PROVE  FInv'
  <1>1. /\ stage = "attempt" /\ stage' = "connect" /\ Typed /\ Open /\ Wires /\ Files
        /\ loop' = [loop EXCEPT !.count = @ + 1]
        /\ hs' = [NoStat EXCEPT !.restval = Restval, !.contlen = -1, !.res = -1]
        /\ req' = [NoReq EXCEPT !.head_only = loop.head_first /\ ~loop.got_head]
        /\ UNCHANGED <<world, file, job, wire, pconn, into, result, exit, kills>>
    BY DEF Inv, FInv, Attempt, Afresh
  <1>2. /\ loop \in Loops /\ hs \in Stats /\ loop.count \in 0 .. Ntry
        /\ loop.count < world.tries /\ world.tries \in 1 .. Ntry
        /\ Ntry \in Nat /\ N \in Nat
    BY <1>1, HttpAssumption, WorldsAssumption DEF Typed, Loops
  <1>3. Restval \in 0 .. N
    <2>1. ASSUME Name \in DOMAIN file PROVE Len(file[Name]) \in 0 .. N
      <3>1. file[Name] \in Seq(Content) /\ Len(file[Name]) <= N
        BY <1>1, <2>1 DEF Typed
      <3> QED BY <1>2, <3>1, LenProperties
    <2>2. hs.len \in 0 .. N
      BY <1>2 DEF Stats
    <2> QED BY <1>2, <2>1, <2>2 DEF Restval
  <1>4. /\ loop' \in Loops /\ loop'.full = loop.full /\ loop'.head_first = loop.head_first
        /\ loop'.got_head = loop.got_head
    <2>1. loop.count + 1 \in 0 .. Ntry
      BY <1>2
    <2> QED BY <1>1, <1>2, <2>1 DEF Loops
  <1>5. hs' \in Stats /\ hs'.len = 0 /\ hs'.restval = Restval
    <2> DEFINE a == [NoStat EXCEPT !.restval = Restval]
               b == [a EXCEPT !.contlen = -1]
               c == [b EXCEPT !.res = -1]
    <2>1. hs' = c
      BY <1>1
    <2>2. NoStat \in Stats /\ NoStat.len = 0
      BY Empty DEF NoStat
    <2>3. a \in Stats /\ a.len = 0 /\ a.restval = Restval
      BY <1>3, <2>2 DEF Stats
    <2> HIDE DEF a
    <2>4. b \in Stats /\ b.len = 0 /\ b.restval = Restval
      BY <1>2, <2>3 DEF Stats
    <2> HIDE DEF b
    <2>5. c \in Stats /\ c.len = 0 /\ c.restval = Restval
      BY <2>4 DEF Stats
    <2> QED BY <2>1, <2>5
  <1>6. req' \in Reqs /\ req'.head_only = (loop.head_first /\ ~loop.got_head)
    <2>1. (loop.head_first /\ ~loop.got_head) \in BOOLEAN
      BY <1>2 DEF Loops
    <2> QED BY <1>1, <2>1, Empty DEF Reqs
  <1>7. Typed'
    <2>1. job' \in Jobs /\ job'.cur \in LeadsTo(job.url)'
      BY <1>1, SameWorld DEF Typed
    <2> QED BY <1>1, <1>4, <1>5, <1>6, <2>1 DEF Typed, Stages
  <1>8. Open' /\ Wires'
    BY <1>1, StillQuiet DEF OnSocket
  <1>9. Numbered' /\ Overwriting' /\ (~Backups => SavedIsPrefix')
    BY <1>1, SameFiles
  <1>10. Bounded' /\ HeadsAnswered'
    BY <1>1, <1>4, <1>6 DEF Files, Bounded, HeadsAnswered
  <1>11. ASSUME ~Backups PROVE Progress' /\ Continued' /\ Written' /\ Older'
    <2>1. InLoop /\ InLoop' /\ Name' = Name
      BY <1>1 DEF InLoop, Name
    <2>2. Progress'
      BY <1>5 DEF Progress
    <2>3. ASSUME ~ (loop.head_first /\ ~loop.got_head), Restval > 0
          PROVE  Name \in DOMAIN file /\ Prefix(Name) /\ Len(file[Name]) = Restval
      <3>1. CASE Restval = hs.len
        BY <1>1, <1>11, <2>1, <2>3, <3>1 DEF Files, Progress
      <3>2. CASE ~loop.full /\ world.rest /\ Name \in DOMAIN file
        <4>1. Prefix(Name)
          BY <1>1, <1>11, <2>1, <2>3, <3>2 DEF Files, Older
        <4> QED BY <3>2, <4>1 DEF Restval
      <3> QED BY <1>2, <2>3, <3>1, <3>2 DEF Restval
    <2>4. Continued'
      <3>1. Prefix(Name)' <=> Prefix(Name)
        BY <1>1, SameWorld DEF Prefix, Name
      <3> QED BY <1>1, <1>5, <1>6, <2>1, <2>3, <3>1 DEF Continued
    <2>5. Written'
      BY <1>1 DEF Written
    <2>6. Older'
      BY <1>1, <1>4, <1>11, <2>1, SameWorld DEF Files, Older, Prefix
    <2> QED BY <2>2, <2>4, <2>5, <2>6
  <1> QED BY <1>7, <1>8, <1>9, <1>10, <1>11 DEF FInv, Files

(***************************************************************************)
(* The verdicts                                                            *)
(***************************************************************************)
LEMMA DoneKeepsFiles ==
    ASSUME Inv, stage = "outcome", NEW err \in Codes, Done(err), UNCHANGED LocalVars,
           err = "NEWLOCATION" => hs.err = "NEWLOCATION"
    PROVE  FInv'
  <1>1. /\ stage' = "done" /\ Typed /\ Open /\ Wires /\ Files
        /\ hs' = [NoStat EXCEPT !.err = err] /\ req' = NoReq
        /\ UNCHANGED <<loop, world, file, job, wire, pconn, into, result, exit, kills>>
    BY DEF Inv, FInv, Done, LocalVars
  <1>2. hs' \in Stats /\ hs'.err = err /\ req' \in Reqs
    BY <1>1, Empty DEF Stats
  <1>3. Typed'
    <2>1. job' \in Jobs /\ job'.cur \in LeadsTo(job.url)'
      BY <1>1, SameWorld DEF Typed
    <2> QED BY <1>1, <1>2, <2>1 DEF Typed, Stages
  <1>4. Open' /\ Wires'
    BY <1>1, StillQuiet DEF OnSocket
  <1>5. Numbered' /\ Overwriting' /\ (~Backups => SavedIsPrefix')
    BY <1>1, SameFiles
  <1>6. Bounded' /\ HeadsAnswered'
    BY <1>1, <1>2, SameWorld DEF Files, Bounded, HeadsAnswered
  <1>7. ASSUME ~Backups PROVE Progress' /\ Continued' /\ Written' /\ Older'
    <2>1. ~InLoop' /\ stage' = "done"
      BY <1>1 DEF InLoop
    <2>2. Progress' /\ Continued' /\ Written'
      BY <2>1 DEF Progress, Continued, Written
    <2>3. Older'
      BY <1>1, <1>7, <2>1, SameWorld DEF Files, Older, Prefix
    <2> QED BY <2>2, <2>3
  <1> QED BY <1>3, <1>4, <1>5, <1>6, <1>7 DEF FInv, Files

\* The next try is told of an older version, or sends HEAD again.
LEMMA AgainKeepsFiles ==
    ASSUME Inv, stage = "outcome", hs.err # "RETRUNNEEDED",
           NEW l \in Loops, Again(l), UNCHANGED LocalVars,
           l.head_first = loop.head_first,
           ~Backups /\ world.rest /\ Name \in DOMAIN file /\ ~Prefix(Name) =>
               l.full \/ (l.head_first /\ ~l.got_head)
    PROVE  FInv'
  <1>1. CASE l.count < world.tries
    <2>1. /\ stage' = "attempt" /\ Typed /\ Open /\ Wires /\ Files
          /\ loop' = l /\ hs' = [NoStat EXCEPT !.len = hs.len] /\ req' = NoReq
          /\ UNCHANGED <<world, file, job, wire, pconn, into, result, exit, kills>>
      BY <1>1 DEF Inv, FInv, Again, LocalVars
    <2>2. hs' \in Stats /\ hs'.len = hs.len /\ req' \in Reqs
      BY <2>1, Empty DEF Stats, Typed
    <2>3. Typed'
      <3>1. job' \in Jobs /\ job'.cur \in LeadsTo(job.url)'
        BY <2>1, SameWorld DEF Typed
      <3> QED BY <1>1, <2>1, <2>2, <3>1 DEF Typed, Stages
    <2>4. Open' /\ Wires'
      BY <2>1, StillQuiet DEF OnSocket
    <2>5. Numbered' /\ Overwriting' /\ (~Backups => SavedIsPrefix')
      BY <2>1, SameFiles
    <2>6. Bounded' /\ HeadsAnswered'
      BY <2>1 DEF Files, Bounded, HeadsAnswered
    <2>7. ASSUME ~Backups PROVE Progress' /\ Continued' /\ Written' /\ Older'
      <3>1. InLoop /\ InLoop' /\ Name' = Name
        BY <2>1 DEF InLoop, Name
      <3>2. Progress'
        BY <2>1, <2>2, <2>7, <3>1, SameWorld DEF Files, Progress, Prefix, Name
      <3>3. Continued' /\ Written'
        BY <2>1 DEF Continued, Written
      <3>4. Older'
        BY <2>1, <2>7, <3>1, SameWorld DEF Files, Older, Prefix
      <3> QED BY <3>2, <3>3, <3>4
    <2> QED BY <2>3, <2>4, <2>5, <2>6, <2>7 DEF FInv, Files
  <1>2. CASE ~(l.count < world.tries)
    <2>1. Done("TRYLIMEXC") /\ "TRYLIMEXC" \in Codes
      BY <1>2 DEF Again, Codes
    <2> QED BY <2>1, DoneKeepsFiles
  <1> QED BY <1>1, <1>2

\* What is known of an older version when a try is judged.
LEMMA OlderSeen ==
    ASSUME Inv, stage = "outcome", ~Backups, world.rest, Name \in DOMAIN file, ~Prefix(Name)
    PROVE  /\ world.stamp /\ world.dated /\ file[Name] = Outdated
           /\ loop.full \/ (loop.head_first /\ ~loop.got_head)
  BY DEF Inv, FInv, Files, Older, InLoop

LEMMA VerdictKeepsFiles ==
    ASSUME Inv, Verdict
    PROVE  FInv'
  <1>1. stage = "outcome" /\ UNCHANGED LocalVars
    BY DEF Verdict, TryFailed, Fatal, NothingToDo, ServerError, TimeStamp, Judge, HeadOk, Finished
  <1>2. loop \in Loops /\ HeadsAnswered /\ hs \in Stats
    BY DEF Inv, FInv, Typed, Files
  <1>3. {"RETROK", "ASSUMED", "WRONGCODE"} \subseteq Codes \ {"NEWLOCATION"}
    BY DEF Codes
  <1>4. CASE TryFailed
    BY <1>1, <1>2, <1>4, OlderSeen, AgainKeepsFiles DEF TryFailed
  <1>5. CASE Fatal
    <2>1. hs.err \in Codes /\ Done(hs.err)
      BY <1>2, <1>5 DEF Fatal, Stats
    <2> QED BY <1>1, <2>1, DoneKeepsFiles
  <1>6. CASE NothingToDo
    BY <1>1, <1>3, <1>6, DoneKeepsFiles DEF NothingToDo
  <1>7. ASSUME NEW l, l = [loop EXCEPT !.got_head = TRUE], Again(l), hs.err = "RETRFINISHED",
               \/ ~ (loop.head_first /\ ~loop.got_head)
               \/ ~ (world.rest /\ world.stamp /\ world.dated)
        PROVE  FInv'
    <2>1. l \in Loops /\ l.head_first = loop.head_first /\ l.full = loop.full
      BY <1>2, <1>7 DEF Loops
    <2> QED BY <1>1, <1>7, <2>1, OlderSeen, AgainKeepsFiles
  <1>8. CASE ServerError
    <2>1. CASE req.head_only /\ hs.status = 500
      <3>1. ~ (world.rest /\ world.stamp /\ world.dated)
        BY <1>1, <1>2, <1>8, <2>1 DEF HeadsAnswered, ServerError, Finished
      <3> QED BY <1>7, <1>8, <2>1, <3>1 DEF ServerError, Finished
    <2>2. CASE ~(req.head_only /\ hs.status = 500)
      BY <1>1, <1>3, <1>8, <2>2, DoneKeepsFiles DEF ServerError
    <2> QED BY <2>1, <2>2
  <1>9. CASE TimeStamp
    <2> DEFINE older == hs.dated /\ Name \in DOMAIN file /\ ~Newer
               l == ThenGet(older)
    <2>1. hs.err = "RETRFINISHED" /\ req.head_only /\ hs.dated = world.dated
      BY <1>1, <1>2, <1>9 DEF TimeStamp, HeadOk, Finished, HeadsAnswered
    <2>2. Done("ASSUMED") \/ Done("RETROK") \/ Again(l)
      BY <1>9 DEF TimeStamp
    <2>3. CASE Again(l)
      <3>1. older \in BOOLEAN
        OBVIOUS
      <3>2. ~Backups /\ world.rest /\ Name \in DOMAIN file /\ ~Prefix(Name) => older
        BY <1>1, <2>1, OlderSeen DEF Newer
      <3> HIDE DEF older
      <3>3. l \in Loops /\ l.head_first = loop.head_first /\ (older => l.full)
        <4> DEFINE a == [loop EXCEPT !.count = 0]
                   b == [a EXCEPT !.full = loop.full \/ older]
                   c == [b EXCEPT !.got_head = TRUE]
        <4>1. a \in Loops /\ a.head_first = loop.head_first
          BY <1>2, HttpAssumption DEF Loops
        <4>2. l = c
          BY DEF ThenGet, HeadAgain
        <4> HIDE DEF a
        <4>3. b \in Loops /\ b.head_first = loop.head_first /\ (older => b.full)
          BY <1>2, <3>1, <4>1 DEF Loops
        <4> HIDE DEF b
        <4>4. c \in Loops /\ c.head_first = loop.head_first /\ (older => c.full)
          BY <4>3 DEF Loops
        <4> QED BY <4>2, <4>4
      <3> HIDE DEF l
      <3> QED BY <1>1, <2>1, <2>3, <3>2, <3>3, AgainKeepsFiles
    <2>4. CASE Done("ASSUMED") \/ Done("RETROK")
      BY <1>1, <1>3, <2>4, DoneKeepsFiles
    <2> QED BY <2>2, <2>3, <2>4
  <1>10. CASE Judge
    <2> DEFINE l == [loop EXCEPT !.got_head = TRUE]
    <2>1. hs.err = "RETRFINISHED" /\ ~(loop.head_first /\ ~loop.got_head)
      BY <1>10 DEF Judge, HeadOk, Finished
    <2>2. Done("ASSUMED") \/ Done("RETROK") \/ Again(l)
      BY <1>10 DEF Judge
    <2>3. CASE Again(l)
      BY <1>7, <2>1, <2>3
    <2>4. CASE Done("ASSUMED") \/ Done("RETROK")
      BY <1>1, <1>3, <2>4, DoneKeepsFiles
    <2> QED BY <2>2, <2>3, <2>4
  <1> QED BY <1>4, <1>5, <1>6, <1>8, <1>9, <1>10 DEF Verdict

(***************************************************************************)
(* The begin and the end of a URL                                          *)
(***************************************************************************)
\* unique_name finds a name while not every one of them is taken.
LEMMA NameFound ==
    ASSUME Inv, NEW u \in Urls, ~Clobber => ~Fetched(u)
    PROVE  /\ LocalFile(u) \in Names /\ LocalFile(u)[1] = u
           /\ Clobber => LocalFile(u) = <<u, 0>>
           /\ ~Clobber => /\ LocalFile(u) \notin DOMAIN file
                          /\ \A k \in 0 .. LocalFile(u)[2] - 1 : <<u, k>> \in DOMAIN file
  <1>0. <<u, 0>> \in Names /\ <<u, 0>>[1] = u /\ <<u, 0>>[2] = 0
    BY HttpAssumption DEF Names
  <1>1. CASE Clobber \/ <<u, 0>> \notin DOMAIN file
    <2>1. LocalFile(u) = <<u, 0>>
      BY <1>1 DEF LocalFile
    <2>2. \A k \in 0 .. 0 - 1 : <<u, k>> \in DOMAIN file
      OBVIOUS
    <2> QED BY <1>0, <1>1, <2>1, <2>2
  <1>2. CASE ~(Clobber \/ <<u, 0>> \notin DOMAIN file)
    <2> DEFINE Free(n) == /\ n[1] = u /\ n \notin DOMAIN file
                          /\ \A k \in 0 .. n[2] - 1 : <<u, k>> \in DOMAIN file
    <2>1. LocalFile(u) = CHOOSE n \in Names : Free(n)
      BY <1>2 DEF LocalFile
    <2>2. \E n \in Names : Free(n)
      <3>1. PICK m \in 0 .. kills + 2 : Taken(u, m) /\ (m = kills + 2 => Fetched(u))
        BY <1>2 DEF Inv, FInv, Files, Numbered
      <3>2. kills \in Nat /\ kills <= MaxKills /\ MaxKills \in Nat
        BY WorldsAssumption, HttpAssumption DEF Inv, FInv, Typed
      <3>3. m \in 0 .. MaxKills + 1 /\ ~(m < m)
        BY <1>2, <3>1, <3>2
      <3>4. <<u, m>> \in Names /\ <<u, m>>[1] = u /\ <<u, m>>[2] = m
        BY <3>3 DEF Names
      <3>5. <<u, m>> \notin DOMAIN file
        BY <3>1, <3>3 DEF Taken
      <3>6. ASSUME NEW k \in 0 .. m - 1 PROVE <<u, k>> \in DOMAIN file
        <4>1. k \in 0 .. MaxKills + 1 /\ k < m
          BY <3>2, <3>3
        <4> QED BY <3>1, <4>1 DEF Taken
      <3> QED BY <3>4, <3>5, <3>6
    <2> HIDE DEF Free
    <2>3. LocalFile(u) \in Names /\ Free(LocalFile(u))
      BY <2>1, <2>2
    <2> QED BY <1>2, <2>3 DEF Free
  <1> QED BY <1>1, <1>2

LEMMA BegunKeepsFiles ==
    ASSUME Inv, stage \in {"idle", "done"},
           NEW u \in Urls, NEW cur \in LeadsTo(u), NEW redirs \in 0 .. MaxRedirect,
           stage # "idle" => u = job.url, ~Clobber => ~Fetched(u),
           BeginLoop(u, cur, redirs),
           UNCHANGED <<world, file, req, wire, pconn, result, exit, kills>>
    PROVE  FInv'
  <1> DEFINE name == LocalFile(u)
             first == world.stamp /\ name \in DOMAIN file
  <1>1. /\ name \in Names /\ name[1] = u
        /\ Clobber => name = <<u, 0>>
        /\ ~Clobber => /\ name \notin DOMAIN file
                       /\ \A k \in 0 .. name[2] - 1 : <<u, k>> \in DOMAIN file
    BY NameFound
  <1>2. /\ job' = [url |-> u, cur |-> cur, redirs |-> redirs]
        /\ into' = [into EXCEPT ![u] = name]
        /\ loop' = [NoLoop EXCEPT !.head_first = first]
        /\ hs' = NoStat /\ stage' = "attempt"
    BY DEF BeginLoop
  <1>3. Typed /\ Open /\ Wires /\ Files
    BY DEF Inv, FInv
  <1>4. first \in BOOLEAN
    BY <1>3, WorldsAssumption DEF Typed
  <1> HIDE DEF name, first
  <1>5. loop' \in Loops /\ loop'.count = 0 /\ loop'.head_first = first /\ ~loop'.got_head
    <2>1. NoLoop \in Loops /\ NoLoop.count = 0 /\ NoLoop.got_head = FALSE
      BY Empty DEF NoLoop
    <2>2. loop' \in Loops /\ loop'.head_first = first
      BY <1>2, <1>4, <2>1 DEF Loops
    <2>3. loop'.count = NoLoop.count /\ loop'.got_head = NoLoop.got_head
      BY <1>2, <2>1 DEF Loops
    <2> QED BY <2>1, <2>2, <2>3
  <1>6. Name' = name /\ into' \in [Urls -> Names]
        /\ \A v \in Urls : into'[v] = IF v = u THEN name ELSE into[v]
    BY <1>1, <1>2, <1>3 DEF Name, Typed
  <1>7. Typed'
    <2>1. job' \in Jobs /\ job'.cur = cur /\ job'.url = u
      BY <1>2 DEF Jobs, LeadsTo
    <2>2. job'.cur \in LeadsTo(job.url)'
      <3>1. LeadsTo(u)' = LeadsTo(u)
        BY SameWorld
      <3> QED BY <2>1, <3>1 DEF LeadsTo
    <2>3. loop'.count < world'.tries
      BY <1>2, <1>3, <1>5, WorldsAssumption, HttpAssumption DEF Typed
    <2>4. \A v \in Urls : into'[v][1] = v
      BY <1>1, <1>3, <1>6 DEF Typed
    <2> QED BY <1>2, <1>3, <1>5, <1>6, <2>1, <2>2, <2>3, <2>4, Empty DEF Typed, Stages
  <1>8. Open' /\ Wires'
    BY <1>2, <1>3, StillQuiet DEF OnSocket
  <1>9. Numbered'
    <2> SUFFICES ASSUME ~Clobber PROVE Numbered'
      BY DEF Numbered, Clobber
    <2>1. ASSUME NEW v \in Urls
          PROVE  \E m \in 0 .. kills + 2 : Taken(v, m)' /\ (m = kills + 2 => Fetched(v)')
      <3>1. PICK m \in 0 .. kills + 2 : Taken(v, m) /\ (m = kills + 2 => Fetched(v))
        BY <1>3 DEF Files, Numbered
      <3>2. Taken(v, m)'
        BY <3>1 DEF Taken
      <3>3. m = kills + 2 => Fetched(v)'
        BY <3>1 DEF Fetched
      <3> QED BY <3>2, <3>3
    <2>2. \A k \in 0 .. name[2] - 1 : <<u, k>> \in DOMAIN file
      BY <1>1
    <2> QED BY <1>1, <1>2, <1>6, <2>1, <2>2 DEF Numbered
  <1>10. Overwriting'
    BY <1>1, <1>3, <1>6 DEF Files, Overwriting, Clobber
  <1>11. Bounded' /\ HeadsAnswered'
    BY <1>2, <1>5 DEF Bounded, HeadsAnswered, first
  <1>12. ASSUME ~Backups PROVE SavedIsPrefix' /\ Progress' /\ Continued' /\ Written' /\ Older'
    <2>1. SavedIsPrefix'
      BY <1>3, <1>12, SameWorld DEF Files, SavedIsPrefix, Untouched
    <2>2. Progress' /\ Continued' /\ Written'
      BY <1>2 DEF Progress, Continued, Written, NoStat
    <2>3. Older'
      BY <1>3, <1>5, <1>6, <1>12, SameWorld DEF Files, Older, Prefix, first
    <2> QED BY <2>1, <2>2, <2>3
  <1> QED BY <1>7, <1>8, <1>9, <1>10, <1>11, <1>12 DEF FInv, Files

LEMMA RetrieveUrlKeepsFiles ==
    ASSUME Inv, NEW u \in Urls, RetrieveUrl(u)
    PROVE  FInv'
  <1>1. stage = "idle" /\ result[u] = "none" /\ world \in Worlds
    BY DEF RetrieveUrl, Inv, FInv, Typed
  <1>2. u \in LeadsTo(u) /\ 0 \in 0 .. MaxRedirect /\ ~Fetched(u)
    BY <1>1, Leads, HttpAssumption DEF Fetched
  <1> QED BY <1>1, <1>2, BegunKeepsFiles DEF RetrieveUrl

LEMMA FollowKeepsFiles ==
    ASSUME Inv, Follow
    PROVE  FInv'
  <1> DEFINE u == job.url
             cur == world.moved[job.cur]
             redirs == job.redirs + 1
  <1>1. /\ stage = "done" /\ hs.err = "NEWLOCATION" /\ job.redirs < MaxRedirect
        /\ Typed /\ Files /\ world \in Worlds /\ job \in Jobs /\ job.cur \in LeadsTo(u)
        /\ BeginLoop(u, cur, redirs)
    BY DEF Follow, Inv, FInv, Typed
  <1>2. u \in Urls /\ redirs \in 0 .. MaxRedirect
    BY <1>1, HttpAssumption DEF Jobs
  <1>3. cur \in LeadsTo(u)
    BY <1>1, <1>2, Leads
  <1>4. result[u] = "none"
    BY <1>1 DEF Inv, ExitInv, Reported
  <1>5. ~Clobber => ~Fetched(u)
    <2>1. ~Ends(job.cur)
      BY <1>1 DEF Files, HeadsAnswered
    <2>2. ~Clobber => Name \notin DOMAIN file
      BY <1>1, <2>1 DEF Files, Numbered
    <2> QED BY <1>4, <2>2 DEF Fetched
  <1> HIDE DEF cur, redirs
  <1> QED BY <1>1, <1>2, <1>3, <1>5, BegunKeepsFiles DEF Follow

LEMMA UrlDoneKeepsFiles ==
    ASSUME Inv, UrlDone
    PROVE  FInv'
  <1> DEFINE err == IF hs.err = "NEWLOCATION" THEN "WRONGCODE" ELSE hs.err
  <1>1. /\ stage = "done" /\ stage' = "idle" /\ Typed /\ Open /\ Wires /\ Files
        /\ result' = [result EXCEPT ![job.url] = err] /\ exit' = Inform(err)
        /\ job' = NoJob /\ loop' = NoLoop /\ hs' = NoStat /\ req' = NoReq
        /\ UNCHANGED <<world, file, wire, pconn, into, kills>>
    BY DEF UrlDone, Inv, FInv
  <1>2. err \in Good \cup Bad /\ result \in [Urls -> {"none"} \cup Good \cup Bad]
        /\ job.url \in Urls
    BY <1>1 DEF Inv, ExitInv, Reported, Good, Bad
  <1> HIDE DEF err
  <1>3. exit' \in {0, 3, 4, 6, 8}
    <2>1. StatusFor(err) \in {0, 3, 4, 6, 8}
      <3>1. CASE err \in {"RETROK", "ASSUMED"} BY <3>1 DEF StatusFor
      <3>2. CASE err \in {"FOPENERR", "FWRITEERR"} BY <3>2 DEF StatusFor
      <3>3. CASE err \in {"HOSTERR", "TRYLIMEXC"} BY <3>3 DEF StatusFor
      <3>4. CASE err = "AUTHFAILED" BY <3>4 DEF StatusFor
      <3>5. CASE err = "WRONGCODE" BY <3>5 DEF StatusFor
      <3> QED BY <1>2, <3>1, <3>2, <3>3, <3>4, <3>5 DEF Good, Bad
    <2> QED BY <1>1, <2>1 DEF Inform, Typed
  <1>4. Typed'
    BY <1>1, <1>3, Empty DEF Typed, Stages
  <1>5. Open' /\ Wires'
    BY <1>1, StillQuiet DEF OnSocket
  <1>6. Numbered'
    <2> SUFFICES ASSUME ~Clobber PROVE Numbered'
      BY <1>1 DEF Numbered, Clobber
    <2>1. ASSUME NEW u \in Urls
          PROVE  \E m \in 0 .. kills + 2 : Taken(u, m)' /\ (m = kills + 2 => Fetched(u)')
      <3>1. PICK m \in 0 .. kills + 2 : Taken(u, m) /\ (m = kills + 2 => Fetched(u))
        BY <1>1 DEF Files, Numbered
      <3>2. Taken(u, m)'
        BY <1>1, <3>1 DEF Taken
      <3>3. m = kills + 2 => Fetched(u)'
        <4>1. err # "none"
          BY <1>2 DEF Good, Bad
        <4>2. u = job.url => result'[u] # "none"
          BY <1>1, <1>2, <4>1
        <4>3. u # job.url => result'[u] = result[u]
          BY <1>1, <1>2
        <4> QED BY <3>1, <4>2, <4>3 DEF Fetched
      <3> QED BY <3>2, <3>3
    <2> QED BY <1>1, <2>1 DEF Numbered
  <1>7. Overwriting' /\ Bounded'
    BY <1>1 DEF Files, Overwriting, Bounded, Clobber
  <1>8. HeadsAnswered'
    BY <1>1 DEF HeadsAnswered, NoLoop
  <1>9. ASSUME ~Backups PROVE SavedIsPrefix' /\ Progress' /\ Continued' /\ Written' /\ Older'
    <2>1. SavedIsPrefix'
      BY <1>1, <1>9, SameWorld DEF Files, SavedIsPrefix, Untouched
    <2>2. ~InLoop' /\ Progress' /\ Continued' /\ Written'
      BY <1>1 DEF InLoop, Progress, Continued, Written
    <2>3. Older'
      BY <1>1, <1>9, <2>2, SameWorld DEF Files, Older, Prefix
    <2> QED BY <2>1, <2>2, <2>3
  <1> QED BY <1>4, <1>5, <1>6, <1>7, <1>8, <1>9 DEF FInv, Files

\* Only the files remain, and of a URL one name more may be taken than before.
LEMMA KillKeepsFiles ==
    ASSUME Inv, Kill
    PROVE  FInv'
  <1>1. /\ kills < world.kills /\ kills' = kills + 1
        /\ stage' = "idle" /\ job' = NoJob /\ loop' = NoLoop /\ hs' = NoStat /\ req' = NoReq
        /\ wire' = <<>> /\ pconn' = NoPconn
        /\ into' = [u \in Urls |-> <<u, 0>>] /\ exit' = 0
        /\ UNCHANGED <<world, file>> /\ Typed /\ Files
    BY DEF Kill, Inv, FInv
  <1>2. kills \in Nat /\ kills' \in 0 .. world.kills
    BY <1>1, WorldsAssumption, HttpAssumption DEF Typed
  <1>3. /\ into' \in [Urls -> Names]
        /\ \A u \in Urls : into'[u] = <<u, 0>> /\ into'[u][1] = u
    BY <1>1, HttpAssumption DEF Names
  <1>4. Typed'
    BY <1>1, <1>2, <1>3, Empty DEF Typed, Stages
  <1>5. Open' /\ Wires'
    BY <1>1 DEF Open, Wires, OnSocket, NoPconn
  <1>6. Numbered'
    <2> SUFFICES ASSUME ~Clobber PROVE Numbered'
      BY <1>1 DEF Numbered, Clobber
    <2>1. ASSUME NEW u \in Urls
          PROVE  \E m \in 0 .. kills' + 2 : Taken(u, m)' /\ (m = kills' + 2 => Fetched(u)')
      <3>1. PICK m \in 0 .. kills + 2 : Taken(u, m)
        BY <1>1 DEF Files, Numbered
      <3>2. Taken(u, m)'
        BY <1>1, <3>1 DEF Taken
      <3>3. m \in 0 .. kills' + 2 /\ m # kills' + 2
        BY <1>1, <1>2
      <3> QED BY <3>2, <3>3
    <2> QED BY <1>1, <2>1 DEF Numbered
  <1>7. Overwriting' /\ Bounded'
    BY <1>1, <1>3 DEF Overwriting, Bounded
  <1>8. HeadsAnswered'
    BY <1>1 DEF HeadsAnswered, NoLoop
  <1>9. ASSUME ~Backups PROVE SavedIsPrefix' /\ Progress' /\ Continued' /\ Written' /\ Older'
    <2>1. SavedIsPrefix'
      BY <1>1, <1>9, SameWorld DEF Files, SavedIsPrefix, Untouched
    <2>2. ~InLoop' /\ Progress' /\ Continued' /\ Written'
      BY <1>1 DEF InLoop, Progress, Continued, Written
    <2>3. Older'
      BY <1>1, <1>9, <2>2, SameWorld DEF Files, Older, Prefix
    <2> QED BY <2>1, <2>2, <2>3
  <1> QED BY <1>4, <1>5, <1>6, <1>7, <1>8, <1>9 DEF FInv, Files

LEMMA NothingKeepsFiles ==
    ASSUME Inv, UNCHANGED vars
    PROVE  FInv'
  <1>1. Typed /\ Open /\ Wires /\ Files
    BY DEF Inv, FInv
  <1>2. UNCHANGED <<world, file, stage, job, loop, hs, req, wire, pconn, into, result, exit, kills>>
    BY DEF vars
  <1>3. Typed'
    BY <1>1, <1>2, SameWorld DEF Typed
  <1>4. Open' /\ Wires'
    BY <1>1, <1>2 DEF Open, Wires, OnSocket, OnHead, OnReply, InBody, Read, BodyOf, EndOf,
                      Sound, HeadOnly, Document, Page, Ends
  <1>5. Numbered' /\ Overwriting' /\ Bounded' /\ HeadsAnswered'
    BY <1>1, <1>2 DEF Files, Numbered, Overwriting, Bounded, HeadsAnswered, Clobber, Taken,
                      Fetched, Name, Ends
  <1>6. ASSUME ~Backups PROVE SavedIsPrefix' /\ Progress' /\ Continued' /\ Written' /\ Older'
    <2>1. SavedIsPrefix'
      BY <1>1, <1>2, <1>6, SameWorld DEF Files, SavedIsPrefix, Untouched
    <2>2. Progress' /\ Continued' /\ Written'
      BY <1>1, <1>2, <1>6, SameWorld DEF Files, Progress, Continued, Written, InLoop, Name, Prefix
    <2>3. Older'
      BY <1>1, <1>2, <1>6, SameWorld DEF Files, Older, InLoop, Name, Prefix
    <2> QED BY <2>1, <2>2, <2>3
  <1> QED BY <1>3, <1>4, <1>5, <1>6 DEF FInv, Files

(***************************************************************************)
(* The start and every step                                                *)
(***************************************************************************)
LEMMA LeftTyped ==
    ASSUME world \in Worlds, NEW n \in Names, NEW f \in LeftBehind(n)
    PROVE  /\ f \in Seq(Content) /\ Len(f) <= N
           /\ \/ f = SubSeq(Origin(n), 1, Len(f))
              \/ f = Outdated /\ world.stamp /\ (world.rest => world.dated)
              \/ f = ErrorPage /\ ~world.rest
  <1>1. N \in Nat /\ N >= 1 /\ n[1] \in Urls
    BY HttpAssumption DEF Names
  <1>2. CASE f \in { SubSeq(Origin(n), 1, k) : k \in 0 .. N }
    <2> DEFINE d == Origin(n)
    <2>1. d \in Seq(Content) /\ Len(d) = N
      BY <1>1, FinalUrl, DocBytes DEF Origin
    <2>2. PICK k \in 0 .. N : f = SubSeq(d, 1, k)
      BY <1>2
    <2> HIDE DEF d
    <2>3. \A i \in 1 .. k : d[i] \in Content
      BY <1>1, <2>1, ElementOfSeq
    <2>4. f \in Seq(Content) /\ Len(f) = IF 1 <= k THEN k - 1 + 1 ELSE 0
      BY <1>1, <2>2, <2>3, SubSeqProperties
    <2>5. Len(f) = k
      BY <1>1, <2>4
    <2> QED BY <1>1, <2>2, <2>4, <2>5 DEF d
  <1>3. CASE f = Outdated /\ world.stamp /\ (world.rest => world.dated)
    <2>1. Byte("outdated", 1) \in Content
      BY <1>1 DEF Content
    <2>2. \A x \in Content : <<x>> \in Seq(Content) /\ Len(<<x>>) = 1
      OBVIOUS
    <2> QED BY <1>1, <1>3, <2>1, <2>2 DEF Outdated
  <1>4. CASE f = ErrorPage /\ ~world.rest
    <2>1. Byte("error", 1) \in Content
      BY <1>1 DEF Content
    <2>2. \A x \in Content : <<x>> \in Seq(Content) /\ Len(<<x>>) = 1
      OBVIOUS
    <2> QED BY <1>1, <1>4, <2>1, <2>2 DEF ErrorPage
  <1> QED BY <1>2, <1>3, <1>4 DEF LeftBehind

LEMMA FilesBegin ==
    ASSUME Announces, Init
    PROVE  FInv
  <1>1. /\ world \in Worlds /\ ~world.loose
        /\ stage = "idle" /\ job = NoJob /\ loop = NoLoop /\ hs = NoStat /\ req = NoReq
        /\ wire = <<>> /\ pconn = NoPconn /\ into = [u \in Urls |-> <<u, 0>>]
        /\ result = [u \in Urls |-> "none"] /\ exit = 0 /\ kills = 0
    BY DEF Init, Announces
  <1>2. PICK n \in Names : n[2] = 0 /\ \E f \in LeftBehind(n) :
                                          file \in { [x \in {n} |-> f], <<>> }
    BY DEF Init
  <1>3. PICK f : f \in LeftBehind(n) /\ file \in { [x \in {n} |-> f], <<>> }
    BY <1>2
  <1>4. /\ DOMAIN file \subseteq {n} /\ file = [x \in DOMAIN file |-> file[x]]
        /\ \A x \in DOMAIN file : x = n /\ file[x] = f
    <2>1. CASE file = [x \in {n} |-> f]
      BY <2>1
    <2>2. CASE file = <<>>
      <3>1. DOMAIN file = {}
        BY <2>2
      <3>2. file = [x \in DOMAIN file |-> file[x]]
        BY <2>2
      <3> QED BY <3>1, <3>2
    <2> QED BY <1>3, <2>1, <2>2
  <1>5. /\ f \in Seq(Content) /\ Len(f) <= N
        /\ \/ f = SubSeq(Origin(n), 1, Len(f))
           \/ f = Outdated /\ world.stamp /\ (world.rest => world.dated)
           \/ f = ErrorPage /\ ~world.rest
    BY <1>1, <1>3, LeftTyped
  <1>6. /\ into \in [Urls -> Names]
        /\ \A u \in Urls : into[u] = <<u, 0>> /\ into[u][1] = u
    BY <1>1, HttpAssumption DEF Names
  <1>7. kills \in 0 .. world.kills
    BY <1>1, WorldsAssumption, HttpAssumption
  <1>8. Typed
    BY <1>1, <1>4, <1>5, <1>6, <1>7, Empty DEF Typed, Stages
  <1>9. Open /\ Wires
    BY <1>1 DEF Open, Wires, OnSocket, NoPconn
  <1>10. Numbered
    <2>1. ASSUME NEW u \in Urls
          PROVE  \E m \in 0 .. kills + 2 : Taken(u, m) /\ (m = kills + 2 => Fetched(u))
      <3>1. n = <<n[1], 0>>
        BY <1>2 DEF Names
      <3>2. 0 \in 0 .. kills + 2 /\ 0 # kills + 2 /\ 1 \in 0 .. kills + 2 /\ 1 # kills + 2
        BY <1>1
      <3>3. \A k \in 0 .. MaxKills + 1 : (k < 1 <=> k = 0) /\ ~(k < 0)
        BY HttpAssumption
      <3>4. CASE <<u, 0>> \in DOMAIN file
        <4>1. \A k : <<u, k>> \in DOMAIN file <=> k = 0
          BY <1>4, <3>1, <3>4
        <4>2. Taken(u, 1)
          BY <3>3, <4>1 DEF Taken
        <4> QED BY <3>2, <4>2
      <3>5. CASE <<u, 0>> \notin DOMAIN file
        <4>1. \A k : <<u, k>> \notin DOMAIN file
          BY <1>4, <3>1, <3>5
        <4>2. Taken(u, 0)
          BY <3>3, <4>1 DEF Taken
        <4> QED BY <3>2, <4>2
      <3> QED BY <3>4, <3>5
    <2> QED BY <1>1, <2>1 DEF Numbered
  <1>11. Overwriting /\ Bounded /\ HeadsAnswered
    BY <1>1, <1>6 DEF Overwriting, Bounded, HeadsAnswered, NoLoop
  <1>12. SavedIsPrefix
    BY <1>4, <1>5 DEF SavedIsPrefix, Untouched
  <1>13. ~InLoop /\ Progress /\ Continued /\ Written
    BY <1>1 DEF InLoop, Progress, Continued, Written
  <1>14. Older
    BY <1>4, <1>5, <1>13 DEF Older, Prefix
  <1> QED BY <1>8, <1>9, <1>10, <1>11, <1>12, <1>13, <1>14 DEF FInv, Files

LEMMA FilesKept == Announces /\ Spec => []FInv
  <1>1. Announces /\ Init => FInv
    BY FilesBegin
  <1>2. FInv /\ Connections /\ ExitInv /\ [Next]_vars => FInv'
    <2> SUFFICES ASSUME Inv, [Next]_vars PROVE FInv'
      BY DEF Inv
    <2>1. ASSUME NEW u \in Urls, RetrieveUrl(u) PROVE FInv'
      BY <2>1, RetrieveUrlKeepsFiles
    <2>2. CASE Request
      BY <2>2, AttemptKeepsFiles, ReuseKeepsFiles, ConnectKeepsFiles, SendKeepsFiles DEF Request
    <2>3. CASE Response
      BY <2>3, ReadHeadKeepsFiles, UnauthorizedKeepsFiles, RedirectedKeepsFiles,
         UnneededKeepsFiles, RangeErrorKeepsFiles, NoBodyKeepsFiles, OpenFileKeepsFiles,
         ReadByteKeepsFiles, EndOfBodyKeepsFiles DEF Response
    <2>4. CASE Verdict
      BY <2>4, VerdictKeepsFiles
    <2>5. CASE Follow
      BY <2>5, FollowKeepsFiles
    <2>6. CASE UrlDone
      BY <2>6, UrlDoneKeepsFiles
    <2>7. CASE Kill
      BY <2>7, KillKeepsFiles
    <2>8. CASE UNCHANGED vars
      BY <2>8, NothingKeepsFiles
    <2> QED BY <2>1, <2>2, <2>3, <2>4, <2>5, <2>6, <2>7, <2>8 DEF Next, Run, Terminated
  <1> QED BY <1>1, <1>2, ConnectionsKnown, ReportsKnown, PTL DEF Spec

(***************************************************************************)
(* The theorems                                                            *)
(***************************************************************************)
\* TypeOK: the variables keep to their values; gethttp never needs a third
\* connection, nor http_loop more than Ntry tries, with a server that announces
\* what it sends.
THEOREM HttpTyped == Announces /\ Spec => []TypeOK
  <1>1. FInv /\ ExitInv => TypeOK
    <2> SUFFICES ASSUME FInv, ExitInv PROVE TypeOK
      OBVIOUS
    <2>1. Typed /\ Open /\ N \in Nat /\ MaxKills \in Nat
      BY HttpAssumption DEF FInv
    <2>2. kills \in 0 .. MaxKills
      BY <2>1, WorldsAssumption DEF Typed
    <2>3. result \in [Urls -> Codes]
      <3>1. {"none"} \cup Good \cup Bad \subseteq Codes
        BY DEF Good, Bad, Codes
      <3>2. result \in [Urls -> {"none"} \cup Good \cup Bad]
        BY DEF ExitInv, Reported
      <3> QED BY <3>1, <3>2
    <2>4. job.redirs \in 0 .. MaxRedirect
      BY <2>1, HttpAssumption DEF Typed, Jobs, NoJob
    <2>5. loop.count \in 0 .. Ntry
      BY <2>1 DEF Typed, Loops
    <2>6. /\ hs.len \in 0 .. N /\ hs.restval \in 0 .. N /\ hs.contlen \in -1 .. N
          /\ hs.err \in Codes /\ hs.res \in {-1, 0, 1}
      BY <2>1 DEF Typed, Stats
    <2> QED BY <2>1, <2>2, <2>3, <2>4, <2>5, <2>6 DEF TypeOK, Typed, Stages, Open
  <1> QED BY <1>1, FilesKept, ReportsKnown, PTL

\* ReuseIsQuiet: from a server that announces what it sends, no request goes out
\* on a connection with a part of an earlier answer on it, whether that answer was
\* framed by a length, by chunks or by closing the connection, and wherever it was
\* refused, skipped or cut.  With a server that sends what no head announced
\* it is not so (run HttpStray).
THEOREM ReusedQuietly == Announces /\ Spec => []ReuseIsQuiet
  <1>1. FInv => ReuseIsQuiet
    <2> SUFFICES ASSUME FInv, stage = "send" PROVE Unread(wire[req.sock]) = {}
      BY DEF ReuseIsQuiet
    <2> DEFINE w == wire[req.sock]
    <2>1. w \in {<<>>, Silence, Eof}
      BY DEF FInv, Wires
    <2> HIDE DEF w
    <2>2. \A i \in DOMAIN w : i = 1 /\ w[i].t \in {"silence", "eof"}
      <3>1. w \in Seq(Item) /\ Len(w) \in {0, 1}
        BY <2>1, Marks, EmptySeq
      <3>2. DOMAIN w = 1 .. Len(w)
        BY <3>1, LenProperties
      <3>3. \A i \in DOMAIN w : i = 1 /\ w # <<>>
        BY <3>1, <3>2, EmptySeq
      <3> QED BY <2>1, <3>3, Marks
    <2> QED BY <2>2 DEF Unread, w
  <1> QED BY <1>1, FilesKept, PTL

\* SavedIsPrefix: a file holds the document's bytes, each once and in order,
\* whatever was cut, retried, redirected, answered in part or continued, with a
\* server that announces what it sends.  With --backups it may not (run
\* HttpBackups), so that is left out.
THEOREM SavedInOrder ==
    ASSUME ~Backups
    PROVE  Announces /\ Spec => []SavedIsPrefix
  <1>1. FInv => SavedIsPrefix
    BY DEF FInv, Files
  <1> QED BY <1>1, FilesKept, PTL

(***************************************************************************)
(* Http implements Download                                                *)
(***************************************************************************)
\* There is data of the document in n, and all of it.
Has(n) == n \in DOMAIN file /\ ~Untouched(n)
Whole(n) == n \in DOMAIN file /\ Prefix(n) /\ Len(file[n]) = N

\* Where an error page may be on disk, wget does not look at what is there.
Unspoilt == world.rest \/ world.stamp => \A n \in DOMAIN file : file[n] # ErrorPage
\* With -c a try asks for what is not on disk, unless an older version is replaced:
\* that is found out from the answer to HEAD of the URL where the redirections end.
Resumed == Asking /\ world.rest /\ ~loop.full /\ Has(Name) => hs.restval = Len(file[Name])
Renewing == loop.full => loop.got_head /\ Ends(job.cur)
\* The length of a document is not told, or told right.
Told ==
    stage = "body" \/ (Finished /\ ~Refused) => Ends(job.cur) /\ hs.contlen \in {-1, N}
Completed ==
    (stage = "outcome" /\ hs.err = "RETRUNNEEDED") \/ (stage = "done" /\ hs.err = "RETROK") =>
        Whole(Name)

Faithful == Unspoilt /\ Resumed /\ Renewing /\ Told /\ Completed

\* The beginning of a document is neither an older version of it nor an error page.
LEMMA Genuine ==
    ASSUME world \in Worlds, NEW n \in Names, NEW v \in Seq(Content), Len(v) <= N,
           v = SubSeq(Origin(n), 1, Len(v))
    PROVE  v \notin {Outdated, ErrorPage}
  <1>1. n[1] \in Urls /\ N \in Nat \ {0}
    BY HttpAssumption DEF Names
  <1>2. PICK u \in Urls : Origin(n) = Doc(u)
    BY <1>1, FinalUrl DEF Origin
  <1>3. Doc(u) \in Seq(Content) /\ Len(Doc(u)) = N /\ Doc(u)[1] = Byte(u, 1)
    BY <1>1, DocBytes
  <1>4. u # "outdated" /\ u # "error"
    BY HttpAssumption
  <1>5. ASSUME NEW x, v = <<Byte(x, 1)>> PROVE x = u
    <2>1. Len(v) = 1 /\ v[1] = Byte(x, 1)
      BY <1>5
    <2>2. v[1] = Doc(u)[1]
      <3> DEFINE d == Doc(u)
      <3>1. v = SubSeq(d, 1, 1) /\ d \in Seq(Content) /\ d[1] \in Content
        BY <1>1, <1>2, <1>3, <2>1, ElementOfSeq
      <3> HIDE DEF d
      <3>2. \A i \in 1 .. 1 : d[i] \in Content
        BY <3>1
      <3>3. \A i \in 1 .. 1 - 1 + 1 : v[i] = d[1 + i - 1]
        BY <3>1, <3>2, SubSeqProperties
      <3>4. v[1] = d[1]
        BY <3>3
      <3> QED BY <3>4 DEF d
    <2> QED BY <1>3, <2>1, <2>2 DEF Byte
  <1> QED BY <1>4, <1>5 DEF Outdated, ErrorPage

LEMMA WholeHas ==
    ASSUME FInv, NEW n \in DOMAIN file, Prefix(n)
    PROVE  Has(n)
  <1>1. n \in Names /\ file[n] \in Seq(Content) /\ Len(file[n]) <= N /\ world \in Worlds
    BY DEF FInv, Typed
  <1> QED BY <1>1, Genuine DEF Prefix, Has, Untouched

\* A step that leaves the files and the URL alone.
LEMMA SameData ==
    ASSUME UNCHANGED <<world, file, job, into>>
    PROVE  /\ Name' = Name /\ (Unspoilt => Unspoilt')
           /\ Ends(job.cur)' <=> Ends(job.cur)
           /\ Has(Name)' <=> Has(Name)
           /\ Whole(Name)' <=> Whole(Name)
  <1>1. Name' = Name
    BY DEF Name
  <1>2. \A n : Prefix(n)' <=> Prefix(n)
    BY SameWorld DEF Prefix
  <1>3. \A n : (Has(n)' <=> Has(n)) /\ (Whole(n)' <=> Whole(n))
    BY <1>2 DEF Has, Whole, Untouched
  <1>4. Has(Name)' <=> Has(Name)
    BY <1>1 DEF Has, Untouched
  <1>5. Whole(Name)' <=> Whole(Name)
    BY <1>1, SameWorld DEF Whole, Prefix
  <1> QED BY <1>1, <1>4, <1>5 DEF Unspoilt, Ends

\* A new try of the same request (Reuse, Connect, Send, ReadHead, Unauthorized).
LEMMA StillFaithful ==
    ASSUME Inv, Faithful, Asking, Asking', UNCHANGED <<world, file, job, into, loop, hs>>
    PROVE  Faithful'
  <1>1. stage' \notin {"body", "outcome", "done"}
    BY DEF Asking
  <1>2. /\ Name' = Name /\ Unspoilt' /\ (Has(Name)' <=> Has(Name))
    BY SameData DEF Faithful
  <1>3. Resumed'
    BY <1>2 DEF Faithful, Resumed
  <1>4. Renewing'
    BY SameData DEF Faithful, Renewing
  <1>5. Told' /\ Completed'
    BY <1>1 DEF Told, Completed, Finished
  <1> QED BY <1>2, <1>3, <1>4, <1>5 DEF Faithful

\* gethttp gives up without an answer to judge.
LEMMA ReturnFaithful ==
    ASSUME Inv, Faithful, Asking \/ stage = "body", UNCHANGED <<world, file, job, into, loop>>,
           NEW err, err \notin {"RETRFINISHED", "RETRUNNEEDED"}, Return(err)
    PROVE  Faithful'
  <1>1. stage' = "outcome" /\ hs' = [hs EXCEPT !.err = err] /\ hs \in Stats
    BY DEF Return, ReturnWith, Inv, FInv, Typed
  <1>2. hs'.len = hs.len /\ hs'.err = err
    BY <1>1 DEF Stats
  <1>3. /\ Name' = Name /\ Unspoilt' /\ (Has(Name)' <=> Has(Name))
    BY SameData DEF Faithful
  <1>4. Resumed' /\ Told' /\ Completed'
    BY <1>1, <1>2 DEF Asking, Resumed, Told, Completed, Finished
  <1>5. Renewing'
    BY SameData DEF Faithful, Renewing
  <1> QED BY <1>3, <1>4, <1>5 DEF Faithful

LEMMA ReplyFaithful ==
    ASSUME Inv, Faithful, Redirected \/ Unneeded \/ NoBody, ~Backups
    PROVE  Faithful'
  <1>1. /\ stage = "reply" /\ stage' = "outcome" /\ UNCHANGED <<world, file, job, into, loop>>
        /\ hs \in Stats /\ Sound(req.head) /\ HeadsAnswered
    BY DEF Redirected, Unneeded, NoBody, ReturnWith, Inv, FInv, Files, Typed, Wires, OnReply
  <1>2. /\ Name' = Name /\ Unspoilt' /\ (Whole(Name)' <=> Whole(Name))
        /\ Ends(job.cur)' <=> Ends(job.cur)
    BY <1>1, SameData DEF Faithful
  <1>3. Renewing'
    BY <1>1, <1>2 DEF Faithful, Renewing
  <1>4. Resumed'
    BY <1>1 DEF Resumed, Asking
  <1>5. CASE Redirected
    <2>1. hs'.err = "NEWLOCATION"
      BY <1>1, <1>5 DEF Redirected, ReturnWith, Stats
    <2> QED BY <1>1, <1>2, <1>3, <1>4, <2>1
            DEF Faithful, Renewing, Told, Completed, Finished
  <1>6. CASE Unneeded
    <2>1. hs'.err = "RETRUNNEEDED"
      BY <1>1, <1>6 DEF Unneeded, ReturnWith, Stats
    <2>2. Whole(Name)
      <3>1. hs.restval >= N /\ ~req.head_only /\ hs.restval \in 0 .. N /\ N \in Nat \ {0}
        <4>1. hs.restval \in 0 .. N /\ N \in Nat \ {0} /\ req.head.length \in -1 .. N
          BY <1>1, HttpAssumption DEF Stats, Sound, Heads
        <4>2. CASE req.head.status = 416
          BY <1>1, <4>1, <4>2 DEF Sound, HeadOnly, Document, Page
        <4>3. CASE /\ ~world.stamp /\ req.head.status = 200 /\ req.head.range = 0
                   /\ req.head.length >= 0 /\ hs.restval >= req.head.length
          <5>1. ~req.head_only
            BY <1>1, <4>3 DEF HeadsAnswered
          <5>2. req.head.length = N
            BY <1>1, <4>1, <4>3, <5>1 DEF Sound, Document, Page
          <5> QED BY <4>1, <4>3, <5>1, <5>2
        <4> QED BY <1>6, <4>2, <4>3 DEF Unneeded, AlreadyThere
      <3> QED BY <1>1, <3>1 DEF Inv, FInv, Files, Continued, Whole
    <2> QED BY <1>1, <1>2, <1>3, <1>4, <2>1, <2>2
            DEF Faithful, Renewing, Told, Completed, Finished
  <1>7. CASE NoBody
    <2> DEFINE h == [hs EXCEPT !.len = 0, !.res = 0, !.restval = 0, !.contlen = Contlen,
                               !.status = req.head.status, !.dated = world.dated]
    <2>1. hs' = [h EXCEPT !.err = "RETRFINISHED"]
      BY <1>7 DEF NoBody, ReturnWith
    <2>2. h = [hs EXCEPT !.len = 0, !.res = 0, !.restval = 0, !.contlen = Contlen,
                         !.status = req.head.status, !.dated = world.dated]
      OBVIOUS
    <2>3. h.contlen = Contlen /\ h.status = req.head.status
          /\ {"contlen", "status", "err"} \subseteq DOMAIN h
      BY <1>1 DEF Stats
    <2> HIDE DEF h
    <2>4. /\ hs'.contlen = Contlen /\ hs'.status = req.head.status
          /\ hs'.err = "RETRFINISHED"
      BY <2>1, <2>3
    <2>5. CASE req.head_only
      <3>1. ~Refused' => Ends(job.cur) /\ Contlen \in {-1, N}
        <4>1. req.head.status = 200 => req.head.length \in {-1, N} /\ req.head.range = 0
              /\ Ends(job.cur)
          BY <1>1, <2>5 DEF Sound, HeadOnly
        <4>2. req.head.status \in {200, 302, 404, 500} /\ N \in Nat
          BY <1>1, <2>5, HttpAssumption DEF Sound, HeadOnly
        <4> QED BY <2>4, <4>1, <4>2 DEF Refused, Contlen
      <3> QED BY <1>1, <1>2, <1>3, <1>4, <2>4, <3>1
              DEF Faithful, Renewing, Told, Completed, Finished
    <2>6. CASE ~req.head_only
      <3>1. Refused'
        BY <1>7, <2>4, <2>6 DEF NoBody, Unwanted, Refused
      <3> QED BY <1>1, <1>2, <1>3, <1>4, <2>4, <3>1
              DEF Faithful, Renewing, Told, Completed, Finished
    <2> QED BY <2>5, <2>6
  <1> QED BY <1>5, <1>6, <1>7

\* What is opened or written is the beginning of the document.
LEMMA WrittenFaithful ==
    ASSUME Inv, FInv', Faithful, stage' = "body", Name' = Name, ~Backups,
           UNCHANGED <<world, job, loop>>,
           DOMAIN file' = DOMAIN file \cup {Name},
           \A n \in DOMAIN file : n # Name => file'[n] = file[n],
           Ends(job.cur), hs'.contlen \in {-1, N}
    PROVE  Faithful'
  <1>1. Name \in DOMAIN file' /\ Prefix(Name)' /\ Len(file'[Name]) = hs'.len
    BY DEF FInv, Files, Written
  <1>2. file'[Name] # ErrorPage
    <2>1. /\ world \in Worlds /\ Name \in Names /\ file'[Name] \in Seq(Content)
          /\ Len(file'[Name]) <= N
      BY <1>1 DEF FInv, Typed
    <2>2. file'[Name] = SubSeq(Origin(Name), 1, Len(file'[Name]))
      BY <1>1, SameWorld DEF Prefix
    <2> QED BY <2>1, <2>2, Genuine
  <1>3. Unspoilt'
    BY <1>2 DEF Faithful, Unspoilt
  <1>4. Renewing'
    BY DEF Faithful, Renewing, Ends
  <1>5. Resumed' /\ Told' /\ Completed'
    BY DEF Resumed, Told, Completed, Asking, Ends
  <1> QED BY <1>3, <1>4, <1>5 DEF Faithful

LEMMA OpenFaithful ==
    ASSUME Inv, FInv', Faithful, OpenFile, ~Backups
    PROVE  Faithful'
  <1>1. CASE CloseInvalidate /\ Return("FOPENERR") /\ UNCHANGED file
    BY <1>1, ReturnFaithful DEF OpenFile, Asking
  <1>2. CASE stage' = "body"
    <2>1. /\ stage = "reply" /\ ~req.head_only /\ req.head.status \in {200, 206}
          /\ hs' = [hs EXCEPT !.len = hs.restval, !.res = 0, !.contlen = Contlen,
                              !.status = req.head.status, !.dated = world.dated]
          /\ UNCHANGED <<world, job, into, loop>>
      BY <1>2 DEF OpenFile, Return, ReturnWith, Unwanted
    <2>2. hs'.contlen = Contlen
      BY <2>1 DEF Inv, FInv, Typed, Stats
    <2>3. Ends(job.cur) /\ Contlen \in {-1, N}
      <3>1. Sound(req.head) /\ N \in Nat
        BY <2>1, HttpAssumption DEF Inv, FInv, Wires, OnReply
      <3>2. req.head.range \in 0 .. N /\ Document(req.head)
        BY <2>1, <3>1 DEF Sound, Heads, Page
      <3> QED BY <3>1, <3>2 DEF Document, Contlen
    <2>4. /\ DOMAIN file' = DOMAIN file \cup {Name} /\ Name' = Name
          /\ \A n \in DOMAIN file : n # Name => file'[n] = file[n]
      BY <1>2, <2>1, FileOpened DEF Name
    <2> QED BY <1>2, <2>1, <2>2, <2>3, <2>4, WrittenFaithful
  <1> QED BY <1>1, <1>2 DEF OpenFile

LEMMA ReadFaithful ==
    ASSUME Inv, FInv', Faithful, ReadByte, ~Backups
    PROVE  Faithful'
  <1>1. CASE CloseInvalidate /\ Return("FWRITEERR") /\ UNCHANGED file
    BY <1>1, ReturnFaithful DEF ReadByte
  <1>2. CASE UNCHANGED <<stage, pconn>>
    <2>1. stage = "body" /\ stage' = "body" /\ UNCHANGED <<world, job, into, loop>>
      BY <1>2 DEF ReadByte
    <2>2. /\ Name' = Name /\ Name \in DOMAIN file /\ DOMAIN file' = DOMAIN file
          /\ \A n \in DOMAIN file : n # Name => file'[n] = file[n]
      BY <2>1, ByteRead, ByteWritten DEF Name
    <2>3. hs'.contlen = hs.contlen
      <3>1. hs' = [hs EXCEPT !.len = IF req.skip > 0 THEN @ ELSE @ + 1, !.res = 1]
        BY <2>1, ByteRead
      <3>2. PICK l : hs' = [hs EXCEPT !.len = l, !.res = 1]
        BY <3>1
      <3>3. hs \in Stats
        BY DEF Inv, FInv, Typed
      <3> QED BY <3>2, <3>3 DEF Stats
    <2>4. Ends(job.cur) /\ hs.contlen \in {-1, N}
      BY <2>1 DEF Faithful, Told
    <2> QED BY <2>1, <2>2, <2>3, <2>4, WrittenFaithful
  <1> QED BY <1>1, <1>2 DEF ReadByte

LEMMA EndFaithful ==
    ASSUME Inv, Faithful, EndOfBody
    PROVE  Faithful'
  <1>1. PICK res : ReturnWith([hs EXCEPT !.res = res], "RETRFINISHED")
    BY DEF EndOfBody
  <1>2. /\ stage = "body" /\ stage' = "outcome" /\ UNCHANGED <<world, file, job, into, loop>>
        /\ hs \in Stats /\ hs' = [[hs EXCEPT !.res = res] EXCEPT !.err = "RETRFINISHED"]
    BY <1>1 DEF EndOfBody, ReturnWith, Inv, FInv, Typed
  <1>3. hs'.len = hs.len /\ hs'.contlen = hs.contlen /\ hs'.err = "RETRFINISHED"
    BY <1>2 DEF Stats
  <1>4. /\ Name' = Name /\ Unspoilt' /\ (Ends(job.cur)' <=> Ends(job.cur))
    BY <1>2, SameData DEF Faithful
  <1>5. Renewing'
    BY <1>2, <1>4 DEF Faithful, Renewing
  <1>6. Resumed' /\ Told' /\ Completed'
    BY <1>2, <1>3, <1>4 DEF Faithful, Resumed, Told, Completed, Asking
  <1> QED BY <1>4, <1>5, <1>6 DEF Faithful

(***************************************************************************)
(* The verdicts                                                            *)
(***************************************************************************)
LEMMA DoneFaithful ==
    ASSUME Inv, Faithful, stage = "outcome", NEW err, Done(err), UNCHANGED LocalVars,
           err = "RETROK" => Whole(Name)
    PROVE  Faithful'
  <1>1. /\ stage' = "done" /\ hs' = [NoStat EXCEPT !.err = err]
        /\ UNCHANGED <<world, file, job, into, loop>>
    BY DEF Done, LocalVars
  <1>2. hs'.err = err
    BY <1>1 DEF NoStat
  <1>3. /\ Name' = Name /\ Unspoilt' /\ (Whole(Name)' <=> Whole(Name))
        /\ Ends(job.cur)' <=> Ends(job.cur)
    BY <1>1, SameData DEF Faithful
  <1>4. Resumed' /\ Told' /\ Completed' /\ Renewing'
    BY <1>1, <1>2, <1>3 DEF Faithful, Resumed, Told, Completed, Renewing, Asking,
                            Finished
  <1> QED BY <1>3, <1>4 DEF Faithful

LEMMA AgainFaithful ==
    ASSUME Inv, Faithful, stage = "outcome", NEW l, Again(l), UNCHANGED LocalVars,
           l.full => l.got_head /\ Ends(job.cur)
    PROVE  Faithful'
  <1>1. CASE l.count < world.tries
    <2>1. stage' = "attempt" /\ loop' = l /\ UNCHANGED <<world, file, job, into>>
      BY <1>1 DEF Again, LocalVars
    <2>2. Unspoilt' /\ (Ends(job.cur)' <=> Ends(job.cur))
      BY <2>1, SameData DEF Faithful
    <2>3. Resumed' /\ Told' /\ Completed' /\ Renewing'
      BY <2>1, <2>2 DEF Resumed, Told, Completed, Renewing, Asking, Finished
    <2> QED BY <2>2, <2>3 DEF Faithful
  <1>2. CASE ~(l.count < world.tries)
    <2>1. Done("TRYLIMEXC")
      BY <1>2 DEF Again
    <2> QED BY <2>1, DoneFaithful
  <1> QED BY <1>1, <1>2

LEMMA VerdictFaithful ==
    ASSUME Inv, Faithful, Verdict, ~Backups
    PROVE  Faithful'
  <1>1. stage = "outcome" /\ UNCHANGED LocalVars
    BY DEF Verdict, TryFailed, Fatal, NothingToDo, ServerError, TimeStamp, Judge, HeadOk, Finished
  <1>2. loop \in Loops /\ HeadsAnswered /\ hs \in Stats /\ N \in Nat \ {0}
    BY HttpAssumption DEF Inv, FInv, Typed, Files
  <1>3. hs.len \in 0 .. N /\ hs.contlen \in -1 .. N
    BY <1>2 DEF Stats
  <1>4. CASE TryFailed
    BY <1>1, <1>4, AgainFaithful DEF TryFailed, Faithful, Renewing
  <1>5. CASE Fatal
    BY <1>1, <1>5, DoneFaithful DEF Fatal
  <1>6. CASE NothingToDo
    BY <1>1, <1>6, DoneFaithful DEF NothingToDo, Faithful, Completed
  <1>7. ASSUME NEW l, l = [loop EXCEPT !.got_head = TRUE]
        PROVE  l.got_head /\ l.full = loop.full
    BY <1>2, <1>7 DEF Loops
  <1>8. CASE ServerError
    <2>1. CASE req.head_only /\ hs.status = 500
      <3>1. ~loop.full
        BY <1>1, <1>2, <2>1 DEF HeadsAnswered, Faithful, Renewing
      <3> QED BY <1>1, <1>7, <1>8, <2>1, <3>1, AgainFaithful DEF ServerError
    <2>2. CASE ~(req.head_only /\ hs.status = 500)
      BY <1>1, <1>8, <2>2, DoneFaithful DEF ServerError
    <2> QED BY <2>1, <2>2
  <1>9. CASE TimeStamp
    <2> DEFINE older == hs.dated /\ Name \in DOMAIN file /\ ~Newer
               l == ThenGet(older)
    <2>1. /\ Finished /\ ~Refused /\ ~loop.got_head /\ loop.head_first
          /\ Ends(job.cur) /\ hs.contlen \in {-1, N}
      BY <1>9 DEF TimeStamp, HeadOk, Faithful, Renewing, Told
    <2>2. \/ Done("ASSUMED") \/ Again(l)
          \/ /\ Done("RETROK") /\ Name \in DOMAIN file /\ Newer /\ hs.contlen # -1
             /\ hs.contlen = Len(file[Name])
      BY <1>9 DEF TimeStamp
    <2>3. CASE Again(l)
      <3>1. l.got_head
        BY <1>2 DEF ThenGet, HeadAgain, Loops
      <3> HIDE DEF l
      <3> QED BY <1>1, <2>1, <2>3, <3>1, AgainFaithful
    <2>4. CASE Done("ASSUMED")
      BY <1>1, <2>4, DoneFaithful
    <2>5. CASE /\ Done("RETROK") /\ Name \in DOMAIN file /\ Newer /\ hs.contlen # -1
               /\ hs.contlen = Len(file[Name])
      <3>1. world.stamp
        BY <1>2, <2>1 DEF HeadsAnswered
      <3>2. ~Untouched(Name)
        BY <2>5, <3>1 DEF Newer, Untouched, Faithful, Unspoilt
      <3>3. Prefix(Name)
        BY <2>5, <3>2 DEF Inv, FInv, Files, SavedIsPrefix, Prefix
      <3> QED BY <1>1, <2>1, <2>5, <3>3, DoneFaithful DEF Whole
    <2> QED BY <2>2, <2>3, <2>4, <2>5
  <1>10. CASE Judge
    <2> DEFINE l == [loop EXCEPT !.got_head = TRUE]
    <2>1. Finished /\ ~Refused /\ Ends(job.cur) /\ hs.contlen \in {-1, N}
      BY <1>10 DEF Judge, Faithful, Told
    <2>2. \/ Done("RETROK") /\ hs.len = N
          \/ Done("ASSUMED") \/ Again(l)
      BY <1>2, <1>3, <1>10, <2>1 DEF Judge
    <2>3. CASE Done("RETROK") /\ hs.len = N
      <3>1. Whole(Name)
        BY <1>1, <1>2, <2>1, <2>3
           DEF Inv, FInv, Files, Progress, InLoop, Finished, Whole
      <3> QED BY <1>1, <2>3, <3>1, DoneFaithful
    <2>4. CASE Done("ASSUMED")
      BY <1>1, <2>4, DoneFaithful
    <2>5. CASE Again(l)
      <3>1. l.got_head /\ l.full = loop.full
        BY <1>7
      <3> HIDE DEF l
      <3> QED BY <1>1, <2>1, <2>5, <3>1, AgainFaithful
    <2> QED BY <2>2, <2>3, <2>4, <2>5
  <1> QED BY <1>4, <1>5, <1>6, <1>8, <1>9, <1>10 DEF Verdict

LEMMA AttemptFaithful ==
    ASSUME Inv, Faithful, Attempt
    PROVE  Faithful'
  <1>1. /\ stage = "attempt" /\ stage' = "connect"
        /\ loop' = [loop EXCEPT !.count = @ + 1] /\ loop \in Loops
        /\ hs' = [NoStat EXCEPT !.restval = Restval, !.contlen = -1, !.res = -1]
        /\ UNCHANGED <<world, file, job, into>>
    BY DEF Attempt, Afresh, Inv, FInv, Typed
  <1>2. hs'.restval = Restval
    BY <1>1 DEF NoStat
  <1>3. loop'.full = loop.full /\ loop'.got_head = loop.got_head
    BY <1>1 DEF Loops
  <1>4. /\ Name' = Name /\ Unspoilt' /\ (Has(Name)' <=> Has(Name))
        /\ Ends(job.cur)' <=> Ends(job.cur)
    BY <1>1, SameData DEF Faithful
  <1>5. Renewing'
    BY <1>3, <1>4 DEF Faithful, Renewing
  <1>6. world.rest /\ ~loop.full /\ Has(Name) => Restval = Len(file[Name])
    BY DEF Restval, Has
  <1>7. Resumed' /\ Told' /\ Completed'
    BY <1>1, <1>2, <1>3, <1>4, <1>6 DEF Resumed, Told, Completed, Finished
  <1> QED BY <1>4, <1>5, <1>7 DEF Faithful

LEMMA BetweenFaithful ==
    ASSUME Inv, Faithful, (\E u \in Urls : RetrieveUrl(u)) \/ Follow \/ UrlDone \/ Kill
    PROVE  Faithful'
  <1>1. stage' \in {"idle", "attempt"} /\ UNCHANGED <<world, file>> /\ ~loop'.full
    <2>1. ASSUME NEW u, NEW cur, NEW redirs, BeginLoop(u, cur, redirs)
          PROVE  stage' = "attempt" /\ ~loop'.full
      BY <2>1 DEF BeginLoop, NoLoop
    <2>2. CASE \E u \in Urls : RetrieveUrl(u)
      BY <2>1, <2>2 DEF RetrieveUrl
    <2>3. CASE Follow
      BY <2>1, <2>3 DEF Follow
    <2>4. CASE UrlDone \/ Kill
      BY <2>4 DEF UrlDone, Kill, NoLoop
    <2> QED BY <2>2, <2>3, <2>4
  <1>2. Unspoilt'
    BY <1>1 DEF Faithful, Unspoilt
  <1> QED BY <1>1, <1>2 DEF Faithful, Resumed, Renewing, Told, Completed, Asking, Finished

LEMMA FaithfulKept ==
    ASSUME ~Backups
    PROVE  Announces /\ Spec => [](Inv /\ Faithful)
  <1>1. Init => Faithful
    <2> SUFFICES ASSUME Init PROVE Faithful
      OBVIOUS
    <2>1. world \in Worlds /\ stage = "idle" /\ loop = NoLoop
      BY DEF Init
    <2>2. PICK n \in Names : \E f \in LeftBehind(n) : file \in { [x \in {n} |-> f], <<>> }
      BY DEF Init
    <2>3. PICK f \in LeftBehind(n) : file \in { [x \in {n} |-> f], <<>> }
      BY <2>2
    <2>4. \A x \in DOMAIN file : file[x] = f
      <3>1. CASE file = [x \in {n} |-> f]
        BY <3>1
      <3>2. CASE file = <<>>
        BY <3>2
      <3> QED BY <2>3, <3>1, <3>2
    <2>5. world.rest \/ world.stamp => f # ErrorPage
      <3> SUFFICES ASSUME world.rest \/ world.stamp PROVE f # ErrorPage
        OBVIOUS
      <3>1. f \in Seq(Content) /\ Len(f) <= N
        BY <2>1, LeftTyped
      <3>2. CASE f = Outdated
        BY <3>2 DEF Outdated, ErrorPage, Byte
      <3>3. CASE f = SubSeq(Origin(n), 1, Len(f))
        BY <2>1, <3>1, <3>3, Genuine
      <3>4. f # ErrorPage \/ f = SubSeq(Origin(n), 1, Len(f)) \/ f = Outdated
        BY DEF LeftBehind
      <3> QED BY <3>2, <3>3, <3>4
    <2> QED BY <2>1, <2>4, <2>5
            DEF Faithful, Unspoilt, Resumed, Renewing, Told, Completed, Asking, Finished, NoLoop
  <1>2. Inv /\ Inv' /\ Faithful /\ [Next]_vars => Faithful'
    <2> SUFFICES ASSUME Inv, Inv', Faithful, [Next]_vars PROVE Faithful'
      OBVIOUS
    <2>0. FInv'
      BY DEF Inv
    <2>1. CASE (\E u \in Urls : RetrieveUrl(u)) \/ Follow \/ UrlDone \/ Kill
      BY <2>1, BetweenFaithful
    <2>2. CASE Reuse \/ Connect \/ Send \/ ReadHead \/ Unauthorized
      <3>1. UNCHANGED <<world, file, job, into, loop>> /\ Asking
        BY <2>2 DEF Reuse, Connect, Send, ReadHead, Unauthorized, Asking
      <3>2. \/ Asking' /\ UNCHANGED hs
            \/ \E err : err \notin {"RETRFINISHED", "RETRUNNEEDED"} /\ Return(err)
        <4>1. CASE Reuse BY <4>1 DEF Reuse, Asking
        <4>2. CASE Connect BY <4>2 DEF Connect, Asking
        <4>3. CASE Send BY <4>3 DEF Send, Asking
        <4>4. CASE ReadHead BY <4>4 DEF ReadHead, Asking
        <4>5. CASE Unauthorized BY <4>5 DEF Unauthorized, Asking
        <4> QED BY <2>2, <4>1, <4>2, <4>3, <4>4, <4>5
      <3> QED BY <3>1, <3>2, StillFaithful, ReturnFaithful
    <2>3. CASE Redirected \/ Unneeded \/ NoBody
      BY <2>3, ReplyFaithful
    <2>4. CASE RangeError
      BY <2>4, ReturnFaithful DEF RangeError, Asking
    <2>5. CASE OpenFile \/ ReadByte \/ EndOfBody
      BY <2>0, <2>5, OpenFaithful, ReadFaithful, EndFaithful
    <2>6. CASE Verdict
      BY <2>6, VerdictFaithful
    <2>7. CASE Attempt
      BY <2>7, AttemptFaithful
    <2>8. CASE UNCHANGED vars
      <3>1. UNCHANGED <<world, file, job, into, loop, hs, stage, req>>
        BY <2>8 DEF vars
      <3>2. /\ Name' = Name /\ Unspoilt' /\ (Ends(job.cur)' <=> Ends(job.cur))
            /\ (Has(Name)' <=> Has(Name)) /\ (Whole(Name)' <=> Whole(Name))
        BY <3>1, SameData DEF Faithful
      <3>3. Resumed' /\ Renewing'
        BY <3>1, <3>2 DEF Faithful, Resumed, Renewing, Asking, Refused
      <3>4. Told' /\ Completed'
        BY <3>1, <3>2 DEF Faithful, Told, Completed, Finished, Refused
      <3> QED BY <3>2, <3>3, <3>4 DEF Faithful
    <2> QED BY <2>1, <2>2, <2>3, <2>4, <2>5, <2>6, <2>7, <2>8
            DEF Next, Run, Request, Response, Terminated
  <1>3. Announces /\ Spec => []Inv
    BY FilesKept, ConnectionsKnown, ReportsKnown, PTL DEF Inv
  <1> QED BY <1>1, <1>2, <1>3, PTL DEF Spec

(***************************************************************************)
(* The steps of Download                                                   *)
(***************************************************************************)
\* What a step does to the state Download sees of the files.
Sees(n, state, kept) ==
    /\ StateOf(n)' = state /\ Kept(n)' = kept
    /\ \A m \in Names \ {n} : StateOf(m)' = StateOf(m) /\ Kept(m)' = Kept(m)

\* While wget is at work on a file: nothing of it was of an older version, or it was.
Phase == IF loop.full THEN "renewing" ELSE "busy"

LEMMA Steps ==
    ASSUME NEW n \in Names, UNCHANGED <<world, kills>>
    PROVE  /\ Sees(n, StateOf(n), Kept(n)) => UNCHANGED Promise!dvars
           /\ Sees(n, "busy", Kept(n)) /\ StateOf(n) = "idle" => Promise!Start(n)
           /\ Sees(n, "renewing", Kept(n)) /\ StateOf(n) = "busy" /\ Kept(n) = -1 =>
                 Promise!Renew(n)
           /\ StateOf(n) = Phase =>
                 /\ Sees(n, Phase, Kept(n) + 1) /\ Kept(n) < N => Promise!Grow(n)
                 /\ Sees(n, Phase, 0) /\ ~(world.rest /\ ~loop.full /\ Kept(n) > 0) =>
                       Promise!StartOver(n)
                 /\ \A s : Sees(n, s, Kept(n)) /\ (s = "complete" => Kept(n) = N) =>
                       Promise!End(n, s)
  <1> DEFINE kept  == [m \in Names |-> Kept(m)]
             state == [m \in Names |-> StateOf(m)]
  <1>1. ASSUME NEW s, NEW k, Sees(n, s, k)
        PROVE  kept' = [kept EXCEPT ![n] = k] /\ state' = [state EXCEPT ![n] = s]
    <2>1. \A m \in Names : /\ Kept(m)' = IF m = n THEN k ELSE Kept(m)
                           /\ StateOf(m)' = IF m = n THEN s ELSE StateOf(m)
      BY <1>1 DEF Sees
    <2>2. kept' = [m \in Names |-> IF m = n THEN k ELSE Kept(m)]
      BY <2>1
    <2>3. state' = [m \in Names |-> IF m = n THEN s ELSE StateOf(m)]
      BY <2>1
    <2> QED BY <2>2, <2>3
  <1>2. kept[n] = Kept(n) /\ state[n] = StateOf(n) /\ world' = world /\ kills' = kills
    OBVIOUS
  <1>3. kept = [kept EXCEPT ![n] = Kept(n)] /\ state = [state EXCEPT ![n] = StateOf(n)]
    OBVIOUS
  <1>4. Sees(n, StateOf(n), Kept(n)) => UNCHANGED Promise!dvars
    BY <1>1, <1>2, <1>3 DEF Promise!dvars
  <1>5. Sees(n, "busy", Kept(n)) /\ StateOf(n) = "idle" => Promise!Start(n)
    BY <1>1, <1>2, <1>3 DEF Promise!Start
  <1>6. Sees(n, "renewing", Kept(n)) /\ StateOf(n) = "busy" /\ Kept(n) = -1 => Promise!Renew(n)
    BY <1>1, <1>2, <1>3 DEF Promise!Renew
  <1>7. Phase \in {"busy", "renewing"} /\ (Phase = "busy" => ~loop.full)
    BY DEF Phase
  <1>8. StateOf(n) = Phase /\ Sees(n, Phase, Kept(n) + 1) /\ Kept(n) < N => Promise!Grow(n)
    BY <1>1, <1>2, <1>3, <1>7 DEF Promise!Grow
  <1>9. StateOf(n) = Phase /\ Sees(n, Phase, 0) /\ ~(world.rest /\ ~loop.full /\ Kept(n) > 0)
           => Promise!StartOver(n)
    BY <1>1, <1>2, <1>3, <1>7 DEF Promise!StartOver
  <1>10. ASSUME NEW s, StateOf(n) = Phase, Sees(n, s, Kept(n)), s = "complete" => Kept(n) = N
         PROVE  Promise!End(n, s)
    BY <1>1, <1>2, <1>3, <1>7, <1>10 DEF Promise!End
  <1> QED BY <1>4, <1>5, <1>6, <1>8, <1>9, <1>10

\* What is on disk does not change, nor the URL that is being retrieved.
LEMMA NothingSeen ==
    ASSUME UNCHANGED <<world, file, into, result, kills>>, job'.url = job.url,
           stage = "idle" <=> stage' = "idle", loop'.full = loop.full
    PROVE  UNCHANGED Promise!dvars
  <1>1. \A m : Kept(m)' = Kept(m)
    BY DEF Kept, Untouched
  <1>2. \A m : StateOf(m)' = StateOf(m)
    <2>1. \A m : Busy(m)' <=> Busy(m)
      BY DEF Busy, Name
    <2> QED BY <2>1 DEF StateOf
  <1>3. /\ [m \in Names |-> Kept(m)]' = [m \in Names |-> Kept(m)]
        /\ [m \in Names |-> StateOf(m)]' = [m \in Names |-> StateOf(m)]
    BY <1>1, <1>2
  <1> QED BY <1>3 DEF Promise!dvars

\* While wget is at work on a URL, Download knows of its file only.
LEMMA Working ==
    ASSUME Inv, stage # "idle", stage' # "idle", UNCHANGED <<world, job, into, result, kills>>,
           \A m \in Names \ {Name} : Kept(m)' = Kept(m)
    PROVE  /\ Name \in Names /\ StateOf(Name) = Phase
           /\ \A k : Kept(Name)' = k => Sees(Name, Phase', k)
  <1>1. Name \in Names /\ Name[1] = job.url
    BY DEF Inv, FInv, Typed, Jobs, Name
  <1>2. \A m : (Busy(m)' <=> Busy(m)) /\ (Busy(m) <=> job.url = m[1] /\ m = Name)
    BY DEF Busy, Name
  <1>3. ASSUME NEW m \in Names \ {Name} PROVE StateOf(m)' = StateOf(m)
    BY <1>2 DEF StateOf
  <1>4. ASSUME NEW m, m = Name PROVE StateOf(m) = Phase /\ StateOf(m)' = Phase'
    BY <1>1, <1>2, <1>4 DEF StateOf, Phase
  <1>5. \A k : Kept(Name)' = k => Sees(Name, Phase', k)
    <2>1. Name' = Name
      BY DEF Name
    <2> DEFINE n == Name
    <2>2. /\ StateOf(n)' = Phase'
          /\ \A m \in Names \ {n} : StateOf(m)' = StateOf(m) /\ Kept(m)' = Kept(m)
      BY <1>3, <1>4, <2>1
    <2> QED BY <2>1, <2>2 DEF Sees
  <1> QED BY <1>1, <1>4, <1>5

\* What is written is the beginning of the document, and Download sees its length.
LEMMA WrittenSeen ==
    ASSUME Inv, FInv', ~Backups, stage # "idle", stage' = "body",
           UNCHANGED <<world, job, into, loop, result, kills>>,
           DOMAIN file' = DOMAIN file \cup {Name},
           \A n \in DOMAIN file : n # Name => file'[n] = file[n]
    PROVE  /\ Name \in Names /\ StateOf(Name) = Phase
           /\ Kept(Name)' = hs'.len /\ Sees(Name, Phase, hs'.len)
  <1>1. \A m \in Names \ {Name} : Kept(m)' = Kept(m)
    BY DEF Kept, Untouched
  <1>2. /\ Name \in Names /\ StateOf(Name) = Phase
        /\ \A k : Kept(Name)' = k => Sees(Name, Phase, k)
    BY <1>1, Working DEF Phase
  <1>3. Name' = Name
    BY DEF Name
  <1>4. Name \in DOMAIN file' /\ Prefix(Name)' /\ Len(file'[Name]) = hs'.len
    BY <1>3 DEF FInv, Files, Written
  <1>5. file'[Name] \notin {Outdated, ErrorPage}
    <2>1. /\ world \in Worlds /\ file'[Name] \in Seq(Content) /\ Len(file'[Name]) <= N
      BY <1>4 DEF FInv, Typed
    <2>2. file'[Name] = SubSeq(Origin(Name), 1, Len(file'[Name]))
      BY <1>3, <1>4, SameWorld DEF Prefix
    <2> QED BY <1>2, <2>1, <2>2, Genuine
  <1>6. Kept(Name)' = hs'.len
    BY <1>3, <1>4, <1>5 DEF Kept, Untouched
  <1> QED BY <1>2, <1>6

LEMMA OpenImplements ==
    ASSUME Inv, FInv', Faithful, ~Backups, OpenFile
    PROVE  [Promise!DNext]_Promise!dvars
  <1>1. /\ stage = "reply" /\ stage' # "idle"
        /\ UNCHANGED <<world, job, loop, into, result, exit, kills>>
    BY DEF OpenFile, Return, ReturnWith
  <1>2. CASE CloseInvalidate /\ Return("FOPENERR") /\ UNCHANGED file
    BY <1>1, <1>2, NothingSeen
  <1>3. CASE stage' = "body"
    <2>1. /\ DOMAIN file' = DOMAIN file \cup {Name} /\ Len(file'[Name]) = hs.restval
          /\ \A n \in DOMAIN file : n # Name => file'[n] = file[n]
      BY <1>3, FileOpened
    <2>2. /\ Name \in Names /\ StateOf(Name) = Phase
          /\ Kept(Name)' = hs'.len /\ Sees(Name, Phase, hs'.len)
      BY <1>1, <1>3, <2>1, WrittenSeen
    <2>3. hs'.len = hs.restval /\ hs.restval \in 0 .. N /\ N \in Nat /\ ~req.head_only
      <3>1. hs'.len = hs.restval
        BY <1>3, HeadOpened
      <3> QED BY <1>3, <3>1, HttpAssumption
              DEF Inv, FInv, Typed, Stats, OpenFile, Return, ReturnWith, Unwanted
    <2>4. CASE hs.restval > 0
      <3>1. Name \in DOMAIN file /\ Prefix(Name) /\ Len(file[Name]) = hs.restval
        BY <1>1, <2>3, <2>4 DEF Inv, FInv, Files, Continued
      <3>2. Kept(Name) = hs.restval
        BY <3>1, WholeHas DEF Inv, Has, Kept
      <3>3. Sees(Name, StateOf(Name), Kept(Name))
        BY <2>2, <2>3, <3>2
      <3> QED BY <1>1, <2>2, <3>3, Steps
    <2>5. CASE hs.restval = 0
      <3>1. ~(world.rest /\ ~loop.full /\ Kept(Name) > 0)
        BY <1>1, <2>5 DEF Faithful, Resumed, Asking, Has, Kept
      <3>2. Sees(Name, Phase, 0)
        BY <2>2, <2>3, <2>5
      <3>3. Promise!StartOver(Name)
        BY <1>1, <2>2, <3>1, <3>2, Steps
      <3> QED BY <2>2, <3>3 DEF Promise!DNext
    <2> QED BY <2>3, <2>4, <2>5
  <1> QED BY <1>2, <1>3 DEF OpenFile

LEMMA ReadImplements ==
    ASSUME Inv, FInv', ~Backups, ReadByte
    PROVE  [Promise!DNext]_Promise!dvars
  <1>1. /\ stage = "body" /\ stage' # "idle"
        /\ UNCHANGED <<world, job, loop, into, result, exit, kills>>
    BY DEF ReadByte, Return, ReturnWith
  <1>2. CASE CloseInvalidate /\ Return("FWRITEERR") /\ UNCHANGED file
    BY <1>1, <1>2, NothingSeen
  <1>3. CASE stage' = "body"
    <2>1. /\ Name \in DOMAIN file /\ DOMAIN file' = DOMAIN file
          /\ \A n \in DOMAIN file : n # Name => file'[n] = file[n]
      BY <1>3, ByteRead, ByteWritten
    <2>2. /\ Name \in Names /\ StateOf(Name) = Phase
          /\ Kept(Name)' = hs'.len /\ Sees(Name, Phase, hs'.len)
      BY <1>1, <1>3, <2>1, WrittenSeen
    <2>3. Kept(Name) = hs.len
      <3>1. Prefix(Name) /\ Len(file[Name]) = hs.len
        BY <1>1 DEF Inv, FInv, Files, Written
      <3> QED BY <2>1, <3>1, WholeHas DEF Inv, Has, Kept
    <2>4. hs \in Stats /\ hs.len \in 0 .. N /\ N \in Nat /\ req.skip \in 0 .. N
      BY HttpAssumption DEF Inv, FInv, Typed, Stats, Reqs
    <2>5. /\ hs' = [hs EXCEPT !.len = IF req.skip > 0 THEN @ ELSE @ + 1, !.res = 1]
          /\ req.skip = 0 => hs.len \in 0 .. N - 1
      BY <1>3, ByteRead
    <2>6. CASE req.skip > 0
      <3>1. hs'.len = hs.len
        <4>1. hs' = [hs EXCEPT !.len = hs.len, !.res = 1]
          BY <2>5, <2>6
        <4> QED BY <2>4, <4>1, Counted
      <3>2. Sees(Name, StateOf(Name), Kept(Name))
        BY <2>2, <2>3, <3>1
      <3> QED BY <1>1, <2>2, <3>2, Steps
    <2>7. CASE req.skip = 0
      <3>1. hs'.len = hs.len + 1 /\ hs.len < N
        <4>1. hs' = [hs EXCEPT !.len = hs.len + 1, !.res = 1]
          BY <2>5, <2>7
        <4>2. hs.len + 1 \in 0 .. N /\ hs.len < N
          BY <2>4, <2>5, <2>7
        <4> QED BY <2>4, <4>1, <4>2, Counted
      <3>2. Sees(Name, Phase, Kept(Name) + 1) /\ Kept(Name) < N
        BY <2>2, <2>3, <3>1
      <3>3. Promise!Grow(Name)
        BY <1>1, <2>2, <3>2, Steps
      <3> QED BY <2>2, <3>3 DEF Promise!DNext
    <2> QED BY <2>4, <2>6, <2>7
  <1> QED BY <1>1, <1>2, <1>3 DEF ReadByte

LEMMA RetrieveImplements ==
    ASSUME Inv, NEW u \in Urls, RetrieveUrl(u)
    PROVE  Promise!DNext
  <1>0. PICK n \in Names : n = LocalFile(u) /\ n[1] = u
    BY NameFound DEF RetrieveUrl, Fetched
  <1>1. /\ stage = "idle" /\ stage' = "attempt" /\ result[u] = "none" /\ job'.url = u
        /\ into' = [into EXCEPT ![u] = n] /\ ~loop'.full
        /\ UNCHANGED <<world, file, result, kills>>
    BY <1>0 DEF RetrieveUrl, BeginLoop, NoLoop
  <1>2. n \in Names /\ n[1] = u /\ into \in [Urls -> Names]
    BY <1>0 DEF Inv, FInv, Typed
  <1>3. Name' = n /\ \A v \in Urls : into'[v] = IF v = u THEN n ELSE into[v]
    BY <1>1, <1>2 DEF Name
  <1>4. \A m \in Names : m[1] \in Urls /\ ~Busy(m) /\ (Busy(m)' <=> m = n)
    BY <1>1, <1>2, <1>3 DEF Names, Busy
  <1>5. StateOf(n) = "idle" /\ StateOf(n)' = "busy"
    <2>1. n[1] = u /\ into[n[1]] \in Names /\ ~Busy(n) /\ Busy(n)'
      BY <1>2, <1>4
    <2> QED BY <1>1, <2>1 DEF StateOf
  <1>6. ASSUME NEW m \in Names \ {n} PROVE StateOf(m)' = StateOf(m)
    <2>1. CASE m[1] = u
      <3>1. StateOf(m) = "idle"
        BY <1>1, <1>4, <2>1 DEF StateOf
      <3>2. StateOf(m)' = "idle"
        BY <1>3, <1>4, <2>1 DEF StateOf
      <3> QED BY <3>1, <3>2
    <2>2. CASE m[1] # u
      BY <1>1, <1>3, <1>4, <2>2 DEF StateOf
    <2> QED BY <2>1, <2>2
  <1>7. \A m : Kept(m)' = Kept(m)
    BY <1>1 DEF Kept, Untouched
  <1>8. Sees(n, "busy", Kept(n))
    BY <1>2, <1>5, <1>6, <1>7 DEF Sees
  <1>9. Promise!Start(n)
    BY <1>1, <1>2, <1>5, <1>8, Steps
  <1> QED BY <1>2, <1>9 DEF Promise!DNext

\* A redirection leads to the same file.
LEMMA FollowUnseen ==
    ASSUME Inv, Faithful, Follow
    PROVE  UNCHANGED Promise!dvars
  <1> DEFINE u == job.url
  <1>1. /\ stage = "done" /\ stage' = "attempt" /\ hs.err = "NEWLOCATION"
        /\ job'.url = u /\ into' = [into EXCEPT ![u] = LocalFile(u)] /\ loop'.full = FALSE
        /\ UNCHANGED <<world, file, result, kills>>
    BY DEF Follow, BeginLoop, NoLoop
  <1>2. /\ u \in Urls /\ into \in [Urls -> Names] /\ Name[1] = u /\ result[u] = "none"
        /\ ~Ends(job.cur) /\ Numbered /\ Overwriting
    BY <1>1 DEF Inv, ExitInv, Reported, FInv, Typed, Jobs, Files, HeadsAnswered, Name
  <1>3. ~Clobber => /\ Name \notin DOMAIN file
                    /\ \A k \in 0 .. Name[2] - 1 : <<u, k>> \in DOMAIN file
    BY <1>1, <1>2 DEF Numbered
  <1>4. /\ LocalFile(u) \in Names /\ LocalFile(u)[1] = u
        /\ Clobber => LocalFile(u) = <<u, 0>>
        /\ ~Clobber => /\ LocalFile(u) \notin DOMAIN file
                       /\ \A k \in 0 .. LocalFile(u)[2] - 1 : <<u, k>> \in DOMAIN file
    BY <1>2, <1>3, NameFound DEF Fetched
  <1>5. LocalFile(u) = Name
    <2> DEFINE a == LocalFile(u)
               b == Name
    <2>1. CASE Clobber
      BY <1>2, <1>4, <2>1 DEF Overwriting, Name
    <2>2. CASE ~Clobber
      <3>1. a \in Names /\ b \in Names /\ a[1] = u /\ b[1] = u
        BY <1>2, <1>4 DEF Name
      <3>2. /\ a \notin DOMAIN file /\ \A k \in 0 .. a[2] - 1 : <<u, k>> \in DOMAIN file
            /\ b \notin DOMAIN file /\ \A k \in 0 .. b[2] - 1 : <<u, k>> \in DOMAIN file
        BY <1>3, <1>4, <2>2
      <3> HIDE DEF a, b
      <3>3. a = <<u, a[2]>> /\ b = <<u, b[2]>> /\ a[2] \in Nat /\ b[2] \in Nat
        BY <3>1, HttpAssumption DEF Names
      <3>4. ~(a[2] < b[2]) /\ ~(b[2] < a[2])
        <4>1. a[2] < b[2] => a[2] \in 0 .. b[2] - 1
          BY <3>3
        <4>2. b[2] < a[2] => b[2] \in 0 .. a[2] - 1
          BY <3>3
        <4> QED BY <3>2, <3>3, <4>1, <4>2
      <3>5. a[2] = b[2]
        BY <3>3, <3>4
      <3> QED BY <3>3, <3>5 DEF a, b
    <2> QED BY <2>1, <2>2
  <1>6. into' = into
    BY <1>1, <1>2, <1>5 DEF Name
  <1>7. loop.full = FALSE
    BY <1>2 DEF Faithful, Renewing, Inv, FInv, Typed, Loops
  <1> QED BY <1>1, <1>6, <1>7, NothingSeen

\* An older version that is found on disk is not continued.
LEMMA VerdictImplements ==
    ASSUME Inv, Verdict
    PROVE  [Promise!DNext]_Promise!dvars
  <1>1. /\ stage = "outcome" /\ stage' \in {"attempt", "done"} /\ loop \in Loops
        /\ UNCHANGED <<world, file, job, into, result, kills>>
    BY DEF Verdict, TryFailed, Fatal, NothingToDo, ServerError, TimeStamp, Judge,
           HeadOk, Finished, Again, Done, LocalVars, Inv, FInv, Typed
  <1>2. CASE loop'.full = loop.full
    BY <1>1, <1>2, NothingSeen
  <1>3. CASE loop'.full # loop.full
    <2>1. CASE TryFailed \/ Fatal \/ NothingToDo \/ ServerError \/ Judge
      BY <1>1, <1>3, <2>1 DEF TryFailed, Fatal, NothingToDo, ServerError, Judge, Again, Done, Loops
    <2>2. CASE TimeStamp
      <3>1. PICK older \in BOOLEAN : /\ older => Name \in DOMAIN file /\ ~Newer
                                     /\ loop' = ThenGet(older) \/ UNCHANGED loop
        BY <2>2 DEF TimeStamp, Again, Done
      <3>2. ThenGet(older).full = (loop.full \/ older)
        BY <1>1, <3>1 DEF ThenGet, HeadAgain, Loops
      <3>3. older /\ ~loop.full /\ loop'.full
        BY <1>1, <1>3, <3>1, <3>2 DEF Loops
      <3>4. Kept(Name) = -1
        BY <3>1, <3>3 DEF Newer, Kept, Untouched
      <3>5. \A m : Kept(m)' = Kept(m)
        BY <1>1 DEF Kept, Untouched
      <3>6. /\ Name \in Names /\ StateOf(Name) = "busy"
            /\ \A k : Kept(Name)' = k => Sees(Name, "renewing", k)
        BY <1>1, <3>3, <3>5, Working DEF Phase
      <3>7. Name' = Name
        BY <1>1 DEF Name
      <3>8. Sees(Name, "renewing", Kept(Name))
        BY <3>5, <3>6, <3>7
      <3>9. Promise!Renew(Name)
        BY <1>1, <3>4, <3>6, <3>8, Steps
      <3> QED BY <3>6, <3>9 DEF Promise!DNext
    <2> QED BY <2>1, <2>2 DEF Verdict
  <1> QED BY <1>2, <1>3

LEMMA UrlDoneImplements ==
    ASSUME Inv, Faithful, UrlDone
    PROVE  Promise!DNext
  <1> DEFINE err == IF hs.err = "NEWLOCATION" THEN "WRONGCODE" ELSE hs.err
             s == IF err = "RETROK" THEN "complete" ELSE IF err = "ASSUMED" THEN "assumed"
                  ELSE "failed"
  <1>1. /\ stage = "done" /\ stage' = "idle" /\ result' = [result EXCEPT ![job.url] = err]
        /\ UNCHANGED <<world, file, into, kills>>
    BY DEF UrlDone
  <1>2. /\ err \in Good \cup Bad /\ job.url \in Urls /\ DOMAIN result = Urls
        /\ Name \in Names /\ Name[1] = job.url
    BY <1>1 DEF Inv, ExitInv, Reported, FInv, Typed, Jobs, Good, Bad, Name
  <1>3. err = "RETROK" => Kept(Name) = N
    <2> SUFFICES ASSUME err = "RETROK" PROVE Kept(Name) = N
      OBVIOUS
    <2>1. Whole(Name)
      BY <1>1 DEF Faithful, Completed
    <2> QED BY <2>1, WholeHas DEF Inv, Whole, Has, Kept
  <1> HIDE DEF err
  <1>4. \A m \in Names : /\ ~Busy(m)' /\ m[1] \in Urls
                         /\ Busy(m) <=> m = Name
                         /\ result'[m[1]] = IF m[1] = job.url THEN err ELSE result[m[1]]
    BY <1>1, <1>2 DEF Busy, Names
  <1>5. StateOf(Name) = Phase
    BY <1>2, <1>4 DEF StateOf, Phase
  <1>6. ASSUME NEW m \in Names, m = Name PROVE StateOf(m)' = s
    <2>1. into'[m[1]] = m /\ result'[m[1]] = err /\ ~Busy(m)'
      BY <1>1, <1>2, <1>4, <1>6 DEF Name
    <2> QED BY <1>2, <2>1 DEF StateOf, Good, Bad
  <1>7. ASSUME NEW m \in Names \ {Name} PROVE StateOf(m)' = StateOf(m)
    <2>1. CASE m[1] = job.url
      BY <1>1, <1>4, <2>1 DEF StateOf, Name
    <2>2. CASE m[1] # job.url
      BY <1>1, <1>4, <2>2 DEF StateOf
    <2> QED BY <2>1, <2>2
  <1>8. \A m : Kept(m)' = Kept(m)
    BY <1>1 DEF Kept, Untouched
  <1>9. \A n \in Names : n = Name => Sees(n, s, Kept(n))
    BY <1>6, <1>7, <1>8 DEF Sees
  <1>10. s = "complete" => Kept(Name) = N
    BY <1>3
  <1>11. s \in {"complete", "assumed", "failed"}
    OBVIOUS
  <1> HIDE DEF s
  <1>12. \A n \in Names : n = Name => Promise!End(n, s)
    BY <1>1, <1>5, <1>9, <1>10, Steps
  <1> QED BY <1>2, <1>11, <1>12 DEF Promise!DNext

LEMMA KillImplements ==
    ASSUME Inv, Kill
    PROVE  Promise!DNext
  <1>1. /\ kills < world.kills /\ kills' = kills + 1 /\ stage' = "idle"
        /\ result' = [u \in Urls |-> "none"] /\ UNCHANGED <<world, file>>
    BY DEF Kill
  <1>2. kills < MaxKills
    <2>1. world.kills \in 0 .. MaxKills /\ MaxKills \in Nat /\ kills \in 0 .. world.kills
      BY WorldsAssumption, HttpAssumption DEF Inv, FInv, Typed
    <2> QED BY <1>1, <2>1
  <1>3. \A m \in Names : StateOf(m)' = "idle"
    <2> SUFFICES ASSUME NEW m \in Names PROVE StateOf(m)' = "idle"
      OBVIOUS
    <2>1. m[1] \in Urls /\ ~Busy(m)'
      BY <1>1 DEF Names, Busy
    <2>2. result'[m[1]] = "none"
      BY <1>1, <2>1
    <2> QED BY <2>1, <2>2 DEF StateOf
  <1>4. \A m : Kept(m)' = Kept(m)
    BY <1>1 DEF Kept, Untouched
  <1>5. /\ [m \in Names |-> Kept(m)]' = [m \in Names |-> Kept(m)]
        /\ [m \in Names |-> StateOf(m)]' = [m \in Names |-> "idle"]
    BY <1>3, <1>4
  <1>6. Promise!Interrupt
    BY <1>1, <1>2, <1>5 DEF Promise!Interrupt
  <1> QED BY <1>6 DEF Promise!DNext

\* DownloadKept: Http implements Download, with a server that announces what it
\* sends.  Through all the tries, redirections and interruptions of a retrieval its
\* file only grows by bytes of the document; what is to be continued (-c) is never
\* thrown away, unless this call of wget found an older version in its place and began
\* the file anew; and a retrieval that is reported as complete left the whole document.
\* With --backups the file may have a hole (run HttpBackups), so that is left out.
THEOREM DownloadImplemented ==
    ASSUME ~Backups
    PROVE  Announces /\ Spec => DownloadKept
  <1>1. Announces /\ Init => Promise!DInit
    <2> SUFFICES ASSUME Announces, Init PROVE Promise!DInit
      OBVIOUS
    <2>1. FInv /\ stage = "idle" /\ result = [u \in Urls |-> "none"] /\ kills = 0
      BY FilesBegin DEF Init
    <2>2. ASSUME NEW m \in Names PROVE Kept(m) \in -1 .. N /\ StateOf(m) = "idle"
      <3>1. m \in DOMAIN file => Len(file[m]) \in 0 .. N
        <4> SUFFICES ASSUME m \in DOMAIN file PROVE Len(file[m]) \in 0 .. N
          OBVIOUS
        <4>1. file[m] \in Seq(Content) /\ Len(file[m]) <= N
          BY <2>1 DEF FInv, Typed
        <4> QED BY <4>1, LenProperties, HttpAssumption
      <3>2. m[1] \in Urls
        BY DEF Names
      <3> QED BY <2>1, <3>1, <3>2, HttpAssumption DEF Kept, StateOf, Busy
    <2>3. world.rest \in BOOLEAN
      BY <2>1, WorldsAssumption DEF FInv, Typed
    <2> QED BY <2>1, <2>2, <2>3 DEF Promise!DInit
  <1>2. /\ Inv /\ Faithful /\ Inv' /\ [Next]_vars => [Promise!DNext]_Promise!dvars
    <2> SUFFICES ASSUME Inv, Faithful, Inv', [Next]_vars
                 PROVE  [Promise!DNext]_Promise!dvars
      OBVIOUS
    <2>0. FInv'
      BY DEF Inv
    <2>1. CASE \E u \in Urls : RetrieveUrl(u)
      BY <2>1, RetrieveImplements
    <2>2. CASE Request
      <3>1. loop'.full = loop.full
        BY <2>2 DEF Request, Attempt, Afresh, Reuse, Connect, Send, Inv, FInv, Typed, Loops
      <3> QED BY <2>2, <3>1, NothingSeen
         DEF Request, Attempt, Afresh, Reuse, Connect, Send, Return, ReturnWith
    <2>3. CASE ReadHead \/ Unauthorized \/ Redirected \/ Unneeded \/ RangeError \/ NoBody
               \/ EndOfBody
      BY <2>3, NothingSeen
         DEF ReadHead, Unauthorized, Redirected, Unneeded, RangeError, NoBody, EndOfBody,
             Return, ReturnWith
    <2>4. CASE OpenFile \/ ReadByte
      BY <2>0, <2>4, OpenImplements, ReadImplements
    <2>5. CASE Verdict
      BY <2>5, VerdictImplements
    <2>6. CASE Follow
      BY <2>6, FollowUnseen
    <2>7. CASE UrlDone \/ Kill
      BY <2>7, UrlDoneImplements, KillImplements
    <2>8. CASE UNCHANGED vars
      BY <2>8, NothingSeen DEF vars
    <2> QED BY <2>1, <2>2, <2>3, <2>4, <2>5, <2>6, <2>7, <2>8
            DEF Next, Run, Response, Terminated
  <1>3. Announces /\ Spec => [](Inv /\ Faithful)
    BY FaithfulKept
  <1> QED BY <1>1, <1>2, <1>3, PTL DEF Spec, DownloadKept, Promise!DSpec
=============================================================================
