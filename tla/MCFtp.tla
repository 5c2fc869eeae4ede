-------------------------------- MODULE MCFtp --------------------------------
(* The server and the calls of wget that Ftp is checked for. *)
EXTENDS Ftp

MCTree == [d \in {"", "d", "e"} |->
    CASE d = "" -> [files |-> <<"f">>, hidden |-> <<".h">>, dirs |-> <<"d", "e">>]
      [] d = "d" -> [files |-> <<"d/f">>, hidden |-> <<>>, dirs |-> <<>>]
      [] d = "e" -> [files |-> <<>>, hidden |-> <<>>, dirs |-> <<>>]]

Whole == [mode |-> "tree", dir |-> "", file |-> "d/f", reclevel |-> 2, rest |-> FALSE,
          stamp |-> FALSE, ftp_pasv |-> TRUE, pasv |-> TRUE, system |-> "list_a", list_a |-> TRUE]
Single == [Whole EXCEPT !.mode = "own", !.dir = "d", !.file = "d/f"]
Listing == [Single EXCEPT !.mode = "one"]

MCWorlds == {
    Whole,                                                        \* wget -r ftp://host/
    [Whole EXCEPT !.rest = TRUE, !.pasv = FALSE],                 \* -c, PASV unknown to the server
    [Whole EXCEPT !.ftp_pasv = FALSE, !.system = "unknown"],      \* --no-passive-ftp
    [Whole EXCEPT !.system = "unknown", !.list_a = FALSE],
    [Whole EXCEPT !.list_a = FALSE],                              \* its listing is empty
    [Whole EXCEPT !.stamp = TRUE, !.system = "list", !.reclevel = 1],
    Single, [Single EXCEPT !.rest = TRUE, !.ftp_pasv = FALSE],    \* wget -c ftp://host/d/f
    [Listing EXCEPT !.stamp = TRUE],                              \* wget -N ftp://host/d/f
    [Listing EXCEPT !.stamp = TRUE, !.dir = "", !.file = ".h", !.system = "list"],
    [Listing EXCEPT !.stamp = TRUE, !.dir = "e", !.file = "e/f", !.system = "unknown"] }
=============================================================================
