------------------------------- MODULE MCHttp -------------------------------
(* The calls of wget that Http is checked for. *)
EXTENDS Http

Stay == [u \in Urls |-> u]
Plain == [rest |-> FALSE, stamp |-> FALSE, tries |-> 2, args |-> <<"a", "b">>, dated |-> FALSE,
          shared |-> TRUE, moved |-> Stay, kills |-> 0, loose |-> FALSE]
One == [Plain EXCEPT !.args = <<"a">>, !.kills = MaxKills, !.tries = Ntry]

MCWorlds == {
    Plain,                                                  \* wget a b
    [Plain EXCEPT !.shared = FALSE],                        \* on two hosts
    [Plain EXCEPT !.moved["a"] = "b"],                      \* a is redirected to b
    One, [One EXCEPT !.moved = [u \in Urls |-> CHOOSE v \in Urls : v # u]],
    [One EXCEPT !.rest = TRUE],                             \* wget -c a
    [One EXCEPT !.stamp = TRUE],                            \* wget -N a
    [One EXCEPT !.stamp = TRUE, !.dated = TRUE],
    [One EXCEPT !.rest = TRUE, !.stamp = TRUE, !.dated = TRUE] }  \* wget -c -N a

LooseWorlds == { [Plain EXCEPT !.loose = TRUE] }            \* from any server
BackupWorlds == { [Plain EXCEPT !.args = <<"a">>] }         \* wget --backups a
=============================================================================
