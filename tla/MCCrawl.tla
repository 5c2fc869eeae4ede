------------------------------- MODULE MCCrawl -------------------------------
(* The URLs, pages and calls of wget that Crawl is checked for. *)
EXTENDS Crawl

MCUrls == {"s", "d", "d/", "d/index", "d/p", "q", "Q", "robots"}
MCPrimes == <<2, 5, 11, 23>>
\* In 5 and in 11 cells most keys want the last one.
MCHash == [u \in MCUrls |-> CASE u = "q" -> 0 [] u = "s" -> 109 [] u = "d" -> 164
                              [] u = "robots" -> 4 [] OTHER -> 54]
MCIndex == [u \in MCUrls |-> IF u \in {"d", "d/index"} THEN "d/" ELSE u]
MCFileOf == [u \in MCUrls |-> CASE u = "Q" -> "q" [] u = "d/" -> "d/index" [] OTHER -> u]
MCDirOf == [p \in { MCFileOf[u] : u \in MCUrls } |-> IF p \in {"d/index", "d/p"} THEN "d" ELSE "."]
MCDirectories == {"d/"}

A(u) == [to |-> u, inline |-> FALSE, html |-> TRUE]      \* <a href=u>
Img(u) == [to |-> u, inline |-> TRUE, html |-> FALSE]    \* <img src=u>
Frame(u) == [to |-> u, inline |-> TRUE, html |-> TRUE]   \* <frame src=u>

Pages(s, d, p, q, Q) ==
    [u \in MCUrls |-> CASE u = "s" -> s [] u = "d/" -> d [] u = "d/p" -> p
                        [] u = "q" -> q [] u = "Q" -> Q [] OTHER -> <<>>]
Base == [args |-> <<"s">>, reclevel |-> 2, requisites |-> FALSE, use_robots |-> FALSE,
         links |-> Pages(<<>>, <<>>, <<>>, <<>>, <<>>), plain |-> {"robots"},
         offsite |-> {}, forbidden |-> {}, moved |-> [u \in MCUrls |-> u],
         rejected |-> {}, html_suffix |-> {}]

\* wget -p -l 1 s q, with every choice of these links.
Choices == {A("d"), Frame("d/"), Img("Q"), A("Q")}
Family == { [Base EXCEPT !.args = <<"s", "q">>, !.reclevel = 1, !.requisites = TRUE,
                         !.links = Pages(<<a, b>>, <<A("d/p")>>, <<>>, <<c>>, <<>>),
                         !.moved["d"] = "d/"] :
            a \in Choices, b \in Choices \cup {A("q")}, c \in Choices }

MCWorlds == Family \cup {
    \* q and Q are saved in one file, d/ and d/index are one page.
    [Base EXCEPT !.links = Pages(<<A("q"), A("d/"), A("Q")>>, <<A("q"), A("s")>>, <<>>,
                                 <<A("Q"), A("d/index")>>, <<A("q"), A("d/p")>>)],
    \* The image Q may overwrite the page q; d is a directory when the page d comes.
    [Base EXCEPT !.links = Pages(<<A("q"), Img("Q"), A("d/p")>>, <<>>, <<A("d")>>, <<A("d/p")>>, <<>>),
                 !.plain = {"robots", "Q"}, !.moved["d"] = "q"],
    \* d is redirected to d/ and saved in a file, then d/ becomes a directory.
    [Base EXCEPT !.links = Pages(<<A("d"), A("q"), A("d/index")>>, <<A("d/p"), A("d")>>, <<A("q")>>,
                                 <<A("d/")>>, <<>>),
                 !.moved["d"] = "d/"],
    \* wget -l 1 s q: q is at depth 1 first, and then at depth 0.
    [Base EXCEPT !.args = <<"s", "q">>, !.reclevel = 1,
                 !.links = Pages(<<A("q"), A("d/p")>>, <<>>, <<A("d/")>>, <<A("d/p"), A("d")>>, <<>>),
                 !.moved["d"] = "s"],
    \* wget -p -l 1 -R q: q leads on although it is rejected; robots.txt forbids d/p,
    \* and d leads to another host.
    [Base EXCEPT !.args = <<"s", "d/">>, !.reclevel = 1, !.requisites = TRUE, !.use_robots = TRUE,
                 !.links = Pages(<<A("d/p"), A("q"), Frame("d")>>, <<Img("d/p"), A("q")>>, <<>>,
                                 <<Frame("d/index"), Img("Q"), A("s")>>, <<>>),
                 !.plain = {"robots", "Q"}, !.forbidden = {"d/p"}, !.offsite = {"Q"},
                 !.moved["d"] = "Q", !.rejected = {"q"}, !.html_suffix = {"q", "d/index"}] }
=============================================================================
