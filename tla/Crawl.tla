-------------------------------- MODULE Crawl --------------------------------
(***************************************************************************)
(* wget -r -k: the breadth-first retrieval of a tree of pages from each    *)
(* URL of the command line (retrieve_tree), the tables that say which file *)
(* holds which URL (register_download and its kin), and the conversion of  *)
(* the links in the end (convert_all_links).  Retrieving one URL is one    *)
(* step here: Http has its details.                                        *)
(*                                                                         *)
(* One file may be named by several URLs: u/ and u/index.html, names that  *)
(* differ in case with --restrict-file-names, names cut off for length.    *)
(***************************************************************************)
EXTENDS HashTable

CONSTANTS
    Urls,       \* the URLs, "robots" is /robots.txt
    FileOf,     \* [Urls -> paths]: url_file_name
    DirOf,      \* [paths -> the path of the directory it is in, "." at the top]
    Index,      \* [Urls -> Urls]: a URL without its /index.html or trailing slash
    Directories,\* the URLs without a file name
    Worlds      \* the calls of wget and the pages they meet: see WorldsAssumption

\* A call of wget and the web around it: the start URLs, -l, -p, whether robots.txt
\* is respected; the links of each page, in order; the URLs that are no HTML, those
\* on another host, those robots.txt forbids, where each URL is redirected (to
\* itself: it is not); the files -R rejects and the URLs it lets pass as HTML.
Link == [to : Urls, inline : BOOLEAN, html : BOOLEAN]
ASSUME WorldsAssumption ==
    Worlds \subseteq [args : Seq(Urls), reclevel : Nat, requisites : BOOLEAN, use_robots : BOOLEAN,
                      links : [Urls -> Seq(Link)], plain : SUBSET Urls, offsite : SUBSET Urls,
                      forbidden : SUBSET Urls, moved : [Urls -> Urls],
                      rejected : SUBSET STRING, html_suffix : SUBSET Urls]

ASSUME IndexAssumption == Index \in [Urls -> Urls]

VARIABLES
    world,      \* the one of Worlds this is
    stage,      \* where the program is
    tree,       \* how many of the start URLs have been begun
    queue, blacklist, status,    \* of retrieve_tree
    item,       \* the queue element being worked on
    children,   \* its links not yet looked at
    url_file,   \* dl_url_file_map
    file_url,   \* dl_file_url_map
    html_set,   \* downloaded_html_set
    robots,     \* the host's specs: "unknown", "loaded" or "dummy"
    disk,       \* [files -> what they hold]
    converted,  \* [HTML files -> where their links lead after the conversion]
    visits      \* history: the URLs taken off the queue for this tree
vars == <<world, stage, tree, queue, blacklist, status, item, children,
          url_file, file_url, html_set, robots, disk, converted, visits>>
tables == <<url_file, file_url, html_set>>

Without(f, S) == [x \in DOMAIN f \ S |-> f[x]]
With(f, x, v) == [y \in DOMAIN f \cup {x} |-> IF y = x THEN v ELSE f[y]]

\* A file is a path and a number (path.1 is the unique name when path is taken
\* by a directory); it holds the page of a URL, or the beginning of it.
Holds(u, whole) == [of |-> u, whole |-> whole]
Dir == Holds("directory", TRUE)
NoFile == <<"none", 0>>
NoItem == [url |-> "none", depth |-> 0, html |-> FALSE, file |-> NoFile,
           asked |-> "none", descend |-> FALSE]
Entry(u, depth, html) == [url |-> u, depth |-> depth, html |-> html]

Init ==
    /\ world \in Worlds
    /\ stage = "main" /\ tree = 0
    /\ queue = <<>> /\ blacklist = {} /\ status = "RETROK"
    /\ item = NoItem /\ children = <<>>
    /\ url_file = New(0) /\ file_url = <<>> /\ html_set = {}
    /\ robots = "unknown" /\ disk = <<>> /\ converted = <<>> /\ visits = {}

(***************************************************************************)
(* The tables                                                              *)
(***************************************************************************)
MatchExceptIndex(u, v) == Index[u] = Index[v]

\* Mutation: other URLs still lead to a file that was overwritten.
RegisterOnly(m, u, f) ==
    [url_file |-> Put(m.url_file, u, f), file_url |-> With(m.file_url, f, u)]

\* What the tables m are after u was retrieved into f.
RegisterDownload(m, u, f) ==
    LET known == f \in DOMAIN m.file_url
        twin == known /\ MatchExceptIndex(u, m.file_url[f]) /\ ~Contains(m.url_file, u)
        rest == IF known /\ ~twin THEN RemoveValue(m.url_file, f) ELSE m.url_file
       removed == Then(rest, LAMBDA t : Remove(t, u))
    IN IF known /\ m.file_url[f] = u THEN m
       ELSE [url_file |-> Then(removed, LAMBDA t : Put(t, u, f)),
             file_url |-> IF twin THEN m.file_url ELSE With(m.file_url, f, u)]

\* It asserts that to is registered (see MapsTrue).
RegisterRedirection(m, from, to) ==
    IF Contains(m.url_file, from) THEN m
    ELSE [m EXCEPT !.url_file = Put(@, from, Get(@, to))]

RegisterDeleteFile(f) ==
    IF f \notin DOMAIN file_url THEN UNCHANGED <<url_file, file_url>>
    ELSE file_url' = Without(file_url, {f}) /\ url_file' = RemoveValue(url_file, f)

(***************************************************************************)
(* Retrieving one URL                                                      *)
(***************************************************************************)
\* url_file_name: in a hierarchy files are overwritten, directories are not.
LocalFile(u) ==
    LET f(n) == <<FileOf[u], n>>
    IN IF f(0) \notin DOMAIN disk \/ disk[f(0)] # Dir THEN f(0)
       ELSE f(CHOOSE n \in 1 .. Cardinality(DOMAIN disk) + 1 :
                 f(n) \notin DOMAIN disk /\ \A k \in 1 .. n - 1 : f(k) \in DOMAIN disk)

\* mkalldirs: a file that has the name of the directory is removed.
MakeDirs(f) == IF DirOf[f[1]] = "." THEN disk ELSE With(disk, <<DirOf[f[1]], 0>>, Dir)

\* The page of u is saved, and its file is registered.
Registered(u) == RegisterDownload([url_file |-> url_file, file_url |-> file_url],
                                  world.moved[u], LocalFile(u))
Saved(u, whole) ==
    LET f == LocalFile(u)
    IN disk' = With(MakeDirs(f), f, Holds(Index[world.moved[u]], whole))
Retrieved(u) ==
    LET to == world.moved[u]
        all(m) == IF to = u THEN m ELSE RegisterRedirection(m, u, to)
    IN /\ Saved(u, TRUE)
       /\ \E m \in {Then(Registered(u), all)} : url_file' = m.url_file /\ file_url' = m.file_url
       /\ html_set' = IF to \in world.plain THEN html_set ELSE html_set \cup {LocalFile(u)}

\* It is not: before its file is opened, at opening it, or with a part written.
Failed(u) ==
    /\ disk' \in {disk, MakeDirs(LocalFile(u))} \/ Saved(u, FALSE)
    /\ UNCHANGED tables

(***************************************************************************)
(* retrieve_tree                                                           *)
(***************************************************************************)
BeginTree ==
    /\ stage = "main" /\ tree < Len(world.args)
    /\ tree' = tree + 1
    /\ LET start == world.args[tree + 1]
       IN queue' = <<Entry(start, 0, TRUE)>> /\ blacklist' = {start}
    /\ status' = "RETROK" /\ visits' = {} /\ stage' = "next"
    /\ UNCHANGED <<world, item, children, tables, robots, disk, converted>>

\* url_dequeue.  What is on disk already is not retrieved again, but its links
\* may lead further in this tree.
Visit(good) ==
    visits' = visits \cup {[url |-> item'.asked, depth |-> item'.depth, good |-> good]}
\* Mutation: the element stays in the queue.
TakeNot(descend, file) ==
    LET e == Head(queue)
    IN /\ item' = [url |-> e.url, depth |-> e.depth, html |-> e.html, asked |-> e.url,
                   descend |-> descend, file |-> file]
       /\ queue' = queue
Take(descend, file) ==
    LET e == Head(queue)
    IN /\ item' = [url |-> e.url, depth |-> e.depth, html |-> e.html, asked |-> e.url,
                   descend |-> descend, file |-> file]
       /\ queue' = Tail(queue)
LeadsNowhere(e) == FALSE    \* Mutation
LeadsOn(e) == e.html /\ Get(url_file, e.url) \in html_set

Dequeue ==
    /\ stage = "next" /\ status # "FWRITEERR" /\ queue # <<>>
    /\ LET e == Head(queue)
           f == Get(url_file, e.url)
       IN IF Contains(url_file, e.url)
          THEN /\ Take(LeadsOn(e), f) /\ stage' = "page"
               /\ Visit(/\ e.html /\ f \in html_set \cap DOMAIN disk
                        /\ disk[f] = Holds(Index[e.url], TRUE))
          ELSE Take(FALSE, NoFile) /\ stage' = "retrieve" /\ UNCHANGED visits
    /\ UNCHANGED <<world, tree, blacklist, status, children, tables, robots, disk, converted>>

Retrieve ==
    /\ stage = "retrieve"
    /\ \/ /\ Retrieved(item.url) /\ status' = "RETROK"
          /\ LET to == world.moved[item.url]
                 descend == item.html /\ to \notin world.plain
             IN /\ item' = [item EXCEPT !.url = to, !.descend = descend,
                                        !.file = LocalFile(item.url)]
                /\ stage' = IF descend /\ to # item.url THEN "redirected" ELSE "page"
                /\ Visit(descend /\ to = item.url)
       \/ /\ \/ Failed(item.url) /\ status' = "TRYLIMEXC"
             \/ Saved(item.url, FALSE) /\ UNCHANGED tables /\ status' = "FWRITEERR"
          /\ item' = item /\ stage' = "page" /\ Visit(FALSE)
    /\ UNCHANGED <<world, tree, queue, blacklist, children, robots, converted>>

\* download_child_p, but for robots.txt: u is on the same host and accepted.  The
\* rejection rules do not hold for directories, nor for HTML that may lead on.
Accepted(u, depth) ==
    /\ u \notin world.offsite
    /\ \/ u \in Directories
       \/ FileOf[u] \notin world.rejected
       \/ u \in world.html_suffix /\ (depth < world.reclevel - 1 \/ world.requisites)
Wanted(u) == u \notin blacklist /\ Accepted(u, item.depth)
\* Of a page at the maximal depth, with -p, only what is shown in it is followed.
Skipped(l) == item.depth >= world.reclevel /\ ~l.inline
Candidate == IF stage = "redirected" THEN item.url ELSE Head(children).to
Deciding == \/ stage = "redirected"
            \/ stage = "children" /\ children # <<>> /\ ~Skipped(Head(children))
RobotsUnknown == world.use_robots /\ robots = "unknown"
Forbidden(u) == robots = "loaded" /\ u \in world.forbidden

\* The first link to be followed needs robots.txt, which is retrieved at once; if
\* that fails it is not tried again.
LoadRobots ==
    /\ Deciding /\ Wanted(Candidate) /\ RobotsUnknown
    /\ \/ Retrieved("robots") /\ robots' = "loaded"
       \/ Failed("robots") /\ robots' = "dummy"
    /\ UNCHANGED <<world, stage, tree, queue, blacklist, status, item, children, converted, visits>>
Decided == Deciding /\ ~ (Wanted(Candidate) /\ RobotsUnknown)

\* descend_redirect_p: the new URL is judged like a link.
Redirected ==
    /\ stage = "redirected" /\ Decided
    /\ LET ok == Wanted(item.url) /\ ~Forbidden(item.url)
       IN /\ item' = [item EXCEPT !.descend = ok]
          /\ blacklist' = IF ok THEN blacklist \cup {item.asked}
                          ELSE IF Wanted(item.url) THEN blacklist \cup {item.url} ELSE blacklist
    /\ stage' = "page"
    /\ UNCHANGED <<world, tree, queue, status, children, tables, robots, disk, converted, visits>>

\* The links in a file, in order; of a part of a page some of them.
LinksIn(f) ==
    IF f \notin DOMAIN disk \/ disk[f].of \notin Urls THEN {<<>>}
    ELSE LET all == world.links[disk[f].of]
         IN IF disk[f].whole THEN {all} ELSE { SubSeq(all, 1, k) : k \in 0 .. Len(all) }

\* A page at the maximal depth leads to nothing, but with -p, and one level more.
Page ==
    /\ stage = "page"
    /\ LET leaf == item.depth >= world.reclevel
           further == /\ item.descend
                      /\ leaf => world.requisites /\ item.depth <= world.reclevel + 1
       IN children' \in IF further THEN LinksIn(item.file) ELSE {<<>>}
    /\ stage' = "children"
    /\ UNCHANGED <<world, tree, queue, blacklist, status, item, tables, robots, disk, converted, visits>>

Child ==
    /\ stage = "children" /\ children # <<>>
    /\ LET l == Head(children)
           followed == Wanted(l.to) /\ ~Skipped(l)
           ok == followed /\ ~Forbidden(l.to)
       IN /\ Decided \/ Skipped(l)
          /\ queue' = IF ok THEN Append(queue, Entry(l.to, item.depth + 1, l.html)) ELSE queue
          /\ blacklist' = IF followed THEN blacklist \cup {l.to} ELSE blacklist
    /\ children' = Tail(children)
    /\ UNCHANGED <<world, stage, tree, status, item, tables, robots, disk, converted, visits>>

\* A file that was only retrieved for its links is removed.
PageDone ==
    /\ stage = "children" /\ children = <<>>
    /\ IF item.file \in world.rejected \X {0}
       THEN /\ disk' = IF item.file \in DOMAIN disk /\ disk[item.file] # Dir
                       THEN Without(disk, {item.file}) ELSE disk
            /\ RegisterDeleteFile(item.file)
       ELSE UNCHANGED <<disk, url_file, file_url>>
    /\ item' = NoItem /\ stage' = "next"
    /\ UNCHANGED <<world, tree, queue, blacklist, status, children, html_set, robots, converted, visits>>

EndTree ==
    /\ stage = "next" /\ (queue = <<>> \/ status = "FWRITEERR")
    /\ queue' = <<>> /\ blacklist' = {}
    /\ stage' = "main"
    /\ UNCHANGED <<world, tree, status, item, children, tables, robots, disk, converted, visits>>

\* Mutation: a link leads to the file its URL names.
ConvertedByName(f) ==
    LET links == IF disk[f].of \in Urls THEN world.links[disk[f].of] ELSE <<>>
    IN [u \in { links[i].to : i \in DOMAIN links } |->
           IF Contains(url_file, u) THEN <<FileOf[u], 0>> ELSE NoFile]

\* convert_all_links: a link to what was retrieved becomes one to its file.
Converted(f) ==
    LET links == IF disk[f].of \in Urls THEN world.links[disk[f].of] ELSE <<>>
    IN [u \in { links[i].to : i \in DOMAIN links } |->
           IF Contains(url_file, u) THEN Get(url_file, u) ELSE NoFile]
Convert ==
    /\ stage = "main" /\ tree = Len(world.args)
    /\ converted' = [f \in html_set \cap DOMAIN file_url \cap DOMAIN disk |-> Converted(f)]
    /\ stage' = "over"
    /\ UNCHANGED <<world, tree, queue, blacklist, status, item, children, tables,
                   robots, disk, visits>>

Over == stage = "over"
Terminated == Over /\ UNCHANGED vars
Run == BeginTree \/ Dequeue \/ Retrieve \/ LoadRobots \/ Redirected \/ Page \/ Child
       \/ PageDone \/ EndTree \/ Convert
Next == Run \/ Terminated
Spec == Init /\ [][Next]_vars /\ WF_vars(Run)

(***************************************************************************)
(* Properties                                                              *)
(***************************************************************************)
\* The values the variables take; the hash table finds whatever is in it.
TypeOK ==
    /\ stage \in {"main", "next", "retrieve", "redirected", "page", "children", "over"}
    /\ tree \in 0 .. Len(world.args) /\ status \in {"RETROK", "TRYLIMEXC", "FWRITEERR"}
    /\ \A i \in DOMAIN queue : queue[i].url \in Urls /\ queue[i].depth \in 0 .. world.reclevel + 2
    /\ blacklist \subseteq Urls /\ \A f \in html_set : f[1] \in DOMAIN DirOf
    /\ DOMAIN file_url \subseteq DOMAIN disk
    /\ robots \in {"unknown", "loaded", "dummy"}
    /\ Sound(url_file)

\* The tables agree and tell the truth, whatever was overwritten, redirected,
\* removed or retrieved twice: a URL's file is registered as that of the page it
\* leads to ("A URL->FILE mapping is not possible without a FILE->URL mapping",
\* register_download), a registered file holds its URL's page unless a later
\* retrieval into it broke off, and a redirection's target is registered when
\* register_redirection asserts it.
MapsTrue ==
    /\ \A u \in Urls : Contains(url_file, u) =>
          /\ Get(url_file, u) \in DOMAIN file_url
          /\ Index[file_url[Get(url_file, u)]] = Index[world.moved[u]]
    /\ \A f \in DOMAIN file_url :
          disk[f].whole /\ disk[f] # Dir => disk[f].of = Index[file_url[f]]
    /\ stage = "retrieve" =>
          Then(Registered(item.url).url_file, LAMBDA t : Contains(t, world.moved[item.url]))

\* No link within the depth asked for is overlooked: whatever a page of this tree
\* links to that the user accepts was retrieved, or found on disk, one level
\* deeper at most - also when another tree retrieved the page before, "at a
\* different (possibly smaller) depth" (retrieve_tree).
NothingMissed ==
    stage = "next" /\ queue = <<>> /\ status # "FWRITEERR" =>
        \A v \in visits : v.good =>
            \A i \in DOMAIN world.links[Index[v.url]] :
                LET l == world.links[Index[v.url]][i]
                    within == \/ v.depth < world.reclevel
                              \/ world.requisites /\ l.inline /\ v.depth <= world.reclevel + 1
                IN within /\ Accepted(l.to, v.depth) /\ ~Forbidden(l.to) =>
                       \E w \in visits : w.url = l.to /\ w.depth <= v.depth + 1

\* "Local browsing works reliably" (wget.texi): in the end every page saved was
\* converted, and a link of it that leads to a file leads to the page meant.
Browsable ==
    Over => \A f \in DOMAIN disk :
        disk[f].whole /\ disk[f].of \in Urls \ world.plain =>
            /\ f \in DOMAIN converted
            /\ \A u \in DOMAIN converted[f] :
                  LET g == converted[f][u]
                  IN g # NoFile => /\ g \in DOMAIN disk
                                   /\ disk[g].whole /\ disk[g] # Dir
                                      => disk[g].of = Index[world.moved[u]]

\* The retrieval ends, with pages that link to each other.
Ends == <>Over
=============================================================================
