----------------------------- MODULE CrawlProofs -----------------------------
(***************************************************************************)
(* wget -r overlooks no link, whatever the web, the call, the tables and   *)
(* what is on disk.                                                        *)
(*                                                                         *)
(* The argument is that of a breadth-first search.  The queue is in order  *)
(* of depth, and is never more than one level deep (Ordered).  So whatever *)
(* has been blacklisted is at most one level below the page being worked   *)
(* on (Blacklisted), which is why a link may be skipped for being in the   *)
(* blacklist: it was, or will be, taken off the queue at a depth that is   *)
(* small enough for its own links (Followed).                              *)
(*                                                                         *)
(* Of the hash tables nothing is used: what dl_url_file_map may say wrong  *)
(* could only cost a page its links, and then that page is not good.       *)
(***************************************************************************)
EXTENDS Crawl, SequenceTheorems, TLAPS

Stages  == {"main", "next", "retrieve", "redirected", "page", "children", "over"}
Working == {"retrieve", "redirected", "page", "children"}
Element == [url : Urls, depth : Nat, html : BOOLEAN]

IsItem == /\ item = [url |-> item.url, depth |-> item.depth, html |-> item.html,
                     asked |-> item.asked, descend |-> item.descend, file |-> item.file]
          /\ item.url \in Urls /\ item.asked \in Urls /\ item.depth \in Nat
Typed == /\ world \in Worlds
         /\ stage \in Stages /\ tree \in Nat
         /\ queue \in Seq(Element)
         /\ children \in Seq(Link)
         /\ \A v \in visits : v.url \in Urls /\ v.depth \in Nat
         /\ stage \in Working => IsItem
         /\ stage = "retrieve" => item.asked = item.url
         /\ stage = "redirected" =>
              \E v \in visits : v.url = item.asked /\ v.depth = item.depth

(* The depth the search has come to.                                       *)
Front == IF stage = "next" THEN queue[1].depth ELSE item.depth
Busy  == stage \in Working \/ (stage = "next" /\ queue # <<>>)
Ordered ==
    Busy => /\ \A i \in DOMAIN queue : Front <= queue[i].depth /\ queue[i].depth <= Front + 1
            /\ \A i, j \in DOMAIN queue : i < j => queue[i].depth <= queue[j].depth

(* u is forbidden, or was or will be taken off the queue at depth d or less. *)
Settled(u, d) ==
    \/ Forbidden(u)
    \/ \E w \in visits : w.url = u /\ w.depth <= d
    \/ \E i \in DOMAIN queue : queue[i].url = u /\ queue[i].depth <= d
    \/ stage = "retrieve" /\ item.asked = u /\ item.depth <= d
Blacklisted == Busy => \A u \in blacklist : Settled(u, Front + 1)

LinkTo(v, l) == \E i \in DOMAIN world.links[Index[v.url]] : world.links[Index[v.url]][i] = l
Within(v, l) == /\ \/ v.depth < world.reclevel
                   \/ world.requisites /\ l.inline /\ v.depth <= world.reclevel + 1
                /\ Accepted(l.to, v.depth)

(* The page v is the one being worked on, and l is still to be looked at.  *)
Pending(v, l) ==
    /\ item.url = v.url /\ item.depth = v.depth
    /\ \/ /\ stage = "page" /\ item.descend
          /\ item.file \in DOMAIN disk /\ disk[item.file] = Holds(Index[v.url], TRUE)
       \/ stage = "children" /\ \E j \in DOMAIN children : children[j] = l
Followed ==
    stage \notin {"main", "over"} =>
        \A v \in visits : v.good =>
            \A l \in Link : LinkTo(v, l) /\ Within(v, l) => Settled(l.to, v.depth + 1) \/ Pending(v, l)

IInv == Typed /\ Ordered /\ Blacklisted /\ Followed
------------------------------------------------------------------------------
LEMMA WorldIs ==
  ASSUME world \in Worlds
  PROVE  /\ world.args \in Seq(Urls) /\ world.reclevel \in Nat
         /\ world.links \in [Urls -> Seq(Link)] /\ world.moved \in [Urls -> Urls]
  BY WorldsAssumption

LEMMA LinksAre ==
  ASSUME Typed, NEW v, v.url \in Urls, NEW l, LinkTo(v, l)
  PROVE  l \in Link /\ l.to \in Urls
<1>1. Index[v.url] \in Urls /\ world.links[Index[v.url]] \in Seq(Link)
  BY IndexAssumption, WorldIs DEF Typed
<1>2. l \in Link
  BY <1>1 DEF LinkTo
<1> QED BY <1>2 DEF Link

(* What Dequeue and Retrieve do to the item and the visits.                *)
LEMMA DequeueMoves ==
  ASSUME Typed, Dequeue
  PROVE  /\ stage = "next" /\ queue # <<>> /\ stage' \in {"retrieve", "page"}
         /\ queue[1] \in Element /\ queue' = Tail(queue)
         /\ UNCHANGED <<world, tree, blacklist, status, children, tables, robots, disk, converted>>
         /\ IsItem' /\ item'.asked = queue[1].url /\ item'.url = queue[1].url
         /\ item'.depth = queue[1].depth
         /\ stage' = "retrieve" => visits' = visits
         /\ stage' = "page" =>
              \E g \in BOOLEAN :
                /\ visits' = visits \cup {[url |-> queue[1].url, depth |-> queue[1].depth, good |-> g]}
                /\ g => /\ item'.descend /\ item'.file \in DOMAIN disk
                        /\ disk[item'.file] = Holds(Index[queue[1].url], TRUE)
<1>1. queue[1] \in Element /\ Head(queue) = queue[1] /\ queue # <<>> /\ stage = "next"
  BY HeadTailProperties DEF Typed, Dequeue
<1>2. PICK d, f : Take(d, f)
  BY DEF Dequeue
<1>3. /\ item' = [url |-> queue[1].url, depth |-> queue[1].depth, html |-> queue[1].html,
                  asked |-> queue[1].url, descend |-> d, file |-> f]
      /\ queue' = Tail(queue)
  BY <1>1, <1>2 DEF Take
<1>4. /\ item'.url = queue[1].url /\ item'.depth = queue[1].depth /\ item'.html = queue[1].html
      /\ item'.asked = queue[1].url /\ item'.descend = d /\ item'.file = f
  BY <1>3
<1>5. IsItem'
  <2>1. queue[1].url \in Urls /\ queue[1].depth \in Nat
    BY <1>1 DEF Element
  <2> QED BY <1>3, <1>4, <2>1 DEF IsItem
<1>6. CASE Contains(url_file, queue[1].url)
  <2> DEFINE e == queue[1]
             file == Get(url_file, e.url)
             G == /\ e.html /\ file \in html_set \cap DOMAIN disk
                  /\ disk[file] = Holds(Index[e.url], TRUE)
  <2>1. Take(LeadsOn(e), file) /\ stage' = "page" /\ Visit(G)
    BY <1>1, <1>6 DEF Dequeue
  <2>2. item'.descend = LeadsOn(e) /\ item'.file = file
    BY <2>1 DEF Take
  <2>3. G => item'.descend /\ item'.file \in DOMAIN disk /\ disk[item'.file] = Holds(Index[e.url], TRUE)
    BY <2>2 DEF LeadsOn
  <2>4. visits' = visits \cup {[url |-> e.url, depth |-> e.depth, good |-> G]}
    BY <1>4, <2>1 DEF Visit
  <2>5. G \in BOOLEAN
    OBVIOUS
  <2> HIDE DEF G
  <2>6. stage' = "page"
    BY <2>1
  <2> QED BY <1>1, <1>3, <1>4, <1>5, <2>3, <2>4, <2>5, <2>6 DEF Dequeue
<1>7. CASE ~Contains(url_file, queue[1].url)
  <2>1. stage' = "retrieve" /\ visits' = visits
    BY <1>1, <1>7 DEF Dequeue
  <2> QED BY <1>1, <1>3, <1>4, <1>5, <2>1 DEF Dequeue
<1> QED BY <1>6, <1>7

LEMMA RetrieveMoves ==
  ASSUME Typed, Retrieve
  PROVE  /\ stage = "retrieve" /\ stage' \in {"redirected", "page"}
         /\ UNCHANGED <<world, tree, queue, blacklist, children, robots, converted>>
         /\ IsItem /\ IsItem' /\ item'.asked = item.asked /\ item'.depth = item.depth
         /\ \E g \in BOOLEAN :
              /\ visits' = visits \cup {[url |-> item.asked, depth |-> item.depth, good |-> g]}
              /\ g => /\ stage' = "page" /\ item'.descend /\ item'.url = item.url
                      /\ item'.file \in DOMAIN disk'
                      /\ disk'[item'.file] = Holds(Index[item.url], TRUE)
<1>1. IsItem /\ stage = "retrieve" /\ world.moved[item.url] \in Urls
  BY WorldIs DEF Typed, Retrieve, IsItem, Working
<1>2. UNCHANGED <<world, tree, queue, blacklist, children, robots, converted>>
  BY DEF Retrieve
<1>3. CASE Retrieved(item.url) /\ status' = "RETROK"
           /\ LET to == world.moved[item.url]
                  descend == item.html /\ to \notin world.plain
              IN /\ item' = [item EXCEPT !.url = to, !.descend = descend,
                                         !.file = LocalFile(item.url)]
                 /\ stage' = IF descend /\ to # item.url THEN "redirected" ELSE "page"
                 /\ Visit(descend /\ to = item.url)
  <2> DEFINE to == world.moved[item.url]
             descend == item.html /\ to \notin world.plain
             file == LocalFile(item.url)
             G == descend /\ to = item.url
  <2>1. /\ item' = [item EXCEPT !.url = to, !.descend = descend, !.file = file]
        /\ stage' = IF descend /\ to # item.url THEN "redirected" ELSE "page"
        /\ Visit(G)
    BY <1>3
  <2>2. disk' = With(MakeDirs(file), file, Holds(Index[to], TRUE))
    BY <1>3 DEF Retrieved, Saved
  <2>3. file \in DOMAIN disk' /\ disk'[file] = Holds(Index[to], TRUE)
    BY <2>2 DEF With
  <2>4. to \in Urls /\ G \in BOOLEAN
    BY <1>1
  <2> HIDE DEF file, to, descend
  <2>5. item' = [url |-> to, depth |-> item.depth, html |-> item.html,
                 asked |-> item.asked, descend |-> descend, file |-> file]
    BY <1>1, <2>1 DEF IsItem
  <2>6. /\ item'.url = to /\ item'.depth = item.depth /\ item'.html = item.html
        /\ item'.asked = item.asked /\ item'.descend = descend /\ item'.file = file
    BY <2>5
  <2>7. IsItem'
    BY <1>1, <2>4, <2>5, <2>6 DEF IsItem
  <2>8. G => stage' = "page" /\ item'.descend /\ item'.url = item.url /\ to = item.url
    BY <2>1, <2>6
  <2> HIDE DEF G
  <2>9. visits' = visits \cup {[url |-> item.asked, depth |-> item.depth, good |-> G]}
    BY <2>1, <2>6 DEF Visit
  <2>10. stage' \in {"redirected", "page"}
    BY <2>1
  <2> QED BY <1>1, <1>2, <2>3, <2>4, <2>6, <2>7, <2>8, <2>9, <2>10
<1>4. CASE item' = item /\ stage' = "page" /\ Visit(FALSE)
  <2>1. visits' = visits \cup {[url |-> item.asked, depth |-> item.depth, good |-> FALSE]}
    BY <1>4 DEF Visit
  <2>2. IsItem'
    BY <1>1, <1>4 DEF IsItem
  <2> QED BY <1>1, <1>2, <1>4, <2>1, <2>2
<1> QED BY <1>3, <1>4 DEF Retrieve

LEMMA TypedStep == Typed /\ [Next]_vars => Typed'
<1> SUFFICES ASSUME Typed, [Next]_vars PROVE Typed'
  OBVIOUS
<1>t. /\ world \in Worlds /\ stage \in Stages /\ tree \in Nat
      /\ queue \in Seq(Element) /\ children \in Seq(Link)
      /\ \A v \in visits : v.url \in Urls /\ v.depth \in Nat
      /\ stage \in Working => IsItem
      /\ stage = "retrieve" => item.asked = item.url
      /\ stage = "redirected" =>
           \E v \in visits : v.url = item.asked /\ v.depth = item.depth
  BY DEF Typed
<1>w. /\ world.args \in Seq(Urls) /\ world.reclevel \in Nat
      /\ world.links \in [Urls -> Seq(Link)] /\ world.moved \in [Urls -> Urls]
  BY <1>t, WorldIs
<1> USE DEF Stages, Working
<1>1. CASE UNCHANGED vars \/ Terminated
  BY <1>t, <1>1 DEF vars, IsItem, Terminated, Typed
<1>2. CASE BeginTree
  <2>1. world.args[tree + 1] \in Urls
    BY <1>t, <1>w, <1>2 DEF BeginTree
  <2> QED BY <1>t, <1>2, <2>1 DEF BeginTree, Entry, Element, Typed
<1>3. CASE Dequeue
  <2>1. Tail(queue) \in Seq(Element) /\ queue[1].url \in Urls /\ queue[1].depth \in Nat
    BY <1>t, <1>3, DequeueMoves, HeadTailProperties DEF Element
  <2>2. \A v \in visits' : v \in visits \/ (v.url = queue[1].url /\ v.depth = queue[1].depth)
    <3>1. CASE stage' = "retrieve"
      BY <1>3, <3>1, DequeueMoves
    <3>2. CASE stage' = "page"
      <4>1. PICK g \in BOOLEAN :
              visits' = visits \cup {[url |-> queue[1].url, depth |-> queue[1].depth, good |-> g]}
        BY <1>3, <3>2, DequeueMoves
      <4> QED BY <4>1
    <3> QED BY <1>3, <3>1, <3>2, DequeueMoves
  <2>3. UNCHANGED <<world, tree, children>> /\ queue' = Tail(queue) /\ IsItem'
        /\ item'.asked = item'.url
        /\ stage' \in {"retrieve", "page"}
    BY <1>3, DequeueMoves
  <2> QED BY <1>t, <2>1, <2>2, <2>3 DEF Typed
<1>4. CASE Retrieve
  <2>1. /\ \A v \in visits' : v \in visits \/ (v.url = item.asked /\ v.depth = item.depth)
        /\ \E v \in visits' : v.url = item.asked /\ v.depth = item.depth
    <3>1. PICK g \in BOOLEAN :
            visits' = visits \cup {[url |-> item.asked, depth |-> item.depth, good |-> g]}
      BY <1>4, RetrieveMoves
    <3> DEFINE v == [url |-> item.asked, depth |-> item.depth, good |-> g]
    <3>2. v \in visits' /\ v.url = item.asked /\ v.depth = item.depth
      BY <3>1
    <3> QED BY <3>1, <3>2
  <2>2. UNCHANGED <<world, tree, queue, children>> /\ IsItem /\ IsItem'
        /\ item'.asked = item.asked /\ item'.depth = item.depth
        /\ stage' \in {"redirected", "page"}
    BY <1>4, RetrieveMoves
  <2>3. item.asked \in Urls /\ item.depth \in Nat
    BY <2>2 DEF IsItem
  <2> QED BY <1>t, <2>1, <2>2, <2>3 DEF Typed
<1>5. CASE LoadRobots
  BY <1>t, <1>5 DEF LoadRobots, IsItem, Typed
<1>6. CASE Redirected
  BY <1>t, <1>6 DEF Redirected, IsItem, Typed
<1>7. CASE Page
  <2>1. \A links \in LinksIn(item.file) : links \in Seq(Link)
    <3>1. ASSUME NEW s \in Seq(Link), NEW k \in 0 .. Len(s) PROVE SubSeq(s, 1, k) \in Seq(Link)
      BY <3>1, SubSeqProperties
    <3>2. \A u \in Urls : world.links[u] \in Seq(Link)
      BY <1>w
    <3>3. <<>> \in Seq(Link)
      OBVIOUS
    <3>4. CASE item.file \notin DOMAIN disk \/ disk[item.file].of \notin Urls
      BY <3>3, <3>4 DEF LinksIn
    <3>5. CASE ~(item.file \notin DOMAIN disk \/ disk[item.file].of \notin Urls)
      <4> DEFINE all == world.links[disk[item.file].of]
      <4>1. LinksIn(item.file) = IF disk[item.file].whole THEN {all} ELSE {SubSeq(all, 1, k) : k \in 0 .. Len(all)}
        BY <3>5 DEF LinksIn
      <4>2. all \in Seq(Link)
        BY <3>2, <3>5
      <4> HIDE DEF all
      <4> QED BY <3>1, <4>1, <4>2
    <3> QED BY <3>4, <3>5
  <2>2. <<>> \in Seq(Link)
    OBVIOUS
  <2>3. children' \in Seq(Link) /\ UNCHANGED <<world, tree, queue, visits, item>>
        /\ stage = "page" /\ stage' = "children"
    BY <1>7, <2>1, <2>2 DEF Page
  <2> QED BY <1>t, <2>3 DEF IsItem, Typed
<1>8. CASE Child
  <2>1. Head(children) \in Link /\ Tail(children) \in Seq(Link)
    BY <1>t, <1>8 DEF Child
  <2>2. IsItem' /\ Entry(Head(children).to, item.depth + 1, Head(children).html) \in Element
    BY <1>t, <1>8, <2>1 DEF Child, IsItem, Entry, Element, Link
  <2> QED BY <1>t, <1>8, <2>1, <2>2 DEF Child, Typed
<1>9. CASE PageDone
  <2>1. UNCHANGED <<world, tree, queue, children, visits>> /\ stage' = "next"
    BY <1>9 DEF PageDone
  <2> QED BY <1>t, <2>1 DEF Typed
<1>10. CASE EndTree \/ Convert
  <2>1. <<>> \in Seq(Element)
    OBVIOUS
  <2>2. UNCHANGED <<world, tree, children, visits>> /\ stage' \in {"main", "over"}
        /\ (queue' = queue \/ queue' = <<>>)
    BY <1>10 DEF EndTree, Convert
  <2> QED BY <1>t, <2>1, <2>2 DEF Typed
<1> QED BY <1>1, <1>2, <1>3, <1>4, <1>5, <1>6, <1>7, <1>8, <1>9, <1>10 DEF Next, Run
------------------------------------------------------------------------------
(* The queue stays in order of depth.                                      *)
LEMMA OrderedStep == Typed /\ Ordered /\ [Next]_vars => Ordered'
<1> SUFFICES ASSUME Typed, Ordered, [Next]_vars PROVE Ordered'
  OBVIOUS
<1>t. /\ world \in Worlds /\ stage \in Stages /\ queue \in Seq(Element) /\ children \in Seq(Link)
      /\ stage \in Working => IsItem /\ item.depth \in Nat
      /\ \A i \in DOMAIN queue : queue[i].depth \in Nat
  <2>1. \A i \in DOMAIN queue : queue[i] \in Element
    BY DEF Typed
  <2> QED BY <2>1 DEF Typed, Element, IsItem
<1> USE DEF Working
<1>1. ASSUME queue' = queue, Busy' => Busy, Busy' => Front' = Front PROVE Ordered'
  BY <1>1 DEF Ordered
<1>2. CASE UNCHANGED vars \/ Terminated
  BY <1>1, <1>2 DEF vars, Terminated, Front, Busy
<1>3. CASE BeginTree
  <2>1. queue' = <<Entry(world.args[tree + 1], 0, TRUE)>> /\ stage' = "next"
    BY <1>3 DEF BeginTree
  <2>2. DOMAIN queue' = {1} /\ Front' = 0 /\ queue'[1].depth = 0
    BY <2>1 DEF Entry, Front
  <2> QED BY <2>2 DEF Ordered
<1>4. CASE Dequeue
  <2>1. /\ stage = "next" /\ queue # <<>> /\ queue' = Tail(queue) /\ Front = queue[1].depth
        /\ Front' = queue[1].depth
    BY <1>4, DequeueMoves DEF Front
  <2>2. DOMAIN queue' = 1 .. Len(queue) - 1 /\ \A i \in DOMAIN queue' : queue'[i] = queue[i + 1]
    BY <1>t, <2>1, HeadTailProperties
  <2>3. \A i \in DOMAIN queue' : i + 1 \in DOMAIN queue
    BY <1>t, <2>2
  <2> QED BY <1>t, <2>1, <2>2, <2>3 DEF Ordered, Busy
<1>5. CASE Retrieve
  <2>1. queue' = queue /\ stage = "retrieve" /\ stage' # "next" /\ item'.depth = item.depth
    BY <1>5, RetrieveMoves
  <2> QED BY <1>1, <2>1 DEF Front, Busy
<1>6. CASE LoadRobots
  BY <1>1, <1>6 DEF LoadRobots, Front, Busy
<1>7. CASE Redirected
  <2>1. queue' = queue /\ stage = "redirected" /\ stage' = "page"
    BY <1>7 DEF Redirected
  <2>2. item'.depth = item.depth
    BY <1>t, <1>7 DEF Redirected, IsItem
  <2> QED BY <1>1, <2>1, <2>2 DEF Front, Busy
<1>8. CASE Page
  BY <1>1, <1>8 DEF Page, Front, Busy
<1>9. CASE Child
  <2>1. /\ stage = "children" /\ UNCHANGED <<stage, item>>
        /\ \/ queue' = queue
           \/ \E u, html : queue' = Append(queue, Entry(u, item.depth + 1, html))
    BY <1>9 DEF Child
  <2>2. CASE queue' = queue
    BY <1>1, <2>1, <2>2 DEF Front, Busy
  <2>3. ASSUME NEW u, NEW html, queue' = Append(queue, Entry(u, item.depth + 1, html))
        PROVE  Ordered'
    <3> DEFINE e == Entry(u, item.depth + 1, html)
    <3>1. DOMAIN queue' = 1 .. Len(queue) + 1 /\ DOMAIN queue = 1 .. Len(queue) /\ Len(queue) \in Nat
          /\ queue'[Len(queue) + 1] = e /\ \A i \in DOMAIN queue : queue'[i] = queue[i]
      BY <1>t, <2>3
    <3>2. e.depth = item.depth + 1 /\ Front = item.depth /\ Front' = item.depth
          /\ item.depth \in Nat
      BY <1>t, <2>1 DEF Entry, Front
    <3>3. \A i \in DOMAIN queue : Front <= queue[i].depth /\ queue[i].depth <= Front + 1
      BY <2>1 DEF Ordered, Busy
    <3>4. \A i, j \in DOMAIN queue : i < j => queue[i].depth <= queue[j].depth
      BY <2>1 DEF Ordered, Busy
    <3> HIDE DEF e
    <3> QED BY <1>t, <3>1, <3>2, <3>3, <3>4 DEF Ordered
  <2> QED BY <2>1, <2>2, <2>3
<1>10. CASE PageDone
  <2>1. stage = "children" /\ stage' = "next" /\ queue' = queue /\ Front = item.depth
    BY <1>10 DEF PageDone, Front
  <2>2. CASE queue = <<>>
    BY <2>1, <2>2 DEF Ordered, Busy
  <2>3. CASE queue # <<>>
    <3>1. 1 \in DOMAIN queue /\ Front' = queue[1].depth /\ DOMAIN queue = 1 .. Len(queue)
      BY <1>t, <2>1, <2>3, EmptySeq DEF Front
    <3>2. \A i \in DOMAIN queue : queue[1].depth <= queue[i].depth
      BY <1>t, <2>1, <3>1 DEF Ordered, Busy
    <3> QED BY <1>t, <2>1, <3>1, <3>2 DEF Ordered, Busy
  <2> QED BY <2>2, <2>3
<1>11. CASE EndTree \/ Convert
  BY <1>11 DEF EndTree, Convert, Ordered, Busy
<1> QED BY <1>2, <1>3, <1>4, <1>5, <1>6, <1>7, <1>8, <1>9, <1>10, <1>11 DEF Next, Run
------------------------------------------------------------------------------
LEMMA SettledDeeper ==
  ASSUME Typed, NEW u, NEW d \in Nat, NEW e \in Nat, d <= e, Settled(u, d)
  PROVE  Settled(u, e)
<1>1. \A i \in DOMAIN queue : queue[i].depth \in Nat
  <2>1. \A i \in DOMAIN queue : queue[i] \in Element
    BY DEF Typed
  <2> QED BY <2>1 DEF Element
<1>2. \A w \in visits : w.depth \in Nat
  BY DEF Typed
<1>3. stage = "retrieve" => item.depth \in Nat
  BY DEF Typed, Working, IsItem
<1> QED BY <1>1, <1>2, <1>3 DEF Settled

(* What is settled stays so until the tree ends: an element that is taken  *)
(* off the queue is visited, and robots.txt is loaded once.                *)
LEMMA SettledStays ==
  ASSUME Typed, [Next]_vars, ~BeginTree, ~EndTree
  PROVE  \A u, d : Settled(u, d) => Settled(u, d)'
<1> SUFFICES ASSUME NEW u, NEW d, Settled(u, d) PROVE Settled(u, d)'
  OBVIOUS
<1> USE DEF Settled
<1>1. ASSUME UNCHANGED <<world, queue, visits>>, Forbidden(u) => Forbidden(u)',
             stage = "retrieve" => UNCHANGED <<stage, item>>
      PROVE  Settled(u, d)'
  BY <1>1
<1>2. CASE UNCHANGED vars \/ Terminated
  BY <1>2 DEF vars, Terminated, Forbidden
<1>3. CASE Dequeue
  <2>1. /\ stage = "next" /\ queue # <<>> /\ queue' = Tail(queue) /\ UNCHANGED <<world, robots>>
        /\ item'.asked = queue[1].url /\ item'.depth = queue[1].depth /\ stage' \in {"retrieve", "page"}
    BY <1>3, DequeueMoves
  <2>2. visits \subseteq visits'
    BY <1>3, DequeueMoves
  <2>3. CASE queue[1].url = u /\ queue[1].depth <= d
    <3>1. CASE stage' = "retrieve"
      BY <2>1, <2>3, <3>1
    <3>2. CASE stage' = "page"
      <4>1. PICK g \in BOOLEAN :
              visits' = visits \cup {[url |-> queue[1].url, depth |-> queue[1].depth, good |-> g]}
        BY <1>3, <3>2, DequeueMoves
      <4> DEFINE w == [url |-> queue[1].url, depth |-> queue[1].depth, good |-> g]
      <4>2. w \in visits' /\ w.url = u /\ w.depth <= d
        BY <2>3, <4>1
      <4> QED BY <4>2
    <3> QED BY <2>1, <3>1, <3>2
  <2>4. ASSUME NEW i \in DOMAIN queue, i # 1, queue[i].url = u, queue[i].depth <= d
        PROVE  Settled(u, d)'
    <3>1. queue \in Seq(Element) /\ i \in 1 .. Len(queue) /\ Len(queue) \in Nat
      BY DEF Typed
    <3>2. i - 1 \in DOMAIN queue' /\ queue'[i - 1] = queue[i]
      BY <2>1, <2>4, <3>1, HeadTailProperties
    <3> QED BY <2>4, <3>2
  <2>5. Forbidden(u) => Forbidden(u)'
    BY <2>1 DEF Forbidden
  <2> QED BY <2>1, <2>2, <2>3, <2>4, <2>5
<1>4. CASE Retrieve
  <2>1. UNCHANGED <<world, queue, robots>>
    BY <1>4, RetrieveMoves
  <2>2. PICK g \in BOOLEAN :
          visits' = visits \cup {[url |-> item.asked, depth |-> item.depth, good |-> g]}
    BY <1>4, RetrieveMoves
  <2> DEFINE w == [url |-> item.asked, depth |-> item.depth, good |-> g]
  <2>3. w \in visits' /\ w.url = item.asked /\ w.depth = item.depth
    BY <2>2
  <2> QED BY <2>1, <2>2, <2>3 DEF Forbidden
<1>5. CASE LoadRobots
  <2>1. UNCHANGED <<world, queue, visits, stage, item>> /\ robots = "unknown"
    BY <1>5 DEF LoadRobots, RobotsUnknown
  <2> QED BY <1>1, <2>1 DEF Forbidden
<1>6. CASE Redirected \/ Page \/ PageDone \/ Convert
  BY <1>1, <1>6 DEF Redirected, Page, PageDone, Convert, Forbidden
<1>7. CASE Child
  <2>1. /\ UNCHANGED <<world, visits, robots, stage, item>>
        /\ queue' = queue \/ \E e : queue' = Append(queue, e)
    BY <1>7 DEF Child
  <2>2. queue \in Seq(Element)
    BY DEF Typed
  <2>3. \A i \in DOMAIN queue : i \in DOMAIN queue' /\ queue'[i] = queue[i]
    BY <2>1, <2>2
  <2> QED BY <2>1, <2>3 DEF Forbidden
<1> QED BY <1>2, <1>3, <1>4, <1>5, <1>6, <1>7 DEF Next, Run

LEMMA BlacklistedStep == Typed /\ Ordered /\ Blacklisted /\ [Next]_vars => Blacklisted'
<1> SUFFICES ASSUME Typed, Ordered, Blacklisted, [Next]_vars PROVE Blacklisted'
  OBVIOUS
<1>t. queue \in Seq(Element) /\ (stage \in Working => IsItem /\ item.depth \in Nat)
      /\ Typed'
  BY TypedStep DEF Typed, IsItem
<1> USE DEF Working
<1>1. ASSUME NEW low \in Nat, NEW high \in Nat, low <= high, ~BeginTree, ~EndTree,
             Busy, Front = low, Front' = high,
             \A u \in blacklist' \ blacklist : Settled(u, high + 1)'
      PROVE  Blacklisted'
  <2>1. ASSUME NEW u \in blacklist PROVE Settled(u, high + 1)'
    <3>1. Settled(u, low + 1)
      BY <1>1 DEF Blacklisted
    <3>2. Settled(u, high + 1)
      BY <1>1, <3>1, SettledDeeper
    <3> QED BY <1>1, <3>2, SettledStays
  <2>2. \A u \in blacklist' : Settled(u, high + 1)'
    BY <1>1, <2>1
  <2> QED BY <1>1, <2>2 DEF Blacklisted, Settled
<1>2. ASSUME ~BeginTree, ~EndTree, Busy, Front \in Nat, Front' = Front, blacklist' = blacklist
      PROVE  Blacklisted'
  BY <1>1, <1>2
<1>3. Busy => Front \in Nat
  <2>1. queue # <<>> => queue[1] \in Element
    BY <1>t
  <2> QED BY <1>t, <2>1 DEF Front, Busy, Element
<1>4. CASE UNCHANGED vars \/ Terminated
  BY <1>4 DEF vars, Terminated, Blacklisted, Busy, Front, Settled, Forbidden
<1>5. CASE BeginTree
  <2> DEFINE start == world.args[tree + 1]
             e == Entry(start, 0, TRUE)
  <2>1. queue' = <<e>> /\ blacklist' = {start} /\ stage' = "next"
    BY <1>5 DEF BeginTree
  <2>2. e.url = start /\ e.depth = 0
    BY DEF Entry
  <2> HIDE DEF e, start
  <2>3. 1 \in DOMAIN queue' /\ queue'[1] = e /\ Front' = 0
    BY <2>1, <2>2 DEF Front
  <2> QED BY <2>1, <2>2, <2>3 DEF Blacklisted, Settled
<1>6. CASE Dequeue
  <2>1. /\ stage = "next" /\ queue # <<>> /\ blacklist' = blacklist /\ stage' \in {"retrieve", "page"}
        /\ item'.depth = queue[1].depth
    BY <1>6, DequeueMoves
  <2>2. Busy /\ Front' = Front /\ ~BeginTree /\ stage' # "main"
    BY <2>1 DEF Busy, Front, BeginTree
  <2>3. ~EndTree
    BY <2>1 DEF EndTree
  <2> QED BY <1>2, <1>3, <2>1, <2>2, <2>3
<1>7. CASE Retrieve
  <2>1. /\ stage = "retrieve" /\ blacklist' = blacklist /\ stage' \in {"redirected", "page"}
        /\ item'.depth = item.depth
    BY <1>7, RetrieveMoves
  <2>2. Busy /\ Front' = Front /\ ~BeginTree /\ ~EndTree
    BY <2>1 DEF Busy, Front, BeginTree, EndTree
  <2> QED BY <1>2, <1>3, <2>1, <2>2
<1>8. CASE LoadRobots \/ Page
  <2>1. stage \in {"redirected", "children", "page"} /\ stage' # "next" /\ UNCHANGED <<item, blacklist>>
    BY <1>8 DEF LoadRobots, Page, Deciding
  <2>2. Busy /\ Front' = Front /\ ~BeginTree /\ ~EndTree
    BY <2>1 DEF Busy, Front, BeginTree, EndTree
  <2> QED BY <1>2, <1>3, <2>1, <2>2
<1>9. CASE Redirected
  <2>1. /\ stage = "redirected" /\ stage' = "page" /\ Decided
        /\ UNCHANGED <<world, queue, visits, robots>>
    BY <1>9 DEF Redirected
  <2>2. item'.depth = item.depth
    BY <1>t, <2>1, <1>9 DEF Redirected, IsItem
  <2>3. Busy /\ Front' = Front /\ ~BeginTree /\ ~EndTree /\ Front = item.depth
    BY <2>1, <2>2 DEF Busy, Front, BeginTree, EndTree
  <2>4. PICK high \in Nat : high = Front
    BY <1>3, <2>3
  <2>5. ASSUME NEW u \in blacklist' \ blacklist PROVE Settled(u, high + 1)'
    <3>1. CASE Forbidden(u)
      BY <2>1, <3>1 DEF Settled, Forbidden
    <3>2. CASE u = item.asked
      <4>1. \E v \in visits : v.url = u /\ v.depth = high
        BY <2>1, <2>3, <2>4, <3>2 DEF Typed
      <4> QED BY <2>1, <2>4, <4>1 DEF Settled
    <3> QED BY <1>9, <2>5, <3>1, <3>2 DEF Redirected
  <2> QED BY <1>1, <2>3, <2>4, <2>5
<1>10. CASE Child
  <2>1. /\ stage = "children" /\ UNCHANGED <<world, stage, item, visits, robots>> /\ children # <<>>
    BY <1>10 DEF Child
  <2>2. Busy /\ Front' = Front /\ ~BeginTree /\ ~EndTree /\ Front = item.depth
    BY <2>1 DEF Busy, Front, BeginTree, EndTree
  <2>3. PICK high \in Nat : high = Front
    BY <1>3, <2>2
  <2> DEFINE l == Head(children)
             e == Entry(l.to, item.depth + 1, l.html)
  <2>4. ASSUME NEW u \in blacklist' \ blacklist PROVE Settled(u, high + 1)'
    <3>1. u = l.to /\ (Forbidden(l.to) \/ queue' = Append(queue, e))
      BY <1>10, <2>4 DEF Child
    <3>2. CASE Forbidden(l.to)
      BY <2>1, <3>1, <3>2 DEF Settled, Forbidden
    <3>3. CASE queue' = Append(queue, e)
      <4>1. e.url = u /\ e.depth = high + 1
        BY <2>2, <2>3, <3>1 DEF Entry
      <4> HIDE DEF e
      <4>2. Len(queue) + 1 \in DOMAIN queue' /\ queue'[Len(queue) + 1] = e
        BY <1>t, <3>3
      <4> QED BY <4>1, <4>2 DEF Settled
    <3> QED BY <3>1, <3>2, <3>3
  <2> QED BY <1>1, <2>2, <2>3, <2>4
<1>11. CASE PageDone
  <2>1. stage = "children" /\ stage' = "next" /\ UNCHANGED <<queue, blacklist>>
    BY <1>11 DEF PageDone
  <2>2. CASE queue = <<>>
    BY <2>1, <2>2 DEF Blacklisted, Busy
  <2>3. CASE queue # <<>>
    <3>1. 1 \in DOMAIN queue /\ queue[1] \in Element /\ queue[1].depth \in Nat
      <4>1. queue[1] \in Element /\ 1 \in DOMAIN queue
        BY <1>t, <2>3
      <4> QED BY <4>1 DEF Element
    <3>2. Busy /\ Front = item.depth /\ Front' = queue[1].depth /\ ~BeginTree /\ ~EndTree
      BY <2>1, <2>3 DEF Busy, Front, BeginTree, EndTree
    <3>3. Front <= queue[1].depth
      BY <3>1, <3>2 DEF Ordered
    <3> QED BY <1>1, <1>3, <2>1, <3>1, <3>2, <3>3
  <2> QED BY <2>2, <2>3
<1>12. CASE EndTree \/ Convert
  BY <1>12 DEF EndTree, Convert, Blacklisted, Busy
<1> QED BY <1>4, <1>5, <1>6, <1>7, <1>8, <1>9, <1>10, <1>11, <1>12 DEF Next, Run

LEMMA GoodVisit ==
  ASSUME NEW u, NEW d, NEW g \in BOOLEAN, NEW v, v = [url |-> u, depth |-> d, good |-> g], v.good
  PROVE  v.url = u /\ v.depth = d /\ g
<1>1. CASE g = TRUE
  BY <1>1
<1>2. CASE g = FALSE
  <2>1. v = [url |-> u, depth |-> d, good |-> FALSE]
    BY <1>2
  <2> QED BY <2>1
<1> QED BY <1>1, <1>2

LEMMA FollowedStep == Typed /\ Ordered /\ Blacklisted /\ Followed /\ [Next]_vars => Followed'
<1> SUFFICES ASSUME Typed, Ordered, Blacklisted, Followed, [Next]_vars PROVE Followed'
  OBVIOUS
<1>t. /\ queue \in Seq(Element) /\ children \in Seq(Link) /\ world.reclevel \in Nat
      /\ stage \in Working => IsItem /\ item.depth \in Nat
      /\ \A v \in visits : v.url \in Urls /\ v.depth \in Nat
  BY WorldIs DEF Typed, IsItem
<1> USE DEF Working
<1>1. ASSUME ~BeginTree, ~EndTree, stage \notin {"main", "over"}, world' = world,
             \A v \in visits : v.good =>
                \A l \in Link : LinkTo(v, l) /\ Within(v, l) /\ Pending(v, l)
                                => Settled(l.to, v.depth + 1)' \/ Pending(v, l)',
             \A v \in visits' \ visits : v.good =>
                \A l \in Link : LinkTo(v, l) => Pending(v, l)'
      PROVE  Followed'
  <2>1. \A v : \A l \in Link : (LinkTo(v, l)' <=> LinkTo(v, l)) /\ (Within(v, l)' <=> Within(v, l))
    BY <1>1 DEF LinkTo, Within, Accepted
  <2>2. ASSUME NEW v \in visits, v.good, NEW l \in Link, LinkTo(v, l), Within(v, l)
        PROVE  Settled(l.to, v.depth + 1)' \/ Pending(v, l)'
    <3>1. CASE Settled(l.to, v.depth + 1)
      BY <1>1, <3>1, SettledStays
    <3>2. CASE Pending(v, l)
      BY <1>1, <2>2, <3>2
    <3> QED BY <1>1, <2>2, <3>1, <3>2 DEF Followed
  <2>3. ASSUME NEW v \in visits', v.good, NEW l \in Link, LinkTo(v, l), Within(v, l)
        PROVE  Settled(l.to, v.depth + 1)' \/ Pending(v, l)'
    BY <1>1, <2>2, <2>3
  <2> QED BY <2>1, <2>3 DEF Followed
<1>2. CASE UNCHANGED vars \/ Terminated
  <2>1. UNCHANGED vars
    BY <1>2 DEF Terminated
  <2>2. \A v, l : /\ LinkTo(v, l)' <=> LinkTo(v, l)
                  /\ Within(v, l)' <=> Within(v, l)
                  /\ Pending(v, l)' <=> Pending(v, l)
    BY <2>1 DEF vars, LinkTo, Within, Accepted, Pending
  <2>3. \A u, d : Settled(u, d)' <=> Settled(u, d)
    BY <2>1 DEF vars, Settled, Forbidden
  <2> QED BY <2>1, <2>2, <2>3 DEF vars, Followed
<1>3. CASE BeginTree
  BY <1>3 DEF BeginTree, Followed
<1>4. CASE Dequeue
  <2>1. /\ stage = "next" /\ UNCHANGED <<world, disk>> /\ stage' \in {"retrieve", "page"}
        /\ item'.url = queue[1].url /\ item'.depth = queue[1].depth
    BY <1>4, DequeueMoves
  <2>2. ~BeginTree /\ ~EndTree /\ \A v, l : ~Pending(v, l)
    BY <2>1 DEF BeginTree, EndTree, Pending
  <2>3. ASSUME NEW v \in visits' \ visits, v.good, NEW l \in Link, LinkTo(v, l)
        PROVE  Pending(v, l)'
    <3>1. stage' = "page"
      BY <1>4, <2>1, <2>3, DequeueMoves
    <3>2. PICK g \in BOOLEAN :
            /\ visits' = visits \cup {[url |-> queue[1].url, depth |-> queue[1].depth, good |-> g]}
            /\ g => /\ item'.descend /\ item'.file \in DOMAIN disk
                    /\ disk[item'.file] = Holds(Index[queue[1].url], TRUE)
      BY <1>4, <3>1, DequeueMoves
    <3>3. v = [url |-> queue[1].url, depth |-> queue[1].depth, good |-> g]
      BY <2>3, <3>2
    <3>4. v.url = queue[1].url /\ v.depth = queue[1].depth /\ g
      BY <2>3, <3>3, GoodVisit
    <3> QED BY <2>1, <3>1, <3>2, <3>4 DEF Pending
  <2> QED BY <1>1, <2>1, <2>2, <2>3
<1>5. CASE Retrieve
  <2>1. /\ stage = "retrieve" /\ world' = world /\ item'.depth = item.depth /\ item.asked = item.url
    BY <1>5, RetrieveMoves DEF Typed
  <2>2. ~BeginTree /\ ~EndTree /\ \A v, l : ~Pending(v, l)
    BY <2>1 DEF BeginTree, EndTree, Pending
  <2>3. ASSUME NEW v \in visits' \ visits, v.good, NEW l \in Link, LinkTo(v, l)
        PROVE  Pending(v, l)'
    <3>1. PICK g \in BOOLEAN :
            /\ visits' = visits \cup {[url |-> item.asked, depth |-> item.depth, good |-> g]}
            /\ g => /\ stage' = "page" /\ item'.descend /\ item'.url = item.url
                    /\ item'.file \in DOMAIN disk'
                    /\ disk'[item'.file] = Holds(Index[item.url], TRUE)
      BY <1>5, RetrieveMoves
    <3>2. v = [url |-> item.asked, depth |-> item.depth, good |-> g]
      BY <2>3, <3>1
    <3>3. v.url = item.asked /\ v.depth = item.depth /\ g
      BY <2>3, <3>2, GoodVisit
    <3> QED BY <2>1, <3>1, <3>2, <3>3 DEF Pending
  <2> QED BY <1>1, <2>1, <2>2, <2>3
<1>6. CASE LoadRobots
  <2>1. /\ stage \in {"redirected", "children"} /\ UNCHANGED <<world, stage, item, children, visits>>
    BY <1>6 DEF LoadRobots, Deciding
  <2>2. ~BeginTree /\ ~EndTree /\ \A v, l : Pending(v, l) => Pending(v, l)'
    BY <2>1 DEF BeginTree, EndTree, Pending
  <2> QED BY <1>1, <2>1, <2>2
<1>7. CASE Redirected \/ PageDone
  <2>1. /\ stage = "redirected" \/ (stage = "children" /\ children = <<>>)
        /\ UNCHANGED <<world, visits>>
    BY <1>7 DEF Redirected, PageDone
  <2>2. ~BeginTree /\ ~EndTree /\ \A v, l : ~Pending(v, l)
    <3>1. children = <<>> => DOMAIN children = {}
      OBVIOUS
    <3> QED BY <2>1, <3>1 DEF BeginTree, EndTree, Pending
  <2> QED BY <1>1, <2>1, <2>2
<1>8. CASE Page
  <2>1. /\ stage = "page" /\ stage' = "children" /\ UNCHANGED <<world, item, visits>>
    BY <1>8 DEF Page
  <2>2. ASSUME NEW v \in visits, NEW l \in Link, LinkTo(v, l), Within(v, l), Pending(v, l)
        PROVE  Pending(v, l)'
    <3>1. /\ item.url = v.url /\ item.depth = v.depth /\ item.descend /\ item.file \in DOMAIN disk
          /\ disk[item.file] = Holds(Index[v.url], TRUE) /\ Index[v.url] \in Urls
      BY <1>t, <2>1, <2>2, IndexAssumption DEF Pending
    <3>2. LinksIn(item.file) = {world.links[Index[v.url]]}
      BY <3>1 DEF LinksIn, Holds
    <3>3. item.depth >= world.reclevel => world.requisites /\ item.depth <= world.reclevel + 1
      BY <1>t, <2>1, <2>2, <3>1 DEF Within
    <3>4. children' = world.links[Index[v.url]]
      BY <1>8, <3>1, <3>2, <3>3 DEF Page
    <3> QED BY <2>1, <2>2, <3>1, <3>4 DEF Pending, LinkTo
  <2>3. ~BeginTree /\ ~EndTree
    BY <2>1 DEF BeginTree, EndTree
  <2> QED BY <1>1, <2>1, <2>2, <2>3
<1>9. CASE Child
  <2>1. /\ stage = "children" /\ children # <<>> /\ children' = Tail(children)
        /\ UNCHANGED <<world, stage, item, visits, robots>>
    BY <1>9 DEF Child
  <2>2. ~BeginTree /\ ~EndTree /\ Front = item.depth /\ Busy
    BY <2>1 DEF BeginTree, EndTree, Front, Busy
  <2>3. ASSUME NEW v \in visits, NEW l \in Link, LinkTo(v, l), Within(v, l), Pending(v, l)
        PROVE  Settled(l.to, v.depth + 1)' \/ Pending(v, l)'
    <3>1. item.url = v.url /\ item.depth = v.depth
      BY <2>3 DEF Pending
    <3>2. PICK j \in DOMAIN children : children[j] = l
      BY <2>1, <2>3 DEF Pending
    <3>3. CASE j # 1
      <4>1. j - 1 \in DOMAIN children' /\ children'[j - 1] = l
        BY <1>t, <2>1, <3>2, <3>3, HeadTailProperties
      <4> QED BY <2>1, <3>1, <4>1 DEF Pending
    <3>4. CASE j = 1
      <4>1. l = Head(children) /\ Accepted(l.to, item.depth) /\ ~Skipped(l)
        BY <1>t, <2>1, <2>3, <3>1, <3>2, <3>4 DEF Within, Skipped
      <4>2. CASE l.to \in blacklist
        <5>1. Settled(l.to, v.depth + 1)
          BY <2>2, <3>1, <4>2 DEF Blacklisted
        <5> QED BY <2>2, <5>1, SettledStays
      <4>3. CASE Forbidden(l.to)
        BY <2>1, <4>3 DEF Settled, Forbidden
      <4>4. CASE l.to \notin blacklist /\ ~Forbidden(l.to)
        <5> DEFINE e == Entry(l.to, item.depth + 1, l.html)
        <5>1. queue' = Append(queue, e)
          BY <1>9, <4>1, <4>4 DEF Child, Wanted
        <5>2. e.url = l.to /\ e.depth = v.depth + 1
          BY <3>1 DEF Entry
        <5> HIDE DEF e
        <5>3. Len(queue) + 1 \in DOMAIN queue' /\ queue'[Len(queue) + 1] = e
          BY <1>t, <5>1
        <5>4. v.depth + 1 \in Nat
          BY <1>t, <2>1, <3>1
        <5> QED BY <5>2, <5>3, <5>4 DEF Settled
      <4> QED BY <4>2, <4>3, <4>4
    <3> QED BY <3>3, <3>4
  <2> QED BY <1>1, <2>1, <2>2, <2>3
<1>10. CASE EndTree \/ Convert
  BY <1>10 DEF EndTree, Convert, Followed
<1> QED BY <1>2, <1>3, <1>4, <1>5, <1>6, <1>7, <1>8, <1>9, <1>10 DEF Next, Run
------------------------------------------------------------------------------
LEMMA IInvHolds == Spec => []IInv
<1>1. Init => IInv
  BY DEF Init, IInv, Typed, Stages, Working, Ordered, Blacklisted, Followed, Busy
<1>2. IInv /\ [Next]_vars => IInv'
  BY TypedStep, OrderedStep, BlacklistedStep, FollowedStep DEF IInv
<1> QED BY <1>1, <1>2, PTL DEF Spec

(* Whatever the pages link to, whichever URLs are redirected, forbidden,   *)
(* rejected or on disk already, retrieve_tree overlooks no link within the *)
(* depth asked for: when its queue is empty, what a page of this tree      *)
(* links to and the user accepts was taken off the queue at most one level *)
(* deeper.                                                                 *)
THEOREM NoLinkOverlooked == Spec => []NothingMissed
<1>1. IInv => NothingMissed
  <2> SUFFICES ASSUME IInv, stage = "next", queue = <<>>, NEW v \in visits, v.good,
                      NEW i \in DOMAIN world.links[Index[v.url]],
                      Within(v, world.links[Index[v.url]][i]),
                      ~Forbidden(world.links[Index[v.url]][i].to)
               PROVE  \E w \in visits : w.url = world.links[Index[v.url]][i].to /\ w.depth <= v.depth + 1
    BY DEF NothingMissed, Within
  <2> DEFINE l == world.links[Index[v.url]][i]
  <2>1. LinkTo(v, l)
    BY DEF LinkTo
  <2>2. l \in Link
    BY <2>1, LinksAre DEF IInv, Typed
  <2>3. ~Pending(v, l)
    BY DEF Pending
  <2>4. Settled(l.to, v.depth + 1)
    BY <2>1, <2>2, <2>3 DEF IInv, Followed
  <2> QED BY <2>4 DEF Settled
<1> QED BY <1>1, IInvHolds, PTL
==============================================================================
