------------------------------ MODULE FtpProofs ------------------------------
(***************************************************************************)
(* Theorems about Ftp: whatever the server answers and wherever a dialogue *)
(* is given up, what wget reads from a data connection is what it asked    *)
(* for, from the directory it is in, and what it saves is the beginning of *)
(* the file, all of it where it says so - for any tree of directories,     *)
(* length of the files, number of tries, and kind of server.               *)
(***************************************************************************)
EXTENDS Ftp, TLAPS, SequenceTheorems

(***************************************************************************)
(* The types                                                               *)
(***************************************************************************)
Codes == {150, 200, 213, 226, 227, 250, 350, 426, 450, 500, 502, 550}
Errors == {"none", "HOSTERR", "CONERROR", "FTPRERR", "FTPLOGINC", "FTPNSFOD", "RETRFINISHED",
           "CONIMPOSSIBLE", "FTPPORTERR", "FTPSYSERR", "FOPENERR", "FWRITEERR", "FTPRETRINT",
           "RETROK", "TRYLIMEXC"}
Stages == {"try", "getftp", "outcome", "returned", "walk", "over"}
Known == {"login", "cwd", "size", "pasv", "port", "rest", "retr", "list", "list_a",
             "open", "read", "done"}
Names == STRING \cup {"none", "outdated"}
FileEntries == [kind : {"file"}, name : STRING]
DirEntries == [kind : {"dir"}, name : DOMAIN Tree \ {""}]
Bytes == Names \X Nat
ListEntries == FileEntries \cup DirEntries

Cons == [own : BOOLEAN, alive : BOOLEAN, done_cwd : BOOLEAN,
         avoid_a : BOOLEAN, avoid_list : BOOLEAN, checked : BOOLEAN]
Sessions(data) ==
    [cwd : DOMAIN Tree, rest : Nat, open : BOOLEAN, data : data, replies : Seq(Codes)]
Jobs == [op : {"none", "LIST", "RETR"}, of : Names, dir : DOMAIN Tree, sized : BOOLEAN,
         count : Nat, restval : Nat, qtyread : Nat, pasv : BOOLEAN, rest_failed : BOOLEAN,
         list_a : BOOLEAN, before : Nat, res : {-1, 0}, err : Errors]

TypeOK ==
    /\ world \in Worlds
    /\ stage \in Stages /\ plan \in Seq(Known)
    /\ con \in Cons
    /\ session \in Sessions({session.data})
    /\ job \in Jobs
    /\ stack \in Seq([dir : DOMAIN Tree, files : Seq(ListEntries), dirs : Seq(ListEntries)])
    /\ disk = [f \in DOMAIN disk |-> disk[f]]
    /\ \A f \in DOMAIN disk : f \in Names /\ disk[f] \in Seq(Bytes)
    /\ listing \in Seq(ListEntries)

(***************************************************************************)
(* The dialogue                                                            *)
(***************************************************************************)
Preamble == {"login", "cwd", "size"}
Ports == {"pasv", "port"}
Transferring == {"retr", "list", "list_a"}
Data == {"open", "read", "done"}
Follows(restval, c) ==
    CASE c = "login" -> {"cwd", "size", Mode}
      [] c = "cwd" -> {"size", Mode}
      [] c = "size" -> {Mode}
      [] c \in Ports -> IF job.op = "LIST" THEN Transferring
                        ELSE IF restval > 0 THEN {"rest"} ELSE {"retr"}
      [] c = "rest" -> {"retr"}
      [] OTHER -> {}
After(c) == Follows(job.restval, c)

\* The command may be one of the plan.
Fits(c) ==
    /\ c \in Preamble \cup Ports \cup {"rest"} \cup Transferring \cup Data
    /\ c \in {"size"} => job.op = "RETR" /\ con.own
    /\ c \in {"rest", "retr"} => job.op = "RETR"
    /\ c = "pasv" => world.ftp_pasv
    /\ c = "port" => ~ (world.ftp_pasv /\ world.pasv)
    /\ c \in {"list", "list_a"} => job.op = "LIST"
    /\ c = "list_a" => ~con.avoid_a
PlanOK ==
    /\ \A i \in 1 .. Len(plan) : Fits(plan[i])
    /\ \A i \in 1 .. Len(plan) - 1 : plan[i + 1] \in After(plan[i])
    /\ plan # <<>> => plan[Len(plan)] \in Transferring \cup Data
    /\ \A i \in 2 .. Len(plan) : plan[i] # "login" /\ (plan[i] = "list" => con.avoid_a)
    /\ (plan # <<>>) <=> (stage = "getftp")
    /\ plan # <<>> => (Head(plan) = "login" <=> ~con.alive)
    \* the last command of a login may change
    /\ plan # <<>> /\ Head(plan) = "login" /\ job.dir # "" => plan[2] = "cwd"

(***************************************************************************)
(* The answers that wget has not read                                      *)
(***************************************************************************)
Pending == session.replies
First(classes) == Pending # <<>> /\ Class(Pending[1]) \in classes
\* Where nothing but a failure is to come of the next command.
Dead == First({1, 4, 5})
\* Two answers are missed only where both LIST commands were tried.
Twice == ~con.avoid_a /\ ~con.avoid_list
Odd == Len(Pending) = 2 /\ First({2}) /\ Class(Pending[2]) \in {4, 5}

Idle ==
    /\ Pending = <<>> \/ Dead \/ (First({2}) /\ (Len(Pending) = 1 \/ (Odd /\ Twice)))
    /\ world.ftp_pasv => IF world.pasv THEN Pending = <<>>
                         ELSE Len(Pending) <= 1 /\ (Pending # <<>> => Pending[1] # 227)
\* What may be left when wget is about to send this command.
Good ==
    /\ session.data.of = job.of
    /\ session.data.items \in Seq(IF job.op = "LIST" THEN ListEntries ELSE Bytes)
Single(classes) == Len(Pending) = 1 /\ First(classes)
Left(c) ==
    CASE c \in {"cwd", "size", "pasv"} -> Idle
      [] c = "port" -> Idle /\ (world.ftp_pasv /\ Pending # <<>> => Pending[1] = 502)
      [] c \in {"rest", "retr"} -> Pending = <<>> \/ (Single({2, 3, 5}) /\ ~world.ftp_pasv)
      [] c = "list_a" ->
            Pending = <<>> \/ (/\ ~world.ftp_pasv
                               /\ Single({2, 5})
                                  \/ (/\ Len(Pending) = 2 /\ First({4, 5}) /\ Twice
                                      /\ Class(Pending[2]) \in {2, 5}))
      [] c = "list" ->
            Pending = <<>> \/ (/\ ~world.ftp_pasv
                               /\ \/ First({1}) /\ Len(Pending) = 2 /\ Pending[2] \in {226, 426}
                                     /\ ~session.open /\ Good /\ Twice
                                  \/ First({2})
                                  \/ First({4, 5}) /\ (Len(Pending) = 1 \/ Class(Pending[2]) \in {1, 4, 5}))
      [] c \in Data ->
            /\ Pending # <<>> /\ Pending[1] \in {226, 426}
            /\ Len(Pending) = 1 \/ (/\ Len(Pending) = 2 /\ Class(Pending[2]) \in {4, 5} /\ Twice
                                    /\ job.op = "LIST" /\ ~job.list_a /\ ~world.ftp_pasv)
      [] OTHER -> TRUE
Right == session.cwd = job.dir
Lost == Pending # <<>> /\ (Dead \/ world.ftp_pasv)
AllGiven == \A i \in 1 .. Len(stack) : stack[i].files = <<>>

DialogueOK ==
    stage = "getftp" /\ con.alive =>
        LET c == Head(plan)
        IN /\ Left(c)
           /\ c \in {"size", "pasv", "port"} =>
                 (Right \/ Lost) /\ (con.own => Right /\ Len(Pending) <= 1)
           /\ c \in {"rest"} \cup Transferring \cup Data => Right
           /\ c \in {"rest", "open"} \cup Transferring /\ world.ftp_pasv /\ world.pasv => job.pasv
           /\ c \in {"open", "read"} => Good
           /\ c = "cwd" /\ job.op = "RETR" => Pending = <<>>
           /\ c \in {"size", "pasv", "port"} /\ Odd => job.op = "LIST"
BetweenOK ==
    stage # "getftp" /\ con.alive =>
        /\ Idle
        /\ stage = "try" =>
              /\ Odd => job.op = "LIST"
              /\ con.own \/ con.done_cwd \/ job.dir = "" => Right \/ Lost
              /\ con.own => Right /\ Len(Pending) <= 1
              /\ job.op = "RETR" => con.own \/ con.done_cwd
        /\ stage = "outcome" =>
              /\ Right \/ Lost
              /\ Odd => job.op = "LIST"
              /\ con.own => Right /\ (job.err \in Fatal \/ Len(Pending) <= 1)
              /\ job.op = "LIST" /\ job.err = "RETRFINISHED" => Right /\ Len(Pending) <= 1
        /\ stage = "returned" =>
              /\ con.done_cwd
              /\ Right \/ Lost
              /\ Odd => job.op = "LIST"
              /\ con.own => Right
              /\ job.op = "LIST" /\ job.err = "RETROK" => Right /\ Len(Pending) <= 1
        /\ stage = "walk" =>
              \/ AllGiven
              \/ con.done_cwd /\ ~Odd /\ (session.cwd = Top.dir \/ Lost)

(***************************************************************************)
(* The walk                                                                *)
(***************************************************************************)
JobOK ==
    /\ stage \notin {"walk", "over"} => job.op \in {"LIST", "RETR"}
    /\ job.op = "LIST" => job.of = job.dir /\ ~job.sized /\ AllGiven /\ ~con.own
    /\ job.op = "LIST" /\ world.mode = "one" => stack = <<>> /\ job.dir = world.dir
    /\ job.op = "RETR" => (job.sized <=> ~con.own)
    /\ job.op = "RETR" /\ job.sized => stack # <<>> /\ job.dir = Top.dir
    /\ stage \in {"walk", "over"} => job = NoJob
StackOK ==
    /\ \A i \in 1 .. Len(stack) - 1 : stack[i].files = <<>>
    /\ con.own => stack = <<>>
    /\ world.mode = "one" => \A i \in 1 .. Len(stack) : stack[i].dirs = <<>>
    /\ stage \in {"try", "returned", "walk"} /\ ~con.alive => (con.own /\ stage # "try") \/ ~con.done_cwd

Inv == TypeOK /\ PlanOK /\ DialogueOK /\ BetweenOK /\ JobOK /\ StackOK

\* A PASV that worked is one the server knows.
PasvKnown == job.pasv => world.pasv

(***************************************************************************)
(* Lemmas                                                                  *)
(***************************************************************************)
LEMMA ClassOf ==
    /\ Class(150) = 1 /\ Class(200) = 2 /\ Class(213) = 2 /\ Class(226) = 2 /\ Class(227) = 2
    /\ Class(250) = 2 /\ Class(350) = 3 /\ Class(426) = 4 /\ Class(450) = 4 /\ Class(500) = 5
    /\ Class(502) = 5 /\ Class(550) = 5
BY DEF Class

\* An answer that is added, and the oldest that is read.
LEMMA Answering ==
    ASSUME NEW P \in Seq(Codes), NEW r \in Codes
    PROVE  /\ Append(P, r) \in Seq(Codes) /\ Append(P, r) # <<>>
           /\ Head(Append(P, r)) = IF P = <<>> THEN r ELSE P[1]
           /\ Tail(Append(P, r)) \in Seq(Codes) /\ Len(Tail(Append(P, r))) = Len(P)
           /\ \A i \in 1 .. Len(P) : Tail(Append(P, r))[i] = IF i = Len(P) THEN r ELSE P[i + 1]
<1>1. Append(P, r) \in Seq(Codes) /\ Append(P, r) # <<>> /\ Len(Append(P, r)) = Len(P) + 1
  BY AppendProperties
<1>2. /\ \A i \in 1 .. Len(P) : Append(P, r)[i] = P[i]
      /\ Append(P, r)[Len(P) + 1] = r
  BY AppendProperties
<1>3. Head(Append(P, r)) = IF P = <<>> THEN r ELSE P[1]
  BY <1>1, <1>2
<1>4. /\ Tail(Append(P, r)) \in Seq(Codes) /\ Len(Tail(Append(P, r))) = Len(P)
      /\ \A i \in 1 .. Len(P) : Tail(Append(P, r))[i] = Append(P, r)[i + 1]
  BY <1>1, HeadTailProperties
<1> QED
  BY <1>1, <1>2, <1>3, <1>4

LEMMA Pairing ==
    ASSUME NEW P \in Seq(Codes), NEW r \in Codes
    PROVE  /\ P \o <<150, r>> \in Seq(Codes) /\ P \o <<150, r>> # <<>>
           /\ Head(P \o <<150, r>>) = IF P = <<>> THEN 150 ELSE P[1]
           /\ Tail(P \o <<150, r>>) \in Seq(Codes) /\ Len(Tail(P \o <<150, r>>)) = Len(P) + 1
           /\ \A i \in 1 .. Len(P) + 1 :
                 Tail(P \o <<150, r>>)[i] = IF i = Len(P) + 1 THEN r
                                            ELSE IF i = Len(P) THEN 150 ELSE P[i + 1]
<1> DEFINE Q == P \o <<150, r>>
<1>1. <<150, r>> \in Seq(Codes) /\ Len(<<150, r>>) = 2
  BY DEF Codes
<1>2. /\ Q \in Seq(Codes) /\ Len(Q) = Len(P) + 2
      /\ \A i \in 1 .. Len(P) + 2 : Q[i] = IF i <= Len(P) THEN P[i] ELSE <<150, r>>[i - Len(P)]
  BY <1>1, ConcatProperties
<1>3. Q # <<>> /\ Head(Q) = IF P = <<>> THEN 150 ELSE P[1]
  BY <1>2
<1>4. /\ Tail(Q) \in Seq(Codes) /\ Len(Tail(Q)) = Len(P) + 1
      /\ \A i \in 1 .. Len(P) + 1 : Tail(Q)[i] = Q[i + 1]
  BY <1>2, <1>3, HeadTailProperties
<1> QED
  BY <1>2, <1>3, <1>4

Same == UNCHANGED <<world, stack>>
SameJob == job'.op = job.op /\ job'.of = job.of /\ job'.dir = job.dir /\ job'.sized = job.sized

\* What is left of a sequence that has more to come.
LEMMA TailOf ==
    ASSUME NEW S, NEW p \in Seq(S), NEW F, p # <<>>, Head(p) \notin F, p[Len(p)] \in F
    PROVE /\ Len(p) > 1 /\ Head(p) = p[1]
          /\ Tail(p) # <<>> /\ Tail(p) \in Seq(S) /\ Len(Tail(p)) = Len(p) - 1
          /\ \A i \in 1 .. Len(p) - 1 : Tail(p)[i] = p[i + 1]
          /\ Head(Tail(p)) = p[2] /\ Tail(p)[1] = p[2] /\ Tail(p)[Len(Tail(p))] = p[Len(p)]
<1>1. Len(p) > 1 /\ Head(p) = p[1]
  OBVIOUS
<1>2. /\ Tail(p) \in Seq(S) /\ Len(Tail(p)) = Len(p) - 1
      /\ \A i \in 1 .. Len(Tail(p)) : Tail(p)[i] = p[i + 1]
  BY HeadTailProperties
<1>3. Tail(p) # <<>> /\ Head(Tail(p)) = Tail(p)[1]
  <2>1. PICK q : q = Tail(p)
    OBVIOUS
  <2>2. q \in Seq(S) /\ Len(q) > 0
    BY <1>1, <1>2, <2>1
  <2>3. q # <<>> /\ Head(q) = q[1]
    BY <2>2
  <2> QED
    BY <2>1, <2>3
<1>4. Tail(p)[1] = p[2]
  BY <1>1, <1>2
<1>5. Tail(p)[Len(Tail(p))] = p[Len(p)]
  BY <1>1, <1>2
<1>6. \A i \in 1 .. Len(p) - 1 : Tail(p)[i] = p[i + 1]
  BY <1>2
<1> QED
  BY <1>1, <1>2, <1>3, <1>4, <1>5, <1>6

\* The next command of the plan.
LEMMA PlanTail ==
    ASSUME TypeOK, PlanOK, plan # <<>>, Head(plan) \notin {"login"} \cup Transferring \cup Data,
           plan' = Tail(plan), UNCHANGED <<world, con, stage>>, job'.op = job.op,
           job'.restval = job.restval
    PROVE  /\ PlanOK' /\ plan' \in Seq(Known) /\ plan' # <<>>
           /\ Head(plan') \in After(Head(plan)) /\ Fits(Head(plan))'
           /\ Head(plan') = "list" => con.avoid_a
<1>0. plan \in Seq(Known)
  BY DEF TypeOK
<1>1. plan[Len(plan)] \in Transferring \cup Data /\ Head(plan) \notin Transferring \cup Data
  BY DEF PlanOK
<1>2. /\ Len(plan) > 1 /\ Head(plan) = plan[1]
      /\ plan' # <<>> /\ plan' \in Seq(Known) /\ Len(plan') = Len(plan) - 1
      /\ \A i \in 1 .. Len(plan) - 1 : plan'[i] = plan[i + 1]
      /\ Head(plan') = plan[2] /\ plan'[1] = plan[2] /\ plan'[Len(plan')] = plan[Len(plan)]
  BY <1>0, <1>1, TailOf
<1>3. \A c : (Fits(c) => Fits(c)') /\ After(c)' = After(c)
  BY DEF Fits, After, Follows, Mode
<1>a. \A i \in 1 .. Len(plan') : Fits(plan[i])'
  <2> SUFFICES ASSUME NEW i \in 1 .. Len(plan) - 1 PROVE Fits(plan[i])'
    BY <1>2
  <2>1. plan'[i] = plan[i + 1] /\ i + 1 \in 1 .. Len(plan)
    BY <1>0, <1>2
  <2>2. PICK c : c = plan[i + 1]
    OBVIOUS
  <2>3. Fits(c)
    BY <2>1, <2>2 DEF PlanOK
  <2>4. Fits(c)'
    BY <2>3, <1>3
  <2> QED
    BY <2>1, <2>2, <2>4
<1>4. \A i \in 1 .. Len(plan') - 1 : plan'[i + 1] \in After(plan[i])'
  <2> SUFFICES ASSUME NEW i \in 1 .. Len(plan) - 2 PROVE plan'[i + 1] \in After(plan[i])'
    BY <1>0, <1>2
  <2>1. plan'[i] = plan[i + 1] /\ i \in 1 .. Len(plan) - 1 /\ i + 1 \in 1 .. Len(plan) - 1
    BY <1>0, <1>2
  <2>2. plan'[i + 1] = plan[i + 2]
    BY <1>2, <2>1
  <2>3. PICK c : c = plan[i + 1]
    OBVIOUS
  <2>a. PICK j : j = i + 1
    OBVIOUS
  <2>b. j \in 1 .. Len(plan) - 1 /\ j + 1 = i + 2
    BY <2>1, <2>a
  <2>c. plan[j + 1] \in After(plan[j])
    BY <2>b DEF PlanOK
  <2>4. plan[i + 2] \in After(c)
    BY <2>a, <2>b, <2>c, <2>3
  <2>5. plan[i + 2] \in After(c)'
    BY <2>4, <1>3
  <2> QED
    BY <2>1, <2>2, <2>3, <2>5
<1>5. plan'[Len(plan')] \in Transferring \cup Data
  BY <1>1, <1>2
<1>6. \A i \in 1 .. Len(plan') : plan'[i] # "login" /\ (plan'[i] = "list" => con.avoid_a)
  <2> SUFFICES ASSUME NEW i \in 1 .. Len(plan) - 1
               PROVE  plan'[i] # "login" /\ (plan'[i] = "list" => con.avoid_a)
    BY <1>2
  <2>1. plan'[i] = plan[i + 1] /\ i + 1 \in 2 .. Len(plan)
    BY <1>0, <1>2
  <2> QED
    BY <2>1 DEF PlanOK
<1>7. Head(plan') \in After(Head(plan))
  <2>1. \A i \in 1 .. Len(plan) - 1 : plan[i + 1] \in After(plan[i])
    BY DEF PlanOK
  <2> QED
    BY <1>0, <1>2, <2>1
<1>8. Head(plan') # "login" /\ (Head(plan') = "list" => con.avoid_a) /\ Fits(Head(plan))'
  <2>1. 1 \in 1 .. Len(plan')
    BY <1>0, <1>2
  <2> QED
    BY <2>1, <1>2, <1>a, <1>6
<1>9. con.alive /\ stage = "getftp"
  BY DEF PlanOK
<1>b. con'.alive /\ stage' = "getftp"
  BY <1>9
<1>c. \A i \in 2 .. Len(plan') : plan'[i] # "login" /\ (plan'[i] = "list" => con'.avoid_a)
  BY <1>6
<1>d. PlanOK'
  BY <1>2, <1>a, <1>4, <1>5, <1>8, <1>b, <1>c DEF PlanOK
<1> QED
  BY <1>2, <1>7, <1>8, <1>d

\* getftp gives up, and the connection is closed.
LEMMA Closing ==
    ASSUME Inv, NEW err \in Errors, CloseReturn(err), stage = "getftp", UNCHANGED <<world, stack>>,
           listing' \in Seq(ListEntries), disk' = [f \in DOMAIN disk' |-> disk'[f]],
           \A f \in DOMAIN disk' : f \in Names /\ disk'[f] \in Seq(Bytes)
    PROVE  Inv'
<1>0. "" \in DOMAIN Tree
  BY TreeAssumption
<1>1. /\ job' = [job EXCEPT !.err = err] /\ stage' = "outcome" /\ plan' = <<>>
      /\ con' = [con EXCEPT !.alive = FALSE] /\ session' = Session
  BY DEF CloseReturn
<1>2. /\ SameJob /\ job'.err = err /\ ~con'.alive /\ con'.own = con.own
  BY <1>1 DEF Inv, TypeOK, SameJob, Jobs, Cons
<1>3. TypeOK'
  <2>1. job' \in Jobs
    BY <1>1 DEF Inv, TypeOK, Jobs
  <2>2. con' \in Cons
    BY <1>1 DEF Inv, TypeOK, Cons
  <2>3. session' \in Sessions({session'.data})
    BY <1>0, <1>1, EmptySeq DEF Session, Sessions
  <2> QED
    BY <1>1, <2>1, <2>2, <2>3 DEF Inv, TypeOK, Stages
<1>4. PlanOK'
  BY <1>1 DEF PlanOK
<1>5. DialogueOK' /\ BetweenOK'
  BY <1>1, <1>2 DEF DialogueOK, BetweenOK
<1>6. JobOK' /\ StackOK'
  BY <1>1, <1>2 DEF Inv, JobOK, StackOK, SameJob, AllGiven, Top
<1> QED
  BY <1>3, <1>4, <1>5, <1>6 DEF Inv

\* A command is answered: the oldest answer is heard, and this one is behind the others.
LEMMA Exchange ==
    ASSUME NEW D, NEW r \in Codes,
           NEW s \in Sessions(D)
    PROVE  /\ Heard(Answer(s, r)) = IF s.replies = <<>> THEN r ELSE s.replies[1]
           /\ Heard(Answer(s, r)) \in Codes
           /\ Ask(Answer(s, r)) =>
                 /\ session' \in Sessions(D)
                 /\ session'.cwd = s.cwd /\ session'.rest = s.rest
                 /\ session'.open = s.open /\ session'.data = s.data
                 /\ Len(session'.replies) = Len(s.replies)
                 /\ \A i \in 1 .. Len(s.replies) :
                       session'.replies[i] = IF i = Len(s.replies) THEN r ELSE s.replies[i + 1]
<1> DEFINE P == s.replies
<1>0. P \in Seq(Codes)
  BY DEF Sessions
<1>1. /\ Append(P, r) \in Seq(Codes) /\ Append(P, r) # <<>>
      /\ Head(Append(P, r)) = IF P = <<>> THEN r ELSE P[1]
      /\ Tail(Append(P, r)) \in Seq(Codes) /\ Len(Tail(Append(P, r))) = Len(P)
      /\ \A i \in 1 .. Len(P) : Tail(Append(P, r))[i] = IF i = Len(P) THEN r ELSE P[i + 1]
  BY <1>0, Answering
<1>2. /\ Answer(s, r).replies = Append(P, r) /\ Answer(s, r).cwd = s.cwd /\ Answer(s, r).rest = s.rest
      /\ Answer(s, r).open = s.open /\ Answer(s, r).data = s.data
      /\ Answer(s, r) \in Sessions(D)
  BY <1>1 DEF Answer, Sessions
<1>3. Heard(Answer(s, r)) = (IF P = <<>> THEN r ELSE P[1]) /\ Heard(Answer(s, r)) \in Codes
  <2>1. P # <<>> => P[1] \in Codes
    BY <1>0
  <2> QED
    BY <1>1, <1>2, <2>1 DEF Heard
<1>4. ASSUME Ask(Answer(s, r))
      PROVE  /\ session' \in Sessions(D)
             /\ session'.cwd = s.cwd /\ session'.rest = s.rest
             /\ session'.open = s.open /\ session'.data = s.data
             /\ session'.replies = Tail(Append(P, r))
  <2>1. PICK a : a = Answer(s, r)
    OBVIOUS
  <2>2. session' = [a EXCEPT !.replies = Tail(a.replies)]
    BY <1>4, <2>1 DEF Ask
  <2>3. Tail(a.replies) \in Seq(Codes) /\ a.replies = Append(P, r)
    BY <1>1, <1>2, <2>1
  <2>4. /\ a \in Sessions(D)
        /\ a.cwd = s.cwd /\ a.rest = s.rest /\ a.open = s.open /\ a.data = s.data
    BY <1>2, <2>1
  <2> QED
    BY <2>2, <2>3, <2>4 DEF Sessions
<1> QED
  BY <1>1, <1>3, <1>4

\* getftp goes on to the next command.
LEMMA Proceeding ==
    ASSUME Inv, stage = "getftp", UNCHANGED <<world, stage, stack, disk, listing, con>>,
           SameJob, PlanOK', plan' \in Seq(Known), DialogueOK',
           session' \in Sessions({session'.data}),
           job' \in Jobs
    PROVE  Inv'
<1>1. TypeOK'
  BY DEF Inv, TypeOK
<1>2. BetweenOK'
  BY DEF BetweenOK
<1>3. JobOK'
  BY DEF Inv, JobOK, SameJob, AllGiven, Top
<1>4. StackOK'
  BY DEF Inv, StackOK
<1> QED
  BY <1>1, <1>2, <1>3, <1>4 DEF Inv

\* What every step of the dialogue starts from.
LEMMA Commanded ==
    ASSUME Inv, NEW c, Sending(c)
    PROVE  /\ stage = "getftp" /\ plan # <<>> /\ Head(plan) = c /\ (con.alive <=> c # "login")
           /\ plan \in Seq(Known) /\ Fits(c) /\ Pending \in Seq(Codes)
           /\ session \in Sessions({session.data}) /\ job \in Jobs /\ con \in Cons
           /\ job.op \in {"LIST", "RETR"}
           /\ con.own => job.op = "RETR"
<1>1. stage = "getftp" /\ plan # <<>> /\ Head(plan) = c
  BY DEF Sending
<1>2. /\ plan \in Seq(Known) /\ session \in Sessions({session.data}) /\ job \in Jobs /\ con \in Cons
      /\ con.alive \in BOOLEAN
  BY DEF Inv, TypeOK, Cons
<1>3. con.alive <=> c # "login"
  BY <1>1, <1>2 DEF Inv, PlanOK
<1>4. 1 \in 1 .. Len(plan) /\ plan[1] = c
  BY <1>1, <1>2
<1>5. Fits(c)
  BY <1>4 DEF Inv, PlanOK
<1>6. Pending \in Seq(Codes)
  BY <1>2 DEF Pending, Sessions
<1>7. job.op \in {"LIST", "RETR"} /\ (con.own => job.op = "RETR")
  BY <1>1 DEF Inv, JobOK
<1> QED
  BY <1>1, <1>2, <1>3, <1>5, <1>6, <1>7

LEMMA Breaking ==
    ASSUME Inv, NEW err \in Errors, CloseReturn(err), NEW c, Sending(c), UNCHANGED Locals
    PROVE  Inv'
<1>1. stage = "getftp"
  BY Commanded
<1>2. UNCHANGED <<world, stack>> /\ listing' = listing /\ disk' = disk
  BY DEF Locals
<1>3. /\ listing' \in Seq(ListEntries) /\ disk' = [f \in DOMAIN disk' |-> disk'[f]]
      /\ \A f \in DOMAIN disk' : f \in Names /\ disk'[f] \in Seq(Bytes)
  BY <1>2 DEF Inv, TypeOK
<1> QED
  BY <1>1, <1>2, <1>3, Closing

\* One answer is behind the ones that were pending, and the oldest is gone.
Shifted(r) ==
    /\ Pending' \in Seq(Codes) /\ Len(Pending') = Len(Pending)
    /\ \A i \in 1 .. Len(Pending) : Pending'[i] = IF i = Len(Pending) THEN r ELSE Pending[i + 1]

LEMMA Shifting ==
    ASSUME NEW r, Shifted(r), Pending \in Seq(Codes)
    PROVE  /\ Pending = <<>> => Pending' = <<>> /\ Len(Pending') = 0
           /\ Len(Pending) = 1 => Pending # <<>> /\ Pending' # <<>> /\ Len(Pending') = 1 /\ Pending'[1] = r
           /\ Len(Pending) = 2 => /\ Pending # <<>> /\ Pending' # <<>> /\ Len(Pending') = 2
                                  /\ Pending'[1] = Pending[2] /\ Pending'[2] = r
           /\ Pending = <<>> \/ Len(Pending) = 1 \/ Len(Pending) >= 2
           /\ Pending # <<>> /\ Len(Pending) # 1 => Pending' # <<>> /\ Pending'[1] = Pending[2]
<1> DEFINE P == Pending
           Q == Pending'
<1>1. Q \in Seq(Codes) /\ Len(Q) = Len(P) /\ P \in Seq(Codes)
  BY DEF Shifted
<1>2. \A i \in 1 .. Len(P) : Q[i] = IF i = Len(P) THEN r ELSE P[i + 1]
  BY DEF Shifted
<1> HIDE DEF P, Q
<1>3. P = <<>> => Q = <<>> /\ Len(Q) = 0
  BY <1>1
<1>a. Len(P) \in {1, 2} => Len(Q) = Len(P) /\ P # <<>> /\ Q # <<>>
  <2>1. Len(Q) = Len(P)
    BY <1>1
  <2>2. ASSUME NEW s, Len(s) = 1 \/ Len(s) = 2 PROVE s # <<>>
    BY <2>2
  <2> QED
    BY <2>1, <2>2
<1>4. Len(P) = 1 => P # <<>> /\ Q # <<>> /\ Len(Q) = 1 /\ Q[1] = r
  <2>1. Len(P) = 1 => Q[1] = r
    BY <1>2
  <2> QED
    BY <1>a, <2>1
<1>5. Len(P) = 2 => P # <<>> /\ Q # <<>> /\ Len(Q) = 2 /\ Q[1] = P[2] /\ Q[2] = r
  <2>1. Len(P) = 2 => Q[1] = P[2] /\ Q[2] = r
    BY <1>2
  <2> QED
    BY <1>a, <2>1
<1>6. P = <<>> \/ Len(P) = 1 \/ Len(P) >= 2
  BY <1>1
<1>7. P # <<>> /\ Len(P) # 1 => Q # <<>> /\ Q[1] = P[2]
  <2> SUFFICES ASSUME Len(P) >= 2 PROVE Q # <<>> /\ Q[1] = P[2]
    BY <1>6
  <2>1. Q # <<>>
    BY <1>1
  <2>2. 1 \in 1 .. Len(P) /\ 1 # Len(P)
    BY <1>1
  <2>3. Q[1] = P[1 + 1]
    BY <1>2, <2>2
  <2> QED
    BY <2>1, <2>3
<1> QED
  BY <1>3, <1>4, <1>5, <1>6, <1>7 DEF P, Q

\* A command that is not one for a transfer is answered with r, and its state s.
LEMMA Told ==
    ASSUME Pending \in Seq(Codes), NEW r \in Codes,
           NEW s \in Sessions({session.data}), s.replies = Pending
    PROVE  /\ Heard(Answer(s, r)) = IF Pending = <<>> THEN r ELSE Pending[1]
           /\ Heard(Answer(s, r)) \in Codes
           /\ Ask(Answer(s, r)) =>
                 /\ session' \in Sessions({session.data}) /\ session' \in Sessions({session'.data})
                 /\ session'.cwd = s.cwd /\ session'.rest = s.rest
                 /\ session'.open = s.open /\ session'.data = s.data
                 /\ Shifted(r)
<1>1. /\ Heard(Answer(s, r)) = IF Pending = <<>> THEN r ELSE Pending[1]
      /\ Heard(Answer(s, r)) \in Codes
  BY Exchange
<1>2. ASSUME Ask(Answer(s, r))
      PROVE  /\ session' \in Sessions({session.data})
             /\ session'.cwd = s.cwd /\ session'.rest = s.rest
             /\ session'.open = s.open /\ session'.data = s.data
             /\ Len(session'.replies) = Len(Pending)
             /\ \A i \in 1 .. Len(Pending) :
                   session'.replies[i] = IF i = Len(Pending) THEN r ELSE Pending[i + 1]
  BY <1>2, Exchange
<1>3. ASSUME Ask(Answer(s, r)) PROVE Shifted(r)
  BY <1>2, <1>3 DEF Shifted, Pending, Sessions
<1>4. ASSUME Ask(Answer(s, r)) PROVE session' \in Sessions({session'.data})
  BY <1>2, <1>4 DEF Sessions
<1> QED
  BY <1>1, <1>2, <1>3, <1>4

LEMMA IdleCases ==
    ASSUME Idle
    PROVE  \/ Pending = <<>>
           \/ Pending # <<>> /\ Dead
           \/ Pending # <<>> /\ Len(Pending) = 1 /\ First({2})
           \/ Pending # <<>> /\ Len(Pending) = 2 /\ Odd /\ Twice /\ ~world.ftp_pasv
BY DEF Idle, Odd, First, Dead

\* getftp gives up, and leaves the connection open.
LEMMA Returning ==
    ASSUME Inv, NEW err \in Errors, NEW c, Sending(c), c # "login", Return(err), UNCHANGED Locals,
           session' \in Sessions({session'.data}), Idle', (Right \/ Lost)', Odd' => job.op = "LIST",
           con.own => Right' /\ (err \in Fatal \/ Len(Pending') <= 1),
           job.op = "LIST" /\ err = "RETRFINISHED" => Right' /\ Len(Pending') <= 1
    PROVE  Inv'
<1>1. /\ stage = "getftp" /\ con.alive /\ job \in Jobs /\ con \in Cons
  BY Commanded
<1>2. /\ job' = [job EXCEPT !.err = err] /\ stage' = "outcome" /\ plan' = <<>> /\ con' = con
      /\ UNCHANGED <<world, stack, disk, listing>>
  BY DEF Return, Locals
<1>3. job' \in Jobs /\ SameJob /\ job'.err = err
  BY <1>1, <1>2 DEF Jobs, SameJob
<1>4. TypeOK'
  BY <1>1, <1>2, <1>3, EmptySeq DEF Inv, TypeOK, Stages
<1>5. PlanOK'
  BY <1>2 DEF PlanOK
<1>6. DialogueOK'
  BY <1>2 DEF DialogueOK
<1>7. BetweenOK'
  BY <1>2, <1>3 DEF BetweenOK, SameJob
<1>8. JobOK' /\ StackOK'
  BY <1>1, <1>2, <1>3 DEF Inv, JobOK, StackOK, SameJob, AllGiven, Top
<1> QED
  BY <1>4, <1>5, <1>6, <1>7, <1>8 DEF Inv

\* PORT in place of PASV.
LEMMA FallBack ==
    ASSUME Inv, Sending("pasv"), plan' = <<"port">> \o Tail(plan), ~world.pasv,
           UNCHANGED <<world, con, stage, job>>
    PROVE  PlanOK' /\ plan' \in Seq(Known) /\ plan' # <<>> /\ Head(plan') = "port"
<1>1. /\ stage = "getftp" /\ plan # <<>> /\ Head(plan) = "pasv" /\ con.alive
      /\ plan \in Seq(Known) /\ PlanOK
  BY Commanded DEF Inv
<1>2. plan[Len(plan)] \in Transferring \cup Data /\ Head(plan) \notin Transferring \cup Data
  BY <1>1 DEF PlanOK, Transferring, Data
<1>3. /\ Len(plan) > 1 /\ plan[1] = "pasv"
      /\ Tail(plan) # <<>> /\ Tail(plan) \in Seq(Known) /\ Len(Tail(plan)) = Len(plan) - 1
      /\ \A i \in 1 .. Len(plan) - 1 : Tail(plan)[i] = plan[i + 1]
  BY <1>1, <1>2, TailOf
<1>4. /\ plan' \in Seq(Known) /\ Len(plan') = Len(plan)
      /\ \A i \in 1 .. Len(plan) : plan'[i] = IF i = 1 THEN "port" ELSE plan[i]
  <2>1. PICK t : t = Tail(plan)
    OBVIOUS
  <2>2. t \in Seq(Known) /\ Len(t) = Len(plan) - 1 /\ plan' = <<"port">> \o t
    BY <1>3, <2>1
  <2>3. PICK u : u = <<"port">>
    OBVIOUS
  <2>a. u \in Seq(Known)
    BY <2>3 DEF Known
  <2>b. Len(u) = 1 /\ u[1] = "port"
    BY <2>3
  <2>4. /\ plan' \in Seq(Known) /\ Len(plan') = 1 + Len(t)
        /\ \A i \in 1 .. 1 + Len(t) : plan'[i] = IF i <= 1 THEN u[i] ELSE t[i - 1]
    <3>1. plan' = u \o t /\ t \in Seq(Known)
      BY <2>2, <2>3
    <3>2. /\ u \o t \in Seq(Known) /\ Len(u \o t) = Len(u) + Len(t)
          /\ \A i \in 1 .. Len(u) + Len(t) : (u \o t)[i] = IF i <= Len(u) THEN u[i] ELSE t[i - Len(u)]
      BY <3>1, <2>a, ConcatProperties
    <3> QED
      BY <3>1, <3>2, <2>b
  <2>5. \A i \in 1 .. Len(plan) : plan'[i] = IF i = 1 THEN "port" ELSE plan[i]
    <3> SUFFICES ASSUME NEW i \in 1 .. Len(plan) PROVE plan'[i] = IF i = 1 THEN "port" ELSE plan[i]
      OBVIOUS
    <3>1. i # 1 => i - 1 \in 1 .. Len(plan) - 1 /\ (i - 1) + 1 = i
      BY <1>1
    <3>2. i # 1 => t[i - 1] = plan[i]
      BY <1>3, <2>1, <3>1
    <3> QED
      BY <1>1, <2>2, <2>b, <2>4, <3>2
  <2> QED
    BY <1>1, <2>2, <2>4, <2>5
<1>5. Len(plan') > 1 /\ plan'[1] = "port" /\ plan' # <<>>
  BY <1>1, <1>3, <1>4
<1>6. Head(plan') = "port"
  BY <1>4, <1>5
<1>7. \A c : (Fits(c) => Fits(c)') /\ After(c)' = After(c)
  BY DEF Fits, After, Follows, Mode
<1>8. Fits("port")' /\ After("port") = After("pasv")
  BY DEF Fits, After, Follows, Ports
<1>9. \A i \in 1 .. Len(plan') : Fits(plan[i])'
  <2> SUFFICES ASSUME NEW i \in 1 .. Len(plan) PROVE Fits(plan[i])'
    BY <1>4
  <2>1. PICK c : c = plan[i]
    OBVIOUS
  <2>2. Fits(c)'
    BY <1>1, <1>7, <2>1 DEF PlanOK
  <2>3. CASE i = 1
    BY <1>5, <1>8, <2>3
  <2>4. CASE i # 1
    BY <1>4, <2>1, <2>2, <2>4
  <2> QED
    BY <2>3, <2>4
<1>10. \A i \in 1 .. Len(plan') - 1 : plan'[i + 1] \in After(plan[i])'
  <2> SUFFICES ASSUME NEW i \in 1 .. Len(plan) - 1 PROVE plan'[i + 1] \in After(plan[i])'
    BY <1>4
  <2>1. PICK c : c = plan[i]
    OBVIOUS
  <2>2. plan[i + 1] \in After(c) /\ After(c)' = After(c)
    BY <1>1, <1>7, <2>1 DEF PlanOK
  <2>3. plan'[i + 1] = plan[i + 1]
    BY <1>1, <1>4
  <2>4. CASE i = 1
    <3>1. plan'[2] \in After("port")'
      BY <1>3, <1>7, <1>8, <2>1, <2>2, <2>3, <2>4
    <3> QED
      BY <1>5, <2>4, <3>1
  <2>5. CASE i # 1
    <3>1. plan'[i] = c
      BY <1>1, <1>4, <2>1, <2>5
    <3> QED
      BY <2>2, <2>3, <3>1
  <2> QED
    BY <2>4, <2>5
<1>11. plan'[Len(plan')] \in Transferring \cup Data
  <2>1. plan'[Len(plan)] = plan[Len(plan)]
    BY <1>1, <1>3, <1>4
  <2> QED
    BY <1>2, <1>4, <2>1
<1>12. \A i \in 2 .. Len(plan') : plan'[i] # "login" /\ (plan'[i] = "list" => con'.avoid_a)
  <2> SUFFICES ASSUME NEW i \in 2 .. Len(plan)
               PROVE  plan'[i] # "login" /\ (plan'[i] = "list" => con'.avoid_a)
    BY <1>4
  <2>1. plan'[i] = plan[i]
    BY <1>1, <1>4
  <2> QED
    BY <1>1, <2>1 DEF PlanOK
<1>13. PlanOK'
  <2>1. con'.alive /\ stage' = "getftp"
    BY <1>1
  <2> QED
    BY <1>5, <1>6, <1>9, <1>10, <1>11, <1>12, <2>1 DEF PlanOK
<1> QED
  BY <1>4, <1>5, <1>6, <1>13

(***************************************************************************)
(* What is transferred                                                     *)
(***************************************************************************)
LEMMA DocOf ==
    ASSUME NEW f \in Names
    PROVE  /\ Doc(f) \in Seq(Bytes) /\ Len(Doc(f)) = N
           /\ \A i \in 1 .. N : Doc(f)[i] = Byte(f, i)
<1>1. N \in Nat
  BY WorldsAssumption
<1>2. \A i \in 1 .. N : Byte(f, i) \in Bytes
  BY <1>1 DEF Byte, Bytes
<1>3. Doc(f) \in Seq(Bytes)
  BY <1>1, <1>2, IsASeq DEF Doc
<1> QED
  BY <1>1, <1>3, LenProperties DEF Doc

LEMMA EntriesOf ==
    ASSUME NEW kind, NEW T, NEW S, NEW names \in Seq(S), \A n \in S : Entry(kind, n) \in T
    PROVE  Entries(kind, names) \in Seq(T)
<1>1. Len(names) \in Nat /\ DOMAIN names = 1 .. Len(names) /\ \A i \in 1 .. Len(names) : names[i] \in S
  BY LenProperties, ElementOfSeq
<1>2. \A i \in 1 .. Len(names) : Entry(kind, names[i]) \in T
  BY <1>1
<1>3. [i \in 1 .. Len(names) |-> Entry(kind, names[i])] \in Seq(T)
  BY <1>1, <1>2, IsASeq
<1> QED
  BY <1>1, <1>3 DEF Entries

LEMMA ListedOf ==
    ASSUME NEW d \in DOMAIN Tree, NEW hidden \in BOOLEAN
    PROVE  Listed(d, hidden) \in Seq(ListEntries)
<1>1. /\ Tree[d].files \in Seq(STRING) /\ Tree[d].hidden \in Seq(STRING)
      /\ Tree[d].dirs \in Seq(DOMAIN Tree \ {""})
  BY TreeAssumption
<1>2. /\ \A n \in STRING : Entry("file", n) \in ListEntries
      /\ \A n \in DOMAIN Tree \ {""} : Entry("dir", n) \in ListEntries
  BY DEF Entry, ListEntries, FileEntries, DirEntries
<1>3. /\ Entries("file", Tree[d].files) \in Seq(ListEntries)
      /\ Entries("file", Tree[d].hidden) \in Seq(ListEntries)
      /\ Entries("dir", Tree[d].dirs) \in Seq(ListEntries)
  BY <1>1, <1>2, EntriesOf
<1>4. (IF hidden THEN Entries("file", Tree[d].hidden) ELSE <<>>) \in Seq(ListEntries)
  BY <1>3, EmptySeq
<1>5. (IF hidden THEN Entries("file", Tree[d].hidden) ELSE <<>>)
      \o Entries("file", Tree[d].files) \in Seq(ListEntries)
  BY <1>3, <1>4, ConcatProperties
<1> QED
  BY <1>3, <1>5, ConcatProperties DEF Listed

LEMMA PrefixOf ==
    ASSUME NEW T, NEW s \in Seq(T), NEW m \in Nat \ {0}, NEW n \in Nat, n <= Len(s)
    PROVE  SubSeq(s, m, n) \in Seq(T)
<1>1. \A i \in m .. n : s[i] \in T
  BY ElementOfSeq
<1> QED
  BY <1>1, SubSeqProperties

LEMMA TailOfDoc ==
    ASSUME NEW f \in Names, NEW q \in Nat
    PROVE  SubSeq(Doc(f), q + 1, N) \in Seq(Bytes)
<1>1. N \in Nat
  BY WorldsAssumption
<1>2. Doc(f) \in Seq(Bytes) /\ Len(Doc(f)) = N
  BY DocOf
<1>3. q + 1 \in Nat \ {0}
  OBVIOUS
<1> QED
  BY <1>1, <1>2, <1>3, PrefixOf

\* Two answers are behind the ones that were pending, and the oldest is gone.
Shifted2(r) ==
    /\ Pending' \in Seq(Codes) /\ Len(Pending') = Len(Pending) + 1
    /\ \A i \in 1 .. Len(Pending) + 1 :
          Pending'[i] = IF i = Len(Pending) + 1 THEN r
                        ELSE IF i = Len(Pending) THEN 150 ELSE Pending[i + 1]

LEMMA Shifting2 ==
    ASSUME NEW r, Shifted2(r), Pending \in Seq(Codes)
    PROVE  /\ Pending' # <<>>
           /\ Pending = <<>> => Len(Pending') = 1 /\ Pending'[1] = r
           /\ Len(Pending) = 1 => Len(Pending') = 2 /\ Pending'[1] = 150 /\ Pending'[2] = r
           /\ Len(Pending) = 2 => /\ Pending'[1] = Pending[2] /\ Pending'[2] = 150
                                  /\ Len(Pending') = 3
           /\ Pending # <<>> /\ Len(Pending) # 1 => Pending'[1] = Pending[2]
<1> DEFINE P == Pending
           Q == Pending'
<1>1. Q \in Seq(Codes) /\ Len(Q) = Len(P) + 1 /\ P \in Seq(Codes)
  BY DEF Shifted2
<1>2. \A i \in 1 .. Len(P) + 1 :
         Q[i] = IF i = Len(P) + 1 THEN r ELSE IF i = Len(P) THEN 150 ELSE P[i + 1]
  BY DEF Shifted2
<1> HIDE DEF P, Q
<1>3. Q # <<>>
  BY <1>1
<1>4. P = <<>> => Len(Q) = 1 /\ Q[1] = r
  BY <1>1, <1>2
<1>5. Len(P) = 1 => Len(Q) = 2 /\ Q[1] = 150 /\ Q[2] = r
  BY <1>1, <1>2
<1>6. Len(P) = 2 => Q[1] = P[2] /\ Q[2] = 150 /\ Len(Q) = 3
  BY <1>1, <1>2
<1>7. P # <<>> /\ Len(P) # 1 => Q[1] = P[2]
  <2> SUFFICES ASSUME P # <<>>, Len(P) # 1 PROVE Q[1] = P[2]
    OBVIOUS
  <2>1. Len(P) \in Nat /\ Len(P) # 0
    BY <1>1
  <2>2. 1 \in 1 .. Len(P) + 1 /\ 1 # Len(P) + 1
    BY <2>1
  <2>3. Q[1] = P[1 + 1]
    BY <1>2, <2>2
  <2> QED
    BY <2>3
<1> QED
  BY <1>3, <1>4, <1>5, <1>6, <1>7 DEF P, Q

\* The server refuses, or sends some of the items.
Prefix(d, items) == d = items \/ \E k \in 0 .. Len(items) : d = SubSeq(items, 1, k)
LEMMA RefusedBy ==
    ASSUME NEW data, session \in Sessions(data), NEW s \in Refusals
    PROVE  \E r \in {450, 550}, o \in BOOLEAN : s = Refused(r, o) /\ (o => session.open)
<1>1. session.open \in BOOLEAN
  BY DEF Sessions
<1>2. ASSUME NEW o \in BOOLEAN, o => session.open, s \in { Refused(r, o) : r \in {450, 550} }
      PROVE  \E r \in {450, 550}, k \in BOOLEAN : s = Refused(r, k) /\ (k => session.open)
  BY <1>2
<1>3. \/ s \in { Refused(r, FALSE) : r \in {450, 550} }
      \/ s \in { Refused(r, session.open) : r \in {450, 550} }
  BY DEF Refusals
<1> QED
  BY <1>1, <1>2, <1>3

LEMMA Served ==
    ASSUME NEW data, session \in Sessions(data), NEW of, NEW items, NEW s \in Transfers(of, items)
    PROVE  \/ \E r \in {450, 550}, o \in BOOLEAN : s = Refused(r, o) /\ (o => session.open)
           \/ /\ session.open
              /\ \E f \in {226, 426} : \E d :
                    s = Sent(of, d, f) /\ Prefix(d, items) /\ (f = 226 => d = items)
<1> DEFINE Cut == { Sent(of, SubSeq(items, 1, k), 426) : k \in 0 .. Len(items) }
<1>0. \/ s \in Refusals
      \/ session.open /\ s = Sent(of, items, 226)
      \/ session.open /\ s \in Cut
  <2>1. Transfers(of, items)
        = Refusals \cup (IF session.open THEN {Sent(of, items, 226)} \cup Cut ELSE {})
    BY DEF Transfers
  <2> HIDE DEF Cut
  <2> QED
    BY <2>1
<1>1. CASE s \in Refusals
  BY <1>1, RefusedBy
<1>2. CASE session.open /\ s = Sent(of, items, 226)
  <2>1. Prefix(items, items)
    BY DEF Prefix
  <2> QED
    BY <1>2, <2>1
<1>3. CASE session.open /\ s \in Cut
  <2>1. PICK k \in 0 .. Len(items) : s = Sent(of, SubSeq(items, 1, k), 426)
    BY <1>3
  <2>2. PICK d : d = SubSeq(items, 1, k)
    OBVIOUS
  <2>3. Prefix(d, items)
    BY <2>2 DEF Prefix
  <2>4. s = Sent(of, d, 426)
    BY <2>1, <2>2
  <2> QED
    BY <1>3, <2>3, <2>4
<1> HIDE DEF Cut
<1> QED
  BY <1>0, <1>1, <1>2, <1>3

\* A transfer that is refused is answered with r, one that is begun with 150 and f.
LEMMA Refusing ==
    ASSUME Pending \in Seq(Codes), NEW data, session \in Sessions(data), NEW r \in {450, 550},
           NEW o \in BOOLEAN
    PROVE  /\ Heard(Refused(r, o)) = IF Pending = <<>> THEN r ELSE Pending[1]
           /\ Heard(Refused(r, o)) \in Codes
           /\ Ask(Refused(r, o)) =>
                 /\ session' \in Sessions({session'.data})
                 /\ session'.cwd = session.cwd /\ session'.open = o /\ session'.data = session.data
                 /\ Shifted(r)
<1> DEFINE s0 == [session EXCEPT !.rest = 0, !.open = o]
<1>1. Refused(r, o) = Answer(s0, r)
  BY DEF Refused
<1>2. s0 \in Sessions({session.data}) /\ s0.replies = Pending /\ s0.cwd = session.cwd /\ s0.open = o
      /\ s0.data = session.data
  BY DEF Sessions, Pending
<1>3. r \in Codes
  BY DEF Codes
<1> HIDE DEF s0
<1>4. /\ Heard(Answer(s0, r)) = IF Pending = <<>> THEN r ELSE Pending[1]
      /\ Heard(Answer(s0, r)) \in Codes
  BY <1>2, <1>3, Told
<1>5. ASSUME Ask(Answer(s0, r))
      PROVE  /\ session' \in Sessions({session'.data})
             /\ session'.cwd = session.cwd /\ session'.open = o /\ session'.data = session.data
             /\ Shifted(r)
  <2>1. /\ session' \in Sessions({session'.data})
        /\ session'.cwd = s0.cwd /\ session'.open = s0.open /\ session'.data = s0.data
        /\ Shifted(r)
    BY <1>2, <1>3, <1>5, Told
  <2> QED
    BY <1>2, <2>1
<1> QED
  BY <1>1, <1>4, <1>5

LEMMA Hearing150 ==
    ASSUME NEW f \in {226, 426}, NEW of, NEW d, Pending \in Seq(Codes),
           NEW data, session \in Sessions(data)
    PROVE  /\ Pending = <<>> => Heard(Sent(of, d, f)) = 150
           /\ Pending # <<>> => Heard(Sent(of, d, f)) = Pending[1]
<1> DEFINE Q == Pending \o <<150, f>>
<1>0. f \in Codes
  BY DEF Codes
<1>1. Q # <<>> /\ Head(Q) = IF Pending = <<>> THEN 150 ELSE Pending[1]
  BY <1>0, Pairing
<1>2. Sent(of, d, f).replies = Q
  BY DEF Sent, Pending, Sessions
<1> HIDE DEF Q
<1> QED
  BY <1>1, <1>2 DEF Heard

LEMMA Sending150 ==
    ASSUME Pending \in Seq(Codes), NEW data, session \in Sessions(data), NEW f \in {226, 426},
           NEW of, NEW d
    PROVE  Ask(Sent(of, d, f)) =>
              /\ session' \in Sessions({session'.data})
              /\ session'.cwd = session.cwd /\ ~session'.open
              /\ session'.data = [of |-> of, items |-> d]
              /\ Shifted2(f)
<1> DEFINE Q == Pending \o <<150, f>>
           D == [of |-> of, items |-> d]
           s == [session EXCEPT !.rest = 0, !.open = FALSE, !.replies = Q, !.data = D]
<1>0. f \in Codes
  BY DEF Codes
<1>1. /\ Q \in Seq(Codes) /\ Q # <<>> /\ Head(Q) = IF Pending = <<>> THEN 150 ELSE Pending[1]
      /\ Tail(Q) \in Seq(Codes) /\ Len(Tail(Q)) = Len(Pending) + 1
      /\ \A i \in 1 .. Len(Pending) + 1 :
            Tail(Q)[i] = IF i = Len(Pending) + 1 THEN f
                         ELSE IF i = Len(Pending) THEN 150 ELSE Pending[i + 1]
  BY <1>0, Pairing
<1>2. Sent(of, d, f) = s
  BY DEF Sent, Pending
<1> HIDE DEF Q, D
<1>3. s.replies = Q /\ s.cwd = session.cwd /\ ~s.open /\ s.data = D /\ s \in Sessions({D})
  BY <1>1 DEF Sessions
<1> HIDE DEF s
<1>5. ASSUME Ask(s)
      PROVE  /\ session' \in Sessions({session'.data}) /\ session'.cwd = session.cwd /\ ~session'.open
             /\ session'.data = D /\ Shifted2(f)
  <2>1. session' = [s EXCEPT !.replies = Tail(Q)]
    BY <1>3, <1>5 DEF Ask
  <2>2. PICK t : t = Tail(Q)
    OBVIOUS
  <2>3. t \in Seq(Codes) /\ session' = [s EXCEPT !.replies = t]
    BY <1>1, <2>1, <2>2
  <2>4. session' \in Sessions({D}) /\ session'.replies = t /\ session'.cwd = s.cwd
        /\ session'.open = s.open /\ session'.data = s.data
    BY <1>3, <2>3 DEF Sessions
  <2>5. Pending' = t
    BY <2>4 DEF Pending
  <2>6. Shifted2(f)
    BY <1>1, <2>2, <2>3, <2>5 DEF Shifted2
  <2> QED
    BY <1>3, <2>4, <2>6
<1> QED
  BY <1>2, <1>5 DEF D

\* A plan of one command.
LEMMA OneLeft ==
    ASSUME NEW c, c \in Known, plan' = <<c>>, Fits(c)', c \in Transferring \cup Data,
           stage' = "getftp", con'.alive
    PROVE  PlanOK' /\ plan' \in Seq(Known) /\ plan' # <<>> /\ Head(plan') = c
<1>1. plan' \in Seq(Known) /\ plan' # <<>> /\ Len(plan') = 1 /\ plan'[1] = c /\ Head(plan') = c
  OBVIOUS
<1>2. \A i \in 1 .. Len(plan') : Fits(plan[i])'
  <2> SUFFICES ASSUME NEW i \in 1 .. 1 PROVE Fits(plan[i])'
    BY <1>1
  <2>1. plan'[i] = c
    BY <1>1
  <2> QED
    BY <2>1
<1>3. \A i \in 1 .. Len(plan') - 1 : plan'[i + 1] \in After(plan[i])'
  BY <1>1
<1>4. \A i \in 2 .. Len(plan') : plan'[i] # "login" /\ (plan'[i] = "list" => con'.avoid_a)
  BY <1>1
<1>5. plan'[Len(plan')] \in Transferring \cup Data /\ Head(plan') # "login"
  BY <1>1 DEF Transferring, Data
<1> QED
  BY <1>1, <1>2, <1>3, <1>4, <1>5 DEF PlanOK

LEMMA CwdStep == Inv /\ Cwd => Inv'
<1> SUFFICES ASSUME Inv, Cwd PROVE Inv'
  OBVIOUS
<1>0. Sending("cwd") /\ UNCHANGED Locals
  BY DEF Cwd
<1>1. /\ stage = "getftp" /\ plan # <<>> /\ Head(plan) = "cwd" /\ con.alive
      /\ plan \in Seq(Known) /\ Fits("cwd") /\ Pending \in Seq(Codes)
      /\ session \in Sessions({session.data}) /\ job \in Jobs /\ con \in Cons
      /\ job.op \in {"LIST", "RETR"}
      /\ con.own => job.op = "RETR"
  BY <1>0, Commanded
<1>2. CASE Broken
  BY <1>2, <1>0, Breaking DEF Broken, Errors
<1>3. ASSUME NEW r \in {250, 450, 550}, NEW s,
             s = Answer([session EXCEPT !.cwd = IF r = 250 THEN job.dir ELSE @], r),
             Class(Heard(s)) = 2, Ask(s), Proceed(Tail(plan)), UNCHANGED job
      PROVE  Inv'
  <2> DEFINE s0 == [session EXCEPT !.cwd = IF r = 250 THEN job.dir ELSE session.cwd]
  <2>1. s = Answer(s0, r) /\ r \in Codes
    BY <1>3 DEF Codes
  <2>2. /\ s0 \in Sessions({session.data}) /\ s0.replies = Pending
        /\ s0.cwd = IF r = 250 THEN job.dir ELSE session.cwd
    BY <1>1 DEF Sessions, Pending, Jobs
  <2> HIDE DEF s0
  <2>3. /\ Heard(s) = IF Pending = <<>> THEN r ELSE Pending[1]
        /\ session' \in Sessions({session.data})
        /\ session'.cwd = IF r = 250 THEN job.dir ELSE session.cwd
        /\ Len(session'.replies) = Len(Pending)
        /\ \A i \in 1 .. Len(Pending) :
                    session'.replies[i] = IF i = Len(Pending) THEN r ELSE Pending[i + 1]
    BY <1>3, <2>1, <2>2, Exchange
  <2>4. plan' = Tail(plan) /\ UNCHANGED <<world, stage, stack, disk, listing, con>>
    BY <1>0, <1>3 DEF Proceed, Locals
  <2>5. /\ PlanOK' /\ plan' \in Seq(Known) /\ plan' # <<>>
        /\ Head(plan') \in After("cwd") /\ Fits(Head(plan))'
    BY <1>1, <1>3, <2>4, PlanTail DEF Inv, Transferring, Data
  <2>6. Head(plan') \in {"size", Mode}
    BY <2>5 DEF After, Follows, Ports
  <2>7. Idle /\ (job.op = "RETR" => Pending = <<>>)
    BY <1>1 DEF Inv, DialogueOK, Left, Data
  <2>8. /\ Len(Pending') = Len(Pending) /\ Pending' \in Seq(Codes)
        /\ \A i \in 1 .. Len(Pending) : Pending'[i] = IF i = Len(Pending) THEN r ELSE Pending[i + 1]
    BY <2>3 DEF Pending, Sessions
  <2>9. con' = con /\ world' = world /\ job' = job /\ Class(Heard(s)) = 2
    BY <1>3, <2>4
  <2>10. /\ Idle' /\ (Right \/ Lost)' /\ (con.own => Right' /\ Len(Pending') <= 1)
         /\ Odd' => job'.op = "LIST"
    <3>1. CASE Pending = <<>>
      <4>1. r = 250 /\ Right'
        BY <2>3, <1>3, <3>1, <2>9, ClassOf DEF Right
      <4>2. Pending' = <<>>
        BY <2>8, <3>1
      <4> QED
        BY <4>1, <4>2 DEF Idle, Odd
    <3>2. CASE Len(Pending) = 1
      <4>c. Pending # <<>>
        BY <3>2
      <4>a. job.op = "LIST"
        BY <1>1, <2>7, <4>c
      <4>b. Len(Pending') = 1 /\ Pending'[1] = r
        BY <2>8, <3>2
      <4>1. Pending' # <<>> /\ Len(Pending') = 1 /\ Pending'[1] = r /\ job.op = "LIST"
        <5>1. Pending' # <<>>
          BY <4>b
        <5> QED
          BY <4>a, <4>b, <5>1
      <4>2. Class(r) \in {4, 5} \/ (Class(r) = 2 /\ r = 250)
        BY ClassOf
      <4>3. First({2})' \/ Dead'
        BY <4>1, <4>2 DEF First, Dead
      <4>4. (Right \/ Lost)'
        BY <4>1, <4>2, <1>3, <2>3, <2>9 DEF Right, Lost, Dead, First
      <4> QED
        BY <2>9, <2>7, <4>1, <4>3, <4>4, <1>1, <3>2 DEF Idle
    <3>3. CASE Len(Pending) = 2
      <4>c. Pending # <<>>
        BY <3>3
      <4>a. job.op = "LIST"
        BY <1>1, <2>7, <4>c
      <4>b. Len(Pending') = 2 /\ Pending'[1] = Pending[2]
        BY <2>8, <3>3
      <4>1. Pending' # <<>> /\ Len(Pending') = 2 /\ Pending'[1] = Pending[2] /\ job.op = "LIST"
        <5>1. Pending' # <<>>
          BY <4>b
        <5> QED
          BY <4>a, <4>b, <5>1
      <4>2. Heard(s) = Pending[1] /\ First({2})
        BY <1>3, <2>3, <3>3 DEF First
      <4>3. Odd /\ ~world.ftp_pasv
        BY <2>7, <3>3, <4>2 DEF Idle, First, Dead
      <4>4. Dead' /\ Lost'
        BY <4>1, <4>3 DEF Odd, Dead, First, Lost
      <4> QED
        BY <2>9, <1>1, <4>1, <4>3, <4>4 DEF Idle
    <3>4. Len(Pending) = 0 \/ Len(Pending) = 1 \/ Len(Pending) = 2
      <4>1. CASE Pending # <<>>
        <5>1. Heard(s) = Pending[1] /\ First({2})
          BY <1>3, <2>3, <4>1 DEF First
        <5> QED
          BY <5>1, <2>7 DEF Idle, First, Dead, Odd
      <4> QED
        BY <4>1
    <3> QED
      BY <1>1, <3>1, <3>2, <3>3, <3>4
  <2>a. /\ Head(plan') \in {"size", "pasv", "port"}
        /\ Head(plan') = "port" => ~world'.ftp_pasv
    BY <2>6, <2>9 DEF Mode
  <2>11. DialogueOK'
    <3>1. PICK c : c = Head(plan')
      OBVIOUS
    <3>2. c \in {"size", "pasv", "port"} /\ (c = "port" => ~world'.ftp_pasv)
      BY <2>a, <3>1
    <3>3. Left(c)'
      BY <2>10, <3>2 DEF Left, Data
    <3>4. c \notin {"rest"} \cup Transferring \cup Data
      BY <3>2 DEF Transferring, Data
    <3> QED
      BY <2>9, <2>10, <3>1, <3>2, <3>3, <3>4 DEF DialogueOK
  <2>12. SameJob /\ job' \in Jobs /\ session' \in Sessions({session'.data})
    BY <1>1, <2>3, <2>9 DEF SameJob, Sessions
  <2> QED
    BY <1>1, <2>4, <2>5, <2>11, <2>12, Proceeding
<1>4. ASSUME NEW err \in {"FTPNSFOD", "FTPRERR"}, CloseReturn(err) PROVE Inv'
  BY <1>4, <1>0, Breaking DEF Errors
<1> QED
  BY <1>2, <1>3, <1>4 DEF Cwd

LEMMA SizeStep == Inv /\ Size => Inv'
<1> SUFFICES ASSUME Inv, Size PROVE Inv'
  OBVIOUS
<1>0. Sending("size") /\ UNCHANGED Locals
  BY DEF Size
<1>1. /\ stage = "getftp" /\ plan # <<>> /\ Head(plan) = "size" /\ con.alive
      /\ plan \in Seq(Known) /\ Fits("size") /\ Pending \in Seq(Codes)
      /\ session \in Sessions({session.data}) /\ job \in Jobs /\ con \in Cons
      /\ job.op \in {"LIST", "RETR"}
  BY <1>0, Commanded
<1>2. CASE Broken
  BY <1>2, <1>0, Breaking DEF Broken, Errors
<1>3. ASSUME NEW r \in Codes, r \in {213, 550}, Ask(Answer(session, r)), Proceed(Tail(plan)), UNCHANGED job
      PROVE  Inv'
  <2>1. session.replies = Pending
    BY DEF Pending
  <2>0. r \in {213, 550}
    BY <1>3
  <2>2. /\ session' \in Sessions({session'.data}) /\ session'.cwd = session.cwd /\ Shifted(r)
    <3>1. session \in Sessions({session.data}) /\ Pending \in Seq(Codes)
      BY <1>1
    <3>3. Ask(Answer(session, r)) => Shifted(r)
      BY <3>1, <2>1, Told
    <3>4. Ask(Answer(session, r)) => session'.cwd = session.cwd
      BY <3>1, <2>1, Told
    <3>5. Ask(Answer(session, r)) => session' \in Sessions({session'.data})
      BY <3>1, <2>1, Told
    <3>6. Ask(Answer(session, r))
      BY <1>3
    <3> QED
      BY <3>3, <3>4, <3>5, <3>6
  <2>3. plan' = Tail(plan) /\ UNCHANGED <<world, stage, stack, disk, listing, con, job>>
    BY <1>0, <1>3 DEF Proceed, Locals
  <2>4. /\ PlanOK' /\ plan' \in Seq(Known) /\ plan' # <<>>
        /\ Head(plan') \in After("size")
    BY <1>1, <2>3, PlanTail DEF Inv, Transferring, Data
  <2>5. Head(plan') = Mode
    BY <2>4 DEF After, Follows, Ports
  <2>6. con.own
    BY <1>1 DEF Fits
  <2>7. Idle /\ Right /\ Len(Pending) <= 1
    BY <1>1, <2>6 DEF Inv, DialogueOK, Left, Data
  <2>8. Right'
    BY <2>2, <2>3, <2>7 DEF Right
  <2>9. Idle' /\ Len(Pending') <= 1 /\ ~Odd'
    <3>1. CASE Pending = <<>>
      <4>1. Pending' = <<>> /\ Len(Pending') = 0
        BY <1>1, <2>2, <3>1, Shifting
      <4> QED
        BY <4>1 DEF Idle, Odd
    <3>2. CASE Len(Pending) = 1
      <4>1. Pending # <<>> /\ Pending' # <<>> /\ Len(Pending') = 1 /\ Pending'[1] = r
        BY <1>1, <2>2, <3>2, Shifting
      <4>2. First({2})' \/ Dead'
        <5>1. Class(r) = 2 \/ Class(r) = 5
          BY <2>0, ClassOf
        <5> QED
          BY <5>1, <4>1 DEF First, Dead
      <4> QED
        BY <2>0, <4>1, <4>2, <2>3, <2>7 DEF Idle, Odd
    <3> QED
      BY <1>1, <2>2, <2>7, <3>1, <3>2, Shifting
  <2>10. DialogueOK'
    BY <1>1, <2>3, <2>5, <2>8, <2>9 DEF DialogueOK, Left, Mode, Transferring, Data
  <2>11. SameJob /\ job' \in Jobs
    BY <1>1, <2>3 DEF SameJob
  <2> QED
    BY <1>1, <2>2, <2>3, <2>4, <2>10, <2>11, Proceeding
<1>4. ASSUME CloseReturn("RETRFINISHED") PROVE Inv'
  BY <1>4, <1>0, Breaking DEF Errors
<1>5. {213, 550} \subseteq Codes
  BY DEF Codes
<1> QED
  BY <1>2, <1>3, <1>4, <1>5 DEF Size

\* PASV is answered with 227 by a server that knows it.
LEMMA PasvAnswer ==
    ASSUME Inv, Sending("pasv")
    PROVE  LET s == Answer([session EXCEPT !.open = world.pasv], IF world.pasv THEN 227 ELSE 502)
           IN  Heard(s) = 227 <=> world.pasv
<1>1. /\ stage = "getftp" /\ plan # <<>> /\ Head(plan) = "pasv" /\ con.alive
      /\ plan \in Seq(Known) /\ Fits("pasv")
      /\ Pending \in Seq(Codes) /\ session \in Sessions({session.data})
  BY Commanded
<1> DEFINE r == IF world.pasv THEN 227 ELSE 502
           s0 == [session EXCEPT !.open = world.pasv]
<1>2. world.pasv \in BOOLEAN /\ world.ftp_pasv
  BY <1>1, WorldsAssumption DEF Inv, TypeOK, Fits
<1>3. r \in Codes /\ s0 \in Sessions({session.data}) /\ s0.replies = Pending
  BY <1>1, <1>2 DEF Codes, Sessions, Pending
<1>4. r = IF world.pasv THEN 227 ELSE 502
  OBVIOUS
<1> HIDE DEF r, s0
<1>5. Heard(Answer(s0, r)) = IF Pending = <<>> THEN r ELSE Pending[1]
  BY <1>1, <1>3, Told
<1>6. Idle
  BY <1>1 DEF Inv, DialogueOK, Left, Data
<1>7. IF world.pasv THEN Pending = <<>> ELSE Pending # <<>> => Pending[1] # 227
  BY <1>2, <1>6 DEF Idle
<1>8. Heard(Answer(s0, r)) = 227 <=> world.pasv
  BY <1>4, <1>5, <1>7
<1> QED
  BY <1>8 DEF r, s0

LEMMA PasvStep == Inv /\ PasvKnown /\ Pasv => Inv'
<1> SUFFICES ASSUME Inv, PasvKnown, Pasv PROVE Inv'
  OBVIOUS
<1>0. Sending("pasv") /\ UNCHANGED Locals
  BY DEF Pasv
<1>1. /\ stage = "getftp" /\ plan # <<>> /\ Head(plan) = "pasv" /\ con.alive
      /\ plan \in Seq(Known) /\ Fits("pasv") /\ Pending \in Seq(Codes)
      /\ session \in Sessions({session.data}) /\ job \in Jobs /\ con \in Cons
      /\ job.op \in {"LIST", "RETR"}
  BY <1>0, Commanded
<1>2. CASE Broken
  BY <1>2, <1>0, Breaking DEF Broken, Errors
<1> DEFINE r == IF world.pasv THEN 227 ELSE 502
           s0 == [session EXCEPT !.open = world.pasv]
<1>3. world \in Worlds /\ world.pasv \in BOOLEAN /\ world.ftp_pasv
  BY <1>1, WorldsAssumption DEF Inv, TypeOK, Fits
<1>4. r \in Codes /\ s0 \in Sessions({session.data}) /\ s0.replies = Pending /\ s0.cwd = session.cwd
  BY <1>1, <1>3 DEF Codes, Sessions, Pending
<1>5. r = IF world.pasv THEN 227 ELSE 502
  OBVIOUS
<1> HIDE DEF r, s0
<1>6. /\ Heard(Answer(s0, r)) = IF Pending = <<>> THEN r ELSE Pending[1]
      /\ Ask(Answer(s0, r)) =>
            session' \in Sessions({session'.data}) /\ session'.cwd = session.cwd /\ Shifted(r)
  BY <1>1, <1>4, Told
<1>7. /\ Idle /\ (Right \/ Lost)
      /\ con.own => Right /\ Len(Pending) <= 1
  BY <1>1 DEF Inv, DialogueOK, Left, Data
<1>8. IF world.pasv THEN Pending = <<>> ELSE Len(Pending) <= 1 /\ (Pending # <<>> => Pending[1] # 227)
  BY <1>3, <1>7 DEF Idle
<1>9. Heard(Answer(s0, r)) = 227 <=> world.pasv
  BY <1>5, <1>6, <1>8
<1>10. ASSUME world.pasv, Ask(Answer(s0, r)), Proceed(Tail(plan)), job' = [job EXCEPT !.pasv = TRUE]
       PROVE  Inv'
  <2>1. plan' = Tail(plan) /\ UNCHANGED <<world, stage, stack, disk, listing, con>>
    BY <1>0, <1>10 DEF Proceed, Locals
  <2>2. SameJob /\ job' \in Jobs /\ job'.pasv /\ job'.restval = job.restval
    BY <1>1, <1>10 DEF SameJob, Jobs
  <2>3. /\ PlanOK' /\ plan' \in Seq(Known) /\ plan' # <<>> /\ Head(plan') \in After("pasv")
    BY <1>1, <2>1, <2>2, PlanTail DEF Inv, Transferring, Data, SameJob
  <2>4. Head(plan') \in {"rest"} \cup Transferring
    BY <2>3 DEF After, Follows, Ports, Transferring
  <2>5. Pending' = <<>>
    BY <1>1, <1>6, <1>8, <1>10, Shifting
  <2>6. Right'
    BY <1>6, <1>7, <1>8, <1>10, <2>2 DEF Right, Lost, SameJob
  <2>7. DialogueOK'
    BY <1>1, <2>1, <2>2, <2>4, <2>5, <2>6 DEF DialogueOK, Left, Transferring, Data
  <2> QED
    BY <1>1, <1>6, <1>10, <2>1, <2>2, <2>3, <2>7, Proceeding
<1>11. ASSUME ~world.pasv, Ask(Answer(s0, r)), Proceed(<<"port">> \o Tail(plan)), UNCHANGED job
       PROVE  Inv'
  <2>1. plan' = <<"port">> \o Tail(plan) /\ UNCHANGED <<world, stage, stack, disk, listing, con, job>>
    BY <1>0, <1>11 DEF Proceed, Locals
  <2>2. SameJob /\ job' \in Jobs
    BY <1>1, <2>1 DEF SameJob
  <2>3. /\ PlanOK' /\ plan' \in Seq(Known) /\ plan' # <<>> /\ Head(plan') = "port"
    BY <1>0, <1>11, <2>1, FallBack
  <2>4. /\ Right' <=> Right
        /\ Pending = <<>> => Pending' = <<>> /\ Len(Pending') = 0
        /\ Len(Pending) = 1 => Pending' # <<>> /\ Len(Pending') = 1 /\ Pending'[1] = 502
    <3>1. session'.cwd = session.cwd /\ Shifted(r) /\ r = 502
      BY <1>5, <1>6, <1>11
    <3> QED
      BY <1>1, <2>1, <3>1, Shifting DEF Right
  <2>5. Pending = <<>> \/ Len(Pending) = 1
    <3>1. Shifted(r)
      BY <1>6, <1>11
    <3>2. Len(Pending) <= 1
      BY <1>8, <1>11
    <3> QED
      BY <1>1, <3>1, <3>2, Shifting
  <2>6. /\ Idle' /\ (Pending' # <<>> => Pending'[1] = 502) /\ ~Odd'
        /\ (Right \/ Lost)' /\ (con.own => Right' /\ Len(Pending') <= 1)
    <3>1. CASE Pending = <<>>
      <4>1. Pending' = <<>> /\ Len(Pending') = 0
        BY <2>4, <3>1
      <4>2. Right'
        BY <1>7, <2>4, <3>1 DEF Lost
      <4> QED
        BY <4>1, <4>2 DEF Idle, Odd
    <3>2. CASE Len(Pending) = 1
      <4>1. Pending' # <<>> /\ Len(Pending') = 1 /\ Pending'[1] = 502
        BY <2>4, <3>2
      <4>2. Dead' /\ Lost'
        BY <1>3, <2>1, <4>1, ClassOf DEF Dead, First, Lost
      <4>3. con.own => Right'
        BY <1>7, <2>4
      <4> QED
        BY <1>11, <2>1, <4>1, <4>2, <4>3 DEF Idle, Odd
    <3> QED
      BY <2>5, <3>1, <3>2
  <2>7. DialogueOK'
    BY <2>1, <2>3, <2>6 DEF DialogueOK, Left, Transferring, Data
  <2> QED
    BY <1>1, <1>6, <1>11, <2>1, <2>2, <2>3, <2>7, Proceeding
<1>12. ASSUME NEW err \in {"CONERROR", "CONIMPOSSIBLE"}, CloseReturn(err) PROVE Inv'
  BY <1>12, <1>0, Breaking DEF Errors
<1>13. ~world.pasv => ~job.pasv
  BY DEF PasvKnown
<1> QED
  BY <1>2, <1>9, <1>10, <1>11, <1>12, <1>13 DEF Pasv, r, s0

LEMMA PortStep == Inv /\ Port => Inv'
<1> SUFFICES ASSUME Inv, Port PROVE Inv'
  OBVIOUS
<1>0. Sending("port") /\ UNCHANGED Locals
  BY DEF Port
<1>1. /\ stage = "getftp" /\ plan # <<>> /\ Head(plan) = "port" /\ con.alive
      /\ plan \in Seq(Known) /\ Fits("port") /\ Pending \in Seq(Codes)
      /\ session \in Sessions({session.data}) /\ job \in Jobs /\ con \in Cons
      /\ job.op \in {"LIST", "RETR"}
  BY <1>0, Commanded
<1>2. CASE Broken
  BY <1>2, <1>0, Breaking DEF Broken, Errors
<1>3. /\ Idle /\ (Right \/ Lost) /\ (Odd => job.op = "LIST")
      /\ con.own => Right /\ Len(Pending) <= 1
      /\ world.ftp_pasv /\ Pending # <<>> => Pending[1] = 502
  BY <1>1 DEF Inv, DialogueOK, Left, Data
<1>4. ASSUME NEW r \in Codes, r \in {200, 500}, NEW s,
             s = Answer([session EXCEPT !.open = r = 200], r), Class(Heard(s)) = 2,
             Ask(s), Proceed(Tail(plan)), UNCHANGED job
      PROVE  Inv'
  <2> DEFINE s0 == [session EXCEPT !.open = r = 200]
  <2>1. s = Answer(s0, r) /\ Ask(Answer(s0, r)) /\ r \in {200, 500}
    BY <1>4
  <2>2. s0 \in Sessions({session.data}) /\ s0.replies = Pending /\ s0.cwd = session.cwd
    BY <1>1 DEF Sessions, Pending
  <2> HIDE DEF s0
  <2>3. Heard(s) = IF Pending = <<>> THEN r ELSE Pending[1]
    BY <1>1, <2>1, <2>2, Told
  <2>4. session' \in Sessions({session'.data}) /\ session'.cwd = session.cwd /\ Shifted(r)
    BY <1>1, <2>1, <2>2, Told
  <2>5. plan' = Tail(plan) /\ UNCHANGED <<world, stage, stack, disk, listing, con, job>>
    BY <1>0, <1>4 DEF Proceed, Locals
  <2>6. /\ PlanOK' /\ plan' \in Seq(Known) /\ plan' # <<>> /\ Head(plan') \in After("port")
        /\ Fits(Head(plan))' /\ (Head(plan') = "list" => con.avoid_a)
    BY <1>1, <2>5, PlanTail DEF Inv, Transferring, Data
  <2>7. /\ Head(plan') \in {"rest", "retr", "list", "list_a"}
        /\ Head(plan') \in {"rest", "retr"} => job'.op = "RETR"
    BY <2>6 DEF After, Follows, Ports, Transferring, Fits
  <2>8. Pending # <<>> => ~world.ftp_pasv /\ First({2}) /\ ~Dead
    <3>1. ASSUME Pending # <<>> PROVE Class(Pending[1]) = 2
      BY <1>4, <2>3, <3>1
    <3>2. Class(502) = 5
      BY ClassOf
    <3> QED
      BY <1>3, <3>1, <3>2 DEF First, Dead
  <2>9. Right'
    BY <1>3, <2>4, <2>5, <2>8 DEF Right, Lost
  <2>10. Class(r) = 2 \/ Class(r) = 5
    BY <2>1, ClassOf
  <2>11. Left(Head(plan))'
    <3>1. CASE Pending = <<>>
      <4>1. Pending' = <<>>
        BY <1>1, <2>4, <3>1, Shifting
      <4> QED
        BY <2>7, <4>1 DEF Left, Data
    <3>2. CASE Len(Pending) = 1
      <4>1. Pending # <<>> /\ Pending' # <<>> /\ Len(Pending') = 1 /\ Pending'[1] = r
        BY <1>1, <2>4, <3>2, Shifting
      <4>2. Single({2, 5})' /\ Single({2, 3, 5})' /\ (First({2})' \/ First({4, 5})') /\ ~world'.ftp_pasv
        BY <2>5, <2>8, <2>10, <4>1 DEF First, Single
      <4> QED
        BY <2>7, <4>1, <4>2 DEF Left, Data
    <3>3. CASE Pending # <<>> /\ Len(Pending) # 1
      <4>1. Len(Pending) = 2 /\ Odd /\ Twice /\ job.op = "LIST" /\ Head(plan') = "list_a"
        BY <1>3, <2>5, <2>6, <2>7, <2>8, <3>3, IdleCases DEF Twice
      <4>2. Pending' # <<>> /\ Len(Pending') = 2 /\ Pending'[1] = Pending[2] /\ Pending'[2] = r
        BY <1>1, <2>4, <4>1, Shifting
      <4>3. First({4, 5})' /\ Class(Pending'[2]) \in {2, 5} /\ ~world'.ftp_pasv /\ Twice'
        BY <2>5, <2>8, <2>10, <3>3, <4>1, <4>2 DEF First, Odd, Twice
      <4> QED
        BY <4>1, <4>2, <4>3 DEF Left, Data
    <3> QED
      BY <3>1, <3>2, <3>3
  <2>12. Head(plan') \in {"rest", "open"} \cup Transferring /\ world'.ftp_pasv /\ world'.pasv => job'.pasv
    BY <1>1, <2>5 DEF Fits
  <2>13. DialogueOK'
    BY <2>5, <2>7, <2>9, <2>11, <2>12 DEF DialogueOK, Transferring, Data
  <2>14. SameJob /\ job' \in Jobs
    BY <1>1, <2>5 DEF SameJob
  <2> QED
    BY <1>1, <2>4, <2>5, <2>6, <2>13, <2>14, Proceeding
<1>5. ASSUME Return("FTPSYSERR"), UNCHANGED session PROVE Inv'
  <2>1. /\ session' \in Sessions({session'.data}) /\ Pending' = Pending
    BY <1>1, <1>5 DEF Pending
  <2>2. /\ job' = [job EXCEPT !.err = "FTPSYSERR"] /\ con' = con /\ world' = world
        /\ job'.dir = job.dir /\ session' = session
    BY <1>0, <1>1, <1>5 DEF Return, Locals, Jobs
  <2>3. Idle' /\ (Right \/ Lost)' /\ (Odd' => job.op = "LIST") /\ (con.own => Right' /\ Len(Pending') <= 1)
    BY <1>3, <2>1, <2>2 DEF Idle, Right, Lost, Dead, First, Odd, Twice
  <2> QED
    BY <1>0, <1>5, <2>1, <2>3, Returning DEF Errors
<1>6. ASSUME CloseReturn("FTPPORTERR") PROVE Inv'
  BY <1>6, <1>0, Breaking DEF Errors
<1>7. {200, 500} \subseteq Codes
  BY DEF Codes
<1> QED
  BY <1>2, <1>4, <1>5, <1>6, <1>7 DEF Port

LEMMA RestStep == Inv /\ Rest => Inv'
<1> SUFFICES ASSUME Inv, Rest PROVE Inv'
  OBVIOUS
<1>0. Sending("rest") /\ UNCHANGED Locals
  BY DEF Rest
<1>1. /\ stage = "getftp" /\ plan # <<>> /\ Head(plan) = "rest" /\ con.alive
      /\ plan \in Seq(Known) /\ Fits("rest") /\ Pending \in Seq(Codes)
      /\ session \in Sessions({session.data}) /\ job \in Jobs /\ con \in Cons
      /\ job.op \in {"LIST", "RETR"}
  BY <1>0, Commanded
<1>2. CASE Broken
  BY <1>2, <1>0, Breaking DEF Broken, Errors
<1>3. /\ Right /\ (Pending = <<>> \/ (Single({2, 3, 5}) /\ ~world.ftp_pasv))
      /\ world.ftp_pasv /\ world.pasv => job.pasv
  BY <1>1 DEF Inv, DialogueOK, Left, Data
<1>4. ASSUME NEW r \in Codes, r \in {350, 502}, NEW s,
             s = Answer([session EXCEPT !.rest = IF r = 350 THEN job.restval ELSE @], r),
             Ask(s), Proceed(Tail(plan)),
             job' = [job EXCEPT !.rest_failed = Class(Heard(s)) # 3]
      PROVE  Inv'
  <2> DEFINE s0 == [session EXCEPT !.rest = IF r = 350 THEN job.restval ELSE session.rest]
  <2>1. s = Answer(s0, r) /\ Ask(Answer(s0, r)) /\ r \in {350, 502}
    BY <1>4
  <2>2. s0 \in Sessions({session.data}) /\ s0.replies = Pending /\ s0.cwd = session.cwd
    BY <1>1 DEF Sessions, Pending, Jobs
  <2> HIDE DEF s0
  <2>3. session' \in Sessions({session'.data}) /\ session'.cwd = session.cwd /\ Shifted(r)
    BY <1>1, <2>1, <2>2, Told
  <2>4. plan' = Tail(plan) /\ UNCHANGED <<world, stage, stack, disk, listing, con>>
    BY <1>0, <1>4 DEF Proceed, Locals
  <2>5. SameJob /\ job' \in Jobs /\ job'.pasv = job.pasv /\ job'.restval = job.restval
    <3>1. PICK b \in BOOLEAN : b = (Class(Heard(s)) # 3)
      OBVIOUS
    <3>2. job' = [job EXCEPT !.rest_failed = b]
      BY <1>4, <3>1
    <3> QED
      BY <1>1, <3>2 DEF SameJob, Jobs
  <2>6. /\ PlanOK' /\ plan' \in Seq(Known) /\ plan' # <<>> /\ Head(plan') \in After("rest")
    BY <1>1, <2>4, <2>5, PlanTail DEF Inv, Transferring, Data, SameJob
  <2>7. Head(plan') = "retr"
    BY <2>6 DEF After, Follows, Ports
  <2>8. Right'
    BY <1>3, <2>3, <2>5 DEF Right, SameJob
  <2>9. Pending' = <<>> \/ (Single({2, 3, 5})' /\ ~world'.ftp_pasv)
    <3>1. CASE Pending = <<>>
      BY <1>1, <2>3, <3>1, Shifting
    <3>2. CASE Len(Pending) = 1
      <4>1. Pending # <<>> /\ Pending' # <<>> /\ Len(Pending') = 1 /\ Pending'[1] = r
        BY <1>1, <2>3, <3>2, Shifting
      <4>2. Class(r) = 3 \/ Class(r) = 5
        BY <2>1, ClassOf
      <4> QED
        BY <1>3, <2>4, <4>1, <4>2 DEF Single, First
    <3> QED
      BY <1>3, <3>1, <3>2 DEF Single
  <2>10. DialogueOK'
    BY <1>3, <2>4, <2>5, <2>7, <2>8, <2>9 DEF DialogueOK, Left, Transferring, Data
  <2> QED
    BY <1>1, <2>3, <2>4, <2>5, <2>6, <2>10, Proceeding
<1>5. {350, 502} \subseteq Codes
  BY DEF Codes
<1> QED
  BY <1>2, <1>4, <1>5 DEF Rest

\* The transfer is refused: nothing is left, or what is left begins with a failure.
LEMMA NoSuchFile ==
    ASSUME Inv, NEW c, Sending(c), c \in Transferring, UNCHANGED Locals, Return("FTPNSFOD"), Right,
           session' \in Sessions({session'.data}), session'.cwd = session.cwd,
           Pending' = <<>> \/ (Dead' /\ ~world.ftp_pasv)
    PROVE  Inv'
<1>1. c # "login" /\ job \in Jobs
  BY Commanded DEF Transferring
<1>2. /\ job' = [job EXCEPT !.err = "FTPNSFOD"] /\ con' = con /\ UNCHANGED <<world, stack>>
      /\ job'.dir = job.dir
  BY <1>1 DEF Return, Locals, Jobs
<1>3. Right'
  BY <1>2 DEF Right
<1>4. Idle'
  BY <1>2 DEF Idle
<1>5. ~Odd'
  BY DEF Odd, Dead, First
<1>6. "FTPNSFOD" \in Errors /\ "FTPNSFOD" \in Fatal
  BY DEF Errors, Fatal
<1>7. con.own => Right' /\ ("FTPNSFOD" \in Fatal \/ Len(Pending') <= 1)
  BY <1>3, <1>6
<1> QED
  BY <1>1, <1>3, <1>4, <1>5, <1>6, <1>7, Returning

\* The transfer begins.
LEMMA Opening ==
    ASSUME Inv, NEW c, Sending(c), c \in Transferring, UNCHANGED Locals, Proceed(<<"open">>),
           NEW b \in BOOLEAN, job' = [job EXCEPT !.list_a = b], Right,
           session' \in Sessions({session'.data}), session'.cwd = session.cwd,
           Good', Pending' # <<>>, Pending'[1] \in {226, 426},
           Len(Pending') = 1 \/ (/\ Len(Pending') = 2 /\ Class(Pending'[2]) \in {4, 5} /\ Twice
                                 /\ job.op = "LIST" /\ ~b /\ ~world.ftp_pasv)
    PROVE  Inv'
<1>1. /\ c # "login" /\ job \in Jobs /\ con \in Cons /\ stage = "getftp" /\ con.alive /\ Head(plan) = c
  BY Commanded DEF Transferring
<1>2. /\ plan' = <<"open">> /\ UNCHANGED <<stage, con, world, stack, disk, listing>>
  BY DEF Proceed, Locals
<1>3. SameJob /\ job' \in Jobs /\ job'.pasv = job.pasv /\ job'.list_a = b
  BY <1>1 DEF SameJob, Jobs
<1>4. Fits("open")'
  BY DEF Fits, Data
<1>5. PlanOK' /\ plan' \in Seq(Known) /\ plan' # <<>> /\ Head(plan') = "open"
  <2>1. "open" \in Known /\ "open" \in Transferring \cup Data
    BY DEF Known, Data
  <2> QED
    BY <1>1, <1>2, <1>4, <2>1, OneLeft
<1>6. Right'
  BY <1>3 DEF Right, SameJob
<1>7. Left("open")'
  BY <1>2, <1>3 DEF Left, Data, SameJob, Twice
<1>8. world.ftp_pasv /\ world.pasv => job.pasv
  BY <1>1 DEF Inv, DialogueOK
<1>9. DialogueOK'
  BY <1>2, <1>3, <1>5, <1>6, <1>7, <1>8 DEF DialogueOK, Data, Transferring
<1> QED
  BY <1>1, <1>2, <1>3, <1>5, <1>9, Proceeding

\* What arrives is a part of what there is.
LEMMA GoodPart ==
    ASSUME NEW T, NEW items \in Seq(T), NEW d, Prefix(d, items)
    PROVE  d \in Seq(T)
<1>1. CASE d = items
  BY <1>1
<1>2. ASSUME NEW k \in 0 .. Len(items), d = SubSeq(items, 1, k) PROVE d \in Seq(T)
  <2>1. 1 \in Nat \ {0} /\ k \in Nat /\ k <= Len(items)
    OBVIOUS
  <2> QED
    BY <1>2, <2>1, PrefixOf
<1> QED
  BY <1>1, <1>2 DEF Prefix

LEMMA RetrStep == Inv /\ Retr => Inv'
<1> SUFFICES ASSUME Inv, Retr PROVE Inv'
  OBVIOUS
<1>0. Sending("retr") /\ UNCHANGED Locals
  BY DEF Retr
<1>1. /\ stage = "getftp" /\ plan # <<>> /\ Head(plan) = "retr" /\ con.alive
      /\ Fits("retr") /\ Pending \in Seq(Codes)
      /\ session \in Sessions({session.data}) /\ job \in Jobs /\ con \in Cons
  BY <1>0, Commanded
<1>2. job.op = "RETR" /\ "retr" \in Transferring
  BY <1>1 DEF Fits, Transferring
<1>3. CASE Broken
  BY <1>3, <1>0, Breaking DEF Broken, Errors
<1>4. Right /\ (Pending = <<>> \/ (Single({2, 3, 5}) /\ ~world.ftp_pasv))
  BY <1>1 DEF Inv, DialogueOK, Left, Data, Transferring
<1> DEFINE items == SubSeq(Doc(job.of), session.rest + 1, N)
           here == job.of \in Files(session.cwd)
<1>5. items \in Seq(Bytes)
  <2>1. job.of \in Names /\ session.rest \in Nat
    BY <1>1 DEF Jobs, Sessions
  <2> QED
    BY <2>1, TailOfDoc
<1> HIDE DEF items, here
<1>6. ASSUME NEW s \in IF here THEN Transfers(job.of, items) ELSE Refusals, Requested(s, FALSE)
      PROVE  Inv'
  <2>1. ASSUME NEW r \in {450, 550}, NEW o \in BOOLEAN, s = Refused(r, o) PROVE Inv'
    <3>1. Heard(s) = IF Pending = <<>> THEN r ELSE Pending[1]
      BY <1>1, <2>1, Refusing
    <3>2. Class(r) = 4 \/ Class(r) = 5
      BY ClassOf
    <3>3. Class(Heard(s)) # 1
      BY <1>4, <3>1, <3>2 DEF Single, First
    <3>4. CASE Class(Heard(s)) = 5
      <4>1. Ask(s) /\ Return("FTPNSFOD")
        BY <1>6, <3>4 DEF Requested
      <4>2. session' \in Sessions({session'.data}) /\ session'.cwd = session.cwd /\ Shifted(r)
        BY <1>1, <2>1, <4>1, Refusing
      <4>3. CASE Pending = <<>>
        <5>1. Pending' = <<>>
          BY <1>1, <4>2, <4>3, Shifting
        <5> QED
          BY <1>0, <1>2, <1>4, <4>1, <4>2, <5>1, NoSuchFile
      <4>4. CASE Single({2, 3, 5}) /\ ~world.ftp_pasv
        <5>1. Pending' # <<>> /\ Pending'[1] = r
          BY <1>1, <4>2, <4>4, Shifting DEF Single
        <5>2. Dead'
          BY <3>2, <5>1 DEF Dead, First
        <5> QED
          BY <1>0, <1>2, <1>4, <4>1, <4>2, <4>4, <5>2, NoSuchFile
      <4> QED
        BY <1>4, <4>3, <4>4
    <3>5. CASE Class(Heard(s)) # 5
      <4>1. CloseReturn("FTPRERR")
        BY <1>6, <3>3, <3>5 DEF Requested
      <4> QED
        BY <1>0, <4>1, Breaking DEF Errors
    <3> QED
      BY <3>4, <3>5
  <2>2. ASSUME session.open, NEW f \in {226, 426}, NEW d, s = Sent(job.of, d, f), Prefix(d, items)
        PROVE  Inv'
    <3>1. /\ Pending = <<>> => Heard(s) = 150
          /\ Pending # <<>> => Heard(s) = Pending[1]
      BY <1>1, <2>2, Hearing150
    <3>2. Ask(s) => /\ session' \in Sessions({session'.data}) /\ session'.cwd = session.cwd
                    /\ session'.data = [of |-> job.of, items |-> d] /\ Shifted2(f)
      BY <1>1, <2>2, Sending150
    <3>3. CASE Class(Heard(s)) = 1
      <4>1. Ask(s) /\ Proceed(<<"open">>) /\ job' = [job EXCEPT !.list_a = FALSE]
        BY <1>6, <3>3 DEF Requested
      <4>2. Pending = <<>>
        BY <1>4, <3>1, <3>3 DEF Single, First
      <4>3. Pending' # <<>> /\ Len(Pending') = 1 /\ Pending'[1] = f
        BY <1>1, <3>2, <4>1, <4>2, Shifting2
      <4>4. job'.of = job.of /\ job'.op = job.op
        BY <1>1, <4>1 DEF Jobs
      <4>5. d \in Seq(Bytes)
        BY <1>5, <2>2, GoodPart
      <4>6. Good'
        BY <1>2, <3>2, <4>1, <4>4, <4>5 DEF Good
      <4>7. Pending'[1] \in {226, 426}
        BY <4>3
      <4> QED
        BY <1>0, <1>2, <1>4, <3>2, <4>1, <4>3, <4>6, <4>7, Opening
    <3>4. CASE Class(Heard(s)) = 5
      <4>1. Ask(s) /\ Return("FTPNSFOD")
        BY <1>6, <3>4 DEF Requested
      <4>2. Single({2, 3, 5}) /\ ~world.ftp_pasv
        BY <1>4, <3>1, <3>4, ClassOf
      <4>3. Pending' # <<>> /\ Pending'[1] = 150
        BY <1>1, <3>2, <4>1, <4>2, Shifting2 DEF Single
      <4>4. Dead'
        BY <4>3, ClassOf DEF Dead, First
      <4> QED
        BY <1>0, <1>2, <1>4, <3>2, <4>1, <4>2, <4>4, NoSuchFile
    <3>5. CASE Class(Heard(s)) # 1 /\ Class(Heard(s)) # 5
      <4>1. CloseReturn("FTPRERR")
        BY <1>6, <3>5 DEF Requested
      <4> QED
        BY <1>0, <4>1, Breaking DEF Errors
    <3> QED
      BY <3>3, <3>4, <3>5
  <2> QED
    BY <1>1, <1>6, <2>1, <2>2, Served, RefusedBy
<1> QED
  BY <1>3, <1>6 DEF Retr, items, here

LEMMA ListAStep == Inv /\ ListA => Inv'
<1> SUFFICES ASSUME Inv, ListA PROVE Inv'
  OBVIOUS
<1>0. Sending("list_a") /\ UNCHANGED Locals
  BY DEF ListA
<1>1. /\ stage = "getftp" /\ plan # <<>> /\ Head(plan) = "list_a" /\ con.alive
      /\ Fits("list_a") /\ Pending \in Seq(Codes)
      /\ session \in Sessions({session.data}) /\ job \in Jobs /\ con \in Cons
  BY <1>0, Commanded
<1>2. job.op = "LIST" /\ ~con.avoid_a /\ "list_a" \in Transferring
  BY <1>1 DEF Fits, Transferring
<1>3. CASE Broken
  BY <1>3, <1>0, Breaking DEF Broken, Errors
<1>4. /\ Right
      /\ world.ftp_pasv /\ world.pasv => job.pasv
      /\ Pending = <<>> \/ (/\ ~world.ftp_pasv
                            /\ Single({2, 5})
                               \/ (/\ Len(Pending) = 2 /\ First({4, 5}) /\ Twice
                                   /\ Class(Pending[2]) \in {2, 5}))
  BY <1>1 DEF Inv, DialogueOK, Left, Data, Transferring
<1>5. session.cwd = job.of
  BY <1>2, <1>4 DEF Inv, JobOK, Right
<1> DEFINE items == IF world.list_a THEN Listed(session.cwd, TRUE) ELSE <<>>
<1>6. items \in Seq(ListEntries)
  <2>1. session.cwd \in DOMAIN Tree
    BY <1>1 DEF Sessions
  <2> QED
    BY <2>1, ListedOf, EmptySeq
<1> HIDE DEF items
<1>7. ASSUME ~con.avoid_list, NEW s, Ask(s), Proceed(<<"list">>), UNCHANGED job,
             session' \in Sessions({session'.data}), session'.cwd = session.cwd, Left("list")'
      PROVE  Inv'
  <2>1. plan' = <<"list">> /\ UNCHANGED <<stage, con, world, stack, disk, listing>>
    BY <1>0, <1>7 DEF Proceed, Locals
  <2>2. Fits("list")'
    BY <1>2, <1>7, <2>1 DEF Fits, Transferring
  <2>3. PlanOK' /\ plan' \in Seq(Known) /\ plan' # <<>> /\ Head(plan') = "list"
    <3>1. "list" \in Known /\ "list" \in Transferring \cup Data
      BY DEF Known, Transferring
    <3> QED
      BY <1>1, <2>1, <2>2, <3>1, OneLeft
  <2>4. Right'
    BY <1>4, <1>7 DEF Right
  <2>5. DialogueOK'
    BY <1>4, <1>7, <2>1, <2>3, <2>4 DEF DialogueOK, Data, Transferring
  <2>6. SameJob /\ job' \in Jobs
    BY <1>1, <1>7 DEF SameJob
  <2> QED
    BY <1>1, <1>7, <2>1, <2>3, <2>5, <2>6, Proceeding
<1>8. ASSUME NEW s \in Transfers(session.cwd, items),
             IF Class(Heard(s)) = 1 \/ con.avoid_list THEN Requested(s, TRUE)
             ELSE Ask(s) /\ Proceed(<<"list">>) /\ UNCHANGED job
      PROVE  Inv'
  <2>0. UNCHANGED world
    BY <1>0 DEF Locals
  <2>a. Pending \in Seq(Codes) /\ session \in Sessions({session.data})
    BY <1>1
  <2>1. ASSUME NEW r \in {450, 550}, NEW o \in BOOLEAN, s = Refused(r, o) PROVE Inv'
    <3>1. Heard(s) = IF Pending = <<>> THEN r ELSE Pending[1]
      BY <2>a, <2>1, Refusing
    <3>2. Class(r) = 4 \/ Class(r) = 5
      BY ClassOf
    <3>3. Class(Heard(s)) # 1
      BY <1>4, <3>1, <3>2 DEF Single, First
    <3>a. Ask(s) => /\ session' \in Sessions({session'.data}) /\ session'.cwd = session.cwd
                    /\ Shifted(r)
      BY <2>a, <2>1, Refusing
    <3>b. Ask(s) /\ Pending = <<>> => Pending' = <<>>
      BY <1>1, <3>a, Shifting
    <3>c. Ask(s) /\ Single({2, 5}) => Pending' # <<>> /\ Len(Pending') = 1 /\ Pending'[1] = r
      BY <1>1, <3>a, Shifting DEF Single
    <3>d. Ask(s) /\ Single({2, 5}) => Dead'
      BY <3>2, <3>c DEF Dead, First
    <3>4. CASE con.avoid_list /\ Class(Heard(s)) = 5
      <4>1. Ask(s) /\ Return("FTPNSFOD")
        BY <1>8, <3>4 DEF Requested
      <4>2. ~Twice
        BY <3>4 DEF Twice
      <4>3. Pending' = <<>> \/ (Dead' /\ ~world.ftp_pasv)
        BY <1>4, <4>1, <4>2, <3>b, <3>d
      <4> QED
        BY <1>0, <1>2, <1>4, <3>a, <4>1, <4>3, NoSuchFile
    <3>5. CASE con.avoid_list /\ Class(Heard(s)) # 5
      <4>1. CloseReturn("FTPRERR")
        BY <1>8, <3>3, <3>5 DEF Requested
      <4> QED
        BY <1>0, <4>1, Breaking DEF Errors
    <3>6. CASE ~con.avoid_list
      <4>1. Ask(s) /\ Proceed(<<"list">>) /\ UNCHANGED job
        BY <1>8, <3>3, <3>6
      <4>2. CASE Pending = <<>>
        <5>1. Left("list")'
          BY <3>b, <4>1, <4>2 DEF Left, Data
        <5> QED
          BY <1>7, <3>6, <3>a, <4>1, <5>1
      <4>3. CASE Single({2, 5}) /\ ~world.ftp_pasv
        <5>1. First({4, 5})' /\ Len(Pending') = 1
          BY <3>2, <3>c, <4>1, <4>3 DEF First
        <5>2. Left("list")'
          BY <2>0, <4>3, <5>1 DEF Left, Data
        <5> QED
          BY <1>7, <3>6, <3>a, <4>1, <5>2
      <4>4. CASE Len(Pending) = 2 /\ Class(Pending[2]) \in {2, 5} /\ ~world.ftp_pasv
        <5>1. Pending' # <<>> /\ Pending'[1] = Pending[2] /\ Pending'[2] = r
          BY <1>1, <3>a, <4>1, <4>4, Shifting
        <5>2. First({2})' \/ (First({4, 5})' /\ Class(Pending'[2]) \in {1, 4, 5})
          BY <3>2, <4>4, <5>1 DEF First
        <5>3. Left("list")'
          BY <2>0, <4>4, <5>2 DEF Left, Data
        <5> QED
          BY <1>7, <3>6, <3>a, <4>1, <5>3
      <4> QED
        BY <1>4, <4>2, <4>3, <4>4
    <3> QED
      BY <3>4, <3>5, <3>6
  <2>2. ASSUME session.open, NEW f \in {226, 426}, NEW d, s = Sent(session.cwd, d, f), Prefix(d, items)
        PROVE  Inv'
    <3>1. /\ Pending = <<>> => Heard(s) = 150
          /\ Pending # <<>> => Heard(s) = Pending[1]
      BY <2>a, <2>2, Hearing150
    <3>2. Ask(s) => /\ session' \in Sessions({session'.data}) /\ session'.cwd = session.cwd
                    /\ ~session'.open
                    /\ session'.data = [of |-> session.cwd, items |-> d] /\ Shifted2(f)
      BY <2>a, <2>2, Sending150
    <3>3. d \in Seq(ListEntries)
      BY <1>6, <2>2, GoodPart
    <3>4. Class(150) = 1 /\ Class(226) = 2 /\ Class(426) = 4
      BY ClassOf
    <3>5. Class(Heard(s)) = 1 <=> Pending = <<>>
      BY <1>4, <3>1, <3>4 DEF Single, First
    <3>6. CASE Pending = <<>>
      <4>1. Ask(s) /\ Proceed(<<"open">>) /\ job' = [job EXCEPT !.list_a = TRUE]
        BY <1>8, <3>5, <3>6 DEF Requested
      <4>2. Pending' # <<>> /\ Len(Pending') = 1 /\ Pending'[1] = f
        BY <1>1, <3>2, <4>1, <3>6, Shifting2
      <4>3. job'.of = job.of /\ job'.op = job.op
        BY <1>1, <4>1 DEF Jobs
      <4>4. Good'
        <5>1. session'.data.of = session.cwd /\ session'.data.items = d
          BY <3>2, <4>1
        <5>2. job'.of = session.cwd /\ job'.op = "LIST"
          BY <1>2, <1>5, <4>3
        <5> QED
          BY <3>3, <5>1, <5>2 DEF Good
      <4>5. Pending'[1] \in {226, 426}
        BY <4>2
      <4> QED
        BY <1>0, <1>2, <1>4, <3>2, <4>1, <4>2, <4>4, <4>5, Opening
    <3>7. CASE Pending # <<>> /\ con.avoid_list
      <4>1. Single({2, 5}) /\ ~world.ftp_pasv
        BY <1>4, <3>7 DEF Twice
      <4>2. CASE Class(Heard(s)) = 5
        <5>1. Ask(s) /\ Return("FTPNSFOD")
          BY <1>8, <3>7, <4>2 DEF Requested
        <5>2. Pending' # <<>> /\ Pending'[1] = 150
          BY <1>1, <3>2, <4>1, <5>1, Shifting2 DEF Single
        <5>3. Dead'
          BY <3>4, <5>2 DEF Dead, First
        <5> QED
          BY <1>0, <1>2, <1>4, <3>2, <4>1, <5>1, <5>3, NoSuchFile
      <4>3. CASE Class(Heard(s)) # 5
        <5>1. CloseReturn("FTPRERR")
          BY <1>8, <3>5, <3>7, <4>3 DEF Requested
        <5> QED
          BY <1>0, <5>1, Breaking DEF Errors
      <4> QED
        BY <4>2, <4>3
    <3>8. CASE Pending # <<>> /\ ~con.avoid_list
      <4>1. Ask(s) /\ Proceed(<<"list">>) /\ UNCHANGED job
        BY <1>8, <3>5, <3>8
      <4>2. CASE Single({2, 5}) /\ ~world.ftp_pasv
        <5>1. Pending' # <<>> /\ Len(Pending') = 2 /\ Pending'[1] = 150 /\ Pending'[2] = f
          BY <1>1, <3>2, <4>1, <4>2, Shifting2 DEF Single
        <5>2. First({1})' /\ Pending'[2] \in {226, 426}
          BY <3>4, <5>1 DEF First
        <5>3. Twice'
          BY <1>2, <3>8, <4>1 DEF Twice, Proceed
        <5>4. Good'
          <6>1. session'.data.of = session.cwd /\ session'.data.items = d
            BY <3>2, <4>1
          <6>2. job'.of = session.cwd /\ job'.op = "LIST"
            BY <1>2, <1>5, <4>1
          <6> QED
            BY <3>3, <6>1, <6>2 DEF Good
        <5>5. Left("list")'
          BY <2>0, <3>2, <4>1, <4>2, <5>1, <5>2, <5>3, <5>4 DEF Left, Data
        <5> QED
          BY <1>7, <3>2, <3>8, <4>1, <5>5
      <4>3. CASE Len(Pending) = 2 /\ Class(Pending[2]) \in {2, 5} /\ ~world.ftp_pasv
        <5>1. Pending' # <<>> /\ Pending'[1] = Pending[2] /\ Pending'[2] = 150
          BY <1>1, <3>2, <4>1, <4>3, Shifting2
        <5>2. First({2})' \/ (First({4, 5})' /\ Class(Pending'[2]) \in {1, 4, 5})
          BY <3>4, <4>3, <5>1 DEF First
        <5>3. Left("list")'
          BY <2>0, <4>3, <5>2 DEF Left, Data
        <5> QED
          BY <1>7, <3>2, <3>8, <4>1, <5>3
      <4> QED
        BY <1>4, <3>8, <4>2, <4>3
    <3> QED
      BY <3>6, <3>7, <3>8
  <2> QED
    BY <2>a, <2>1, <2>2, Served
<1> QED
  BY <1>3, <1>8 DEF ListA, items

LEMMA ListStep == Inv /\ List => Inv'
<1> SUFFICES ASSUME Inv, List PROVE Inv'
  OBVIOUS
<1>0. Sending("list") /\ UNCHANGED Locals
  BY DEF List
<1>1. /\ stage = "getftp" /\ plan # <<>> /\ Head(plan) = "list" /\ con.alive
      /\ Fits("list") /\ Pending \in Seq(Codes)
      /\ session \in Sessions({session.data}) /\ job \in Jobs /\ con \in Cons
  BY <1>0, Commanded
<1>2. job.op = "LIST" /\ "list" \in Transferring
  BY <1>1 DEF Fits, Transferring
<1>3. CASE Broken
  BY <1>3, <1>0, Breaking DEF Broken, Errors
<1> DEFINE Begun == First({1}) /\ Len(Pending) = 2 /\ Pending[2] \in {226, 426} /\ ~session.open /\ Good /\ Twice
           Failed == First({4, 5}) /\ (Len(Pending) = 1 \/ Class(Pending[2]) \in {1, 4, 5})
<1>4. /\ Right
      /\ Pending = <<>> \/ (~world.ftp_pasv /\ (Begun \/ First({2}) \/ Failed))
  BY <1>1 DEF Inv, DialogueOK, Left, Data, Transferring
<1>5. session.cwd = job.of
  BY <1>2, <1>4 DEF Inv, JobOK, Right
<1> DEFINE items == Listed(session.cwd, FALSE)
<1>6. items \in Seq(ListEntries)
  <2>1. session.cwd \in DOMAIN Tree
    BY <1>1 DEF Sessions
  <2> QED
    BY <2>1, ListedOf
<1> HIDE DEF items
<1>7. ASSUME NEW s \in Transfers(session.cwd, items), Requested(s, FALSE) PROVE Inv'
  <2>0. UNCHANGED world
    BY <1>0 DEF Locals
  <2>a. CASE Class(Heard(s)) # 1 /\ Class(Heard(s)) # 5
    <3>1. CloseReturn("FTPRERR")
      BY <1>7, <2>a DEF Requested
    <3> QED
      BY <1>0, <3>1, Breaking DEF Errors
  <2>b. Class(Heard(s)) = 1 => Ask(s) /\ Proceed(<<"open">>) /\ job' = [job EXCEPT !.list_a = FALSE]
    BY <1>7 DEF Requested
  <2>c. Class(Heard(s)) = 5 => Ask(s) /\ Return("FTPNSFOD")
    BY <1>7 DEF Requested
  <2>1. ASSUME NEW r \in {450, 550}, NEW o \in BOOLEAN, s = Refused(r, o) PROVE Inv'
    <3>1. Heard(s) = IF Pending = <<>> THEN r ELSE Pending[1]
      BY <1>1, <2>1, Refusing
    <3>2. Class(r) = 4 \/ Class(r) = 5
      BY ClassOf
    <3>3. Ask(s) => /\ session' \in Sessions({session'.data}) /\ session'.cwd = session.cwd
                    /\ session'.data = session.data /\ Shifted(r)
      BY <1>1, <2>1, Refusing
    <3>4. CASE Class(Heard(s)) = 1
      <4>1. Ask(s) /\ Proceed(<<"open">>) /\ job' = [job EXCEPT !.list_a = FALSE]
        BY <2>b, <3>4
      <4>2. Begun /\ ~world.ftp_pasv
        BY <1>4, <3>1, <3>2, <3>4 DEF First
      <4>3. Pending' # <<>> /\ Len(Pending') = 2 /\ Pending'[1] = Pending[2] /\ Pending'[2] = r
        BY <1>1, <3>3, <4>1, <4>2, Shifting
      <4>4. job'.of = job.of /\ job'.op = job.op
        BY <1>1, <4>1 DEF Jobs
      <4>5. Good'
        BY <3>3, <4>1, <4>2, <4>4 DEF Good
      <4>6. Pending'[1] \in {226, 426} /\ Class(Pending'[2]) \in {4, 5}
        BY <3>2, <4>2, <4>3
      <4> QED
        BY <1>0, <1>2, <1>4, <3>3, <4>1, <4>2, <4>3, <4>5, <4>6, Opening
    <3>5. CASE Class(Heard(s)) = 5
      <4>1. Ask(s) /\ Return("FTPNSFOD")
        BY <2>c, <3>5
      <4>2. CASE Pending = <<>>
        <5>1. Pending' = <<>>
          BY <1>1, <3>3, <4>1, <4>2, Shifting
        <5> QED
          BY <1>0, <1>2, <1>4, <3>3, <4>1, <5>1, NoSuchFile
      <4>3. CASE Pending # <<>>
        <5>1. Failed /\ ~world.ftp_pasv
          BY <1>4, <3>1, <3>5, <4>3 DEF First
        <5>2. Dead'
          <6>1. CASE Len(Pending) = 1
            <7>1. Pending' # <<>> /\ Pending'[1] = r
              BY <1>1, <3>3, <4>1, <6>1, Shifting
            <7> QED
              BY <3>2, <7>1 DEF Dead, First
          <6>2. CASE Len(Pending) # 1
            <7>1. Pending' # <<>> /\ Pending'[1] = Pending[2]
              BY <1>1, <3>3, <4>1, <4>3, <6>2, Shifting
            <7> QED
              BY <5>1, <6>2, <7>1 DEF Dead, First
          <6> QED
            BY <6>1, <6>2
        <5> QED
          BY <1>0, <1>2, <1>4, <3>3, <4>1, <5>1, <5>2, NoSuchFile
      <4> QED
        BY <4>2, <4>3
    <3> QED
      BY <2>a, <3>4, <3>5
  <2>2. ASSUME session.open, NEW f \in {226, 426}, NEW d, s = Sent(session.cwd, d, f), Prefix(d, items)
        PROVE  Inv'
    <3>1. /\ Pending = <<>> => Heard(s) = 150
          /\ Pending # <<>> => Heard(s) = Pending[1]
      BY <1>1, <2>2, Hearing150
    <3>2. Ask(s) => /\ session' \in Sessions({session'.data}) /\ session'.cwd = session.cwd
                    /\ session'.data = [of |-> session.cwd, items |-> d] /\ Shifted2(f)
      BY <1>1, <2>2, Sending150
    <3>3. d \in Seq(ListEntries)
      BY <1>6, <2>2, GoodPart
    <3>4. Class(150) = 1
      BY ClassOf
    <3>5. CASE Class(Heard(s)) = 1
      <4>1. Ask(s) /\ Proceed(<<"open">>) /\ job' = [job EXCEPT !.list_a = FALSE]
        BY <2>b, <3>5
      <4>2. Pending = <<>>
        BY <1>4, <2>2, <3>1, <3>5 DEF First
      <4>3. Pending' # <<>> /\ Len(Pending') = 1 /\ Pending'[1] = f
        BY <1>1, <3>2, <4>1, <4>2, Shifting2
      <4>4. job'.of = job.of /\ job'.op = job.op
        BY <1>1, <4>1 DEF Jobs
      <4>5. Good'
        BY <1>2, <1>5, <3>2, <3>3, <4>1, <4>4 DEF Good
      <4>6. Pending'[1] \in {226, 426}
        BY <4>3
      <4> QED
        BY <1>0, <1>2, <1>4, <3>2, <4>1, <4>3, <4>5, <4>6, Opening
    <3>6. CASE Class(Heard(s)) = 5
      <4>1. Ask(s) /\ Return("FTPNSFOD")
        BY <2>c, <3>6
      <4>2. Pending # <<>>
        BY <3>1, <3>4, <3>6
      <4>3. Failed /\ ~world.ftp_pasv
        BY <1>4, <3>1, <3>6, <4>2 DEF First
      <4>4. Dead'
        <5>1. CASE Len(Pending) = 1
          <6>1. Pending' # <<>> /\ Pending'[1] = 150
            BY <1>1, <3>2, <4>1, <5>1, Shifting2
          <6> QED
            BY <3>4, <6>1 DEF Dead, First
        <5>2. CASE Len(Pending) # 1
          <6>1. Pending' # <<>> /\ Pending'[1] = Pending[2]
            BY <1>1, <3>2, <4>1, <4>2, <5>2, Shifting2
          <6> QED
            BY <4>3, <5>2, <6>1 DEF Dead, First
        <5> QED
          BY <5>1, <5>2
      <4> QED
        BY <1>0, <1>2, <1>4, <3>2, <4>1, <4>3, <4>4, NoSuchFile
    <3> QED
      BY <2>a, <3>5, <3>6
  <2> QED
    BY <1>1, <2>1, <2>2, Served
<1> QED
  BY <1>3, <1>7 DEF List, items

\* The last command of a sequence is replaced, and the first is gone.
LEMMA LastOf ==
    ASSUME NEW S, NEW p \in Seq(S), Len(p) > 2, NEW c \in S,
           NEW q, q = SubSeq(p, 2, Len(p) - 1) \o <<c>>
    PROVE  /\ q \in Seq(S) /\ Len(q) = Len(p) - 1
           /\ \A i \in 1 .. Len(p) - 1 : q[i] = IF i = Len(p) - 1 THEN c ELSE p[i + 1]
<1> DEFINE m == SubSeq(p, 2, Len(p) - 1)
           u == <<c>>
<1>0. Len(p) \in Nat
  OBVIOUS
<1>1. \A i \in 2 .. Len(p) - 1 : p[i] \in S
  BY ElementOfSeq
<1>2. /\ m \in Seq(S) /\ Len(m) = Len(p) - 2
      /\ \A i \in 1 .. Len(p) - 2 : m[i] = p[i + 1]
  <2>1. PICK n : n = Len(p) - 1
    OBVIOUS
  <2>2. n \in Nat /\ n >= 2 /\ n <= Len(p)
    BY <1>0, <2>1
  <2>3. \A i \in 2 .. n : p[i] \in S
    BY <1>1, <2>1
  <2>4. /\ SubSeq(p, 2, n) \in Seq(S) /\ Len(SubSeq(p, 2, n)) = n - 1
        /\ \A i \in 1 .. n - 1 : SubSeq(p, 2, n)[i] = p[2 + i - 1]
    BY <2>2, <2>3, SubSeqProperties
  <2>5. \A i \in 1 .. n - 1 : SubSeq(p, 2, n)[i] = p[i + 1]
    <3> TAKE i \in 1 .. n - 1
    <3>1. 2 + i - 1 = i + 1
      BY <2>2
    <3> QED
      BY <2>4, <3>1
  <2>6. n - 1 = Len(p) - 2
    BY <1>0, <2>1
  <2> QED
    BY <2>1, <2>4, <2>5, <2>6
<1>3. u \in Seq(S) /\ Len(u) = 1 /\ u[1] = c
  OBVIOUS
<1>q. q = m \o u
  OBVIOUS
<1> HIDE DEF m, u
<1>4. /\ m \o u \in Seq(S) /\ Len(m \o u) = Len(m) + Len(u)
      /\ \A i \in 1 .. Len(m) + Len(u) : (m \o u)[i] = IF i <= Len(m) THEN m[i] ELSE u[i - Len(m)]
  BY <1>2, <1>3, ConcatProperties
<1>5. Len(m \o u) = Len(p) - 1
  BY <1>0, <1>2, <1>3, <1>4
<1>6. \A i \in 1 .. Len(p) - 1 : (m \o u)[i] = IF i = Len(p) - 1 THEN c ELSE p[i + 1]
  <2> TAKE i \in 1 .. Len(p) - 1
  <2>1. CASE i = Len(p) - 1
    <3>1. i \in 1 .. Len(m) + Len(u) /\ ~ (i <= Len(m)) /\ i - Len(m) = 1
      BY <1>0, <1>2, <1>3, <2>1
    <3> QED
      BY <1>3, <1>4, <2>1, <3>1
  <2>2. CASE i # Len(p) - 1
    <3>1. i \in 1 .. Len(m) + Len(u) /\ i <= Len(m) /\ i \in 1 .. Len(p) - 2
      BY <1>0, <1>2, <1>3, <2>2
    <3> QED
      BY <1>2, <1>4, <2>2, <3>1
  <2> QED
    BY <2>1, <2>2
<1> QED
  BY <1>4, <1>5, <1>6, <1>q

\* The plan after the login.
Settled == IF con'.avoid_a /\ job.op = "LIST"
           THEN SubSeq(plan, 2, Len(plan) - 1) \o <<"list">> ELSE Tail(plan)
LEMMA LoggedIn ==
    ASSUME TypeOK, PlanOK, Sending("login"), job.op \in {"LIST", "RETR"}, UNCHANGED <<world, stage, job>>,
           con'.alive, con'.own = con.own, con.avoid_a => con'.avoid_a,
           plan' = Settled
    PROVE  /\ PlanOK' /\ plan' \in Seq(Known) /\ plan' # <<>> /\ Head(plan') = plan[2]
           /\ Head(plan') \in After("login") /\ Fits(Head(plan))'
<1> DEFINE replaced == con'.avoid_a /\ job.op = "LIST"
<1>0. plan \in Seq(Known) /\ plan # <<>> /\ Head(plan) = "login" /\ stage = "getftp"
  BY DEF TypeOK, Sending
<1>n. Len(plan) \in Nat
  BY <1>0
<1>1. plan[Len(plan)] \in Transferring \cup Data
  BY <1>0 DEF PlanOK
<1>2. /\ Len(plan) > 1 /\ plan[1] = "login"
      /\ Tail(plan) \in Seq(Known) /\ Len(Tail(plan)) = Len(plan) - 1
      /\ \A i \in 1 .. Len(plan) - 1 : Tail(plan)[i] = plan[i + 1]
  <2>1. Head(plan) \notin Transferring \cup Data
    BY <1>0 DEF Transferring, Data
  <2> QED
    BY <1>0, <1>1, <2>1, TailOf
<1>3. plan[2] \in After("login")
  <2>1. \A i \in 1 .. Len(plan) - 1 : plan[i + 1] \in After(plan[i])
    BY DEF PlanOK
  <2>2. 1 \in 1 .. Len(plan) - 1 /\ 1 + 1 = 2
    BY <1>n, <1>2
  <2> QED
    BY <1>2, <2>1, <2>2
<1>4. plan[2] \notin Transferring \cup Data \cup {"login"}
  BY <1>3 DEF After, Follows, Mode, Ports, Transferring, Data
<1>5. Len(plan) > 2
  <2>1. Len(plan) # 2
    BY <1>1, <1>4
  <2>2. Len(plan) > 1
    BY <1>2
  <2>3. ASSUME NEW n \in Nat, n > 1, n # 2 PROVE n > 2
    BY <2>3
  <2> QED
    BY <1>n, <2>1, <2>2, <2>3
<1>6. /\ plan' \in Seq(Known) /\ Len(plan') = Len(plan) - 1
      /\ \A i \in 1 .. Len(plan) - 1 :
            plan'[i] = IF replaced /\ i = Len(plan) - 1 THEN "list" ELSE plan[i + 1]
  <2>1. CASE replaced
    <3>1. "list" \in Known
      BY DEF Known
    <3>2. plan' = SubSeq(plan, 2, Len(plan) - 1) \o <<"list">>
      BY <2>1 DEF Settled
    <3>3. /\ plan' \in Seq(Known) /\ Len(plan') = Len(plan) - 1
          /\ \A i \in 1 .. Len(plan) - 1 : plan'[i] = IF i = Len(plan) - 1 THEN "list" ELSE plan[i + 1]
      BY <1>0, <1>5, <3>1, <3>2, LastOf
    <3> QED
      BY <2>1, <3>3
  <2>2. CASE ~replaced
    <3>1. plan' = Tail(plan)
      BY <2>2 DEF Settled
    <3> QED
      BY <1>2, <2>2, <3>1
  <2> QED
    BY <2>1, <2>2
<1> HIDE DEF replaced
<1>a. Len(plan') = Len(plan) - 1 /\ Len(plan') - 1 = Len(plan) - 2
  BY <1>0, <1>n, <1>6
<1>7. plan' # <<>> /\ plan'[1] = plan[2] /\ Head(plan') = plan[2]
  <2>1. Len(plan') > 1
    BY <1>0, <1>n, <1>5, <1>6
  <2>2. plan' # <<>> /\ Head(plan') = plan'[1]
    BY <1>6, <2>1
  <2>a. ASSUME NEW n \in Nat, n > 2 PROVE 1 \in 1 .. n - 1 /\ 1 # n - 1
    BY <2>a
  <2>3. 1 \in 1 .. Len(plan) - 1 /\ 1 # Len(plan) - 1
    BY <1>n, <1>5, <2>a
  <2>4. plan'[1] = plan[1 + 1]
    BY <1>6, <2>3
  <2> QED
    BY <2>2, <2>4
<1>8. \A c : After(c)' = After(c)
  BY DEF After, Follows, Mode
<1>9. \A c : Fits(c) /\ ~(replaced /\ c = "list_a") => Fits(c)'
  BY DEF Fits, replaced
<1>10. \A i \in 1 .. Len(plan) - 1 : plan[i] \notin Transferring
  <2> TAKE i \in 1 .. Len(plan) - 1
  <2>1. plan[i + 1] \in After(plan[i])
    BY DEF PlanOK
  <2> QED
    BY <2>1 DEF After, Follows, Transferring, Preamble, Ports
<1>11. \A i \in 1 .. Len(plan') : Fits(plan[i])'
  <2> SUFFICES ASSUME NEW i \in 1 .. Len(plan) - 1 PROVE Fits(plan[i])'
    BY <1>6
  <2>1. i + 1 \in 1 .. Len(plan)
    BY <1>0, <1>n
  <2>2. PICK c : c = plan[i + 1]
    OBVIOUS
  <2>3. Fits(c)
    BY <2>1, <2>2 DEF PlanOK
  <2>4. CASE replaced /\ i = Len(plan) - 1
    <3>1. plan'[i] = "list"
      BY <1>6, <2>4
    <3>2. Fits("list")'
      BY <2>4 DEF Fits, replaced, Transferring
    <3> QED
      BY <3>1, <3>2
  <2>5. CASE ~ (replaced /\ i = Len(plan) - 1)
    <3>1. plan'[i] = c
      BY <1>6, <2>2, <2>5
    <3>2. ~ (replaced /\ c = "list_a")
      <4>1. i # Len(plan) - 1 => i + 1 \in 1 .. Len(plan) - 1
        BY <1>0, <1>n
      <4>2. "list_a" \in Transferring
        BY DEF Transferring
      <4> QED
        BY <1>10, <2>2, <2>5, <4>1, <4>2
    <3> QED
      BY <1>9, <2>3, <3>1, <3>2
  <2> QED
    BY <2>4, <2>5
<1>12. \A i \in 1 .. Len(plan') - 1 : plan'[i + 1] \in After(plan[i])'
  <2> SUFFICES ASSUME NEW i \in 1 .. Len(plan) - 2 PROVE plan'[i + 1] \in After(plan[i])'
    BY <1>a
  <2>1. /\ i \in 1 .. Len(plan) - 1 /\ i # Len(plan) - 1 /\ i + 1 \in 1 .. Len(plan) - 1
        /\ i + 1 \in 1 .. Len(plan) /\ i + 1 + 1 = i + 2
    BY <1>0, <1>n
  <2>2. PICK c : c = plan[i + 1]
    OBVIOUS
  <2>3. plan'[i] = c
    BY <1>6, <2>1, <2>2
  <2>4. plan[i + 2] \in After(c) /\ Fits(c)
    <3>1. PICK j : j = i + 1
      OBVIOUS
    <3>2. plan[j + 1] \in After(plan[j]) /\ Fits(plan[j])
      BY <2>1, <3>1 DEF PlanOK
    <3> QED
      BY <2>1, <2>2, <3>1, <3>2
  <2>5. plan'[i + 1] \in After(c)
    <3>1. CASE replaced /\ i + 1 = Len(plan) - 1
      <4>1. plan'[i + 1] = "list"
        BY <1>6, <2>1, <3>1
      <4>2. i + 2 = Len(plan)
        BY <1>0, <1>n, <3>1
      <4>3. plan[i + 2] \in Transferring \cup Data
        BY <1>1, <4>2
      <4>4. c # "rest"
        BY <2>4, <3>1 DEF Fits, replaced
      <4>5. c \in Ports
        BY <2>4, <4>3, <4>4 DEF After, Follows, Mode, Transferring, Data, Ports
      <4> QED
        <5>1. "list" \in Transferring /\ job.op = "LIST"
          BY <3>1 DEF Transferring, replaced
        <5>2. c = "pasv" \/ c = "port"
          BY <4>5 DEF Ports
        <5>3. After(c) = Transferring
          BY <4>5, <5>1, <5>2 DEF After, Follows, Ports
        <5> QED
          BY <4>1, <5>1, <5>3
    <3>2. CASE ~ (replaced /\ i + 1 = Len(plan) - 1)
      <4>1. plan'[i + 1] = plan[i + 2]
        BY <1>6, <2>1, <3>2
      <4> QED
        BY <2>4, <4>1
    <3> QED
      BY <3>1, <3>2
  <2>6. PICK d : d = plan'[i]
    OBVIOUS
  <2> QED
    BY <1>8, <2>3, <2>5
<1>13. plan'[Len(plan')] \in Transferring \cup Data
  <2>1. Len(plan) - 1 \in 1 .. Len(plan) - 1 /\ Len(plan) - 1 + 1 = Len(plan)
    BY <1>0, <1>n, <1>5
  <2>2. plan'[Len(plan) - 1] = IF replaced THEN "list" ELSE plan[Len(plan)]
    BY <1>6, <2>1
  <2> QED
    BY <1>1, <1>6, <2>2 DEF Transferring
<1>14. \A i \in 1 .. Len(plan') : plan'[i] # "login" /\ (i # 1 /\ plan'[i] = "list" => con'.avoid_a)
  <2> SUFFICES ASSUME NEW i \in 1 .. Len(plan) - 1
               PROVE  plan'[i] # "login" /\ (plan'[i] = "list" => con'.avoid_a)
    BY <1>6
  <2>1. plan'[i] = IF replaced /\ i = Len(plan) - 1 THEN "list" ELSE plan[i + 1]
    BY <1>6
  <2>2. i + 1 \in 2 .. Len(plan)
    BY <1>0, <1>n
  <2>3. plan[i + 1] # "login" /\ (plan[i + 1] = "list" => con.avoid_a)
    BY <2>2 DEF PlanOK
  <2> QED
    BY <2>1, <2>3 DEF replaced
<1>15. Head(plan') # "login" /\ Fits(Head(plan))'
  <2>1. 1 \in 1 .. Len(plan')
    BY <1>0, <1>n, <1>5, <1>6
  <2> QED
    BY <1>7, <1>11, <1>14, <2>1
<1>16. \A i \in 2 .. Len(plan') : plan'[i] # "login" /\ (plan'[i] = "list" => con'.avoid_a)
  <2> TAKE i \in 2 .. Len(plan')
  <2>1. i \in 1 .. Len(plan') /\ i # 1
    BY <1>0, <1>n, <1>a
  <2> QED
    BY <1>14, <2>1
<1>17. PlanOK'
  <2>1. con'.alive /\ stage' = "getftp"
    BY <1>0, <1>n
  <2> QED
    BY <1>7, <1>11, <1>12, <1>13, <1>15, <1>16, <2>1 DEF PlanOK
<1> QED
  BY <1>3, <1>6, <1>7, <1>15, <1>17

LEMMA LoginStep == Inv /\ Login => Inv'
<1> SUFFICES ASSUME Inv, Login PROVE Inv'
  OBVIOUS
<1>0. Sending("login") /\ UNCHANGED Locals
  BY DEF Login
<1>1. /\ stage = "getftp" /\ plan # <<>> /\ Head(plan) = "login" /\ ~con.alive
      /\ plan \in Seq(Known) /\ job \in Jobs /\ con \in Cons
      /\ job.op \in {"LIST", "RETR"}
  BY <1>0, Commanded
<1>2. ASSUME NEW err \in {"HOSTERR", "CONERROR", "FTPRERR", "FTPLOGINC"}, CloseReturn(err) PROVE Inv'
  <2>1. err \in Errors
    BY DEF Errors
  <2> QED
    BY <1>0, <1>2, <2>1, Breaking
<1>3. ASSUME session' = Session,
             con' = [con EXCEPT !.alive = TRUE,
                          !.checked = @ \/ world.system # "unknown",
                          !.avoid_a = @ \/ world.system = "list",
                          !.avoid_list = @ \/ world.system = "list_a"],
             plan' = Settled, UNCHANGED <<stage, job>>
      PROVE  Inv'
  <2>1. con' \in Cons /\ con'.alive /\ con'.own = con.own /\ (con.avoid_a => con'.avoid_a)
    <3>1. PICK a \in BOOLEAN, b \in BOOLEAN, c \in BOOLEAN :
             /\ a = (con.checked \/ world.system # "unknown")
             /\ b = (con.avoid_a \/ world.system = "list")
             /\ c = (con.avoid_list \/ world.system = "list_a")
      OBVIOUS
    <3>2. con' = [con EXCEPT !.alive = TRUE, !.checked = a, !.avoid_a = b, !.avoid_list = c]
      BY <1>3, <3>1
    <3>3. con' \in Cons /\ con'.alive /\ con'.own = con.own /\ con'.avoid_a = b
      BY <1>1, <3>2 DEF Cons
    <3> QED
      BY <3>1, <3>3
  <2>2. UNCHANGED <<world, stack, disk, listing, stage, job>>
    BY <1>0, <1>3 DEF Locals
  <2>3. /\ PlanOK' /\ plan' \in Seq(Known) /\ plan' # <<>> /\ Head(plan') = plan[2]
        /\ Head(plan') \in After("login")
    BY <1>0, <1>1, <1>3, <2>1, <2>2, LoggedIn DEF Inv
  <2>4. session' \in Sessions({session'.data}) /\ Pending' = <<>> /\ session'.cwd = ""
    <3>1. "" \in DOMAIN Tree
      BY TreeAssumption
    <3> QED
      BY <1>3, <3>1, EmptySeq DEF Session, Sessions, Pending
  <2>5. TypeOK'
    BY <2>1, <2>2, <2>3, <2>4 DEF Inv, TypeOK
  <2>6. Head(plan') \in {"cwd", "size", "pasv", "port"}
    BY <2>3 DEF After, Follows, Mode, Ports, Transferring, Data
  <2>7. Head(plan') = "cwd" \/ Right'
    <3>1. job.dir # "" => plan[2] = "cwd"
      BY <1>1 DEF Inv, PlanOK
    <3> QED
      BY <2>2, <2>3, <2>4, <3>1 DEF Right
  <2>8. Idle' /\ ~Odd' /\ Len(Pending') = 0
    <3>1. Pending' = <<>>
      BY <2>4
    <3>2. Len(Pending') = 0
      BY <3>1
    <3>3. Idle'
      BY <3>1, <3>2 DEF Idle
    <3>4. ~Odd'
      BY <3>1 DEF Odd, First
    <3> QED
      BY <3>2, <3>3, <3>4
  <2>9. DialogueOK'
    <3>0. Pending' = <<>>
      BY <2>4
    <3>1. \A c : c \in {"cwd", "size", "pasv", "port"} => Left(c)'
      BY <2>8, <3>0 DEF Left, Data
    <3>2. PICK c : c = Head(plan')
      OBVIOUS
    <3>3. Left(c)' /\ (c = "cwd" \/ Right') /\ c \in {"cwd", "size", "pasv", "port"}
      BY <2>6, <2>7, <3>1, <3>2
    <3>4. c \notin {"rest"} \cup Transferring \cup Data
      BY <3>3 DEF Data, Transferring
    <3> QED
      BY <2>8, <3>0, <3>2, <3>3, <3>4 DEF DialogueOK
  <2>10. BetweenOK'
    BY <1>1, <2>2 DEF BetweenOK
  <2>11. JobOK' /\ StackOK'
    BY <1>1, <2>1, <2>2 DEF Inv, JobOK, StackOK, AllGiven, Top
  <2> QED
    BY <2>3, <2>5, <2>9, <2>10, <2>11 DEF Inv
<1> QED
  BY <1>2, <1>3 DEF Login, Settled

DiskOK == /\ disk' = [f \in DOMAIN disk' |-> disk'[f]]
          /\ \A f \in DOMAIN disk' : f \in Names /\ disk'[f] \in Seq(Bytes)

\* getftp goes on with the data.
LEMMA Receiving ==
    ASSUME Inv, NEW c, Sending(c), c \in Data, NEW d, d \in Data \ {"open"}, Proceed(<<d>>), DiskOK,
           listing' \in Seq(ListEntries), UNCHANGED <<world, stack>>, job' \in Jobs, SameJob,
           job'.list_a = job.list_a, session' \in Sessions({session'.data}),
           Pending' = Pending, session'.cwd = session.cwd, d = "read" => Good'
    PROVE  Inv'
<1>1. /\ c # "login" /\ stage = "getftp" /\ con.alive /\ Head(plan) = c
  BY Commanded DEF Data
<1>2. plan' = <<d>> /\ UNCHANGED <<stage, con, world, stack>>
  BY DEF Proceed
<1>3. PlanOK' /\ plan' \in Seq(Known) /\ plan' # <<>> /\ Head(plan') = d
  <2>1. d \in Known /\ d \in Transferring \cup Data
    BY DEF Known, Data
  <2>2. Fits(d)'
    BY DEF Fits, Data
  <2> QED
    BY <1>1, <1>2, <2>1, <2>2, OneLeft
<1>4. Right /\ Left(c)
  BY <1>1 DEF Inv, DialogueOK
<1>5. /\ Pending # <<>> /\ Pending[1] \in {226, 426}
      /\ Len(Pending) = 1 \/ (/\ Len(Pending) = 2 /\ Class(Pending[2]) \in {4, 5} /\ Twice
                              /\ job.op = "LIST" /\ ~job.list_a /\ ~world.ftp_pasv)
  BY <1>4 DEF Left, Data
<1>6. /\ (Pending # <<>> /\ Pending[1] \in {226, 426})'
      /\ (Len(Pending) = 1 \/ (/\ Len(Pending) = 2 /\ Class(Pending[2]) \in {4, 5} /\ Twice
                               /\ job.op = "LIST" /\ ~job.list_a /\ ~world.ftp_pasv))'
  BY <1>2, <1>5 DEF SameJob, Twice
<1>7. Left(d)'
  BY <1>6 DEF Left, Data
<1>8. Right'
  BY <1>4 DEF Right, SameJob
<1>9. DialogueOK'
  BY <1>2, <1>3, <1>7, <1>8 DEF DialogueOK, Data, Transferring
<1>10. TypeOK'
  BY <1>2, <1>3 DEF Inv, TypeOK, DiskOK
<1>11. BetweenOK'
  BY <1>1, <1>2 DEF BetweenOK
<1>12. JobOK'
  BY <1>1, <1>2 DEF Inv, JobOK, SameJob, AllGiven, Top
<1>13. StackOK'
  BY <1>1, <1>2 DEF Inv, StackOK
<1> QED
  BY <1>3, <1>9, <1>10, <1>11, <1>12, <1>13 DEF Inv

LEMMA OpenStep == Inv /\ Open => Inv'
<1> SUFFICES ASSUME Inv, Open PROVE Inv'
  OBVIOUS
<1>0. Sending("open") /\ UNCHANGED <<world, stack, retrieved>>
  BY DEF Open
<1>1. /\ stage = "getftp" /\ plan # <<>> /\ Head(plan) = "open" /\ con.alive
      /\ session \in Sessions({session.data}) /\ job \in Jobs /\ con \in Cons
      /\ con.own => job.op = "RETR"
  BY <1>0, Commanded
<1>2. /\ Right /\ Good /\ (world.ftp_pasv /\ world.pasv => job.pasv)
      /\ Pending # <<>> /\ Pending[1] \in {226, 426}
      /\ Len(Pending) = 1 \/ (/\ Len(Pending) = 2 /\ Class(Pending[2]) \in {4, 5} /\ Twice
                              /\ job.op = "LIST" /\ ~job.list_a /\ ~world.ftp_pasv)
  BY <1>1 DEF Inv, DialogueOK, Left, Data
<1>3. ASSUME Proceed(<<"read">>),
             IF job.op = "LIST" THEN listing' = <<>> /\ UNCHANGED disk
             ELSE /\ disk' = IF job.restval > 0 /\ job.of \in DOMAIN disk THEN disk
                             ELSE With(disk, job.of, <<>>)
                  /\ UNCHANGED listing,
             UNCHANGED <<job, session>>
      PROVE  Inv'
  <2>1. listing' \in Seq(ListEntries)
    BY <1>3, EmptySeq DEF Inv, TypeOK
  <2>2. DiskOK
    <3>1. CASE disk' = disk
      BY <3>1 DEF DiskOK, Inv, TypeOK
    <3>2. CASE disk' = With(disk, job.of, <<>>)
      <4>1. job.of \in Names
        BY <1>1 DEF Jobs
      <4>2. DOMAIN disk' = DOMAIN disk \cup {job.of}
        BY <3>2 DEF With
      <4>3. disk' = [f \in DOMAIN disk' |-> disk'[f]]
        BY <3>2 DEF With
      <4>4. \A f \in DOMAIN disk' : disk'[f] = IF f = job.of THEN <<>> ELSE disk[f]
        BY <3>2, <4>2 DEF With
      <4>5. \A f \in DOMAIN disk : f \in Names /\ disk[f] \in Seq(Bytes)
        BY DEF Inv, TypeOK
      <4>6. <<>> \in Seq(Bytes)
        BY EmptySeq
      <4> QED
        BY <4>1, <4>2, <4>3, <4>4, <4>5, <4>6 DEF DiskOK
    <3> QED
      BY <1>3, <3>1, <3>2
  <2>3. job' \in Jobs /\ SameJob /\ job'.list_a = job.list_a
    BY <1>1, <1>3 DEF SameJob
  <2>4. session' \in Sessions({session'.data}) /\ Pending' = Pending /\ session'.cwd = session.cwd
    BY <1>1, <1>3 DEF Pending
  <2>5. Good'
    BY <1>2, <1>3 DEF Good
  <2>6. "open" \in Data /\ "read" \in Data \ {"open"}
    BY DEF Data
  <2> QED
    BY <1>0, <1>3, <2>1, <2>2, <2>3, <2>4, <2>5, <2>6, Receiving
<1>4. ASSUME CloseReturn("FOPENERR"), UNCHANGED <<disk, listing>> PROVE Inv'
  <2>1. UNCHANGED Locals
    BY <1>0, <1>4 DEF Locals
  <2> QED
    BY <1>0, <1>4, <2>1, Breaking DEF Errors
<1>5. ASSUME ~job.pasv, Return("CONERROR"), session' = [session EXCEPT !.data = NoData],
             UNCHANGED <<disk, listing>>
      PROVE  Inv'
  <2>1. UNCHANGED Locals
    BY <1>0, <1>5 DEF Locals
  <2>2. session' \in Sessions({session'.data}) /\ Pending' = Pending /\ session'.cwd = session.cwd
    BY <1>1, <1>5 DEF Sessions, Pending
  <2>3. job'.dir = job.dir /\ con' = con /\ world' = world
    BY <1>0, <1>1, <1>5 DEF Return, Jobs
  <2>4. Right'
    BY <1>2, <2>2, <2>3 DEF Right
  <2>5. Class(226) = 2 /\ Class(426) = 4
    BY ClassOf
  <2>6. First({2}) \/ Dead
    BY <1>2, <2>5 DEF First, Dead
  <2>7. Idle
    <3>1. Len(Pending) = 1 \/ (First({2}) => Odd /\ Twice) 
      BY <1>2 DEF Odd
    <3>2. world.ftp_pasv => ~world.pasv /\ Len(Pending) = 1
      BY <1>2, <1>5
    <3>3. Pending[1] # 227
      BY <1>2
    <3>4. Len(Pending) = 1 => Len(Pending) <= 1
      OBVIOUS
    <3> QED
      BY <2>6, <3>1, <3>2, <3>3, <3>4 DEF Idle
  <2>8. Idle' /\ (Odd' => job.op = "LIST")
    <3>1. Odd => job.op = "LIST"
      BY <1>2 DEF Odd
    <3> QED
      BY <2>2, <2>3, <2>7, <3>1 DEF Idle, Odd, Twice, Dead, First
  <2>9. con.own => Right' /\ Len(Pending') <= 1
    <3>1. con.own => Len(Pending) = 1
      BY <1>1, <1>2
    <3>2. con.own => Len(Pending') = 1
      BY <2>2, <3>1
    <3>3. Len(Pending') = 1 => Len(Pending') <= 1
      OBVIOUS
    <3> QED
      BY <2>4, <3>2, <3>3
  <2> QED
    BY <1>0, <1>5, <2>1, <2>2, <2>4, <2>8, <2>9, Returning DEF Errors
<1> QED
  BY <1>3, <1>4, <1>5 DEF Open

LEMMA ReadStep == Inv /\ Read => Inv'
<1> SUFFICES ASSUME Inv, Read PROVE Inv'
  OBVIOUS
<1>0. Sending("read") /\ UNCHANGED <<world, stack, retrieved>>
  BY DEF Read
<1>1. /\ stage = "getftp" /\ plan # <<>> /\ Head(plan) = "read" /\ con.alive
      /\ session \in Sessions({session.data}) /\ job \in Jobs /\ con \in Cons
  BY <1>0, Commanded
<1>2. Good
  BY <1>1 DEF Inv, DialogueOK
<1> DEFINE T == IF job.op = "LIST" THEN ListEntries ELSE Bytes
<1>3. ASSUME NEW k \in 0 .. Len(session.data.items), NEW new,
             new = SubSeq(session.data.items, Skip + 1, k),
             IF job.op = "LIST" THEN listing' = listing \o new /\ UNCHANGED disk
             ELSE disk' = [disk EXCEPT ![job.of] = @ \o new] /\ UNCHANGED listing,
             \/ /\ \E res \in {-1} \cup (IF k = Len(session.data.items) THEN {0} ELSE {}) :
                      job' = [job EXCEPT !.res = res, !.qtyread = @ + Len(new)]
                /\ session' = [session EXCEPT !.data = NoData]
                /\ Proceed(<<"done">>)
             \/ CloseReturn("FWRITEERR")
      PROVE  Inv'
  <2>1. new \in Seq(T) /\ Len(new) \in Nat
    <3>1. session.data.items \in Seq(T)
      BY <1>2 DEF Good
    <3>2. Skip \in Nat
      BY <1>1 DEF Skip, Jobs
    <3>3. Skip + 1 \in Nat \ {0} /\ k \in Nat /\ k <= Len(session.data.items)
      BY <3>1, <3>2
    <3>4. PICK q : q = session.data.items
      OBVIOUS
    <3>5. SubSeq(q, Skip + 1, k) \in Seq(T)
      BY <3>1, <3>3, <3>4, PrefixOf
    <3>6. new = SubSeq(q, Skip + 1, k)
      BY <1>3, <3>4
    <3>7. new \in Seq(T)
      BY <3>5, <3>6
    <3> HIDE DEF T
    <3> QED
      BY <3>7, LenProperties
  <2>2. listing' \in Seq(ListEntries)
    <3>1. listing \in Seq(ListEntries)
      BY DEF Inv, TypeOK
    <3>2. CASE job.op = "LIST"
      <4>1. listing' = listing \o new /\ new \in Seq(ListEntries)
        BY <1>3, <2>1, <3>2
      <4> QED
        BY <3>1, <4>1, ConcatProperties
    <3> QED
      BY <1>3, <3>1, <3>2
  <2>3. DiskOK
    <3>1. disk = [f \in DOMAIN disk |-> disk[f]] /\ \A f \in DOMAIN disk : f \in Names /\ disk[f] \in Seq(Bytes)
      BY DEF Inv, TypeOK
    <3>2. CASE job.op = "LIST"
      BY <1>3, <3>1, <3>2 DEF DiskOK
    <3>3. CASE job.op # "LIST"
      <4>1. new \in Seq(Bytes) /\ disk' = [disk EXCEPT ![job.of] = @ \o new]
        BY <1>3, <2>1, <3>3
      <4>2. \A f \in DOMAIN disk : disk[f] \o new \in Seq(Bytes)
        BY <3>1, <4>1, ConcatProperties
      <4>3. DOMAIN disk' = DOMAIN disk /\ disk' = [f \in DOMAIN disk' |-> disk'[f]]
        BY <4>1
      <4>4. \A f \in DOMAIN disk : disk'[f] = IF f = job.of THEN disk[f] \o new ELSE disk[f]
        BY <4>1
      <4> QED
        BY <3>1, <4>2, <4>3, <4>4 DEF DiskOK
    <3> QED
      BY <3>2, <3>3
  <2>4. CASE CloseReturn("FWRITEERR")
    <3>1. "FWRITEERR" \in Errors
      BY DEF Errors
    <3> QED
      BY <1>0, <1>1, <2>2, <2>3, <2>4, <3>1, Closing DEF DiskOK
  <2>5. ASSUME NEW res \in {-1, 0}, job' = [job EXCEPT !.res = res, !.qtyread = @ + Len(new)],
               session' = [session EXCEPT !.data = NoData], Proceed(<<"done">>)
        PROVE  Inv'
    <3>1. PICK n : n = job.qtyread + Len(new)
      OBVIOUS
    <3>2. n \in Nat
      BY <1>1, <2>1, <3>1 DEF Jobs
    <3>3. job' \in Jobs /\ SameJob /\ job'.list_a = job.list_a
      BY <1>1, <2>5, <3>1, <3>2 DEF Jobs, SameJob
    <3>4. session' \in Sessions({session'.data}) /\ Pending' = Pending /\ session'.cwd = session.cwd
      BY <1>1, <2>5 DEF Sessions, Pending
    <3>5. "read" \in Data /\ "done" \in Data \ {"open"} /\ "done" # "read"
      BY DEF Data
    <3> QED
      BY <1>0, <2>2, <2>3, <2>5, <3>3, <3>4, <3>5, Receiving
  <2> QED
    BY <1>3, <2>4, <2>5
<1> QED
  BY <1>3 DEF Read

\* A plan of two commands, the first to listen for a connection and the second to list.
Two(p, c) == plan' = <<p, c>>
LEMMA TwoLeft ==
    ASSUME NEW p \in Known, NEW c \in Known, Two(p, c), Fits(c)', Fits(p)', p \in Ports,
           c = "list" \/ c = "list_a", c = "list" => con'.avoid_a, stage' = "getftp", con'.alive
    PROVE  PlanOK' /\ plan' \in Seq(Known) /\ plan' # <<>> /\ Head(plan') = p
<1>1. /\ plan' \in Seq(Known) /\ plan' # <<>> /\ Len(plan') = 2 /\ plan'[1] = p /\ plan'[2] = c
      /\ Head(plan') = p
  <2>1. PICK q : q = <<p, c>>
    OBVIOUS
  <2>2. plan' = q
    BY <2>1 DEF Two
  <2>3. q \in Seq(Known)
    BY <2>1
  <2>4. Len(q) = 2 /\ q[1] = p /\ q[2] = c
    BY <2>1
  <2>5. q # <<>> /\ Head(q) = q[1]
    BY <2>3, <2>4
  <2> QED
    BY <2>2, <2>3, <2>4, <2>5
<1>2. ASSUME NEW i \in 1 .. 2 PROVE i = 1 \/ i = 2
  OBVIOUS
<1>3. Fits(plan[1])' /\ Fits(plan[2])'
  BY <1>1
<1>4. \A i \in 1 .. Len(plan') : Fits(plan[i])'
  <2> SUFFICES ASSUME NEW i \in 1 .. 2 PROVE Fits(plan[i])'
    BY <1>1
  <2>1. i = 1 \/ i = 2
    BY <1>2
  <2> QED
    BY <1>3, <2>1
<1>5. \A i \in 1 .. Len(plan') - 1 : plan'[i + 1] \in After(plan[i])'
  <2> SUFFICES ASSUME NEW i \in 1 .. 1 PROVE plan'[i + 1] \in After(plan[i])'
    BY <1>1
  <2>1. i = 1 /\ i + 1 = 2
    OBVIOUS
  <2>2. plan'[i + 1] = c /\ plan'[i] = p
    BY <1>1, <2>1
  <2>3. c \in After(p)'
    BY DEF After, Follows, Ports, Transferring, Fits
  <2> QED
    BY <2>2, <2>3
<1>6. \A i \in 2 .. Len(plan') : plan'[i] # "login" /\ (plan'[i] = "list" => con'.avoid_a)
  <2> SUFFICES ASSUME NEW i \in 2 .. 2 PROVE plan'[i] # "login" /\ (plan'[i] = "list" => con'.avoid_a)
    BY <1>1
  <2>1. i = 2
    OBVIOUS
  <2>2. plan'[i] = c
    BY <1>1, <2>1
  <2> QED
    BY <2>2
<1>7. plan'[Len(plan')] = c /\ Head(plan') = p
  BY <1>1
<1>8. c \in Transferring \cup Data /\ p # "login"
  BY DEF Transferring, Ports
<1> QED
  BY <1>1, <1>4, <1>5, <1>6, <1>7, <1>8 DEF PlanOK

LEMMA ResponseStep == Inv /\ Response => Inv'
<1> SUFFICES ASSUME Inv, Response PROVE Inv'
  OBVIOUS
<1>0. Sending("done") /\ UNCHANGED Locals
  BY DEF Response
<1>1. /\ stage = "getftp" /\ plan # <<>> /\ Head(plan) = "done" /\ con.alive /\ Pending \in Seq(Codes)
      /\ session \in Sessions({session.data}) /\ job \in Jobs /\ con \in Cons
      /\ job.op \in {"LIST", "RETR"} /\ (con.own => job.op = "RETR")
  BY <1>0, Commanded
<1>2. /\ Right /\ Pending # <<>> /\ Pending[1] \in {226, 426}
      /\ Len(Pending) = 1 \/ (/\ Len(Pending) = 2 /\ Class(Pending[2]) \in {4, 5} /\ Twice
                              /\ job.op = "LIST" /\ ~job.list_a /\ ~world.ftp_pasv)
  BY <1>1 DEF Inv, DialogueOK, Left, Data
<1>3. ASSUME CloseReturn("FTPRETRINT") PROVE Inv'
  BY <1>0, <1>3, Breaking DEF Errors
\* What is left: nothing, or the answer to the listing that was refused.
<1>4. ASSUME Ask(session)
      PROVE  /\ session' \in Sessions({session'.data}) /\ session'.cwd = session.cwd
             /\ Pending' = <<>> \/ (/\ Len(Pending') = 1 /\ First({4, 5})' /\ Twice
                                    /\ job.op = "LIST" /\ ~job.list_a /\ ~world.ftp_pasv)
  <2>1. PICK t : t = Tail(Pending)
    OBVIOUS
  <2>2. t \in Seq(Codes) /\ Len(t) = Len(Pending) - 1 /\ \A i \in 1 .. Len(t) : t[i] = Pending[i + 1]
    BY <1>1, <1>2, <2>1, HeadTailProperties
  <2>3. session' = [session EXCEPT !.replies = t]
    BY <1>4, <2>1 DEF Ask, Pending
  <2>4. session' \in Sessions({session'.data}) /\ session'.cwd = session.cwd /\ Pending' = t
    BY <1>1, <2>2, <2>3 DEF Sessions, Pending
  <2>5. CASE Len(Pending) = 1
    <3>1. Len(t) = 0
      BY <2>2, <2>5
    <3>2. t = <<>>
      BY <2>2, <3>1
    <3> QED
      BY <2>4, <3>2
  <2>6. CASE Len(Pending) # 1
    <3>1. Len(Pending) = 2 /\ Class(Pending[2]) \in {4, 5}
      BY <1>2, <2>6
    <3>2. Len(t) = 1
      BY <2>2, <3>1
    <3>3. t[1] = Pending[2]
      <4>1. \A i \in 1 .. 1 : t[i] = Pending[i + 1]
        BY <2>2, <3>2
      <4>2. t[1] = Pending[1 + 1]
        BY <4>1
      <4> QED
        BY <4>2
    <3>4. t # <<>>
      BY <3>2
    <3>5. First({4, 5})'
      BY <2>4, <3>1, <3>3, <3>4 DEF First
    <3> QED
      BY <1>2, <2>4, <2>6, <3>2, <3>5
  <2> QED
    BY <2>5, <2>6
<1>5. ASSUME Ask(session), con'.own = con.own, SameJob, UNCHANGED world
      PROVE  /\ Right' /\ Idle' /\ ~Odd' /\ Len(Pending') <= 1
             /\ Pending' # <<>> => Dead' /\ Twice /\ ~job.list_a /\ ~world.ftp_pasv /\ job.op = "LIST"
  <2>1. Right'
    BY <1>2, <1>4, <1>5 DEF Right, SameJob
  <2>2. Pending' # <<>> => Dead' /\ Twice /\ ~job.list_a /\ ~world.ftp_pasv /\ job.op = "LIST"
    BY <1>4, <1>5 DEF First, Dead
  <2>3. Len(Pending') <= 1
    <3>1. CASE Pending' = <<>>
      BY <3>1
    <3>2. CASE Pending' # <<>>
      <4>1. Len(Pending') = 1
        BY <1>4, <1>5, <3>2
      <4> QED
        BY <4>1
    <3> QED
      BY <3>1, <3>2
  <2>4. Idle'
    BY <1>5, <2>2 DEF Idle
  <2>5. ~Odd'
    BY <2>2 DEF Odd, Dead, First
  <2> QED
    BY <2>1, <2>2, <2>3, <2>4, <2>5
<1>6. ASSUME NEW err \in {"FTPRETRINT", "RETRFINISHED"}, Ask(session), Return(err) PROVE Inv'
  <2>1. con' = con /\ SameJob /\ UNCHANGED world
    BY <1>0, <1>1, <1>6 DEF Return, SameJob, Jobs, Locals
  <2>2. Right' /\ Idle' /\ ~Odd' /\ Len(Pending') <= 1
    BY <1>5, <1>6, <2>1
  <2>3. err \in Errors
    BY DEF Errors
  <2>4. session' \in Sessions({session'.data})
    BY <1>4, <1>6
  <2> QED
    BY <1>0, <1>6, <2>2, <2>3, <2>4, Returning
\* The listing is complete.
<1>7. ASSUME Ask(session), NEW a \in BOOLEAN, NEW b \in BOOLEAN, NEW d \in BOOLEAN,
             con' = [con EXCEPT !.checked = a, !.avoid_a = b, !.avoid_list = d],
             job' = [job EXCEPT !.err = "RETRFINISHED"], stage' = "outcome", plan' = <<>>
      PROVE  Inv'
  <2>1. /\ con' \in Cons /\ con'.own = con.own /\ con'.alive = con.alive
        /\ job' \in Jobs /\ SameJob /\ job'.err = "RETRFINISHED"
    BY <1>1, <1>7 DEF Cons, Jobs, SameJob, Errors
  <2>2. UNCHANGED <<world, stack, disk, listing>>
    BY <1>0 DEF Locals
  <2>3. Right' /\ Idle' /\ ~Odd' /\ Len(Pending') <= 1
    BY <1>5, <1>7, <2>1, <2>2
  <2>4. session' \in Sessions({session'.data})
    BY <1>4, <1>7
  <2>5. TypeOK'
    BY <1>7, <2>1, <2>2, <2>4, EmptySeq DEF Inv, TypeOK, Stages
  <2>6. PlanOK' /\ DialogueOK'
    BY <1>7 DEF PlanOK, DialogueOK
  <2>7. BetweenOK'
    BY <1>7, <2>3 DEF BetweenOK
  <2>8. JobOK' /\ StackOK'
    BY <1>1, <1>7, <2>1, <2>2 DEF Inv, JobOK, StackOK, SameJob, AllGiven, Top
  <2> QED
    BY <2>5, <2>6, <2>7, <2>8 DEF Inv
\* The other command is tried.
<1>8. ASSUME Ask(session), job.op = "LIST", NEW c \in {"list", "list_a"}, plan' = <<Mode, c>>,
             NEW a \in BOOLEAN, NEW b \in BOOLEAN, NEW d \in BOOLEAN,
             con' = [con EXCEPT !.checked = a, !.avoid_a = b, !.avoid_list = d],
             c = "list" <=> b,
             job' = [job EXCEPT !.before = Len(listing)], UNCHANGED stage
      PROVE  Inv'
  <2>1. /\ con' \in Cons /\ con'.own = con.own /\ con'.alive = con.alive /\ con'.avoid_a = b
        /\ job' \in Jobs /\ SameJob
    <3>1. Len(listing) \in Nat
      BY LenProperties DEF Inv, TypeOK
    <3>2. job' \in Jobs /\ SameJob
      BY <1>1, <1>8, <3>1 DEF Jobs, SameJob
    <3>3. con' \in Cons /\ con'.own = con.own /\ con'.alive = con.alive /\ con'.avoid_a = b
      BY <1>1, <1>8 DEF Cons
    <3> QED
      BY <3>2, <3>3
  <2>2. UNCHANGED <<world, stack, disk, listing>>
    BY <1>0 DEF Locals
  <2>3. /\ Right' /\ Idle' /\ ~Odd' /\ Len(Pending') <= 1
        /\ Pending' # <<>> => ~world.ftp_pasv
    BY <1>5, <1>8, <2>1, <2>2
  <2>4. session' \in Sessions({session'.data})
    BY <1>4, <1>8
  <2>5. PlanOK' /\ plan' \in Seq(Known) /\ plan' # <<>> /\ Head(plan') = Mode
    <3>0. PICK m : m = Mode
      OBVIOUS
    <3>1. Fits(c)' /\ Fits(m)'
      BY <1>8, <2>1, <2>2, <3>0 DEF Fits, Mode, SameJob, Transferring, Ports
    <3>2. m \in Ports /\ m \in Known /\ c \in Known
      BY <3>0 DEF Mode, Ports, Known
    <3>3. con'.alive /\ stage' = "getftp" /\ (c = "list" => con'.avoid_a)
      BY <1>1, <1>8, <2>1
    <3>4. Two(m, c)
      BY <1>8, <3>0 DEF Two
    <3>5. c = "list" \/ c = "list_a"
      BY <1>8
    <3>6. PlanOK' /\ plan' \in Seq(Known) /\ plan' # <<>> /\ Head(plan') = m
      BY <3>1, <3>2, <3>3, <3>4, <3>5, TwoLeft
    <3> QED
      BY <3>0, <3>6
  <2>6. TypeOK'
    BY <1>1, <1>8, <2>1, <2>2, <2>4, <2>5 DEF Inv, TypeOK
  <2>7. DialogueOK'
    <3>1. PICK m : m = Mode
      OBVIOUS
    <3>2. m \in {"pasv", "port"} /\ (m = "port" => ~world.ftp_pasv)
      BY <3>1 DEF Mode
    <3>3. Left(m)'
      BY <2>2, <2>3, <3>2 DEF Left, Data
    <3>4. m \notin {"rest"} \cup Transferring \cup Data
      BY <3>2 DEF Transferring, Data
    <3> QED
      BY <2>3, <2>5, <3>1, <3>2, <3>3, <3>4 DEF DialogueOK
  <2>8. BetweenOK'
    BY <1>1, <1>8 DEF BetweenOK
  <2>9. JobOK' /\ StackOK'
    BY <1>1, <1>8, <2>1, <2>2 DEF Inv, JobOK, StackOK, SameJob, AllGiven, Top
  <2> QED
    BY <2>5, <2>6, <2>7, <2>8, <2>9 DEF Inv
<1>9. ASSUME Ask(session), Probing, Compare PROVE Inv'
  <2> DEFINE size == Len(listing)
             finish == job' = [job EXCEPT !.err = "RETRFINISHED"] /\ stage' = "outcome" /\ plan' = <<>>
             again == job' = [job EXCEPT !.before = size] /\ UNCHANGED stage
  <2>1. job.op = "LIST"
    BY <1>9 DEF Probing
  <2>2. \/ con' = [con EXCEPT !.avoid_a = TRUE] /\ again /\ plan' = <<Mode, "list">>
        \/ Settle(TRUE, con.avoid_list) /\ finish
        \/ Settle(FALSE, TRUE) /\ again /\ plan' = <<Mode, "list_a">>
        \/ con' = [con EXCEPT !.avoid_a = FALSE] /\ finish
        \/ Settle(FALSE, TRUE) /\ finish
    BY <1>9 DEF Compare
  <2>3. con.checked \in BOOLEAN /\ con.avoid_a \in BOOLEAN /\ con.avoid_list \in BOOLEAN
    BY <1>1 DEF Cons
  <2>4. \A b \in BOOLEAN : [con EXCEPT !.avoid_a = b]
           = [con EXCEPT !.checked = con.checked, !.avoid_a = b, !.avoid_list = con.avoid_list]
    BY <1>1 DEF Cons
  <2>5. CASE con' = [con EXCEPT !.avoid_a = TRUE] /\ again /\ plan' = <<Mode, "list">>
    <3>1. con' = [con EXCEPT !.checked = con.checked, !.avoid_a = TRUE, !.avoid_list = con.avoid_list]
      BY <2>4, <2>5
    <3> QED
      BY <1>8, <1>9, <2>1, <2>3, <2>5, <3>1
  <2>6. CASE Settle(TRUE, con.avoid_list) /\ finish
    BY <1>7, <1>9, <2>3, <2>6 DEF Settle
  <2>7. CASE Settle(FALSE, TRUE) /\ again /\ plan' = <<Mode, "list_a">>
    BY <1>8, <1>9, <2>1, <2>7 DEF Settle
  <2>8. CASE con' = [con EXCEPT !.avoid_a = FALSE] /\ finish
    <3>1. con' = [con EXCEPT !.checked = con.checked, !.avoid_a = FALSE, !.avoid_list = con.avoid_list]
      BY <2>4, <2>8
    <3> QED
      BY <1>7, <1>9, <2>3, <2>8, <3>1
  <2>9. CASE Settle(FALSE, TRUE) /\ finish
    BY <1>7, <1>9, <2>9 DEF Settle
  <2> QED
    BY <2>2, <2>5, <2>6, <2>7, <2>8, <2>9
<1> QED
  BY <1>3, <1>6, <1>9 DEF Response

\* A sequence with one element before it.
LEMMA Before ==
    ASSUME NEW S, NEW q \in Seq(S), q # <<>>, NEW c \in S, NEW p, p = <<c>> \o q
    PROVE  /\ p \in Seq(S) /\ p # <<>> /\ Len(p) = Len(q) + 1 /\ p[1] = c /\ Head(p) = c
           /\ \A i \in 1 .. Len(q) : p[i + 1] = q[i]
           /\ p[Len(p)] = q[Len(q)]
<1>1. PICK u : u = <<c>>
  OBVIOUS
<1>2. u \in Seq(S) /\ Len(u) = 1 /\ u[1] = c
  BY <1>1
<1>3. p = u \o q
  BY <1>1
<1>4. /\ p \in Seq(S) /\ Len(p) = 1 + Len(q)
      /\ \A i \in 1 .. 1 + Len(q) : p[i] = IF i <= 1 THEN u[i] ELSE q[i - 1]
  <2>1. /\ u \o q \in Seq(S) /\ Len(u \o q) = Len(u) + Len(q)
        /\ \A i \in 1 .. Len(u) + Len(q) : (u \o q)[i] = IF i <= Len(u) THEN u[i] ELSE q[i - Len(u)]
    BY <1>2, ConcatProperties
  <2> QED
    BY <1>2, <1>3, <2>1
<1>5. Len(q) \in Nat /\ Len(q) >= 1
  OBVIOUS
<1>6. p[1] = c
  <2>1. 1 \in 1 .. 1 + Len(q)
    BY <1>5
  <2> QED
    BY <1>2, <1>4, <2>1
<1>7. \A i \in 1 .. Len(q) : p[i + 1] = q[i]
  <2> TAKE i \in 1 .. Len(q)
  <2>1. i + 1 \in 1 .. 1 + Len(q) /\ ~ (i + 1 <= 1) /\ (i + 1) - 1 = i
    BY <1>5
  <2> QED
    BY <1>4, <2>1
<1>8. p # <<>> /\ Head(p) = p[1]
  <2>1. Len(p) > 0
    BY <1>4, <1>5
  <2>2. PICK r : r = p
    OBVIOUS
  <2>3. r \in Seq(S) /\ Len(r) > 0
    BY <1>4, <2>1, <2>2
  <2>4. r # <<>> /\ Head(r) = r[1]
    BY <2>3
  <2> QED
    BY <2>2, <2>4
<1>9. p[Len(p)] = q[Len(q)]
  <2>1. Len(q) \in 1 .. Len(q) /\ Len(p) = Len(q) + 1
    BY <1>4, <1>5
  <2> QED
    BY <1>7, <2>1
<1>10. Len(p) = Len(q) + 1
  BY <1>4, <1>5
<1> QED
  BY <1>4, <1>6, <1>7, <1>8, <1>9, <1>10

LEMMA Regrouped ==
    ASSUME NEW S, NEW a \in Seq(S), NEW b \in Seq(S), NEW c \in Seq(S),
           NEW ab, ab = a \o b, NEW bc, bc = b \o c
    PROVE  ab \o c = a \o bc
<1>1. (a \o b) \o c = a \o (b \o c)
  OBVIOUS
<1> QED
  BY <1>1

\* An equation, not to be rewritten.
Equal(l, r) == l = r

LEMMA FourParts ==
    ASSUME NEW S, NEW a \in Seq(S), NEW b \in Seq(S), NEW c \in Seq(S), NEW d \in Seq(S)
    PROVE  Equal(a \o b \o c \o d, a \o (b \o (c \o d))) /\ a \o b \o c \in Seq(S)
<1>1. \A s \in Seq(S), t \in Seq(S) : s \o t \in Seq(S)
  OBVIOUS
<1>2. PICK v : v = c \o d
  OBVIOUS
<1>3. PICK ab : ab = a \o b
  OBVIOUS
<1>4. PICK abc : abc = ab \o c
  OBVIOUS
<1>5. v \in Seq(S) /\ ab \in Seq(S)
  BY <1>1, <1>2, <1>3
<1>6. ab \o v = a \o (b \o v)
  BY <1>3, <1>5, Regrouped
<1>7. abc \o d = ab \o v
  BY <1>2, <1>4, <1>5, Regrouped
<1>8. abc \in Seq(S)
  BY <1>1, <1>4, <1>5
<1>9. a \o b \o c \o d = abc \o d /\ a \o b \o c = abc
  BY <1>3, <1>4, Zenon
<1>10. a \o (b \o (c \o d)) = a \o (b \o v)
  BY <1>2, Zenon
<1>11. a \o b \o c \o d = a \o (b \o (c \o d))
  BY <1>6, <1>7, <1>9, <1>10, Zenon
<1>12. a \o b \o c \in Seq(S)
  BY <1>8, <1>9, Zenon
<1>13. Equal(a \o b \o c \o d, a \o (b \o (c \o d)))
  BY <1>11 DEF Equal
<1> QED
  BY <1>12, <1>13

AllSeqs(S, all) == all \subseteq Seq(S)
LEMMA SixParts ==
    ASSUME NEW S, NEW a, NEW b, NEW c, NEW d, NEW e, NEW f, AllSeqs(S, {a, b, c, d, e, f})
    PROVE  Equal(a \o b \o c \o d \o e \o f, a \o (b \o (c \o (d \o (e \o f)))))
<1>1. PICK abc : abc = a \o b \o c
  OBVIOUS
<1>2. PICK v : v = d \o (e \o f)
  OBVIOUS
<1>a. a \in Seq(S) /\ b \in Seq(S) /\ c \in Seq(S)
  BY DEF AllSeqs
<1>b. d \in Seq(S) /\ e \in Seq(S) /\ f \in Seq(S)
  BY DEF AllSeqs
<1>3. abc \in Seq(S)
  BY <1>1, <1>a, FourParts
<1>4. v \in Seq(S)
  BY <1>2, <1>b
<1>5. Equal(abc \o d \o e \o f, abc \o (d \o (e \o f)))
  BY <1>3, <1>b, FourParts
<1>6. Equal(a \o b \o c \o v, a \o (b \o (c \o v)))
  BY <1>4, <1>a, FourParts
<1>7. a \o b \o c \o d \o e \o f = abc \o d \o e \o f
  BY <1>1, Zenon
<1>8. abc \o (d \o (e \o f)) = a \o b \o c \o v
  BY <1>1, <1>2, Zenon
<1>9. a \o (b \o (c \o v)) = a \o (b \o (c \o (d \o (e \o f))))
  BY <1>2, Zenon
<1> QED
  BY <1>5, <1>6, <1>7, <1>8, <1>9, Zenon DEF Equal

LEMMA GivenBefore ==
    ASSUME NEW S, NEW q \in Seq(S), NEW x, NEW g \in BOOLEAN
    PROVE  (g => Given(g, x) \o q = <<x>> \o q) /\ (~g => Given(g, x) \o q = q)
<1>1. g => Given(g, x) \o q = <<x>> \o q
  BY DEF Given
<1>2. ~g => Given(g, x) \o q = q
  BY ConcatEmptySeq DEF Given
<1> QED
  BY <1>1, <1>2

\* A plan on a connection that is open.
Runs(restval, p) ==
    /\ p \in Seq(Known) /\ p # <<>>
    /\ \A i \in 1 .. Len(p) : Fits(p[i]) /\ p[i] # "login" /\ (p[i] = "list" => con.avoid_a)
    /\ \A i \in 1 .. Len(p) - 1 : p[i + 1] \in Follows(restval, p[i])
    /\ p[Len(p)] \in Transferring \cup Data

LEMMA RunsOne ==
    ASSUME NEW restval, NEW c \in Known, Fits(c), c # "login", c = "list" => con.avoid_a, c \in Transferring \cup Data,
           NEW p, p = <<c>>
    PROVE  Runs(restval, p) /\ p[1] = c
<1>1. p \in Seq(Known) /\ Len(p) = 1 /\ p[1] = c
  OBVIOUS
<1>2. p # <<>>
  BY <1>1
<1> QED
  BY <1>1, <1>2 DEF Runs

Joined(p, c, q) == p = <<c>> \o q
LEMMA RunsMore ==
    ASSUME NEW restval, NEW q, Runs(restval, q), NEW c \in Known, Fits(c), c # "login", c # "list",
           q[1] \in Follows(restval, c), NEW p, Joined(p, c, q)
    PROVE  Runs(restval, p) /\ p[1] = c
<1>1. q \in Seq(Known) /\ q # <<>>
  BY DEF Runs
<1>2. /\ p \in Seq(Known) /\ p # <<>> /\ Len(p) = Len(q) + 1 /\ p[1] = c
      /\ \A i \in 1 .. Len(q) : p[i + 1] = q[i]
      /\ p[Len(p)] = q[Len(q)]
  BY <1>1, Before DEF Joined
<1>3. Len(q) \in Nat
  BY <1>1
<1>4. ASSUME NEW i \in 1 .. Len(p), i # 1 PROVE i - 1 \in 1 .. Len(q) /\ p[i] = q[i - 1]
  <2>1. i - 1 \in 1 .. Len(q) /\ (i - 1) + 1 = i
    BY <1>2, <1>3, <1>4
  <2> QED
    BY <1>2, <2>1
<1>5. \A i \in 1 .. Len(p) : Fits(p[i]) /\ p[i] # "login" /\ (p[i] = "list" => con.avoid_a)
  <2> TAKE i \in 1 .. Len(p)
  <2>1. CASE i = 1
    BY <1>2, <2>1
  <2>2. CASE i # 1
    <3>1. i - 1 \in 1 .. Len(q) /\ p[i] = q[i - 1]
      BY <1>4, <2>2
    <3> QED
      BY <3>1 DEF Runs
  <2> QED
    BY <2>1, <2>2
<1>6. \A i \in 1 .. Len(p) - 1 : p[i + 1] \in Follows(restval, p[i])
  <2> SUFFICES ASSUME NEW i \in 1 .. Len(q) PROVE p[i + 1] \in Follows(restval, p[i])
    BY <1>2, <1>3
  <2>1. p[i + 1] = q[i]
    BY <1>2
  <2>2. CASE i = 1
    BY <1>2, <2>1, <2>2
  <2>3. CASE i # 1
    <3>1. i \in 1 .. Len(p)
      BY <1>2, <1>3
    <3>2. i - 1 \in 1 .. Len(q) /\ p[i] = q[i - 1]
      BY <1>4, <2>3, <3>1
    <3>3. i - 1 \in 1 .. Len(q) - 1 /\ (i - 1) + 1 = i
      BY <1>3, <3>2
    <3>4. q[i] \in Follows(restval, q[i - 1])
      BY <3>3 DEF Runs
    <3> QED
      BY <2>1, <3>2, <3>4
  <2> QED
    BY <2>2, <2>3
<1>7. p[Len(p)] \in Transferring \cup Data
  BY <1>2 DEF Runs
<1> QED
  BY <1>2, <1>5, <1>6, <1>7 DEF Runs

\* The commands from the one that opens the port on, in the order of the plan.
Opens == job.op = "RETR" /\ ~job.sized
Enters == job.dir # "" /\ ~ (IF con.own THEN con.alive ELSE con.done_cwd)
LEMMA CommandsOf ==
    ASSUME NEW restval, restval \in Nat, job.op \in {"LIST", "RETR"}, restval > 0 => job.op = "RETR",
           Opens => con.own
    PROVE  \E q : /\ Runs(restval, q)
                  /\ q[1] = IF Enters THEN "cwd" ELSE IF Opens THEN "size" ELSE Mode
                  /\ Commands(restval) = Given(~con.alive, "login") \o q
<1> DEFINE last == IF job.op = "RETR" THEN "retr" ELSE ListCommand
           a == Given(~con.alive, "login")
           b == Given(Enters, "cwd")
           c == Given(Opens, "size")
           d == <<Mode>>
           e == Given(restval > 0, "rest")
           f == <<last>>
<1>1. Commands(restval) = a \o b \o c \o d \o e \o f
  BY DEF Commands, Opens, Enters
<1>2. \A g : "login" \in Known /\ "cwd" \in Known /\ "size" \in Known /\ "rest" \in Known
  BY DEF Known
<1>3. last \in Known /\ Mode \in Known
  BY DEF ListCommand, Mode, Known
<1>4. \A g, x : x \in Known => Given(g, x) \in Seq(Known)
  <2> SUFFICES ASSUME NEW g, NEW x \in Known PROVE Given(g, x) \in Seq(Known)
    OBVIOUS
  <2>1. <<x>> \in Seq(Known) /\ <<>> \in Seq(Known)
    BY EmptySeq
  <2> QED
    BY <2>1 DEF Given
<1>5. /\ a \in Seq(Known) /\ b \in Seq(Known) /\ c \in Seq(Known) /\ d \in Seq(Known)
      /\ e \in Seq(Known) /\ f \in Seq(Known)
  BY <1>2, <1>3, <1>4
<1> HIDE DEF a, b, c, d, e, f
<1>6. Commands(restval) = a \o (b \o (c \o (d \o (e \o f))))
  <2>1. Equal(a \o b \o c \o d \o e \o f, a \o (b \o (c \o (d \o (e \o f)))))
    <3>1. AllSeqs(Known, {a, b, c, d, e, f})
      BY <1>5 DEF AllSeqs
    <3> QED
      BY <3>1, SixParts
  <2> QED
    BY <1>1, <2>1, Zenon DEF Equal
<1>7. ASSUME NEW q \in Seq(Known), NEW x, NEW g \in BOOLEAN
      PROVE  (g => Given(g, x) \o q = <<x>> \o q) /\ (~g => Given(g, x) \o q = q)
  BY GivenBefore, Zenon
<1>a. (restval > 0) \in BOOLEAN /\ Opens \in BOOLEAN /\ Enters \in BOOLEAN
  BY DEF Opens, Enters
<1>8. Runs(restval, f) /\ f[1] = last
  <2>1. Fits(last) /\ last # "login" /\ (last = "list" => con.avoid_a) /\ last \in Transferring \cup Data
    BY DEF Fits, ListCommand, Transferring
  <2>2. PICK x : x = last
    OBVIOUS
  <2>3. f = <<x>>
    BY <2>2 DEF f
  <2>4. Runs(restval, f) /\ f[1] = x
    BY <1>3, <2>1, <2>2, <2>3, RunsOne
  <2> QED
    BY <2>2, <2>4
<1>9. Runs(restval, e \o f) /\ (e \o f)[1] = IF restval > 0 THEN "rest" ELSE last
  <2>1. CASE restval > 0
    <3>1. e \o f = <<"rest">> \o f
      BY <1>5, <1>7, <1>a, <2>1 DEF e
    <3>2. last = "retr" /\ Fits("rest") /\ "retr" \in Follows(restval, "rest")
      BY <2>1 DEF Fits, Follows, Ports
    <3>3. f[1] \in Follows(restval, "rest")
      BY <1>8, <3>2
    <3>4. PICK p : p = e \o f
      OBVIOUS
    <3>5. "rest" \in Known /\ Runs(restval, f) /\ Joined(p, "rest", f)
      BY <1>2, <1>8, <3>1, <3>4 DEF Joined
    <3>a. Fits("rest") /\ "rest" # "login" /\ "rest" # "list"
      BY <3>2
    <3>b. f[1] \in Follows(restval, "rest")
      BY <3>3
    <3> HIDE DEF last
    <3>6. Runs(restval, p) /\ p[1] = "rest"
      BY <3>a, <3>b, <3>5, RunsMore
    <3> QED
      BY <2>1, <3>4, <3>6
  <2>2. CASE ~ (restval > 0)
    <3>1. e \o f = f
      BY <1>5, <1>7, <1>a, <2>2 DEF e
    <3> QED
      BY <1>8, <2>2, <3>1
  <2> QED
    BY <2>1, <2>2
<1>10. Runs(restval, d \o (e \o f)) /\ (d \o (e \o f))[1] = Mode
  <2>1. PICK m : m = Mode
    OBVIOUS
  <2>2. Fits(m) /\ m # "login" /\ m # "list" /\ m \in Ports
    BY <2>1 DEF Mode, Fits, Ports
  <2>3. (e \o f)[1] \in Follows(restval, m)
    <3>1. job.op = "LIST" => ~ (restval > 0) /\ last \in Transferring
      BY DEF Transferring, ListCommand
    <3>2. job.op = "RETR" => last = "retr"
      OBVIOUS
    <3>3. Follows(restval, m) = IF job.op = "LIST" THEN Transferring
                                ELSE IF restval > 0 THEN {"rest"} ELSE {"retr"}
      BY <2>2 DEF Follows, Ports
    <3> HIDE DEF last
    <3> QED
      BY <1>9, <3>1, <3>2, <3>3
  <2>4. PICK q : q = e \o f
    OBVIOUS
  <2>5. PICK p : p = d \o (e \o f)
    OBVIOUS
  <2>6. Joined(p, m, q) /\ m \in Known /\ Runs(restval, q) /\ q[1] \in Follows(restval, m)
    BY <1>3, <1>9, <2>1, <2>3, <2>4, <2>5 DEF d, Joined
  <2>a. Fits(m) /\ m # "login" /\ m # "list"
    BY <2>2
  <2> HIDE DEF last
  <2>7. Runs(restval, p) /\ p[1] = m
    BY <2>6, <2>a, RunsMore
  <2> QED
    BY <2>1, <2>5, <2>7
<1>11. /\ Runs(restval, c \o (d \o (e \o f)))
       /\ (c \o (d \o (e \o f)))[1] = IF Opens THEN "size" ELSE Mode
  <2>0. PICK q : q = d \o (e \o f)
    OBVIOUS
  <2>a. Runs(restval, q) /\ q[1] = Mode /\ q \in Seq(Known)
    BY <1>10, <2>0 DEF Runs
  <2>1. CASE Opens
    <3>1. c \o q = <<"size">> \o q
      BY <1>7, <1>a, <2>a, <2>1 DEF c
    <3>2. Fits("size") /\ Mode \in Follows(restval, "size")
      BY <2>1 DEF Fits, Follows, Ports, Opens, Preamble
    <3>3. PICK p : p = c \o q
      OBVIOUS
    <3>a. "size" \in Known /\ Joined(p, "size", q) /\ Runs(restval, q) /\ q[1] \in Follows(restval, "size")
      BY <1>2, <2>a, <3>1, <3>2, <3>3 DEF Joined
    <3>4. Runs(restval, p) /\ p[1] = "size"
      BY <3>2, <3>a, RunsMore
    <3> QED
      BY <2>0, <2>1, <3>3, <3>4
  <2>2. CASE ~Opens
    <3>1. c \o q = q
      BY <1>7, <1>a, <2>a, <2>2 DEF c
    <3> QED
      BY <2>0, <2>a, <2>2, <3>1
  <2> QED
    BY <2>1, <2>2
<1>12. /\ Runs(restval, b \o (c \o (d \o (e \o f))))
       /\ (b \o (c \o (d \o (e \o f))))[1] = IF Enters THEN "cwd" ELSE IF Opens THEN "size" ELSE Mode
  <2>0. PICK q : q = c \o (d \o (e \o f))
    OBVIOUS
  <2>a. Runs(restval, q) /\ q[1] = (IF Opens THEN "size" ELSE Mode) /\ q \in Seq(Known)
    BY <1>11, <2>0 DEF Runs
  <2>1. CASE Enters
    <3>1. b \o q = <<"cwd">> \o q
      BY <1>7, <1>a, <2>a, <2>1 DEF b
    <3>2. Fits("cwd") /\ q[1] \in Follows(restval, "cwd")
      BY <2>a DEF Fits, Follows, Ports, Preamble
    <3>3. PICK p : p = b \o q
      OBVIOUS
    <3>a. "cwd" \in Known /\ Joined(p, "cwd", q) /\ Runs(restval, q) /\ q[1] \in Follows(restval, "cwd")
      BY <1>2, <2>a, <3>1, <3>2, <3>3 DEF Joined
    <3>4. Runs(restval, p) /\ p[1] = "cwd"
      BY <3>2, <3>a, RunsMore
    <3> QED
      BY <2>0, <2>1, <3>3, <3>4
  <2>2. CASE ~Enters
    <3>1. b \o q = q
      BY <1>7, <1>a, <2>a, <2>2 DEF b
    <3> QED
      BY <2>0, <2>a, <2>2, <3>1
  <2> QED
    BY <2>1, <2>2
<1>13. Commands(restval) = Given(~con.alive, "login") \o (b \o (c \o (d \o (e \o f))))
  BY <1>6 DEF a
<1> QED
  BY <1>12, <1>13

LEMMA RestvalType ==
    ASSUME TypeOK
    PROVE  Restval \in Nat /\ (Restval > 0 => job.op # "LIST")
<1>1. job.of \in DOMAIN disk => Len(disk[job.of]) \in Nat
  BY LenProperties DEF TypeOK
<1>2. job.qtyread \in Nat
  BY DEF TypeOK, Jobs
<1>3. Restval \in Nat
  BY <1>1, <1>2 DEF Restval
<1>4. job.op = "LIST" => Restval = 0
  BY DEF Restval
<1> QED
  BY <1>3, <1>4

\* The commands of a try are a plan.
LEMMA Planned ==
    ASSUME Inv, Try
    PROVE  /\ plan' \in Seq(Known) /\ PlanOK'
           /\ con.alive => Head(plan') = IF Enters THEN "cwd" ELSE IF Opens THEN "size" ELSE Mode
<1>1. /\ stage = "try" /\ stage' = "getftp" /\ plan' = Commands(Restval)
      /\ UNCHANGED <<world, con, session, stack, disk, listing>>
      /\ SameJob /\ job'.restval = Restval
  BY DEF Try, SameJob, Job
<1>2. Restval \in Nat /\ (Restval > 0 => job.op # "LIST")
  BY RestvalType DEF Inv
<1>3. job.op \in {"LIST", "RETR"}
  BY <1>1 DEF Inv, JobOK
<1>4. Opens => con.own
  BY DEF Inv, JobOK, Opens
<1>5. PICK q : /\ Runs(Restval, q)
               /\ q[1] = IF Enters THEN "cwd" ELSE IF Opens THEN "size" ELSE Mode
               /\ plan' = Given(~con.alive, "login") \o q
  BY <1>1, <1>2, <1>3, <1>4, CommandsOf
<1>6. q \in Seq(Known) /\ q # <<>> /\ Len(q) \in Nat /\ Len(q) >= 1
  BY <1>5 DEF Runs
<1>7. con.alive \in BOOLEAN
  BY DEF Inv, TypeOK, Cons
<1>8. PICK p : p = plan'
  OBVIOUS
<1>9. \A c : (Fits(c) => Fits(c)') /\ After(c)' = Follows(Restval, c)
  BY <1>1 DEF Fits, After, Follows, Mode, SameJob
<1>10. CASE con.alive
  <2>1. p = q
    <3>1. Given(~con.alive, "login") \o q = q
      BY <1>6, <1>10, GivenBefore
    <3> QED
      BY <1>5, <1>8, <3>1
  <2>2. /\ p \in Seq(Known) /\ p # <<>>
        /\ \A i \in 1 .. Len(p) : Fits(p[i]) /\ p[i] # "login" /\ (p[i] = "list" => con.avoid_a)
        /\ \A i \in 1 .. Len(p) - 1 : p[i + 1] \in Follows(Restval, p[i])
        /\ p[Len(p)] \in Transferring \cup Data
    BY <1>5, <2>1 DEF Runs
  <2>3. 1 \in 1 .. Len(p) /\ Head(p) = p[1] /\ Head(p) = q[1]
    BY <1>6, <2>1, <2>2
  <2>4. Head(p) # "login"
    BY <2>2, <2>3
  <2>5. \A i \in 2 .. Len(p) : p[i] # "login" /\ (p[i] = "list" => con.avoid_a)
    <3> SUFFICES ASSUME NEW i \in 2 .. Len(p) PROVE p[i] # "login" /\ (p[i] = "list" => con.avoid_a)
      OBVIOUS
    <3>1. i \in 1 .. Len(p)
      OBVIOUS
    <3> QED
      BY <2>2, <3>1
  <2>6. \A i \in 1 .. Len(plan') : Fits(plan[i])'
    BY <1>8, <1>9, <2>2
  <2>7. \A i \in 1 .. Len(plan') - 1 : plan'[i + 1] \in After(plan[i])'
    BY <1>8, <1>9, <2>2
  <2>8. con'.alive /\ con'.avoid_a = con.avoid_a
    BY <1>1, <1>10
  <2>9. PlanOK'
    BY <1>1, <1>8, <2>2, <2>4, <2>5, <2>6, <2>7, <2>8 DEF PlanOK
  <2> QED
    BY <1>5, <1>8, <2>2, <2>3, <2>9
<1>11. CASE ~con.alive
  <2>1. p = <<"login">> \o q
    <3>1. Given(~con.alive, "login") \o q = <<"login">> \o q
      BY <1>6, <1>11, GivenBefore
    <3> QED
      BY <1>5, <1>8, <3>1
  <2>2. "login" \in Known
    BY DEF Known
  <2>3. /\ p \in Seq(Known) /\ p # <<>> /\ Len(p) = Len(q) + 1 /\ p[1] = "login" /\ Head(p) = "login"
        /\ \A i \in 1 .. Len(q) : p[i + 1] = q[i]
        /\ p[Len(p)] = q[Len(q)]
    BY <1>6, <2>1, <2>2, Before
  <2>4. ASSUME NEW i \in 1 .. Len(p), i # 1 PROVE i - 1 \in 1 .. Len(q) /\ p[i] = q[i - 1]
    <3>1. i - 1 \in 1 .. Len(q) /\ (i - 1) + 1 = i
      BY <1>6, <2>3, <2>4
    <3> QED
      BY <2>3, <3>1
  <2>5. \A i \in 1 .. Len(p) : Fits(p[i])
    <3> TAKE i \in 1 .. Len(p)
    <3>1. CASE i = 1
      <4>1. Fits("login")
        BY DEF Fits, Preamble
      <4> QED
        BY <2>3, <3>1, <4>1
    <3>2. CASE i # 1
      <4>1. i - 1 \in 1 .. Len(q) /\ p[i] = q[i - 1]
        BY <2>4, <3>2
      <4> QED
        BY <1>5, <4>1 DEF Runs
    <3> QED
      BY <3>1, <3>2
  <2>6. \A i \in 2 .. Len(p) : p[i] # "login" /\ (p[i] = "list" => con.avoid_a)
    <3> TAKE i \in 2 .. Len(p)
    <3>0. i \in 1 .. Len(p) /\ i # 1
      OBVIOUS
    <3>1. i - 1 \in 1 .. Len(q) /\ p[i] = q[i - 1]
      BY <2>4, <3>0
    <3> QED
      BY <1>5, <3>1 DEF Runs
  <2>7. q[1] \in Follows(Restval, "login")
    <3>1. Follows(Restval, "login") = {"cwd", "size", Mode}
      BY DEF Follows, Ports
    <3> QED
      BY <1>5, <3>1
  <2>8. \A i \in 1 .. Len(p) - 1 : p[i + 1] \in Follows(Restval, p[i])
    <3> SUFFICES ASSUME NEW i \in 1 .. Len(q) PROVE p[i + 1] \in Follows(Restval, p[i])
      BY <1>6, <2>3
    <3>1. p[i + 1] = q[i]
      BY <2>3
    <3>2. CASE i = 1
      BY <2>3, <2>7, <3>1, <3>2
    <3>3. CASE i # 1
      <4>1. i \in 1 .. Len(p)
        BY <1>6, <2>3
      <4>2. i - 1 \in 1 .. Len(q) /\ p[i] = q[i - 1]
        BY <2>4, <3>3, <4>1
      <4>3. i - 1 \in 1 .. Len(q) - 1 /\ (i - 1) + 1 = i
        BY <1>6, <4>2
      <4>4. q[i] \in Follows(Restval, q[i - 1])
        BY <1>5, <4>3 DEF Runs
      <4> QED
        BY <3>1, <4>2, <4>4
    <3> QED
      BY <3>2, <3>3
  <2>9. p[Len(p)] \in Transferring \cup Data
    BY <1>5, <2>3 DEF Runs
  <2>10. job.dir # "" => p[2] = "cwd"
    <3>1. 1 \in 1 .. Len(q) /\ 1 + 1 = 2
      BY <1>6
    <3>2. p[2] = q[1]
      BY <2>3, <3>1
    <3>3. ~con.own => ~con.done_cwd
      BY <1>1, <1>11 DEF Inv, StackOK
    <3>4. job.dir # "" => Enters
      BY <1>11, <3>3 DEF Enters
    <3> QED
      BY <1>5, <3>2, <3>4
  <2>11. \A i \in 1 .. Len(plan') : Fits(plan[i])'
    BY <1>8, <1>9, <2>5
  <2>12. \A i \in 1 .. Len(plan') - 1 : plan'[i + 1] \in After(plan[i])'
    BY <1>8, <1>9, <2>8
  <2>13. ~con'.alive /\ con'.avoid_a = con.avoid_a /\ job'.dir = job.dir
    BY <1>1, <1>11 DEF SameJob
  <2>14. PlanOK'
    BY <1>1, <1>8, <2>3, <2>6, <2>9, <2>10, <2>11, <2>12, <2>13 DEF PlanOK
  <2> QED
    BY <1>8, <1>11, <2>3, <2>14
<1> QED
  BY <1>7, <1>10, <1>11

LEMMA TryStep == Inv /\ Try => Inv'
<1> SUFFICES ASSUME Inv, Try PROVE Inv'
  OBVIOUS
<1>1. /\ stage = "try" /\ stage' = "getftp"
      /\ UNCHANGED <<world, con, session, stack, disk, listing>>
      /\ job' = [Job(job.op, job.of, job.dir, job.sized) EXCEPT
                    !.count = job.count + 1, !.restval = Restval, !.qtyread = Restval]
  BY DEF Try, Counted
<1>2. SameJob
  BY <1>1 DEF SameJob, Job
<1>3. Restval \in Nat
  BY RestvalType DEF Inv
<1>4. job \in Jobs
  BY DEF Inv, TypeOK
<1>5. job' \in Jobs
  <2>1. job' = [op |-> job.op, of |-> job.of, dir |-> job.dir, sized |-> job.sized,
                count |-> job.count + 1, restval |-> Restval, qtyread |-> Restval, pasv |-> FALSE,
                rest_failed |-> FALSE, list_a |-> FALSE, before |-> 0, res |-> 0, err |-> "none"]
    BY <1>1 DEF Job
  <2>2. /\ job.op \in {"none", "LIST", "RETR"} /\ job.of \in Names /\ job.dir \in DOMAIN Tree
        /\ job.sized \in BOOLEAN /\ job.count + 1 \in Nat /\ "none" \in Errors
    BY <1>4 DEF Jobs, Errors
  <2> QED
    BY <1>3, <2>1, <2>2 DEF Jobs
<1>6. /\ plan' \in Seq(Known) /\ PlanOK'
      /\ con.alive => Head(plan') = IF Enters THEN "cwd" ELSE IF Opens THEN "size" ELSE Mode
  BY Planned
<1>7. TypeOK'
  BY <1>1, <1>5, <1>6 DEF Inv, TypeOK, Stages
<1>8. BetweenOK'
  BY <1>1 DEF BetweenOK
<1>9. JobOK'
  BY <1>1, <1>2 DEF Inv, JobOK, SameJob, AllGiven, Top
<1>10. StackOK'
  BY <1>1 DEF Inv, StackOK
<1>11. DialogueOK'
  <2> SUFFICES ASSUME con.alive PROVE DialogueOK'
    BY <1>1 DEF DialogueOK
  <2>1. PICK c : c = Head(plan')
    OBVIOUS
  <2>2. c = IF Enters THEN "cwd" ELSE IF Opens THEN "size" ELSE Mode
    BY <1>6, <2>1
  <2>3. /\ Idle
        /\ Odd => job.op = "LIST"
        /\ con.own \/ con.done_cwd \/ job.dir = "" => Right \/ Lost
        /\ con.own => Right /\ Len(Pending) <= 1
        /\ job.op = "RETR" => con.own \/ con.done_cwd
    BY <1>1 DEF Inv, BetweenOK
  <2>a. Pending' = Pending /\ UNCHANGED <<world, con, session>> /\ job'.dir = job.dir
    BY <1>1, <1>2 DEF Pending, SameJob
  <2>b. Idle'
    BY <2>3, <2>a DEF Idle, Odd, Dead, First, Twice
  <2>c. Odd' => Odd
    BY <2>a DEF Odd, First
  <2>d. (Right => Right') /\ (Lost => Lost')
    BY <2>a DEF Right, Lost, Dead, First
  <2>4. /\ Idle' /\ (Right => Right') /\ (Lost => Lost') /\ (Odd' => Odd) /\ Pending' = Pending
    BY <2>a, <2>b, <2>c, <2>d
  <2>5. c \in {"cwd", "size", "pasv", "port"} /\ (c = "port" => ~world.ftp_pasv)
    BY <2>2 DEF Mode
  <2>6. Left(c)'
    BY <1>1, <2>4, <2>5 DEF Left, Ports, Data, Transferring
  <2>7. c \notin {"rest"} \cup Transferring \cup Data /\ c \notin {"open", "read"}
    BY <2>5 DEF Transferring, Data
  <2>8. c = "cwd" => Enters
    BY <2>2 DEF Mode
  <2>9. c # "cwd" => ~Enters
    BY <2>2
  <2>10. ~ (c = "cwd" /\ job.op = "RETR")
    BY <2>3, <2>8 DEF Enters
  <2>11. c # "cwd" => Right \/ Lost
    BY <2>3, <2>9 DEF Enters
  <2>12. c \in {"size", "pasv", "port"} => (Right \/ Lost)' /\ (con'.own => Right' /\ Len(Pending') <= 1)
    <3>1. c \in {"size", "pasv", "port"} => (Right' \/ Lost')
      BY <2>4, <2>11
    <3>2. con'.own => Right' /\ Len(Pending') <= 1
      BY <1>1, <2>3, <2>4
    <3> QED
      BY <3>1, <3>2
  <2>13. Odd' => job'.op = "LIST"
    BY <1>2, <2>3, <2>4 DEF SameJob
  <2> QED
    BY <1>2, <2>1, <2>6, <2>7, <2>10, <2>12, <2>13 DEF DialogueOK, SameJob
<1> QED
  BY <1>6, <1>7, <1>8, <1>9, <1>10, <1>11 DEF Inv

\* The directories that ftp_retrieve_list is in.
Frames == [dir : DOMAIN Tree, files : Seq(ListEntries), dirs : Seq(ListEntries)]

\* Between two calls of getftp: the connection is kept, or closed with its session.
LEMMA KeptOrClosed ==
    ASSUME Inv, stage # "getftp", stage' \in Stages \ {"getftp"},
           con' \in Cons, session' = session \/ session' = Session,
           job' \in Jobs, UNCHANGED <<world, plan, disk>>,
           listing' \in Seq(ListEntries),
           stack' \in Seq(Frames),
           BetweenOK', JobOK', StackOK'
    PROVE  Inv'
<1>1. plan = <<>>
  BY DEF Inv, PlanOK
<1>2. plan' = <<>> /\ stage' # "getftp"
  BY <1>1
<1>3. PlanOK'
  BY <1>2 DEF PlanOK
<1>4. DialogueOK'
  BY <1>2 DEF DialogueOK
<1>5. session' \in Sessions({session'.data})
  <2>0. "" \in DOMAIN Tree
    BY TreeAssumption
  <2>1. Session \in Sessions({Session.data})
    BY <2>0, EmptySeq DEF Session, Sessions
  <2>2. session \in Sessions({session.data})
    BY DEF Inv, TypeOK
  <2>3. CASE session' = session
    BY <2>2, <2>3
  <2>4. CASE session' = Session
    BY <2>1, <2>4
  <2> QED
    BY <2>3, <2>4
<1>6. TypeOK'
  BY <1>5 DEF Inv, TypeOK, Frames
<1> QED
  BY <1>3, <1>4, <1>6 DEF Inv

\* The locals of ftp_loop_internal for the same thing again.
Fresh(count, qtyread, err) ==
    [op |-> job.op, of |-> job.of, dir |-> job.dir, sized |-> job.sized, count |-> count,
     restval |-> 0, qtyread |-> qtyread, pasv |-> FALSE, rest_failed |-> FALSE,
     list_a |-> FALSE, before |-> 0, res |-> 0, err |-> err]
LEMMA Renewed ==
    ASSUME TypeOK, NEW count \in Nat, NEW qtyread \in Nat, NEW err \in Errors,
           job' = Fresh(count, qtyread, err)
    PROVE  job' \in Jobs /\ SameJob /\ job'.err = err
<1>1. /\ job.op \in {"none", "LIST", "RETR"} /\ job.of \in Names /\ job.dir \in DOMAIN Tree
      /\ job.sized \in BOOLEAN
  BY DEF TypeOK, Jobs
<1>2. Fresh(count, qtyread, err) \in Jobs
  BY <1>1 DEF Jobs, Fresh
<1>3. SameJob /\ job'.err = err
  BY DEF SameJob, Fresh
<1> QED
  BY <1>2, <1>3

\* The answers that were left are left.
LEMMA StillLeft ==
    ASSUME session' = session, world' = world, con'.avoid_a = con.avoid_a, con'.avoid_list = con.avoid_list
    PROVE  Pending' = Pending /\ (Idle => Idle') /\ (Odd' => Odd) /\ (Lost => Lost')
<1>1. Pending' = Pending
  BY DEF Pending
<1>2. /\ \A classes : First(classes)' <=> First(classes)
      /\ Twice' <=> Twice
  BY <1>1 DEF First, Twice
<1>3. (Odd' <=> Odd) /\ (Dead' <=> Dead)
  BY <1>1, <1>2 DEF Odd, Dead
<1>4. Idle => Idle'
  BY <1>1, <1>2, <1>3 DEF Idle
<1>5. Lost => Lost'
  BY <1>1, <1>3 DEF Lost
<1> QED
  BY <1>1, <1>3, <1>4, <1>5

\* ftp_loop_internal returns, and an "own" connection is closed.
LEMMA Leaving ==
    ASSUME Inv, stage = "outcome", NEW c \in Cons, NEW err \in Errors, Returned(c, err),
           session' = (IF con'.alive THEN session ELSE Session),
           UNCHANGED <<world, plan, stack, disk, listing>>,
           c.own = con.own, c.avoid_a = con.avoid_a, c.avoid_list = con.avoid_list,
           c.done_cwd = con.alive, c.alive => con.alive, con.alive => con.own \/ c.alive,
           job.op = "LIST" /\ err = "RETROK" => job.err = "RETRFINISHED"
    PROVE  Inv'
<1>1. /\ job' = [Job(job.op, job.of, job.dir, job.sized) EXCEPT !.err = err]
      /\ stage' = "returned" /\ con' = c
  BY DEF Returned
<1>2. job' \in Jobs /\ SameJob /\ job'.err = err
  <2>1. job' = Fresh(0, 0, err)
    BY <1>1 DEF Job, Fresh
  <2> QED
    BY <2>1, Renewed DEF Inv
<1>3. BetweenOK'
  <2> SUFFICES ASSUME con'.alive PROVE BetweenOK'
    BY DEF BetweenOK
  <2>0. con.alive /\ con'.done_cwd /\ con'.own = con.own
    BY <1>1
  <2>1. session' = session /\ Pending' = Pending
    BY DEF Pending
  <2>2. /\ Idle
        /\ Right \/ Lost
        /\ Odd => job.op = "LIST"
        /\ con.own => Right
        /\ job.op = "LIST" /\ job.err = "RETRFINISHED" => Right /\ Len(Pending) <= 1
    BY <2>0 DEF Inv, BetweenOK
  <2>b. (Idle => Idle') /\ (Odd' => Odd) /\ (Lost => Lost')
    BY <1>1, <2>1, StillLeft
  <2>a. (Right => Right') /\ (Lost => Lost')
    BY <2>1, <1>2, <2>b DEF Right, SameJob
  <2>c. Idle'
    BY <2>2, <2>b
  <2>3. (Right \/ Lost)'
    BY <2>2, <2>a
  <2>4. Odd' => job'.op = "LIST"
    BY <1>2, <2>2, <2>b DEF SameJob
  <2>5. con'.own => Right'
    BY <2>0, <2>2, <2>a
  <2>6. job'.op = "LIST" /\ job'.err = "RETROK" => Right' /\ Len(Pending') <= 1
    BY <1>2, <2>1, <2>2, <2>a DEF SameJob
  <2> QED
    BY <1>1, <2>0, <2>c, <2>3, <2>4, <2>5, <2>6 DEF BetweenOK
<1>4. JobOK'
  BY <1>1, <1>2 DEF Inv, JobOK, SameJob, AllGiven, Top
<1>5. StackOK'
  BY <1>1 DEF Inv, StackOK, Cons, TypeOK
<1>6. stage' \in Stages \ {"getftp"} /\ stage # "getftp"
  BY <1>1 DEF Stages
<1>7. listing' \in Seq(ListEntries)
  BY DEF Inv, TypeOK
<1>8. stack' \in Seq(Frames)
  BY DEF Inv, TypeOK, Frames
<1> QED
  BY <1>1, <1>2, <1>3, <1>4, <1>5, <1>6, <1>7, <1>8, KeptOrClosed

LEMMA LoopStep == Inv /\ Loop => Inv'
<1> SUFFICES ASSUME Inv, Loop PROVE Inv'
  OBVIOUS
<1> DEFINE c == [con EXCEPT !.done_cwd = con.alive]
           done == IF con.own THEN [c EXCEPT !.alive = FALSE] ELSE c
           again == /\ job' = [Job(job.op, job.of, job.dir, job.sized) EXCEPT
                                  !.count = job.count, !.qtyread = job.qtyread]
                    /\ stage' = "try" /\ con' = c
<1>1. /\ stage = "outcome"
      /\ session' = (IF con'.alive THEN session ELSE Session)
      /\ UNCHANGED <<world, plan, stack, disk, listing>>
      /\ \/ job.err \in Fatal /\ Returned(c, job.err)
         \/ Succeeded /\ Returned(done, "RETROK")
         \/ job.err \notin Fatal /\ again
         \/ ~Succeeded /\ Returned(done, "TRYLIMEXC")
  BY DEF Loop
<1>2. con \in Cons /\ job \in Jobs /\ con.alive \in BOOLEAN /\ con.own \in BOOLEAN
  BY DEF Inv, TypeOK, Cons
<1>3. /\ c \in Cons /\ c.own = con.own /\ c.avoid_a = con.avoid_a /\ c.avoid_list = con.avoid_list
      /\ c.done_cwd = con.alive /\ c.alive = con.alive
  BY <1>2 DEF Cons
<1>4. /\ done \in Cons /\ done.own = con.own /\ done.avoid_a = con.avoid_a
      /\ done.avoid_list = con.avoid_list
      /\ done.done_cwd = con.alive /\ (done.alive => con.alive) /\ (con.alive => con.own \/ done.alive)
  BY <1>2 DEF Cons
<1>5. job.op = "LIST" => ~job.sized
  BY DEF Inv, JobOK
<1> HIDE DEF done
<1>6. CASE job.err \in Fatal /\ Returned(c, job.err)
  <2>1. job.err \in Errors /\ job.err # "RETROK"
    BY <1>2, <1>6 DEF Jobs, Fatal
  <2> HIDE DEF c
  <2> QED
    BY <1>1, <1>3, <1>6, <2>1, Leaving
<1>7. CASE Succeeded /\ Returned(done, "RETROK")
  <2>1. "RETROK" \in Errors
    BY DEF Errors
  <2>2. job.op = "LIST" => job.err = "RETRFINISHED"
    BY <1>5, <1>7 DEF Succeeded
  <2> QED
    BY <1>1, <1>4, <1>7, <2>1, <2>2, Leaving
<1>8. CASE ~Succeeded /\ Returned(done, "TRYLIMEXC")
  <2>1. "TRYLIMEXC" \in Errors /\ "TRYLIMEXC" # "RETROK"
    BY DEF Errors
  <2> QED
    BY <1>1, <1>4, <1>8, <2>1, Leaving
<1>9. CASE job.err \notin Fatal /\ again
  <2>0. job.count \in Nat /\ job.qtyread \in Nat /\ "none" \in Errors
    BY <1>2 DEF Jobs, Errors
  <2>1. job' \in Jobs /\ SameJob
    <3>1. job' = Fresh(job.count, job.qtyread, "none")
      BY <1>9 DEF Job, Fresh
    <3> QED
      BY <2>0, <3>1, Renewed DEF Inv
  <2> HIDE DEF c
  <2>2. stage' = "try" /\ con' = c
    BY <1>9
  <2>3. BetweenOK'
    <3> SUFFICES ASSUME con'.alive PROVE BetweenOK'
      BY DEF BetweenOK
    <3>0. con.alive /\ con'.done_cwd /\ con'.own = con.own
      BY <1>3, <2>2
    <3>1. session' = session /\ Pending' = Pending
      BY <1>1 DEF Pending
    <3>2. /\ Idle
          /\ Right \/ Lost
          /\ Odd => job.op = "LIST"
          /\ con.own => Right /\ Len(Pending) <= 1
      BY <1>1, <1>9, <3>0 DEF Inv, BetweenOK
    <3>b. (Idle => Idle') /\ (Odd' => Odd) /\ (Lost => Lost')
      BY <1>1, <1>3, <2>2, <3>1, StillLeft
    <3>a. (Right => Right') /\ (Lost => Lost')
      BY <2>1, <3>1, <3>b DEF Right, SameJob
    <3>c. Idle'
      BY <3>2, <3>b
    <3>3. (Right \/ Lost)'
      BY <3>2, <3>a
    <3>4. Odd' => job'.op = "LIST"
      BY <2>1, <3>2, <3>b DEF SameJob
    <3>5. con'.own => Right' /\ Len(Pending') <= 1
      BY <3>0, <3>1, <3>2, <3>a
    <3> QED
      BY <2>2, <3>0, <3>c, <3>3, <3>4, <3>5 DEF BetweenOK
  <2>4. JobOK'
    BY <1>1, <1>3, <2>1, <2>2 DEF Inv, JobOK, SameJob, AllGiven, Top
  <2>5. StackOK'
    BY <1>1, <1>3, <2>2 DEF Inv, StackOK
  <2>6. stage' \in Stages \ {"getftp"} /\ stage # "getftp" /\ con' \in Cons
    BY <1>1, <1>3, <2>2 DEF Stages
  <2>7. listing' \in Seq(ListEntries)
    BY <1>1 DEF Inv, TypeOK
  <2>8. stack' \in Seq(Frames)
    BY <1>1 DEF Inv, TypeOK, Frames
  <2> QED
    BY <1>1, <2>1, <2>3, <2>4, <2>5, <2>6, <2>7, <2>8, KeptOrClosed
<1> QED
  BY <1>1, <1>6, <1>7, <1>8, <1>9

\* What the innermost directory has left is changed.
LEMMA TopChanged ==
    ASSUME NEW s \in Seq(Frames), s # <<>>, NEW f \in Frames, f.dir = s[Len(s)].dir,
           stack = s, stack' = [s EXCEPT ![Len(s)] = f]
    PROVE  /\ stack' \in Seq(Frames) /\ Len(stack') = Len(s) /\ stack' # <<>> /\ Len(s) \in 1 .. Len(s)
           /\ Top' = f /\ Top'.dir = Top.dir
           /\ \A i \in 1 .. Len(s) : i # Len(s) => stack'[i] = s[i]
           /\ stack'[Len(s)] = f
<1>1. Len(s) \in Nat /\ Len(s) >= 1 /\ DOMAIN s = 1 .. Len(s)
  OBVIOUS
<1>2. Len(s) \in 1 .. Len(s)
  BY <1>1
<1>3. stack' \in Seq(Frames) /\ Len(stack') = Len(s)
  BY <1>2, ExceptSeq
<1>4. stack' # <<>>
  BY <1>1, <1>3
<1>5. stack'[Len(s)] = f /\ \A i \in 1 .. Len(s) : i # Len(s) => stack'[i] = s[i]
  BY <1>1, <1>2
<1>6. Top' = f /\ Top = s[Len(s)]
  BY <1>3, <1>5 DEF Top
<1> QED
  BY <1>2, <1>3, <1>4, <1>5, <1>6

\* Nothing but the walk goes on.
LEMMA Walks ==
    ASSUME Inv, stage \in {"returned", "walk"}, stage' = "walk", job' = NoJob,
           UNCHANGED <<world, plan, con, session, disk>>,
           listing' \in Seq(ListEntries), stack' \in Seq(Frames),
           \A i \in 1 .. Len(stack') - 1 : stack'[i].files = <<>>,
           con.own => stack' = <<>>,
           world.mode = "one" => \A i \in 1 .. Len(stack') : stack'[i].dirs = <<>>,
           con.alive => \/ AllGiven'
                        \/ con.done_cwd /\ ~Odd /\ (session.cwd = Top.dir \/ Lost)'
    PROVE  Inv'
<1>1. BetweenOK'
  <2> SUFFICES ASSUME con.alive PROVE BetweenOK'
    BY DEF BetweenOK
  <2>1. Pending' = Pending /\ (Idle => Idle') /\ (Odd' => Odd) /\ (Lost => Lost')
    BY StillLeft
  <2>2. Idle
    BY DEF Inv, BetweenOK
  <2> QED
    BY <2>1, <2>2 DEF BetweenOK
<1>2. JobOK'
  BY DEF JobOK, NoJob, Job
<1>3. StackOK'
  BY DEF Inv, StackOK
<1>4. job' \in Jobs
  <2>1. "" \in DOMAIN Tree
    BY TreeAssumption
  <2> QED
    BY <2>1 DEF NoJob, Job, Jobs, Names, Errors
<1>5. stage # "getftp" /\ stage' \in Stages \ {"getftp"}
  BY DEF Stages
<1>6. con' \in Cons
  BY DEF Inv, TypeOK
<1> QED
  BY <1>1, <1>2, <1>3, <1>4, <1>5, <1>6, KeptOrClosed

LEMMA StackType ==
    ASSUME Inv
    PROVE  /\ stack \in Seq(Frames) /\ listing \in Seq(ListEntries)
           /\ stack # <<>> => Top \in Frames /\ Len(stack) \in 1 .. Len(stack)
           /\ con \in Cons /\ job \in Jobs
<1>1. stack \in Seq(Frames) /\ listing \in Seq(ListEntries) /\ con \in Cons /\ job \in Jobs
  BY DEF Inv, TypeOK, Frames
<1>2. ASSUME stack # <<>> PROVE Top \in Frames /\ Len(stack) \in 1 .. Len(stack)
  <2>1. Len(stack) \in 1 .. Len(stack)
    BY <1>1, <1>2
  <2> QED
    BY <1>1, <2>1 DEF Top
<1> QED
  BY <1>1, <1>2

\* The locals of ftp_loop_internal for a file or a directory.
LEMMA NewJob ==
    ASSUME NEW d \in DOMAIN Tree, NEW f \in Names, NEW op \in {"LIST", "RETR"}, NEW sized \in BOOLEAN
    PROVE  Job(op, f, d, sized) \in Jobs
BY DEF Job, Jobs, Errors

LEMMA GotListingStep == Inv /\ GotListing => Inv'
<1> SUFFICES ASSUME Inv, GotListing PROVE Inv'
  OBVIOUS
<1>1. /\ stage = "returned" /\ job.op = "LIST" /\ listing' = <<>>
      /\ UNCHANGED <<world, plan, session, disk, retrieved>>
  BY DEF GotListing
<1>2. /\ stack \in Seq(Frames) /\ listing \in Seq(ListEntries) /\ con \in Cons /\ job \in Jobs
      /\ listing' \in Seq(ListEntries)
  BY <1>1, StackType, EmptySeq
<1>3. /\ AllGiven /\ ~con.own
      /\ world.mode = "one" => stack = <<>> /\ job.dir = world.dir
  BY <1>1 DEF Inv, JobOK
<1>4. CASE Walking /\ UNCHANGED <<stack, con>>
  <2>1. stage' = "walk" /\ job' = NoJob
    BY <1>4 DEF Walking
  <2>2. AllGiven'
    BY <1>3, <1>4 DEF AllGiven
  <2>3. /\ \A i \in 1 .. Len(stack') - 1 : stack'[i].files = <<>>
        /\ world.mode = "one" => \A i \in 1 .. Len(stack') : stack'[i].dirs = <<>>
    BY <1>4 DEF Inv, StackOK
  <2> QED
    BY <1>1, <1>2, <1>3, <1>4, <2>1, <2>2, <2>3, Walks
<1>5. CASE /\ job.err = "RETROK" /\ stack = <<>>
           /\ job' = FileJob(UrlFile, job.dir, FALSE)
           /\ con' = [Con EXCEPT !.alive = con.alive]
           /\ stage' = "try" /\ UNCHANGED stack
  <2>1. con' = [own |-> TRUE, alive |-> con.alive, done_cwd |-> FALSE,
                avoid_a |-> FALSE, avoid_list |-> FALSE, checked |-> FALSE]
    BY <1>5 DEF Con
  <2>2. con' \in Cons /\ con'.own /\ (con'.alive <=> con.alive) /\ ~con'.done_cwd /\ Twice'
    BY <1>2, <2>1 DEF Cons, Twice
  <2>3. /\ job'.op = "RETR" /\ job'.dir = job.dir /\ ~job'.sized
    BY <1>5 DEF FileJob, Job
  <2>4. job' \in Jobs
    <3>1. job.dir \in DOMAIN Tree
      BY <1>2 DEF Jobs
    <3>2. world \in Worlds
      BY DEF Inv, TypeOK
    <3>3. world.file \in STRING
      BY <3>2, WorldsAssumption
    <3>4. world.file \in Names /\ "" \in Names
      <4>1. world.file \in Names
        BY <3>3 DEF Names
      <4>2. "" \in STRING
        BY TreeAssumption
      <4> QED
        BY <4>1, <4>2 DEF Names
    <3>5. UrlFile \in Names
      BY <3>4 DEF UrlFile
    <3> QED
      BY <1>5, <3>1, <3>5, NewJob DEF FileJob
  <2>5. BetweenOK'
    <3> SUFFICES ASSUME con.alive PROVE BetweenOK'
      BY <2>2 DEF BetweenOK
    <3>1. Idle /\ Right /\ Len(Pending) <= 1 /\ Pending' = Pending
      BY <1>1, <1>5 DEF Inv, BetweenOK, Pending
    <3>2. Right'
      BY <1>1, <1>3, <1>5, <2>3, <3>1 DEF Right
    <3>3. ~Odd /\ ~Odd'
      BY <3>1 DEF Odd
    <3>4. Idle'
      BY <1>1, <3>1, <3>3 DEF Idle, Dead, First
    <3> QED
      BY <1>5, <2>2, <2>3, <3>1, <3>2, <3>3, <3>4 DEF BetweenOK
  <2>6. JobOK'
    BY <1>5, <2>2, <2>3 DEF JobOK
  <2>7. StackOK'
    BY <1>1, <1>3, <1>5, <2>2 DEF Inv, StackOK
  <2>8. stage # "getftp" /\ stage' \in Stages \ {"getftp"} /\ stack' \in Seq(Frames)
    BY <1>1, <1>2, <1>5 DEF Stages
  <2> QED
    BY <1>1, <1>2, <2>2, <2>4, <2>5, <2>6, <2>7, <2>8, KeptOrClosed
<1>6. CASE job.err = "RETROK" /\ listing # <<>> /\ stack' = Append(stack, Frame) /\ Walking /\ UNCHANGED con
  <2>1. stage' = "walk" /\ job' = NoJob
    BY <1>6 DEF Walking
  <2>2. Frame \in Frames /\ Frame.dir = job.dir /\ (world.mode = "one" => Frame.dirs = <<>>)
    BY <1>2, EmptySeq DEF Frame, Frames, Jobs
  <2>3. PICK f : f = Frame
    OBVIOUS
  <2>4. f \in Frames /\ stack' = Append(stack, f)
    BY <1>6, <2>2, <2>3
  <2>5. /\ stack' \in Seq(Frames) /\ Len(stack') = Len(stack) + 1 /\ stack'[Len(stack) + 1] = f
        /\ \A i \in 1 .. Len(stack) : stack'[i] = stack[i]
    BY <1>2, <2>4, AppendProperties
  <2>6. Len(stack) \in Nat
    BY <1>2
  <2>7. Top' = f
    BY <2>5 DEF Top
  <2>8. \A i \in 1 .. Len(stack') - 1 : stack'[i].files = <<>>
    <3> SUFFICES ASSUME NEW i \in 1 .. Len(stack) PROVE stack'[i].files = <<>>
      BY <2>5, <2>6
    <3> QED
      BY <1>3, <2>5 DEF AllGiven
  <2>9. ASSUME world.mode = "one" PROVE \A i \in 1 .. Len(stack') : stack'[i].dirs = <<>>
    <3> TAKE i \in 1 .. Len(stack')
    <3>1. Len(stack) = 0
      BY <1>3, <2>9
    <3>2. i = Len(stack) + 1
      BY <2>5, <3>1
    <3> QED
      BY <2>2, <2>3, <2>5, <2>9, <3>2
  <2>10. con.alive => con.done_cwd /\ ~Odd /\ session'.cwd = (Top.dir)'
    <3> SUFFICES ASSUME con.alive PROVE con.done_cwd /\ ~Odd /\ session'.cwd = (Top.dir)'
      OBVIOUS
    <3>1. con.done_cwd /\ Right /\ Len(Pending) <= 1
      BY <1>1, <1>6 DEF Inv, BetweenOK
    <3>2. ~Odd
      BY <3>1 DEF Odd
    <3>3. session'.cwd = (Top.dir)'
      BY <1>1, <2>2, <2>3, <2>7, <3>1 DEF Right
    <3> QED
      BY <3>1, <3>2, <3>3
  <2> QED
    BY <1>1, <1>2, <1>3, <1>6, <2>1, <2>5, <2>8, <2>9, <2>10, Walks
<1>7. \/ Walking /\ UNCHANGED <<stack, con>>
      \/ /\ job.err = "RETROK" /\ stack = <<>>
         /\ job' = FileJob(UrlFile, job.dir, FALSE)
         /\ con' = [Con EXCEPT !.alive = con.alive]
         /\ stage' = "try" /\ UNCHANGED stack
      \/ job.err = "RETROK" /\ listing # <<>> /\ stack' = Append(stack, Frame) /\ Walking /\ UNCHANGED con
  BY <1>3 DEF GotListing, NotListed
<1> QED
  BY <1>4, <1>5, <1>6, <1>7

LEMMA NextFileStep == Inv /\ NextFile => Inv'
<1> SUFFICES ASSUME Inv, NextFile PROVE Inv'
  OBVIOUS
<1>1. /\ stage = "walk" /\ stack # <<>> /\ Top.files # <<>>
      /\ UNCHANGED <<world, plan, con, session, disk, listing, retrieved>>
      /\ stack' = [stack EXCEPT ![Len(stack)].files = Tail(@)]
  BY DEF NextFile
<1>2. /\ stack \in Seq(Frames) /\ listing \in Seq(ListEntries) /\ con \in Cons /\ job \in Jobs
      /\ Top \in Frames /\ Len(stack) \in 1 .. Len(stack)
  BY <1>1, StackType
<1>3. PICK f : f = [Top EXCEPT !.files = Tail(Top.files)]
  OBVIOUS
<1>4. Top.files \in Seq(ListEntries) /\ Top.dir \in DOMAIN Tree
  BY <1>2 DEF Frames
<1>5. /\ Tail(Top.files) \in Seq(ListEntries)
      /\ Head(Top.files) \in ListEntries
  BY <1>1, <1>4, HeadTailProperties
<1>6. f \in Frames /\ f.dir = Top.dir /\ f.dirs = Top.dirs
  BY <1>2, <1>3, <1>5 DEF Frames
<1>7. stack' = [stack EXCEPT ![Len(stack)] = f]
  <2>1. stack[Len(stack)] = Top
    BY DEF Top
  <2> QED
    BY <1>1, <1>3, <2>1
<1>8. PICK n : n = Len(stack)
  OBVIOUS
<1>9. /\ stack' \in Seq(Frames) /\ Len(stack') = n /\ stack' # <<>> /\ n \in 1 .. n
      /\ Top' = f /\ Top'.dir = Top.dir
      /\ \A i \in 1 .. n : i # n => stack'[i] = stack[i]
      /\ stack'[n] = f
  <2>1. f.dir = stack[Len(stack)].dir
    BY <1>6 DEF Top
  <2> QED
    BY <1>1, <1>2, <1>6, <1>7, <1>8, <2>1, TopChanged
<1>10. ~con.own
  BY <1>1 DEF Inv, StackOK
<1>11. \A i \in 1 .. Len(stack') - 1 : stack'[i].files = <<>>
  <2> SUFFICES ASSUME NEW i \in 1 .. n - 1 PROVE stack'[i].files = <<>>
    BY <1>9
  <2>1. i \in 1 .. n /\ i # n
    BY <1>9
  <2>2. stack[i].files = <<>>
    BY <1>8 DEF Inv, StackOK
  <2> QED
    BY <1>9, <2>1, <2>2
<1>12. ASSUME world.mode = "one" PROVE \A i \in 1 .. Len(stack') : stack'[i].dirs = <<>>
  <2> SUFFICES ASSUME NEW i \in 1 .. n PROVE stack'[i].dirs = <<>>
    BY <1>9
  <2>1. \A k \in 1 .. n : stack[k].dirs = <<>>
    BY <1>8, <1>12 DEF Inv, StackOK
  <2>2. Top.dirs = stack[n].dirs
    BY <1>8 DEF Top
  <2> QED
    BY <1>6, <1>9, <2>1, <2>2
<1>13. con.alive => con.done_cwd /\ ~Odd /\ (session.cwd = Top.dir \/ Lost)
  <2>1. Top = stack[n]
    BY <1>8 DEF Top
  <2>2. n \in 1 .. Len(stack)
    BY <1>8, <1>9
  <2>3. ~AllGiven
    BY <1>1, <2>1, <2>2 DEF AllGiven
  <2> QED
    BY <1>1, <2>3 DEF Inv, BetweenOK
<1>14. Pending' = Pending /\ (Idle => Idle') /\ (Odd' => Odd) /\ (Lost => Lost')
  BY <1>1, StillLeft
<1>15. con.alive => Idle
  BY <1>1 DEF Inv, BetweenOK
<1>16. CASE stage' = stage /\ job' = job
  <2>1. job' = NoJob /\ stage' = "walk"
    BY <1>1, <1>16 DEF Inv, JobOK
  <2>2. con.alive => con.done_cwd /\ ~Odd /\ (session.cwd = Top.dir \/ Lost)'
    BY <1>1, <1>9, <1>13, <1>14
  <2>3. listing' \in Seq(ListEntries) /\ stack' \in Seq(Frames)
    BY <1>1, <1>2, <1>9
  <2> QED
    BY <1>1, <1>10, <1>11, <1>12, <2>1, <2>2, <2>3, Walks
<1>17. CASE Wanted(Head(Top.files)) /\ job' = FileJob(Head(Top.files).name, Top.dir, TRUE) /\ stage' = "try"
  <2>1. Head(Top.files).name \in Names
    BY <1>5, TreeAssumption DEF ListEntries, FileEntries, DirEntries, Names
  <2>2. job' \in Jobs
    BY <1>4, <1>17, <2>1, NewJob DEF FileJob
  <2>3. job'.op = "RETR" /\ job'.dir = Top.dir /\ job'.sized
    BY <1>17 DEF FileJob, Job
  <2>4. BetweenOK'
    <3> SUFFICES ASSUME con.alive PROVE BetweenOK'
      BY <1>1 DEF BetweenOK
    <3>1. con'.done_cwd /\ ~con'.own /\ Idle' /\ ~Odd'
      BY <1>1, <1>10, <1>13, <1>14, <1>15
    <3>2. (Right \/ Lost)'
      BY <1>1, <1>13, <1>14, <2>3 DEF Right
    <3> QED
      BY <1>17, <3>1, <3>2 DEF BetweenOK
  <2>5. JobOK'
    BY <1>1, <1>9, <1>10, <1>17, <2>3 DEF JobOK
  <2>6. StackOK'
    BY <1>1, <1>10, <1>11, <1>12, <1>17 DEF Inv, StackOK
  <2>7. stage # "getftp" /\ stage' \in Stages \ {"getftp"} /\ con' \in Cons /\ listing' \in Seq(ListEntries)
    BY <1>1, <1>2, <1>17 DEF Stages
  <2> QED
    BY <1>1, <1>9, <2>2, <2>4, <2>5, <2>6, <2>7, KeptOrClosed
<1>18. \/ stage' = stage /\ job' = job
       \/ Wanted(Head(Top.files)) /\ job' = FileJob(Head(Top.files).name, Top.dir, TRUE) /\ stage' = "try"
  BY DEF NextFile
<1> QED
  BY <1>16, <1>17, <1>18

LEMMA GotFileStep == Inv /\ GotFile => Inv'
<1> SUFFICES ASSUME Inv, GotFile PROVE Inv'
  OBVIOUS
<1>1. /\ stage = "returned" /\ job.op = "RETR" /\ stage' = "walk" /\ job' = NoJob
      /\ UNCHANGED <<world, plan, con, session, disk, listing, retrieved>>
      /\ \/ stack # <<>> /\ stack' = [stack EXCEPT ![Len(stack)].files = <<>>]
         \/ stack' = stack
  BY DEF GotFile, Walking
<1>2. stack \in Seq(Frames) /\ listing' \in Seq(ListEntries)
  BY <1>1, StackType
<1>3. con.own => stack = <<>>
  BY <1>1 DEF Inv, StackOK
<1>4. con.alive /\ ~con.own => con.done_cwd /\ ~Odd /\ (session.cwd = Top.dir \/ Lost)
  <2> SUFFICES ASSUME con.alive, ~con.own PROVE con.done_cwd /\ ~Odd /\ (session.cwd = Top.dir \/ Lost)
    OBVIOUS
  <2>1. con.done_cwd /\ (Right \/ Lost) /\ (Odd => job.op = "LIST")
    BY <1>1 DEF Inv, BetweenOK
  <2>2. job.dir = Top.dir
    BY <1>1 DEF Inv, JobOK
  <2> QED
    BY <1>1, <2>1, <2>2 DEF Right
<1>5. (Odd' => Odd) /\ (Lost => Lost')
  BY <1>1, StillLeft
<1>6. CASE stack' = stack
  <2>1. Top' = Top /\ (AllGiven => AllGiven')
    BY <1>6 DEF Top, AllGiven
  <2>2. stack = <<>> => AllGiven
    BY DEF AllGiven
  <2>3. con.alive => AllGiven' \/ (con.done_cwd /\ ~Odd /\ (session.cwd = Top.dir \/ Lost)')
    BY <1>1, <1>3, <1>4, <1>5, <2>1, <2>2
  <2>4. /\ \A i \in 1 .. Len(stack') - 1 : stack'[i].files = <<>>
        /\ world.mode = "one" => \A i \in 1 .. Len(stack') : stack'[i].dirs = <<>>
        /\ con.own => stack' = <<>>
    BY <1>6 DEF Inv, StackOK
  <2> QED
    BY <1>1, <1>2, <1>6, <2>3, <2>4, Walks
<1>7. CASE stack # <<>> /\ stack' = [stack EXCEPT ![Len(stack)].files = <<>>]
  <2>1. Top \in Frames /\ Len(stack) \in 1 .. Len(stack)
    BY <1>7, StackType
  <2>2. PICK f : f = [Top EXCEPT !.files = <<>>]
    OBVIOUS
  <2>3. f \in Frames /\ f.dir = Top.dir /\ f.dirs = Top.dirs
    BY <2>1, <2>2, EmptySeq DEF Frames
  <2>4. PICK n : n = Len(stack)
    OBVIOUS
  <2>5. stack' = [stack EXCEPT ![Len(stack)] = f]
    <3>1. stack[Len(stack)] = Top
      BY DEF Top
    <3> QED
      BY <1>7, <2>2, <3>1
  <2>6. /\ stack' \in Seq(Frames) /\ Len(stack') = n /\ stack' # <<>> /\ n \in 1 .. n
        /\ Top' = f /\ Top'.dir = Top.dir
        /\ \A i \in 1 .. n : i # n => stack'[i] = stack[i]
        /\ stack'[n] = f
    <3>1. f.dir = stack[Len(stack)].dir
      BY <2>3 DEF Top
    <3> QED
      BY <1>2, <1>7, <2>3, <2>4, <2>5, <3>1, TopChanged
  <2>7. ~con.own
    BY <1>3, <1>7
  <2>8. \A i \in 1 .. Len(stack') - 1 : stack'[i].files = <<>>
    <3> SUFFICES ASSUME NEW i \in 1 .. n - 1 PROVE stack'[i].files = <<>>
      BY <2>6
    <3>1. i \in 1 .. n /\ i # n
      BY <2>6
    <3>2. stack[i].files = <<>>
      BY <2>4 DEF Inv, StackOK
    <3> QED
      BY <2>6, <3>1, <3>2
  <2>9. ASSUME world.mode = "one" PROVE \A i \in 1 .. Len(stack') : stack'[i].dirs = <<>>
    <3> SUFFICES ASSUME NEW i \in 1 .. n PROVE stack'[i].dirs = <<>>
      BY <2>6
    <3>1. \A k \in 1 .. n : stack[k].dirs = <<>>
      BY <2>4, <2>9 DEF Inv, StackOK
    <3>2. Top.dirs = stack[n].dirs
      BY <2>4 DEF Top
    <3> QED
      BY <2>3, <2>6, <3>1, <3>2
  <2>10. con.alive => con.done_cwd /\ ~Odd /\ (session.cwd = Top.dir \/ Lost)'
    BY <1>1, <1>4, <1>5, <2>6, <2>7
  <2> QED
    BY <1>1, <1>2, <2>6, <2>7, <2>8, <2>9, <2>10, Walks
<1> QED
  BY <1>1, <1>6, <1>7

LEMMA NextDirStep == Inv /\ NextDir => Inv'
<1> SUFFICES ASSUME Inv, NextDir PROVE Inv'
  OBVIOUS
<1>1. /\ stage = "walk" /\ stack # <<>> /\ Top.files = <<>>
      /\ UNCHANGED <<world, plan, session, disk, listing, retrieved>>
  BY DEF NextDir
<1>2. /\ stack \in Seq(Frames) /\ listing' \in Seq(ListEntries) /\ con \in Cons /\ job \in Jobs
      /\ Top \in Frames /\ Len(stack) \in 1 .. Len(stack)
  BY <1>1, StackType
<1>3. PICK n : n = Len(stack)
  OBVIOUS
<1>4. n \in Nat /\ n >= 1 /\ Top = stack[n]
  <2>1. n \in Nat
    BY <1>2, <1>3
  <2>2. n >= 1
    BY <1>2, <1>3
  <2> QED
    BY <1>3, <2>1, <2>2 DEF Top
<1>5. \A i \in 1 .. n : stack[i].files = <<>>
  <2> SUFFICES ASSUME NEW i \in 1 .. n PROVE stack[i].files = <<>>
    OBVIOUS
  <2>1. i = n \/ i \in 1 .. n - 1
    BY <1>4
  <2>2. i \in 1 .. n - 1 => stack[i].files = <<>>
    BY <1>3 DEF Inv, StackOK
  <2> QED
    BY <1>1, <1>4, <2>1, <2>2
<1>6. ~con.own /\ job = NoJob
  BY <1>1 DEF Inv, StackOK, JobOK
<1>7. world.mode = "one" => \A i \in 1 .. n : stack[i].dirs = <<>>
  BY <1>3 DEF Inv, StackOK
<1>8. CASE stack' = SubSeq(stack, 1, Len(stack) - 1) /\ UNCHANGED <<job, stage, con>>
  <2>1. /\ stack' \in Seq(Frames) /\ Len(stack') = n - 1
        /\ \A i \in 1 .. n - 1 : stack'[i] = stack[i]
    <3>1. \A i \in 1 .. n - 1 : stack[i] \in Frames
      BY <1>2, <1>3, ElementOfSeq
    <3>2. n - 1 \in Nat
      BY <1>4
    <3>3. n - 1 <= Len(stack)
      BY <1>3, <1>4
    <3>4. n - 1 \in 1 - 1 .. Len(stack)
      BY <1>3, <1>4
    <3> QED
      BY <1>2, <1>3, <1>8, <3>1, <3>2, <3>3, <3>4, SubSeqProperties
  <2>2. \A i \in 1 .. n - 1 : stack'[i].files = <<>>
    BY <1>4, <1>5, <2>1
  <2>3. AllGiven'
    BY <2>1, <2>2 DEF AllGiven
  <2>4. \A i \in 1 .. Len(stack') - 1 : stack'[i].files = <<>>
    BY <1>4, <2>1, <2>2
  <2>5. world.mode = "one" => \A i \in 1 .. Len(stack') : stack'[i].dirs = <<>>
    BY <1>4, <1>7, <2>1
  <2>6. stage' = "walk" /\ job' = NoJob /\ con' = con
    BY <1>1, <1>6, <1>8
  <2> QED
    BY <1>1, <1>2, <1>6, <2>1, <2>3, <2>4, <2>5, <2>6, Walks
<1>9. CASE /\ Top.dirs # <<>>
           /\ stack' = [stack EXCEPT ![Len(stack)].dirs = Tail(@)]
           /\ \/ /\ Head(Top.dirs).kind = "dir"
                 /\ job' = ListJob(Head(Top.dirs).name) /\ stage' = "try" /\ Enter
              \/ UNCHANGED <<job, stage, con>>
  <2>1. PICK f : f = [Top EXCEPT !.dirs = Tail(Top.dirs)]
    OBVIOUS
  <2>2. Top.dirs \in Seq(ListEntries)
    BY <1>2 DEF Frames
  <2>3. Tail(Top.dirs) \in Seq(ListEntries) /\ Head(Top.dirs) \in ListEntries
    BY <1>9, <2>2, HeadTailProperties
  <2>4. f \in Frames /\ f.dir = Top.dir /\ f.files = Top.files
    BY <1>2, <2>1, <2>3 DEF Frames
  <2>5. stack' = [stack EXCEPT ![Len(stack)] = f]
    <3>1. stack[Len(stack)] = Top
      BY DEF Top
    <3> QED
      BY <1>9, <2>1, <3>1
  <2>6. /\ stack' \in Seq(Frames) /\ Len(stack') = n /\ stack' # <<>> /\ n \in 1 .. n
        /\ Top' = f /\ Top'.dir = Top.dir
        /\ \A i \in 1 .. n : i # n => stack'[i] = stack[i]
        /\ stack'[n] = f
    <3>1. f.dir = stack[Len(stack)].dir
      BY <2>4 DEF Top
    <3> QED
      BY <1>1, <1>2, <1>3, <2>4, <2>5, <3>1, TopChanged
  <2>7. \A i \in 1 .. n : stack'[i].files = <<>>
    BY <1>1, <1>5, <2>4, <2>6
  <2>8. AllGiven'
    BY <2>6, <2>7 DEF AllGiven
  <2>9. \A i \in 1 .. Len(stack') - 1 : stack'[i].files = <<>>
    BY <1>4, <2>6, <2>7
  <2>10. world.mode # "one"
    BY <1>4, <1>7, <1>9
  <2>11. CASE UNCHANGED <<job, stage, con>>
    <3>1. stage' = "walk" /\ job' = NoJob /\ con' = con
      BY <1>1, <1>6, <2>11
    <3> QED
      BY <1>1, <1>2, <1>6, <2>6, <2>8, <2>9, <2>10, <3>1, Walks
  <2>12. CASE /\ Head(Top.dirs).kind = "dir"
              /\ job' = ListJob(Head(Top.dirs).name) /\ stage' = "try" /\ Enter
    <3>1. Head(Top.dirs).name \in DOMAIN Tree \ {""}
      BY <2>3, <2>12 DEF ListEntries, FileEntries, DirEntries
    <3>2. Head(Top.dirs).name \in Names
      BY <3>1, TreeAssumption DEF Names
    <3>3. job' \in Jobs
      BY <2>12, <3>1, <3>2, NewJob DEF ListJob
    <3>4. job'.op = "LIST" /\ job'.of = job'.dir /\ job'.dir # "" /\ ~job'.sized
      BY <2>12, <3>1 DEF ListJob, Job
    <3>5. /\ con' \in Cons /\ ~con'.done_cwd /\ ~con'.own /\ con'.alive = con.alive
          /\ con'.avoid_a = con.avoid_a /\ con'.avoid_list = con.avoid_list
      BY <1>2, <1>6, <2>12 DEF Enter, Cons
    <3>6. BetweenOK'
      <4> SUFFICES ASSUME con.alive PROVE BetweenOK'
        BY <3>5 DEF BetweenOK
      <4>1. Idle
        BY <1>1 DEF Inv, BetweenOK
      <4>2. Idle'
        BY <1>1, <3>5, <4>1, StillLeft
      <4> QED
        BY <2>12, <3>4, <3>5, <4>2 DEF BetweenOK
    <3>7. JobOK'
      BY <1>1, <2>8, <2>10, <2>12, <3>4, <3>5 DEF JobOK
    <3>8. StackOK'
      BY <1>1, <2>9, <2>10, <2>12, <3>5 DEF StackOK
    <3>9. stage # "getftp" /\ stage' \in Stages \ {"getftp"}
      BY <1>1, <2>12 DEF Stages
    <3> QED
      BY <1>1, <1>2, <2>6, <3>3, <3>5, <3>6, <3>7, <3>8, <3>9, KeptOrClosed
  <2> QED
    BY <1>9, <2>11, <2>12
<1>10. \/ /\ Top.dirs # <<>>
          /\ stack' = [stack EXCEPT ![Len(stack)].dirs = Tail(@)]
          /\ \/ /\ Head(Top.dirs).kind = "dir"
                /\ job' = ListJob(Head(Top.dirs).name) /\ stage' = "try" /\ Enter
             \/ UNCHANGED <<job, stage, con>>
       \/ stack' = SubSeq(stack, 1, Len(stack) - 1) /\ UNCHANGED <<job, stage, con>>
  BY DEF NextDir
<1> QED
  BY <1>8, <1>9, <1>10

LEMMA EndStep == Inv /\ End => Inv'
<1> SUFFICES ASSUME Inv, End PROVE Inv'
  OBVIOUS
<1>1. /\ stage = "walk" /\ stack = <<>> /\ stage' = "over" /\ session' = Session
      /\ con' = [con EXCEPT !.alive = FALSE]
      /\ UNCHANGED <<world, plan, job, stack, disk, listing, retrieved>>
  BY DEF End
<1>2. /\ stack' \in Seq(Frames) /\ listing' \in Seq(ListEntries) /\ con \in Cons /\ job' \in Jobs
  BY <1>1, StackType
<1>3. con' \in Cons /\ ~con'.alive /\ con'.own = con.own
  BY <1>1, <1>2 DEF Cons
<1>4. BetweenOK'
  BY <1>3 DEF BetweenOK
<1>5. job' = NoJob
  BY <1>1 DEF Inv, JobOK
<1>a. stage' = "over"
  BY <1>1
<1>6. JobOK'
  BY <1>5, <1>a DEF JobOK, NoJob, Job
<1>7. StackOK'
  BY <1>1, <1>3 DEF Inv, StackOK
<1>8. stage # "getftp" /\ stage' \in Stages \ {"getftp"}
  BY <1>1 DEF Stages
<1> QED
  BY <1>1, <1>2, <1>3, <1>4, <1>5, <1>6, <1>7, <1>8, KeptOrClosed

LEMMA LeftBehindType ==
    ASSUME world \in Worlds, NEW c \in LeftBehind(world.file)
    PROVE  c \in Seq(Bytes)
<1>1. N \in Nat /\ world.file \in Names /\ "outdated" \in Names
  BY WorldsAssumption DEF Names
<1>2. Doc(world.file) \in Seq(Bytes) /\ Len(Doc(world.file)) = N
  BY <1>1, DocOf
<1>3. Outdated \in Seq(Bytes)
  <2>1. Byte("outdated", 1) \in Bytes
    BY <1>1 DEF Byte, Bytes
  <2> QED
    BY <2>1 DEF Outdated
<1>4. \A k \in 0 .. N : SubSeq(Doc(world.file), 1, k) \in Seq(Bytes)
  <2> TAKE k \in 0 .. N
  <2>1. k \in Nat /\ k <= N /\ 1 \in Nat \ {0}
    BY <1>1
  <2> QED
    BY <1>2, <2>1, PrefixOf
<1> QED
  BY <1>2, <1>3, <1>4 DEF LeftBehind

LEMMA InitDisk ==
    ASSUME Init
    PROVE  /\ disk = [f \in DOMAIN disk |-> disk[f]]
           /\ \A f \in DOMAIN disk : f \in Names /\ disk[f] \in Seq(Bytes)
<1>1. world \in Worlds
  BY DEF Init
<1>2. world.file \in Names
  BY <1>1, WorldsAssumption DEF Names
<1>3. disk = <<>> \/ \E c \in LeftBehind(world.file) : disk = With(<<>>, world.file, c)
  BY DEF Init
<1>4. CASE disk = <<>>
  BY <1>4
<1>5. ASSUME NEW c \in LeftBehind(world.file), disk = With(<<>>, world.file, c)
      PROVE  /\ disk = [f \in DOMAIN disk |-> disk[f]]
             /\ \A f \in DOMAIN disk : f \in Names /\ disk[f] \in Seq(Bytes)
  <2>1. c \in Seq(Bytes)
    BY <1>1, LeftBehindType
  <2>2. disk = [y \in {world.file} |-> c]
    BY <1>5 DEF With
  <2> QED
    BY <1>2, <2>1, <2>2
<1> QED
  BY <1>3, <1>4, <1>5

\* What wget starts from.
LEMMA Starts == Init => Inv
<1> SUFFICES ASSUME Init PROVE Inv
  OBVIOUS
<1>1. /\ world \in Worlds /\ stage = "try" /\ plan = <<>> /\ session = Session
      /\ con = [Con EXCEPT !.own = world.mode = "own"]
      /\ stack = <<>> /\ listing = <<>>
      /\ job = IF world.mode = "own" THEN FileJob(world.file, world.dir, FALSE)
               ELSE ListJob(IF world.mode = "one" THEN world.dir ELSE "")
  BY DEF Init
<1>2. /\ world.dir \in DOMAIN Tree /\ world.file \in Names /\ world.dir \in Names
      /\ "" \in DOMAIN Tree /\ "" \in Names
  BY <1>1, WorldsAssumption, TreeAssumption DEF Names
<1>3. con \in Cons /\ (con.own <=> world.mode = "own") /\ ~con.alive /\ ~con.done_cwd
  BY <1>1 DEF Con, Cons
<1>4. /\ world.mode = "own" => job.op = "RETR" /\ ~job.sized
      /\ world.mode # "own" => job.op = "LIST" /\ ~job.sized /\ job.of = job.dir
      /\ world.mode = "one" => job.dir = world.dir
  BY <1>1 DEF FileJob, ListJob, Job
<1>5. job \in Jobs
  BY <1>1, <1>2, NewJob DEF FileJob, ListJob
<1>6. session \in Sessions({session.data})
  BY <1>1, <1>2, EmptySeq DEF Session, Sessions
<1>7. stage \in Stages /\ plan \in Seq(Known) /\ stack \in Seq(Frames) /\ listing \in Seq(ListEntries)
  BY <1>1, EmptySeq DEF Stages
<1>8. TypeOK
  BY <1>1, <1>3, <1>5, <1>6, <1>7, InitDisk DEF TypeOK, Frames
<1>a. plan = <<>> /\ stack = <<>> /\ stage = "try"
  BY <1>1
<1>b. Len(stack) = 0 /\ Len(plan) = 0
  BY <1>a
<1>9. PlanOK
  BY <1>a, <1>b DEF PlanOK
<1>10. DialogueOK /\ BetweenOK
  BY <1>1, <1>3 DEF DialogueOK, BetweenOK
<1>11. AllGiven
  BY <1>b DEF AllGiven
<1>12. JobOK
  BY <1>1, <1>3, <1>4, <1>11 DEF JobOK
<1>13. StackOK
  BY <1>a, <1>b, <1>3 DEF StackOK
<1> QED
  BY <1>8, <1>9, <1>10, <1>12, <1>13 DEF Inv

\* Whatever wget and the server do, the invariant is kept.
LEMMA Kept == Inv /\ PasvKnown /\ [Next]_vars => Inv'
<1> SUFFICES ASSUME Inv, PasvKnown, [Next]_vars PROVE Inv'
  OBVIOUS
<1>1. CASE Try
  BY <1>1, TryStep
<1>2. CASE Dialogue
  BY <1>2, LoginStep, CwdStep, SizeStep, PasvStep, PortStep, RestStep, RetrStep, ListAStep, ListStep
     DEF Dialogue
<1>3. CASE Transfer
  BY <1>3, OpenStep, ReadStep, ResponseStep DEF Transfer
<1>4. CASE Loop
  BY <1>4, LoopStep
<1>5. CASE Walk
  BY <1>5, GotListingStep, NextFileStep, GotFileStep, NextDirStep, EndStep DEF Walk
<1>6. CASE UNCHANGED vars
  <2>1. UNCHANGED <<world, stage, plan, con, session, job, stack, disk, listing>>
    BY <1>6 DEF vars
  <2>2. TypeOK'
    BY <2>1 DEF Inv, TypeOK
  <2>3. PlanOK'
    <3>1. \A c : (Fits(c) => Fits(c)') /\ After(c)' = After(c)
      BY <2>1 DEF Fits, After, Follows, Mode
    <3>2. \A i \in 1 .. Len(plan') : Fits(plan[i])'
      BY <2>1, <3>1 DEF Inv, PlanOK
    <3>3. \A i \in 1 .. Len(plan') - 1 : plan'[i + 1] \in After(plan[i])'
      BY <2>1, <3>1 DEF Inv, PlanOK
    <3> QED
      BY <2>1, <3>2, <3>3 DEF Inv, PlanOK
  <2>4. DialogueOK'
    BY <2>1 DEF Inv, DialogueOK, Left, Idle, Good, Odd, Dead, Lost, Right, First, Single, Twice, Pending
  <2>5. BetweenOK'
    BY <2>1 DEF Inv, BetweenOK, Idle, Odd, Dead, Lost, Right, First, Twice, Pending, AllGiven, Top
  <2>6. JobOK'
    BY <2>1 DEF Inv, JobOK, AllGiven, Top
  <2>7. StackOK'
    BY <2>1 DEF Inv, StackOK
  <2> QED
    BY <2>2, <2>3, <2>4, <2>5, <2>6, <2>7 DEF Inv
<1> QED
  BY <1>1, <1>2, <1>3, <1>4, <1>5, <1>6 DEF Next, Run, Terminated

LEMMA PasvKept == Inv /\ PasvKnown /\ [Next]_vars => PasvKnown'
<1> SUFFICES ASSUME Inv, PasvKnown, [Next]_vars PROVE PasvKnown'
  OBVIOUS
<1>1. job \in Jobs
  BY DEF Inv, TypeOK
<1>2. world' = world
  BY DEF Next, Run, Dialogue, Transfer, Walk, Terminated, vars, Locals, Try, Login, Cwd, Size,
         Pasv, Port, Rest, Retr, ListA, List, Open, Read, Response, Loop, GotListing, NextFile,
         GotFile, NextDir, End
<1>3. CASE job'.pasv \in {job.pasv, FALSE}
  BY <1>2, <1>3 DEF PasvKnown
<1>4. ASSUME NEW err, job' = [job EXCEPT !.err = err] PROVE job'.pasv = job.pasv
  BY <1>1, <1>4 DEF Jobs
<1>5. CASE Try
  <2>1. job'.pasv = FALSE
    BY <1>5 DEF Try, Job
  <2> QED
    BY <1>3, <2>1
<1>6. CASE Login \/ Cwd \/ Size \/ Port
  <2>1. ASSUME NEW err, Return(err) \/ CloseReturn(err) PROVE PasvKnown'
    BY <1>3, <1>4, <2>1 DEF Return, CloseReturn
  <2>2. ASSUME UNCHANGED job PROVE PasvKnown'
    BY <1>3, <2>2
  <2>3. CASE Login
    BY <2>1, <2>2, <2>3 DEF Login
  <2>4. CASE Cwd
    <3>1. (\E err : CloseReturn(err)) \/ UNCHANGED job
      BY <2>4 DEF Cwd, Broken
    <3> QED
      BY <2>1, <2>2, <3>1
  <2>5. CASE Size
    BY <2>1, <2>2, <2>5 DEF Size, Broken
  <2>6. CASE Port
    <3>1. (\E err : Return(err) \/ CloseReturn(err)) \/ UNCHANGED job
      BY <2>6 DEF Port, Broken
    <3> QED
      BY <2>1, <2>2, <3>1
  <2> QED
    BY <1>6, <2>3, <2>4, <2>5, <2>6
<1>7. CASE Pasv
  BY <1>2, <1>3, <1>4, <1>7, PasvAnswer DEF Pasv, Broken, CloseReturn, PasvKnown
<1>8. CASE Rest
  <2>1. job'.pasv = job.pasv
    BY <1>1, <1>4, <1>8 DEF Rest, Broken, CloseReturn, Jobs
  <2> QED
    BY <1>3, <2>1
<1>9. CASE Retr \/ ListA \/ List
  <2>1. job'.pasv = job.pasv
    BY <1>1, <1>4, <1>9 DEF Retr, ListA, List, Requested, Broken, Return, CloseReturn, Jobs
  <2> QED
    BY <1>3, <2>1
<1>10. CASE Open \/ Read \/ Response
  <2>1. job'.pasv = job.pasv
    BY <1>1, <1>4, <1>10 DEF Open, Read, Response, Compare, Return, CloseReturn, Jobs
  <2> QED
    BY <1>3, <2>1
<1>11. CASE Loop
  <2>1. job'.pasv = FALSE
    BY <1>11 DEF Loop, Returned, Job
  <2> QED
    BY <1>3, <2>1
<1>12. CASE Walk
  <2>1. /\ NoJob.pasv = FALSE
        /\ \A d : ListJob(d).pasv = FALSE
        /\ \A f, d, sized : FileJob(f, d, sized).pasv = FALSE
    BY DEF NoJob, ListJob, FileJob, Job
  <2>2. CASE GotListing
    <3>1. job' = NoJob \/ job' = FileJob(UrlFile, job.dir, FALSE)
      BY <2>2 DEF GotListing, Walking
    <3> QED
      BY <1>3, <2>1, <3>1
  <2>3. CASE NextFile
    BY <1>3, <2>1, <2>3 DEF NextFile
  <2>4. CASE GotFile
    BY <1>3, <2>1, <2>4 DEF GotFile, Walking
  <2>5. CASE NextDir
    BY <1>3, <2>1, <2>5 DEF NextDir
  <2>6. CASE End
    BY <1>3, <2>6 DEF End
  <2> QED
    BY <1>12, <2>2, <2>3, <2>4, <2>5, <2>6 DEF Walk
<1>13. CASE UNCHANGED vars
  BY <1>3, <1>13 DEF vars
<1> QED
  BY <1>5, <1>6, <1>7, <1>8, <1>9, <1>10, <1>11, <1>12, <1>13
     DEF Next, Run, Dialogue, Transfer, Terminated

\* Across reconnections, listings asked for twice, ports given up, answers that are
\* read late and directories that cannot be entered, the plan of getftp, the answers
\* it has not read, and the directory of the session stay in step with each other
\* (ftp.c, getftp and ftp_loop_internal).
THEOREM InStep == Spec => [](Inv /\ PasvKnown)
<1>1. Init => Inv /\ PasvKnown
  <2>1. Init => Inv
    BY Starts
  <2>2. /\ ~FileJob(world.file, world.dir, FALSE).pasv
        /\ ~ListJob(world.dir).pasv /\ ~ListJob("").pasv
    BY DEF ListJob, FileJob, Job
  <2>3. Init => job \in {FileJob(world.file, world.dir, FALSE), ListJob(world.dir), ListJob("")}
    BY DEF Init
  <2>4. Init => ~job.pasv
    BY <2>2, <2>3
  <2> QED
    BY <2>1, <2>4 DEF PasvKnown
<1>2. Inv /\ PasvKnown /\ [Next]_vars => Inv' /\ PasvKnown'
  BY Kept, PasvKept
<1> QED
  BY <1>1, <1>2, PTL DEF Spec

LEMMA RightFollows == Inv => RightPlace
<1> SUFFICES ASSUME Inv, stage = "getftp", plan = <<"read">>
             PROVE  session.data.of = job.of /\ session.cwd = job.dir
  BY DEF RightPlace
<1>1. Head(plan) = "read" /\ plan # <<>>
  OBVIOUS
<1>2. con.alive
  BY <1>1 DEF Inv, PlanOK
<1>3. Right /\ Good
  BY <1>1, <1>2 DEF Inv, DialogueOK, Data
<1> QED
  BY <1>3 DEF Right, Good

\* What fd_read_body reads is the listing or the file that this call of getftp asked
\* for, sent from the directory it is in: an answer to a command that was given up is
\* never taken for that of a later one where it matters, and DONE_CWD tells the truth
\* (ftp.h, "The current working directory is correct").
THEOREM ReadsTheRightPlace == Spec => []RightPlace
<1>1. Spec => [](Inv /\ PasvKnown)
  BY InStep
<1>2. Inv => RightPlace
  BY RightFollows
<1> QED
  BY <1>1, <1>2, PTL

(***************************************************************************)
(* What is saved                                                           *)
(***************************************************************************)
\* The bytes of a file from the a-th on up to the b-th.
Piece(f, a, b) == [i \in 1 .. b - a |-> Byte(f, a + i)]
IsPiece(s, f, a, b) == s = Piece(f, a, b)
Begins(f, n) == f \in DOMAIN disk /\ IsPiece(disk[f], f, 0, n)
DiskSaved ==
    \A f \in DOMAIN disk : \/ ~world.rest /\ disk[f] = Outdated
                           \/ \E n \in 0 .. N : IsPiece(disk[f], f, 0, n)
WholeKept == \A f \in retrieved : Begins(f, N)

At(c) == stage = "getftp" /\ Head(plan) = c
OnDisk(n) == n <= N /\ (n > 0 => Begins(job.of, n))
\* What wget believes of the file at work.
FileOK ==
    job.op = "RETR" =>
        /\ stage \in {"try", "getftp", "outcome"} => job.of \notin retrieved
        /\ stage = "try" => OnDisk(job.qtyread)
        /\ stage = "getftp" /\ ~At("done") => OnDisk(job.restval) /\ job.qtyread = job.restval
        /\ At("read") => Begins(job.of, job.restval)
        /\ At("done") => /\ job.qtyread <= N /\ Begins(job.of, job.qtyread)
                         /\ Pending[1] = 226 /\ job.res # -1 => job.qtyread = N
        /\ stage = "outcome" /\ job.err \notin Fatal =>
              OnDisk(job.qtyread) /\ (job.err = "RETRFINISHED" => job.qtyread = N)

\* Where the server begins the file.
From == IF job.rest_failed THEN 0 ELSE job.restval
RestOK ==
    /\ session.rest # 0 => At("retr")
    /\ At("retr") /\ Pending = <<>> => session.rest = From

\* A part of the listing of a directory, each entry once.
Lists(d, l) ==
    /\ \A i \in DOMAIN l : l[i].name \in IF l[i].kind = "file" THEN Files(d) ELSE Dirs(d)
    /\ \A i, j \in DOMAIN l : l[i].kind = l[j].kind /\ l[i].name = l[j].name => i = j
Received ==
    IF job.op = "LIST" THEN Lists(job.dir, session.data.items)
    ELSE \E m \in From .. N : /\ IsPiece(session.data.items, job.of, From, m)
                              /\ Pending[1] = 226 => m = N
DataOK ==
    /\ At("open") \/ At("read") => Received
    /\ At("list") /\ First({1}) => Lists(job.dir, session.data.items)
ListingOK ==
    IF job.op = "LIST"
    THEN /\ Lists(job.dir, listing)
         /\ At("read") => listing = <<>>
         /\ world.mode = "one" => retrieved = {}
    ELSE listing = <<>>

\* The directories that were listed are V.
Never(kind, l, S) == \A k \in DOMAIN l : l[k].kind = kind => l[k].name \notin S
WalkOK(V) ==
    /\ V \subseteq DOMAIN Tree
    /\ world.mode = "tree" => \A d \in V : d = "" \/ \E p \in V : d \in Dirs(p)
    /\ world.mode = "own" => con.own
    /\ con.own \/ \A f \in retrieved : \E d \in V : f \in Files(d)
    /\ \A i \in 1 .. Len(stack) :
          /\ stack[i].dir \in V
          /\ Lists(stack[i].dir, stack[i].files) /\ Never("file", stack[i].files, retrieved)
          /\ Lists(stack[i].dir, stack[i].dirs) /\ Never("dir", stack[i].dirs, V)
    /\ \A i, j \in 1 .. Len(stack) : stack[i].dir = stack[j].dir => i = j
    /\ job.op = "LIST" =>
          /\ job.dir \notin V
          /\ \A i \in 1 .. Len(stack) : Never("dir", stack[i].dirs, {job.dir})
          /\ world.mode = "tree" /\ job.dir # "" => \E p \in V : job.dir \in Dirs(p)
    /\ job.op = "RETR" /\ job.sized =>
          /\ job.of \in Files(Top.dir)
          /\ \A i \in 1 .. Len(stack) : Never("file", stack[i].files, {job.of})

Saving == DiskSaved /\ WholeKept /\ FileOK /\ RestOK /\ DataOK /\ ListingOK
SavingInv == Saving /\ \E V \in SUBSET DOMAIN Tree : WalkOK(V)

(***************************************************************************)
(* Parts of files and of listings                                          *)
(***************************************************************************)
LEMMA PieceIs ==
    ASSUME NEW f \in Names, NEW a \in Nat, NEW b \in Nat, a <= b, NEW s, IsPiece(s, f, a, b)
    PROVE  /\ s \in Seq(Bytes) /\ Len(s) = b - a
           /\ \A i \in 1 .. b - a : s[i] = Byte(f, a + i)
<1>1. b - a \in Nat
  OBVIOUS
<1>2. \A i \in 1 .. b - a : Byte(f, a + i) \in Bytes
  BY DEF Byte, Bytes
<1>3. s = [i \in 1 .. b - a |-> Byte(f, a + i)]
  BY DEF IsPiece, Piece
<1>4. [i \in 1 .. b - a |-> Byte(f, a + i)] \in Seq(Bytes)
  BY <1>1, <1>2, IsASeq
<1>5. s \in Seq(Bytes)
  BY <1>3, <1>4
<1>6. DOMAIN s = 1 .. b - a /\ \A i \in 1 .. b - a : s[i] = Byte(f, a + i)
  BY <1>3
<1>7. Len(s) = b - a
  BY <1>1, <1>5, <1>6, LenProperties
<1> QED
  BY <1>5, <1>6, <1>7

LEMMA APiece ==
    ASSUME NEW f \in Names, NEW a \in Nat, NEW b \in Nat, a <= b, NEW s \in Seq(Bytes),
           Len(s) = b - a, \A i \in 1 .. b - a : s[i] = Byte(f, a + i)
    PROVE  IsPiece(s, f, a, b)
<1>1. PICK t : t = Piece(f, a, b)
  OBVIOUS
<1>2. IsPiece(t, f, a, b)
  BY <1>1 DEF IsPiece
<1>3. /\ t \in Seq(Bytes) /\ Len(t) = b - a
      /\ \A i \in 1 .. b - a : t[i] = Byte(f, a + i)
  BY <1>2, PieceIs
<1>4. s = t
  BY <1>3, SeqEqual
<1> QED
  BY <1>1, <1>4 DEF IsPiece

LEMMA NoPiece ==
    ASSUME NEW f \in Names, NEW a \in Nat
    PROVE  IsPiece(<<>>, f, a, a)
<1>1. <<>> \in Seq(Bytes) /\ Len(<<>>) = 0
  BY EmptySeq
<1>2. PICK s : s = <<>>
  OBVIOUS
<1>3. s \in Seq(Bytes) /\ Len(s) = a - a /\ a <= a /\ \A i \in 1 .. a - a : s[i] = Byte(f, a + i)
  BY <1>1, <1>2
<1>4. IsPiece(s, f, a, a)
  BY <1>3, APiece
<1> QED
  BY <1>2, <1>4

\* A part of a part.
LEMMA PartOfPiece ==
    ASSUME NEW f \in Names, NEW a \in Nat, NEW b \in Nat, a <= b, NEW s, IsPiece(s, f, a, b),
           NEW i \in Nat, NEW k \in Nat, i <= k, k <= b - a
    PROVE  IsPiece(SubSeq(s, i + 1, k), f, a + i, a + k)
<1>1. /\ s \in Seq(Bytes) /\ Len(s) = b - a
      /\ \A j \in 1 .. b - a : s[j] = Byte(f, a + j)
  BY PieceIs
<1>2. PICK t : t = SubSeq(s, i + 1, k)
  OBVIOUS
<1>3. \A j \in i + 1 .. k : s[j] \in Bytes
  BY <1>1, ElementOfSeq
<1>4. i + 1 \in Int /\ k \in Int
  OBVIOUS
<1>5. /\ t \in Seq(Bytes) /\ Len(t) = IF i + 1 <= k THEN k - (i + 1) + 1 ELSE 0
      /\ \A j \in 1 .. k - (i + 1) + 1 : t[j] = s[i + 1 + j - 1]
  BY <1>2, <1>3, <1>4, SubSeqProperties
<1>6. Len(t) = (a + k) - (a + i)
  BY <1>5
<1>7. \A j \in 1 .. (a + k) - (a + i) : t[j] = Byte(f, (a + i) + j)
  <2> SUFFICES ASSUME NEW j \in 1 .. k - i PROVE t[j] = Byte(f, (a + i) + j)
    BY Z3
  <2>1. j \in 1 .. k - (i + 1) + 1 /\ i + 1 + j - 1 = i + j /\ i + j \in 1 .. b - a
    OBVIOUS
  <2>2. t[j] = s[i + j]
    BY <1>5, <2>1
  <2>3. s[i + j] = Byte(f, a + (i + j))
    BY <1>1, <2>1
  <2>4. a + (i + j) = (a + i) + j
    OBVIOUS
  <2> QED
    BY <2>2, <2>3, <2>4
<1>8. a + i \in Nat /\ a + k \in Nat /\ a + i <= a + k
  OBVIOUS
<1>9. IsPiece(t, f, a + i, a + k)
  BY <1>5, <1>6, <1>7, <1>8, APiece
<1> QED
  BY <1>2, <1>9

LEMMA DocIs ==
    ASSUME NEW f \in Names
    PROVE  IsPiece(Doc(f), f, 0, N)
<1>1. N \in Nat
  BY WorldsAssumption
<1>2. /\ Doc(f) \in Seq(Bytes) /\ Len(Doc(f)) = N
      /\ \A i \in 1 .. N : Doc(f)[i] = Byte(f, i)
  BY DocOf
<1>3. PICK s : s = Doc(f)
  OBVIOUS
<1>4. s \in Seq(Bytes) /\ Len(s) = N - 0 /\ \A i \in 1 .. N - 0 : s[i] = Byte(f, 0 + i)
  BY <1>1, <1>2, <1>3
<1>5. IsPiece(s, f, 0, N)
  BY <1>1, <1>4, APiece
<1> QED
  BY <1>3, <1>5

\* What the server sends of a file from the q-th byte on.
LEMMA Rested ==
    ASSUME NEW f \in Names, NEW q \in 0 .. N, NEW d,
           Prefix(d, SubSeq(Doc(f), q + 1, N))
    PROVE  /\ \E m \in q .. N : IsPiece(d, f, q, m)
           /\ IsPiece(SubSeq(Doc(f), q + 1, N), f, q, N)
<1>1. N \in Nat
  BY WorldsAssumption
<1>2. PICK s : s = SubSeq(Doc(f), q + 1, N)
  OBVIOUS
<1>3. IsPiece(s, f, q, N)
  <2>1. PICK t : t = Doc(f)
    OBVIOUS
  <2>2. IsPiece(t, f, 0, N)
    BY <2>1, DocIs
  <2>3. q \in Nat /\ q <= N /\ N <= N - 0 /\ 0 <= N
    BY <1>1
  <2>4. IsPiece(SubSeq(t, q + 1, N), f, 0 + q, 0 + N)
    BY <1>1, <2>2, <2>3, PartOfPiece
  <2> QED
    BY <1>1, <1>2, <2>1, <2>4
<1>4. Len(s) = N - q
  BY <1>1, <1>3, PieceIs
<1>5. ASSUME d = s PROVE \E m \in q .. N : IsPiece(d, f, q, m)
  BY <1>1, <1>3, <1>5
<1>6. ASSUME NEW k \in 0 .. Len(s), d = SubSeq(s, 1, k)
      PROVE  \E m \in q .. N : IsPiece(d, f, q, m)
  <2>1. k \in Nat /\ 0 <= k /\ k <= N - q /\ q <= N /\ q \in Nat
    BY <1>1, <1>4
  <2>2. IsPiece(SubSeq(s, 0 + 1, k), f, q + 0, q + k)
    BY <1>1, <1>3, <2>1, PartOfPiece
  <2>3. IsPiece(d, f, q, q + k) /\ q + k \in q .. N
    BY <1>1, <1>6, <2>1, <2>2
  <2> QED
    BY <2>3
<1>7. \E m \in q .. N : IsPiece(d, f, q, m)
  BY <1>2, <1>5, <1>6 DEF Prefix
<1> QED
  BY <1>2, <1>3, <1>7

IsPart(new, items, a, k) == new = SubSeq(items, a, k)
\* The part that is written after the r bytes there are: from the server's first
\* byte on, but for those to be skipped.
LEMMA Appended ==
    ASSUME NEW f \in Names, NEW r \in 0 .. N, NEW from \in Nat, NEW skip \in Nat, from + skip = r,
           NEW m \in from .. N, NEW items, IsPiece(items, f, from, m), NEW k \in 0 .. Len(items),
           NEW old, IsPiece(old, f, 0, r), NEW new, IsPart(new, items, skip + 1, k)
    PROVE  /\ Len(new) \in Nat /\ r + Len(new) \in 0 .. N
           /\ IsPiece(old \o new, f, 0, r + Len(new))
           /\ m = N /\ k = Len(items) => r + Len(new) = N
<1>0. N \in Nat /\ r \in Nat /\ r <= N /\ m \in Nat /\ from <= m /\ m <= N
  BY WorldsAssumption
<1>1. /\ old \in Seq(Bytes) /\ Len(old) = r
      /\ \A i \in 1 .. r : old[i] = Byte(f, i)
  <2>1. /\ old \in Seq(Bytes) /\ Len(old) = r - 0
        /\ \A i \in 1 .. r - 0 : old[i] = Byte(f, 0 + i)
    BY <1>0, PieceIs
  <2> QED
    BY <1>0, <2>1
<1>2. Len(items) = m - from /\ k \in Nat /\ k <= m - from
  <2>1. Len(items) = m - from
    BY <1>0, PieceIs
  <2> QED
    BY <1>0, <2>1
<1>3. CASE skip <= k
  <2>1. IsPiece(SubSeq(items, skip + 1, k), f, from + skip, from + k)
    BY <1>0, <1>2, <1>3, PartOfPiece
  <2>2. from + k \in Nat /\ r <= from + k /\ from + k <= N
    BY <1>0, <1>2, <1>3
  <2>3. IsPiece(new, f, r, from + k)
    BY <2>1 DEF IsPart
  <2>n. PICK n : n = from + k
    OBVIOUS
  <2>a. /\ new \in Seq(Bytes) /\ Len(new) = n - r
        /\ \A i \in 1 .. n - r : new[i] = Byte(f, r + i)
    <3>1. IsPiece(new, f, r, n) /\ n \in Nat /\ r <= n
      BY <2>2, <2>3, <2>n
    <3> QED
      BY <1>0, <3>1, PieceIs
  <2>4. /\ new \in Seq(Bytes) /\ Len(new) = from + k - r
        /\ \A i \in 1 .. from + k - r : new[i] = Byte(f, r + i)
    BY <2>a, <2>n
  <2>5. PICK t : t = old \o new
    OBVIOUS
  <2>6. /\ t \in Seq(Bytes) /\ Len(t) = r + Len(new)
        /\ \A i \in 1 .. r + Len(new) : t[i] = IF i <= r THEN old[i] ELSE new[i - r]
    BY <1>1, <2>a, <2>5, ConcatProperties
  <2>7. \A i \in 1 .. r + Len(new) : t[i] = Byte(f, i)
    <3> SUFFICES ASSUME NEW i \in 1 .. r + Len(new) PROVE t[i] = Byte(f, i)
      OBVIOUS
    <3>1. CASE i <= r
      <4>1. i \in 1 .. r
        BY <1>0, <2>2, <2>4, <3>1
      <4> QED
        BY <1>1, <2>6, <3>1, <4>1
    <3>2. CASE ~ (i <= r)
      <4>1. i - r \in 1 .. from + k - r /\ r + (i - r) = i
        BY <1>0, <2>2, <2>4, <3>2
      <4>2. new[i - r] = Byte(f, r + (i - r))
        BY <2>4, <4>1
      <4> QED
        BY <2>6, <3>2, <4>1, <4>2
    <3> QED
      BY <3>1, <3>2
  <2>8. r + Len(new) \in Nat /\ r + Len(new) = from + k
    BY <1>0, <2>2, <2>4
  <2>9. n \in Nat /\ 0 <= n /\ Len(t) = n - 0 /\ \A i \in 1 .. n - 0 : t[i] = Byte(f, 0 + i)
    BY <2>2, <2>6, <2>7, <2>8, <2>n
  <2>10. IsPiece(t, f, 0, n)
    BY <2>6, <2>9, APiece
  <2> QED
    BY <1>0, <1>2, <2>2, <2>4, <2>5, <2>8, <2>10, <2>n
<1>4. CASE k < skip
  <2>1. new = <<>>
    BY <1>2, <1>4, SubSeqEmpty DEF IsPart
  <2>2. Len(new) = 0
    BY <2>1, EmptySeq
  <2>3. old \o new = old
    BY <1>1, <2>1, ConcatEmptySeq
  <2>4. IsPiece(old \o new, f, 0, r + Len(new))
    <3>1. r + Len(new) = r
      BY <1>0, <2>2
    <3> QED
      BY <2>3, <3>1
  <2>5. m = N /\ k = Len(items) => r = N
    BY <1>0, <1>2, <1>4
  <2> QED
    BY <1>0, <2>2, <2>4, <2>5
<1> QED
  BY <1>2, <1>3, <1>4
\* A listing names the files and the directories of a directory, each once.
AreEntries(s, kind, names) == s = Entries(kind, names)
LEMMA EntriesAre ==
    ASSUME NEW S, NEW names \in Seq(S), NEW kind, NEW s \in Seq(ListEntries), AreEntries(s, kind, names)
    PROVE  /\ Len(s) = Len(names)
           /\ \A i \in 1 .. Len(names) : s[i].kind = kind /\ s[i].name = names[i]
<1>1. Len(names) \in Nat /\ DOMAIN names = 1 .. Len(names) /\ Len(s) \in Nat /\ DOMAIN s = 1 .. Len(s)
  BY LenProperties
<1>2. s = [i \in 1 .. Len(names) |-> [kind |-> kind, name |-> names[i]]]
  BY <1>1 DEF AreEntries, Entries, Entry
<1>3. DOMAIN s = 1 .. Len(names)
  BY <1>2
<1> QED
  BY <1>1, <1>2, <1>3

LEMMA ListsListed ==
    ASSUME NEW d \in DOMAIN Tree, NEW hidden \in BOOLEAN
    PROVE  Lists(d, Listed(d, hidden))
<1>1. PICK h : h = IF hidden THEN Tree[d].hidden ELSE <<>>
  OBVIOUS
<1>2. PICK fs : fs = Tree[d].files
  OBVIOUS
<1>3. PICK ds : ds = Tree[d].dirs
  OBVIOUS
<1>4. h \in Seq(STRING) /\ fs \in Seq(STRING) /\ ds \in Seq(DOMAIN Tree \ {""})
  <2>1. Tree[d].hidden \in Seq(STRING) /\ fs \in Seq(STRING) /\ ds \in Seq(DOMAIN Tree \ {""})
    BY <1>2, <1>3, TreeAssumption
  <2>2. <<>> \in Seq(STRING)
    BY EmptySeq
  <2> QED
    BY <1>1, <2>1, <2>2
<1>5. /\ Len(h) \in Nat /\ Len(fs) \in Nat /\ Len(ds) \in Nat
      /\ DOMAIN h = 1 .. Len(h) /\ DOMAIN fs = 1 .. Len(fs) /\ DOMAIN ds = 1 .. Len(ds)
  BY <1>4, LenProperties
\* Names are not repeated.
<1>6. /\ \A i \in 1 .. Len(h) : h[i] \in Files(d)
      /\ \A i \in 1 .. Len(fs) : fs[i] \in Files(d)
      /\ \A i \in 1 .. Len(ds) : ds[i] \in Dirs(d)
  <2>1. \A i \in 1 .. Len(fs) : fs[i] \in Files(d)
    BY <1>2, <1>5 DEF Files
  <2>2. \A i \in 1 .. Len(ds) : ds[i] \in Dirs(d)
    BY <1>3, <1>5 DEF Dirs
  <2>3. \A i \in 1 .. Len(h) : h[i] \in Files(d)
    <3>1. CASE hidden
      BY <1>1, <1>5, <3>1 DEF Files
    <3>2. CASE ~hidden
      <4>1. Len(h) = 0
        BY <1>1, <3>2, EmptySeq
      <4> QED
        BY <4>1
    <3> QED
      BY <3>1, <3>2
  <2> QED
    BY <2>1, <2>2, <2>3
<1>7. PICK hf : hf = h \o fs
  OBVIOUS
<1>8. /\ hf \in Seq(STRING) /\ Len(hf) = Len(h) + Len(fs)
      /\ \A i \in 1 .. Len(h) + Len(fs) : hf[i] = IF i <= Len(h) THEN h[i] ELSE fs[i - Len(h)]
  BY <1>4, <1>7, ConcatProperties
<1>9. Once(hf) /\ Once(ds)
  <2>0. Once(Tree[d].hidden \o fs) /\ Once(ds)
    BY <1>2, <1>3, NamesAssumption DEF InOnePlace
  <2>1. CASE hidden
    BY <1>1, <1>7, <2>0, <2>1
  <2>2. CASE ~hidden
    <3>1. hf = fs
      BY <1>1, <1>4, <1>7, <2>2, ConcatEmptySeq
    <3>2. PICK k : k = Tree[d].hidden
      OBVIOUS
    <3>3. k \in Seq(STRING) /\ Len(k) \in Nat
      BY <3>2, TreeAssumption, LenProperties
    <3>4. PICK g : g = k \o fs
      OBVIOUS
    <3>5. /\ g \in Seq(STRING) /\ Len(g) = Len(k) + Len(fs)
          /\ \A i \in 1 .. Len(k) + Len(fs) : g[i] = IF i <= Len(k) THEN k[i] ELSE fs[i - Len(k)]
      BY <1>4, <3>3, <3>4, ConcatProperties
    <3>6. DOMAIN g = 1 .. Len(k) + Len(fs)
      BY <3>5, LenProperties
    <3>7. Once(g)
      BY <2>0, <3>2, <3>4
    <3>8. ASSUME NEW i \in 1 .. Len(fs), NEW j \in 1 .. Len(fs), fs[i] = fs[j] PROVE i = j
      <4>1. /\ i + Len(k) \in DOMAIN g /\ j + Len(k) \in DOMAIN g
            /\ g[i + Len(k)] = fs[i] /\ g[j + Len(k)] = fs[j]
        <5>1. /\ i + Len(k) \in 1 .. Len(k) + Len(fs) /\ j + Len(k) \in 1 .. Len(k) + Len(fs)
              /\ ~ (i + Len(k) <= Len(k)) /\ ~ (j + Len(k) <= Len(k))
              /\ (i + Len(k)) - Len(k) = i /\ (j + Len(k)) - Len(k) = j
          BY <1>5, <3>3
        <5> QED
          BY <3>5, <3>6, <5>1
      <4>2. i + Len(k) = j + Len(k)
        BY <3>7, <3>8, <4>1 DEF Once
      <4> QED
        BY <1>5, <3>3, <4>2
    <3>9. Once(fs)
      BY <1>5, <3>8 DEF Once
    <3> QED
      BY <2>0, <3>1, <3>9
  <2> QED
    BY <2>1, <2>2
\* Their entries.
<1>10. PICK eh : eh = Entries("file", h)
  OBVIOUS
<1>11. PICK ef : ef = Entries("file", fs)
  OBVIOUS
<1>12. PICK ed : ed = Entries("dir", ds)
  OBVIOUS
<1>13. /\ eh \in Seq(ListEntries) /\ ef \in Seq(ListEntries) /\ ed \in Seq(ListEntries)
       /\ Len(eh) = Len(h) /\ Len(ef) = Len(fs) /\ Len(ed) = Len(ds)
       /\ \A i \in 1 .. Len(h) : eh[i].kind = "file" /\ eh[i].name = h[i]
       /\ \A i \in 1 .. Len(fs) : ef[i].kind = "file" /\ ef[i].name = fs[i]
       /\ \A i \in 1 .. Len(ds) : ed[i].kind = "dir" /\ ed[i].name = ds[i]
  <2>1. /\ \A n \in STRING : Entry("file", n) \in ListEntries
        /\ \A n \in DOMAIN Tree \ {""} : Entry("dir", n) \in ListEntries
    BY DEF Entry, ListEntries, FileEntries, DirEntries
  <2>2. eh \in Seq(ListEntries) /\ ef \in Seq(ListEntries) /\ ed \in Seq(ListEntries)
    BY <1>4, <1>10, <1>11, <1>12, <2>1, EntriesOf
  <2>3. AreEntries(eh, "file", h) /\ AreEntries(ef, "file", fs) /\ AreEntries(ed, "dir", ds)
    BY <1>10, <1>11, <1>12 DEF AreEntries
  <2>4. Len(eh) = Len(h) /\ \A i \in 1 .. Len(h) : eh[i].kind = "file" /\ eh[i].name = h[i]
    BY <1>4, <2>2, <2>3, EntriesAre
  <2>5. Len(ef) = Len(fs) /\ \A i \in 1 .. Len(fs) : ef[i].kind = "file" /\ ef[i].name = fs[i]
    BY <1>4, <2>2, <2>3, EntriesAre
  <2>6. Len(ed) = Len(ds) /\ \A i \in 1 .. Len(ds) : ed[i].kind = "dir" /\ ed[i].name = ds[i]
    BY <1>4, <2>2, <2>3, EntriesAre
  <2> QED
    BY <2>2, <2>4, <2>5, <2>6
<1>14. PICK a : a = eh \o ef
  OBVIOUS
<1>15. /\ a \in Seq(ListEntries) /\ Len(a) = Len(hf)
       /\ \A i \in 1 .. Len(hf) : a[i].kind = "file" /\ a[i].name = hf[i] /\ hf[i] \in Files(d)
  <2>1. /\ a \in Seq(ListEntries) /\ Len(a) = Len(h) + Len(fs)
        /\ \A i \in 1 .. Len(h) + Len(fs) : a[i] = IF i <= Len(h) THEN eh[i] ELSE ef[i - Len(h)]
    <3>0. eh \in Seq(ListEntries) /\ ef \in Seq(ListEntries)
      BY <1>13
    <3>1. /\ a \in Seq(ListEntries) /\ Len(a) = Len(eh) + Len(ef)
          /\ \A i \in 1 .. Len(eh) + Len(ef) : a[i] = IF i <= Len(eh) THEN eh[i] ELSE ef[i - Len(eh)]
      BY <1>14, <3>0, ConcatProperties
    <3> QED
      BY <1>13, <3>1
  <2>2. \A i \in 1 .. Len(h) + Len(fs) : a[i].kind = "file" /\ a[i].name = hf[i] /\ hf[i] \in Files(d)
    <3> TAKE i \in 1 .. Len(h) + Len(fs)
    <3>1. CASE i <= Len(h)
      <4>1. i \in 1 .. Len(h)
        BY <1>5, <3>1
      <4> QED
        BY <1>6, <1>8, <1>13, <2>1, <3>1, <4>1
    <3>2. CASE ~ (i <= Len(h))
      <4>1. i - Len(h) \in 1 .. Len(fs)
        BY <1>5, <3>2
      <4> QED
        BY <1>6, <1>8, <1>13, <2>1, <3>2, <4>1
    <3> QED
      BY <3>1, <3>2
  <2> QED
    BY <1>8, <2>1, <2>2
<1>16. PICK l : l = a \o ed
  OBVIOUS
<1>17. l = Listed(d, hidden)
  <2>1. Entries("file", <<>>) = <<>>
    BY DEF Entries
  <2>2. eh = IF hidden THEN Entries("file", Tree[d].hidden) ELSE <<>>
    BY <1>1, <1>10, <2>1
  <2> QED
    BY <1>2, <1>3, <1>11, <1>12, <1>14, <1>16, <2>2 DEF Listed
<1>18. Len(hf) \in Nat /\ DOMAIN hf = 1 .. Len(hf)
  BY <1>8, LenProperties
<1>19. /\ l \in Seq(ListEntries) /\ Len(l) = Len(hf) + Len(ds)
       /\ \A i \in 1 .. Len(hf) + Len(ds) : l[i] = IF i <= Len(hf) THEN a[i] ELSE ed[i - Len(hf)]
  <2>0. a \in Seq(ListEntries) /\ ed \in Seq(ListEntries)
    BY <1>13, <1>15
  <2>1. /\ l \in Seq(ListEntries) /\ Len(l) = Len(a) + Len(ed)
        /\ \A i \in 1 .. Len(a) + Len(ed) : l[i] = IF i <= Len(a) THEN a[i] ELSE ed[i - Len(a)]
    BY <1>16, <2>0, ConcatProperties
  <2> QED
    BY <1>13, <1>15, <2>1
<1>20. DOMAIN l = 1 .. Len(hf) + Len(ds)
  BY <1>19, LenProperties
<1>21. ASSUME NEW i \in 1 .. Len(hf) + Len(ds)
       PROVE  \/ i \in 1 .. Len(hf) /\ l[i].kind = "file" /\ l[i].name = hf[i] /\ hf[i] \in Files(d)
              \/ /\ ~ (i <= Len(hf)) /\ i - Len(hf) \in 1 .. Len(ds) /\ l[i].kind = "dir"
                 /\ l[i].name = ds[i - Len(hf)] /\ ds[i - Len(hf)] \in Dirs(d)
  <2>1. CASE i <= Len(hf)
    <3>1. i \in 1 .. Len(hf) /\ l[i] = a[i]
      BY <1>18, <1>19, <2>1
    <3> QED
      BY <1>15, <3>1
  <2>2. CASE ~ (i <= Len(hf))
    <3>1. i - Len(hf) \in 1 .. Len(ds) /\ l[i] = ed[i - Len(hf)]
      BY <1>5, <1>18, <1>19, <2>2
    <3> QED
      BY <1>6, <1>13, <2>2, <3>1
  <2> QED
    BY <2>1, <2>2
<1>22. ASSUME NEW i \in 1 .. Len(hf) + Len(ds), NEW j \in 1 .. Len(hf) + Len(ds),
              l[i].kind = l[j].kind, l[i].name = l[j].name
       PROVE  i = j
  <2>1. CASE i <= Len(hf) /\ j <= Len(hf)
    <3>1. i \in 1 .. Len(hf) /\ j \in 1 .. Len(hf) /\ hf[i] = hf[j]
      BY <1>21, <1>22, <2>1
    <3> QED
      BY <1>9, <1>18, <3>1 DEF Once
  <2>2. CASE ~ (i <= Len(hf)) /\ ~ (j <= Len(hf))
    <3>1. /\ i - Len(hf) \in 1 .. Len(ds) /\ j - Len(hf) \in 1 .. Len(ds)
          /\ ds[i - Len(hf)] = ds[j - Len(hf)]
      BY <1>18, <1>21, <1>22, <2>2
    <3>2. i - Len(hf) = j - Len(hf)
      BY <1>5, <1>9, <3>1 DEF Once
    <3> QED
      BY <1>18, <3>2
  <2> QED
    BY <1>18, <1>21, <1>22, <2>1, <2>2
<1>23. \A i \in 1 .. Len(hf) + Len(ds) : l[i].name \in IF l[i].kind = "file" THEN Files(d) ELSE Dirs(d)
  BY <1>21
<1>24. Lists(d, l)
  BY <1>20, <1>22, <1>23 DEF Lists
<1> QED
  BY <1>17, <1>24

\* A part of a listing.
LEMMA ListsPart ==
    ASSUME NEW d, NEW l \in Seq(ListEntries), Lists(d, l), NEW a \in Nat \ {0}, NEW k \in 0 .. Len(l),
           NEW p, IsPart(p, l, a, k)
    PROVE  Lists(d, p)
<1>1. Len(l) \in Nat /\ DOMAIN l = 1 .. Len(l)
  BY LenProperties
<1>2. /\ DOMAIN p = 1 .. k - a + 1
      /\ \A i \in 1 .. k - a + 1 : p[i] = l[a + i - 1] /\ a + i - 1 \in 1 .. Len(l)
  <2>1. \A i \in a .. k : l[i] \in ListEntries
    BY ElementOfSeq
  <2>2. a \in Int /\ k \in Int
    BY <1>1
  <2>3. /\ p \in Seq(ListEntries) /\ Len(p) = IF a <= k THEN k - a + 1 ELSE 0
        /\ \A i \in 1 .. k - a + 1 : p[i] = l[a + i - 1]
    BY <2>1, <2>2, SubSeqProperties DEF IsPart
  <2>4. DOMAIN p = 1 .. Len(p)
    BY <2>3, LenProperties
  <2>5. 1 .. Len(p) = 1 .. k - a + 1
    BY <1>1, <2>3
  <2>6. \A i \in 1 .. k - a + 1 : a + i - 1 \in 1 .. Len(l)
    BY <1>1
  <2> QED
    BY <2>3, <2>4, <2>5, <2>6
<1>3. \A i \in DOMAIN p : p[i].name \in IF p[i].kind = "file" THEN Files(d) ELSE Dirs(d)
  <2> SUFFICES ASSUME NEW i \in 1 .. k - a + 1
               PROVE  p[i].name \in IF p[i].kind = "file" THEN Files(d) ELSE Dirs(d)
    BY <1>2
  <2>1. PICK j \in 1 .. Len(l) : p[i] = l[j]
    BY <1>2
  <2> QED
    BY <1>1, <2>1 DEF Lists
<1>4. ASSUME NEW i \in DOMAIN p, NEW j \in DOMAIN p, p[i].kind = p[j].kind, p[i].name = p[j].name
      PROVE  i = j
  <2>1. i \in 1 .. k - a + 1 /\ j \in 1 .. k - a + 1
    BY <1>2
  <2>2. PICK m \in 1 .. Len(l), n \in 1 .. Len(l) :
           p[i] = l[m] /\ p[j] = l[n] /\ m = a + i - 1 /\ n = a + j - 1
    BY <1>2, <2>1
  <2>3. m = n
    BY <1>1, <1>4, <2>2 DEF Lists
  <2> QED
    BY <1>1, <2>1, <2>2, <2>3
<1> QED
  BY <1>3, <1>4 DEF Lists

LEMMA ListsNothing == \A d : Lists(d, <<>>)
BY DEF Lists

LEMMA ListsPrefix ==
    ASSUME NEW d, NEW l \in Seq(ListEntries), Lists(d, l), NEW p, Prefix(p, l)
    PROVE  Lists(d, p)
<1>1. ASSUME NEW k \in 0 .. Len(l), p = SubSeq(l, 1, k) PROVE Lists(d, p)
  <2>1. IsPart(p, l, 1, k)
    BY <1>1 DEF IsPart
  <2>2. 1 \in Nat \ {0}
    OBVIOUS
  <2> QED
    BY <2>1, <2>2, ListsPart
<1> QED
  BY <1>1 DEF Prefix

\* The entries after the first are others.
LEMMA ListsTail ==
    ASSUME NEW d, NEW l \in Seq(ListEntries), l # <<>>, Lists(d, l),
           NEW t, t = Tail(l)
    PROVE  /\ Lists(d, t)
           /\ Head(l).name \in IF Head(l).kind = "file" THEN Files(d) ELSE Dirs(d)
           /\ Never(Head(l).kind, t, {Head(l).name})
           /\ \A kind, S : Never(kind, l, S) =>
                 Never(kind, t, S) /\ (Head(l).kind = kind => Head(l).name \notin S)
<1>0. Len(l) \in Nat /\ DOMAIN l = 1 .. Len(l) /\ Len(l) >= 1
  BY LenProperties, EmptySeq
<1>1. /\ t \in Seq(ListEntries) /\ Len(t) = Len(l) - 1
      /\ \A i \in 1 .. Len(l) - 1 : t[i] = l[i + 1]
  BY HeadTailProperties
<1>2. DOMAIN t = 1 .. Len(l) - 1 /\ Head(l) = l[1] /\ 1 \in DOMAIN l
  BY <1>0, <1>1, LenProperties
<1>3. \A i \in 1 .. Len(l) - 1 : i + 1 \in 1 .. Len(l) /\ i + 1 # 1
  BY <1>0
<1>4. Lists(d, t)
  <2>1. IsPart(t, l, 2, Len(l))
    BY TailIsSubSeq DEF IsPart
  <2>2. 2 \in Nat \ {0} /\ Len(l) \in 0 .. Len(l)
    BY <1>0
  <2> QED
    BY <2>1, <2>2, ListsPart
<1>5. l[1].name \in IF l[1].kind = "file" THEN Files(d) ELSE Dirs(d)
  BY <1>2 DEF Lists
<1>6. Never(l[1].kind, t, {l[1].name})
  <2> SUFFICES ASSUME NEW i \in 1 .. Len(l) - 1, t[i].kind = l[1].kind PROVE t[i].name # l[1].name
    BY <1>2 DEF Never
  <2>1. PICK j \in 1 .. Len(l) : j # 1 /\ t[i] = l[j]
    BY <1>1, <1>3
  <2> QED
    BY <1>0, <1>2, <2>1 DEF Lists
<1>7. ASSUME NEW kind, NEW S, Never(kind, l, S)
      PROVE  Never(kind, t, S) /\ (l[1].kind = kind => l[1].name \notin S)
  <2>1. \A i \in 1 .. Len(l) - 1 : t[i].kind = kind => t[i].name \notin S
    <3> TAKE i \in 1 .. Len(l) - 1
    <3>1. PICK j \in 1 .. Len(l) : t[i] = l[j]
      BY <1>1, <1>3
    <3> QED
      BY <1>0, <1>7, <3>1 DEF Never
  <2> QED
    BY <1>2, <1>7, <2>1 DEF Never
<1> QED
  BY <1>2, <1>4, <1>5, <1>6, <1>7
(***************************************************************************)
(* What a step of the dialogue leaves alone                                *)
(***************************************************************************)
Alike == SameJob /\ con'.own = con.own /\ UNCHANGED <<world, stack, retrieved>>
Walked == \E V \in SUBSET DOMAIN Tree : WalkOK(V)

LEMMA WalkKept ==
    ASSUME Walked, Alike
    PROVE  Walked'
<1>1. PICK V \in SUBSET DOMAIN Tree : WalkOK(V)
  BY DEF Walked
<1>2. WalkOK(V)'
  <2>1. /\ UNCHANGED <<world, stack, retrieved>> /\ con'.own = con.own /\ SameJob
        /\ Top' = Top
    BY DEF Alike, Top
  <2> QED
    BY <1>1, <2>1 DEF WalkOK, SameJob
<1> QED
  BY <1>2 DEF Walked

LEMMA DiskKept ==
    ASSUME DiskSaved, WholeKept, UNCHANGED <<world, disk, retrieved>>
    PROVE  DiskSaved' /\ WholeKept' /\ \A f, n : Begins(f, n) => Begins(f, n)'
BY DEF DiskSaved, WholeKept, Begins

\* The next command is sent.
LEMMA GoingOn ==
    ASSUME SavingInv, NEW c, Sending(c), c \notin Data, UNCHANGED <<stage, disk, listing>>, Alike,
           NEW d, Head(plan') = d, d \notin {"read", "done"}, RestOK', DataOK',
           job'.restval = job.restval, job'.qtyread = job.qtyread
    PROVE  SavingInv'
<1>1. /\ stage = "getftp" /\ stage' = "getftp" /\ Head(plan) = c /\ c # "done"
      /\ SameJob /\ UNCHANGED <<world, stack, retrieved, disk, listing>>
  BY DEF Sending, Data, Alike
<1>2. DiskSaved' /\ WholeKept' /\ \A f, n : Begins(f, n) => Begins(f, n)'
  BY <1>1, DiskKept DEF SavingInv, Saving
<1>3. FileOK'
  <2>1. FileOK
    BY DEF SavingInv, Saving
  <2>2. job.op = "RETR" => job.of \notin retrieved /\ OnDisk(job.restval) /\ job.qtyread = job.restval
    BY <1>1, <2>1 DEF FileOK, At
  <2>3. job'.op = "RETR" =>
           job'.of \notin retrieved' /\ OnDisk(job.restval)' /\ job'.qtyread = job'.restval
    BY <1>1, <1>2, <2>2 DEF SameJob, OnDisk
  <2>4. ~At("done")' /\ ~At("read")'
    BY DEF At
  <2> QED
    BY <1>1, <2>3, <2>4 DEF FileOK
<1>4. ListingOK'
  <2>1. ~At("read")'
    BY DEF At
  <2> QED
    BY <1>1, <2>1 DEF SavingInv, Saving, ListingOK, SameJob, Lists
<1>5. Walked'
  BY WalkKept DEF SavingInv, Walked
<1> QED
  BY <1>2, <1>3, <1>4, <1>5 DEF SavingInv, Saving, Walked

\* getftp returns.
LEMMA GivingUp ==
    ASSUME SavingInv, stage = "getftp", stage' = "outcome", Alike, UNCHANGED <<disk, listing>>,
           session'.rest = 0, job'.qtyread = job.qtyread,
           job.op = "RETR" /\ job'.err \notin Fatal =>
              OnDisk(job.qtyread) /\ (job'.err = "RETRFINISHED" => job.qtyread = N)
    PROVE  SavingInv'
<1>1. SameJob /\ UNCHANGED <<world, stack, retrieved, disk, listing>>
  BY DEF Alike
<1>2. DiskSaved' /\ WholeKept' /\ \A f, n : Begins(f, n) => Begins(f, n)'
  BY <1>1, DiskKept DEF SavingInv, Saving
<1>3. \A c : ~At(c)'
  BY DEF At
<1>4. FileOK'
  <2>1. job.op = "RETR" => job.of \notin retrieved
    BY DEF SavingInv, Saving, FileOK
  <2>2. OnDisk(job.qtyread) => OnDisk(job.qtyread)'
    BY <1>1, <1>2 DEF OnDisk, SameJob
  <2> QED
    BY <1>1, <1>3, <2>1, <2>2 DEF FileOK, SameJob
<1>5. RestOK' /\ DataOK'
  BY <1>3 DEF RestOK, DataOK
<1>6. ListingOK'
  BY <1>1, <1>3 DEF SavingInv, Saving, ListingOK, SameJob, Lists
<1>7. Walked'
  BY WalkKept DEF SavingInv, Walked
<1> QED
  BY <1>2, <1>4, <1>5, <1>6, <1>7 DEF SavingInv, Saving, Walked

\* getftp returns before there was any data.
LEMMA Undone ==
    ASSUME Inv, SavingInv, NEW c, Sending(c), c # "done", UNCHANGED Locals, NEW err,
           job' = [job EXCEPT !.err = err], stage' = "outcome", con'.own = con.own, session'.rest = 0,
           err = "RETRFINISHED" => job.restval = N
    PROVE  SavingInv'
<1>1. /\ stage = "getftp" /\ Head(plan) = c /\ job \in Jobs
      /\ UNCHANGED <<world, stack, retrieved, disk, listing>>
  BY Commanded DEF Locals
<1>2. SameJob /\ job'.qtyread = job.qtyread /\ job'.err = err
  BY <1>1 DEF SameJob, Jobs
<1>3. Alike
  BY <1>1, <1>2 DEF Alike
<1>4. job.op = "RETR" => OnDisk(job.restval) /\ job.qtyread = job.restval
  BY <1>1 DEF SavingInv, Saving, FileOK, At
<1> QED
  BY <1>1, <1>2, <1>3, <1>4, GivingUp

LEMMA HangingUp ==
    ASSUME Inv, SavingInv, NEW c, Sending(c), c # "done", UNCHANGED Locals, NEW err, CloseReturn(err),
           err = "RETRFINISHED" => job.restval = N
    PROVE  SavingInv'
<1>1. /\ job' = [job EXCEPT !.err = err] /\ stage' = "outcome"
      /\ con' = [con EXCEPT !.alive = FALSE] /\ session' = Session
  BY DEF CloseReturn
<1>2. con'.own = con.own /\ session'.rest = 0
  <2>1. con \in Cons
    BY DEF Inv, TypeOK
  <2> QED
    BY <1>1, <2>1 DEF Session, Cons
<1> QED
  BY <1>1, <1>2, Undone

\* Where REST was not sent, the server begins with the first byte.
LEMMA NoRest ==
    ASSUME SavingInv, NEW c, Sending(c), c # "retr"
    PROVE  session.rest = 0
BY DEF SavingInv, Saving, RestOK, At, Sending

\* The data does not matter for these commands.
LEMMA NoDataYet ==
    ASSUME NEW d, Head(plan') = d, d \notin {"retr", "list", "open", "read"}, session'.rest = 0
    PROVE  RestOK' /\ DataOK'
BY DEF RestOK, DataOK, At

LEMMA LoginSaves == Inv /\ SavingInv /\ Login => SavingInv'
<1> SUFFICES ASSUME Inv, SavingInv, Login PROVE SavingInv'
  OBVIOUS
<1>0. Sending("login") /\ UNCHANGED Locals /\ "login" \notin Data
  BY DEF Login, Data
<1>1. ASSUME NEW err \in {"HOSTERR", "CONERROR", "FTPRERR", "FTPLOGINC"}, CloseReturn(err)
      PROVE  SavingInv'
  BY <1>0, <1>1, HangingUp
<1>2. ASSUME session' = Session,
             con' = [con EXCEPT !.alive = TRUE,
                          !.checked = @ \/ world.system # "unknown",
                          !.avoid_a = @ \/ world.system = "list",
                          !.avoid_list = @ \/ world.system = "list_a"],
             plan' = Settled, UNCHANGED <<stage, job>>
      PROVE  SavingInv'
  <2>1. con \in Cons /\ job.op \in {"LIST", "RETR"}
    BY <1>0, Commanded
  <2>2. con'.alive /\ con'.own = con.own /\ (con.avoid_a => con'.avoid_a)
    <3>1. PICK a \in BOOLEAN, b \in BOOLEAN, c \in BOOLEAN :
             /\ a = (con.checked \/ world.system # "unknown")
             /\ b = (con.avoid_a \/ world.system = "list")
             /\ c = (con.avoid_list \/ world.system = "list_a")
      OBVIOUS
    <3>2. con' = [con EXCEPT !.alive = TRUE, !.checked = a, !.avoid_a = b, !.avoid_list = c]
      BY <1>2, <3>1
    <3>3. con'.alive /\ con'.own = con.own /\ con'.avoid_a = b
      BY <2>1, <3>2 DEF Cons
    <3> QED
      BY <3>1, <3>3
  <2>3. UNCHANGED <<world, stack, disk, listing, retrieved, stage, job>>
    BY <1>0, <1>2 DEF Locals
  <2>4. Head(plan') \in After("login")
    BY <1>0, <1>2, <2>1, <2>2, <2>3, LoggedIn DEF Inv
  <2>5. PICK d : Head(plan') = d
    OBVIOUS
  <2>6. d \in {"cwd", "size", "pasv", "port"}
    BY <2>4, <2>5 DEF After, Follows, Mode, Ports
  <2>7. session'.rest = 0
    BY <1>2 DEF Session
  <2>8. RestOK' /\ DataOK'
    BY <2>5, <2>6, <2>7, NoDataYet
  <2>9. Alike
    BY <2>2, <2>3 DEF Alike, SameJob
  <2> QED
    BY <1>0, <2>3, <2>5, <2>6, <2>8, <2>9, GoingOn
<1> QED
  BY <1>1, <1>2 DEF Login, Settled

LEMMA CwdSaves == Inv /\ SavingInv /\ Cwd => SavingInv'
<1> SUFFICES ASSUME Inv, SavingInv, Cwd PROVE SavingInv'
  OBVIOUS
<1>0. Sending("cwd") /\ UNCHANGED Locals /\ "cwd" \notin Data
  BY DEF Cwd, Data
<1>1. /\ stage = "getftp" /\ plan # <<>> /\ Head(plan) = "cwd"
      /\ Pending \in Seq(Codes) /\ session \in Sessions({session.data}) /\ job \in Jobs
  BY <1>0, Commanded
<1>2. ASSUME NEW err \in {"FTPRERR", "FTPNSFOD"}, CloseReturn(err) PROVE SavingInv'
  BY <1>0, <1>2, HangingUp
<1>3. ASSUME NEW r \in {250, 450, 550}, NEW s,
             s = Answer([session EXCEPT !.cwd = IF r = 250 THEN job.dir ELSE @], r),
             Ask(s), Proceed(Tail(plan)), UNCHANGED job
      PROVE  SavingInv'
  <2> DEFINE s0 == [session EXCEPT !.cwd = IF r = 250 THEN job.dir ELSE session.cwd]
  <2>1. Ask(Answer(s0, r)) /\ r \in Codes
    BY <1>3 DEF Codes
  <2>2. s0 \in Sessions({session.data}) /\ s0.replies = Pending /\ s0.rest = session.rest
    BY <1>1 DEF Sessions, Pending, Jobs
  <2> HIDE DEF s0
  <2>3. session'.rest = 0
    <3>1. session'.rest = s0.rest
      BY <1>1, <2>1, <2>2, Told
    <3>2. session.rest = 0
      BY <1>0, NoRest
    <3> QED
      BY <2>2, <3>1, <3>2
  <2>4. plan' = Tail(plan) /\ UNCHANGED <<world, stage, stack, disk, listing, retrieved, con, job>>
    BY <1>0, <1>3 DEF Proceed, Locals
  <2>5. Head(plan') \in After("cwd")
    BY <1>1, <2>4, PlanTail DEF Inv, Transferring, Data
  <2>6. PICK d : Head(plan') = d
    OBVIOUS
  <2>7. d \in {"size", "pasv", "port"}
    BY <2>5, <2>6 DEF After, Follows, Mode, Ports
  <2>8. RestOK' /\ DataOK'
    BY <2>3, <2>6, <2>7, NoDataYet
  <2>9. Alike
    BY <2>4 DEF Alike, SameJob
  <2> QED
    BY <1>0, <2>4, <2>6, <2>7, <2>8, <2>9, GoingOn
<1> QED
  BY <1>2, <1>3 DEF Cwd, Broken

LEMMA SizeSaves == Inv /\ SavingInv /\ Size => SavingInv'
<1> SUFFICES ASSUME Inv, SavingInv, Size PROVE SavingInv'
  OBVIOUS
<1>0. Sending("size") /\ UNCHANGED Locals /\ "size" \notin Data
  BY DEF Size, Data
<1>1. /\ stage = "getftp" /\ plan # <<>> /\ Head(plan) = "size"
      /\ Pending \in Seq(Codes) /\ session \in Sessions({session.data})
  BY <1>0, Commanded
<1>2. CASE Broken
  BY <1>0, <1>2, HangingUp DEF Broken
<1>3. ASSUME job.restval = N, CloseReturn("RETRFINISHED") PROVE SavingInv'
  BY <1>0, <1>3, HangingUp
<1>4. ASSUME NEW r \in {213, 550}, Ask(Answer(session, r)), Proceed(Tail(plan)), UNCHANGED job
      PROVE  SavingInv'
  <2>1. r \in Codes /\ session.replies = Pending
    BY DEF Codes, Pending
  <2>2. session'.rest = 0
    <3>1. PICK s \in Sessions({session.data}) : s = session
      BY <1>1
    <3>2. Ask(Answer(s, r)) /\ s.replies = Pending
      BY <1>4, <2>1, <3>1
    <3>3. session'.rest = s.rest
      BY <1>1, <2>1, <3>2, Told
    <3> QED
      BY <1>0, <3>1, <3>3, NoRest
  <2>3. plan' = Tail(plan) /\ UNCHANGED <<world, stage, stack, disk, listing, retrieved, con, job>>
    BY <1>0, <1>4 DEF Proceed, Locals
  <2>4. Head(plan') \in After("size")
    BY <1>1, <2>3, PlanTail DEF Inv, Transferring, Data
  <2>5. PICK d : Head(plan') = d
    OBVIOUS
  <2>6. d \in {"pasv", "port"}
    BY <2>4, <2>5 DEF After, Follows, Mode, Ports
  <2>7. RestOK' /\ DataOK'
    BY <2>2, <2>5, <2>6, NoDataYet
  <2>8. Alike
    BY <2>3 DEF Alike, SameJob
  <2> QED
    BY <1>0, <2>3, <2>5, <2>6, <2>7, <2>8, GoingOn
<1> QED
  BY <1>2, <1>3, <1>4 DEF Size

\* The command for the transfer is next, with nothing before it for REST.
LEMMA Ready ==
    ASSUME job \in Jobs, NEW c \in Ports, NEW d, d \in After(c), Fits(d)', SameJob, job'.restval = job.restval,
           Head(plan') = d, session'.rest = 0, ~First({1})'
    PROVE  d \notin {"read", "done"} /\ RestOK' /\ DataOK'
<1>1. d \in {"rest"} \cup Transferring
  BY DEF After, Follows, Ports, Transferring
<1>2. d = "retr" => job'.restval = 0
  <2> SUFFICES ASSUME d = "retr" PROVE job'.restval = 0
    OBVIOUS
  <2>1. job.op = "RETR"
    BY DEF Fits, SameJob
  <2>2. ~ (job.restval > 0) /\ job.restval \in Nat
    BY <2>1 DEF After, Follows, Ports, Jobs
  <2> QED
    BY <2>2
<1>3. d = "retr" => From' = 0
  BY <1>2 DEF From
<1>4. RestOK'
  BY <1>3 DEF RestOK, At
<1>5. DataOK'
  BY <1>1 DEF DataOK, At, Transferring
<1> QED
  BY <1>1, <1>4, <1>5 DEF Transferring

LEMMA PasvSaves == Inv /\ PasvKnown /\ SavingInv /\ Pasv => SavingInv'
<1> SUFFICES ASSUME Inv, PasvKnown, SavingInv, Pasv PROVE SavingInv'
  OBVIOUS
<1>a. Sending("pasv") /\ UNCHANGED Locals
  BY DEF Pasv
<1>b. "pasv" \notin Data /\ "pasv" \in Ports
  BY DEF Data, Ports
<1>0. Sending("pasv") /\ UNCHANGED Locals /\ "pasv" \notin Data /\ "pasv" \in Ports
  BY <1>a, <1>b
<1>1. /\ stage = "getftp" /\ plan # <<>> /\ Head(plan) = "pasv" /\ con.alive
      /\ plan \in Seq(Known) /\ Fits("pasv") /\ Pending \in Seq(Codes)
      /\ session \in Sessions({session.data}) /\ job \in Jobs /\ con \in Cons
  BY <1>a, Commanded
<1>2. CASE Broken
  BY <1>2, <1>0, HangingUp DEF Broken
<1> DEFINE r == IF world.pasv THEN 227 ELSE 502
           s0 == [session EXCEPT !.open = world.pasv]
<1>3. world \in Worlds /\ world.pasv \in BOOLEAN /\ world.ftp_pasv
  BY <1>1, WorldsAssumption DEF Inv, TypeOK, Fits
<1>4. r \in Codes /\ s0 \in Sessions({session.data}) /\ s0.replies = Pending /\ s0.rest = session.rest
  BY <1>1, <1>3 DEF Codes, Sessions, Pending
<1>5. r = IF world.pasv THEN 227 ELSE 502
  OBVIOUS
<1> HIDE DEF r, s0
<1>6. Heard(Answer(s0, r)) = IF Pending = <<>> THEN r ELSE Pending[1]
  BY <1>1, <1>4, Told
<1>7. Ask(Answer(s0, r)) => session'.rest = s0.rest /\ Shifted(r)
  BY <1>1, <1>4, Told
<1>8. Ask(Answer(s0, r)) => session'.rest = 0
  BY <1>0, <1>4, <1>7, NoRest
<1>9. IF world.pasv THEN Pending = <<>> ELSE Pending # <<>> => Pending[1] # 227
  BY <1>1, <1>3 DEF Inv, DialogueOK, Left, Idle, Data
<1>10. Heard(Answer(s0, r)) = 227 <=> world.pasv
  BY <1>5, <1>6, <1>9
<1>11. ASSUME world.pasv, Ask(Answer(s0, r)), Proceed(Tail(plan)), job' = [job EXCEPT !.pasv = TRUE]
       PROVE  SavingInv'
  <2>1. plan' = Tail(plan) /\ UNCHANGED <<world, stage, stack, disk, listing, retrieved, con>>
    BY <1>0, <1>11 DEF Proceed, Locals
  <2>2. SameJob /\ job'.restval = job.restval /\ job'.qtyread = job.qtyread
    BY <1>1, <1>11 DEF SameJob, Jobs
  <2>3. Head(plan') \in After("pasv") /\ Fits(Head(plan))'
    BY <1>1, <2>1, <2>2, PlanTail DEF Inv, Transferring, Data, SameJob
  <2>4. PICK d : Head(plan') = d /\ d \in After("pasv") /\ Fits(d)'
    BY <2>3
  <2>5. ~First({1})'
    <3>1. Pending' = <<>>
      BY <1>1, <1>7, <1>9, <1>11, Shifting
    <3> QED
      BY <3>1 DEF First
  <2>6. d \notin {"read", "done"} /\ RestOK' /\ DataOK'
    BY <1>0, <1>1, <1>8, <1>11, <2>2, <2>4, <2>5, Ready
  <2>7. Alike
    BY <2>1, <2>2 DEF Alike
  <2> QED
    BY <1>0, <2>1, <2>2, <2>4, <2>6, <2>7, GoingOn
<1>12. ASSUME ~world.pasv, Ask(Answer(s0, r)), Proceed(<<"port">> \o Tail(plan)), UNCHANGED job
       PROVE  SavingInv'
  <2>1. plan' = <<"port">> \o Tail(plan)
        /\ UNCHANGED <<world, stage, stack, disk, listing, retrieved, con, job>>
    BY <1>0, <1>12 DEF Proceed, Locals
  <2>2. Head(plan') = "port"
    BY <1>0, <1>12, <2>1, FallBack
  <2>3. RestOK' /\ DataOK'
    BY <1>8, <1>12, <2>2, NoDataYet
  <2>4. Alike
    BY <2>1 DEF Alike, SameJob
  <2> QED
    BY <1>0, <2>1, <2>2, <2>3, <2>4, GoingOn
<1>13. ASSUME NEW err \in {"CONERROR", "CONIMPOSSIBLE"}, CloseReturn(err) PROVE SavingInv'
  BY <1>13, <1>0, HangingUp
<1>14. ~world.pasv => ~job.pasv
  BY DEF PasvKnown
<1> QED
  BY <1>2, <1>10, <1>11, <1>12, <1>13, <1>14 DEF Pasv, r, s0

LEMMA PortSaves == Inv /\ SavingInv /\ Port => SavingInv'
<1> SUFFICES ASSUME Inv, SavingInv, Port PROVE SavingInv'
  OBVIOUS
<1>a. Sending("port") /\ UNCHANGED Locals
  BY DEF Port
<1>b. "port" \notin Data /\ "port" \in Ports
  BY DEF Data, Ports
<1>0. Sending("port") /\ UNCHANGED Locals /\ "port" \notin Data /\ "port" \in Ports
  BY <1>a, <1>b
<1>1. /\ stage = "getftp" /\ plan # <<>> /\ Head(plan) = "port" /\ con.alive
      /\ Pending \in Seq(Codes) /\ session \in Sessions({session.data}) /\ job \in Jobs
  BY <1>a, Commanded
<1>2. CASE Broken
  BY <1>2, <1>0, HangingUp DEF Broken
<1>3. ASSUME Return("FTPSYSERR"), UNCHANGED session PROVE SavingInv'
  <2>1. job' = [job EXCEPT !.err = "FTPSYSERR"] /\ stage' = "outcome" /\ con' = con
    BY <1>3 DEF Return
  <2>2. session'.rest = 0
    BY <1>0, <1>3, NoRest
  <2>3. con'.own = con.own
    BY <2>1
  <2> QED
    BY <1>0, <2>1, <2>2, <2>3, Undone
<1>4. CASE CloseReturn("FTPPORTERR")
  BY <1>0, <1>4, HangingUp
<1>5. ASSUME NEW r \in {200, 500}, NEW s, s = Answer([session EXCEPT !.open = r = 200], r),
             Class(Heard(s)) = 2, Ask(s), Proceed(Tail(plan)), UNCHANGED job
      PROVE  SavingInv'
  <2> DEFINE s0 == [session EXCEPT !.open = r = 200]
  <2>1. Ask(Answer(s0, r)) /\ r \in Codes
    BY <1>5 DEF Codes
  <2>a. Heard(s) = Heard(Answer(s0, r))
    BY <1>5
  <2>2. s0 \in Sessions({session.data}) /\ s0.replies = Pending /\ s0.rest = session.rest
    <3>1. PICK b \in BOOLEAN : b = (r = 200)
      OBVIOUS
    <3>2. s0 = [session EXCEPT !.open = b]
      BY <3>1
    <3> HIDE DEF s0
    <3> QED
      BY <1>1, <3>2 DEF Sessions, Pending
  <2> HIDE DEF s0
  <2>3. session'.rest = s0.rest /\ Shifted(r) /\ Heard(s) = IF Pending = <<>> THEN r ELSE Pending[1]
    <3>0. Pending \in Seq(Codes) /\ s0 \in Sessions({session.data}) /\ s0.replies = Pending /\ r \in Codes
      BY <1>1, <2>1, <2>2
    <3>a. Ask(Answer(s0, r))
      BY <2>1
    <3>1. Heard(Answer(s0, r)) = IF Pending = <<>> THEN r ELSE Pending[1]
      BY <3>0, Told
    <3>b. PICK t \in Sessions({session.data}) : t = s0
      BY <3>0
    <3>c. session'.rest = t.rest
      <4>1. Ask(Answer(t, r)) /\ t.replies = Pending
        BY <3>0, <3>a, <3>b
      <4>2. Ask(Answer(t, r)) =>
                 /\ session' \in Sessions({session.data}) /\ session' \in Sessions({session'.data})
                 /\ session'.cwd = t.cwd /\ session'.rest = t.rest
                 /\ session'.open = t.open /\ session'.data = t.data
                 /\ Shifted(r)
        BY <3>0, <4>1, Told
      <4> QED
        BY <4>1, <4>2
    <3>2. session'.rest = s0.rest
      BY <3>b, <3>c
    <3>3. Shifted(r)
      BY <3>0, <3>a, Told
    <3> QED
      BY <3>3, <2>a, <3>1, <3>2
  <2>4. session'.rest = 0
    BY <1>0, <2>2, <2>3, NoRest
  <2>5. ~First({1})'
    <3>1. Idle
      BY <1>1 DEF Inv, DialogueOK, Left, Data
    <3>2. Class(r) \in {2, 5}
      BY ClassOf
    <3>3. CASE Pending = <<>>
      <4>1. Pending' = <<>>
        BY <1>1, <2>3, <3>3, Shifting
      <4> QED
        BY <4>1 DEF First
    <3>4. CASE Pending # <<>> /\ Dead
      BY <1>5, <2>3, <3>4 DEF Dead, First
    <3>5. CASE Pending # <<>> /\ Len(Pending) = 1
      <4>1. Pending'[1] = r
        BY <1>1, <2>3, <3>5, Shifting
      <4> QED
        BY <3>2, <4>1 DEF First
    <3>6. CASE Pending # <<>> /\ Len(Pending) = 2 /\ Odd
      <4>1. Pending'[1] = Pending[2]
        BY <1>1, <2>3, <3>6, Shifting
      <4> QED
        BY <3>6, <4>1 DEF First, Odd
    <3> QED
      BY <3>1, <3>3, <3>4, <3>5, <3>6, IdleCases
  <2>6. plan' = Tail(plan) /\ UNCHANGED <<world, stage, stack, disk, listing, retrieved, con, job>>
    BY <1>0, <1>5 DEF Proceed, Locals
  <2>7. SameJob /\ job'.restval = job.restval /\ job'.qtyread = job.qtyread /\ Alike
    BY <2>6 DEF SameJob, Alike
  <2>8. Head(plan') \in After("port") /\ Fits(Head(plan))'
    BY <1>1, <2>6, <2>7, PlanTail DEF Inv, Transferring, Data, SameJob
  <2>9. PICK d : Head(plan') = d /\ d \in After("port") /\ Fits(d)'
    BY <2>8
  <2>10. d \notin {"read", "done"} /\ RestOK' /\ DataOK'
    BY <1>0, <1>1, <2>4, <2>5, <2>7, <2>9, Ready
  <2> QED
    BY <1>0, <2>6, <2>7, <2>9, <2>10, GoingOn
<1> QED
  BY <1>2, <1>3, <1>4, <1>5 DEF Port

LEMMA RestSaves == Inv /\ SavingInv /\ Rest => SavingInv'
<1> SUFFICES ASSUME Inv, SavingInv, Rest PROVE SavingInv'
  OBVIOUS
<1>a. Sending("rest") /\ UNCHANGED Locals
  BY DEF Rest
<1>0. Sending("rest") /\ UNCHANGED Locals /\ "rest" \notin Data
  BY <1>a DEF Data
<1>1. /\ stage = "getftp" /\ plan # <<>> /\ Head(plan) = "rest" /\ con.alive
      /\ Pending \in Seq(Codes) /\ session \in Sessions({session.data}) /\ job \in Jobs
  BY <1>0, Commanded
<1>2. CASE Broken
  BY <1>2, <1>0, HangingUp DEF Broken
<1>3. Pending = <<>> \/ Len(Pending) = 1
  BY <1>1 DEF Inv, DialogueOK, Left, Data, Single
<1>4. ASSUME NEW r \in {350, 502}, NEW s,
             s = Answer([session EXCEPT !.rest = IF r = 350 THEN job.restval ELSE @], r),
             Ask(s), Proceed(Tail(plan)),
             job' = [job EXCEPT !.rest_failed = Class(Heard(s)) # 3]
      PROVE  SavingInv'
  <2> DEFINE s0 == [session EXCEPT !.rest = IF r = 350 THEN job.restval ELSE session.rest]
  <2>1. Ask(Answer(s0, r)) /\ r \in Codes /\ session.rest = 0
    BY <1>0, <1>4, NoRest DEF Codes
  <2>a. Heard(s) = Heard(Answer(s0, r))
    BY <1>4
  <2>2. s0 \in Sessions({session.data}) /\ s0.replies = Pending
        /\ s0.rest = IF r = 350 THEN job.restval ELSE 0
    BY <1>1, <2>1 DEF Sessions, Pending, Jobs
  <2> HIDE DEF s0
  <2>3. /\ session'.rest = IF r = 350 THEN job.restval ELSE 0
        /\ Shifted(r) /\ Heard(s) = IF Pending = <<>> THEN r ELSE Pending[1]
    <3>0. Pending \in Seq(Codes) /\ s0 \in Sessions({session.data}) /\ s0.replies = Pending /\ r \in Codes
      BY <1>1, <2>1, <2>2
    <3>a. Ask(Answer(s0, r))
      BY <2>1
    <3>1. Heard(Answer(s0, r)) = IF Pending = <<>> THEN r ELSE Pending[1]
      BY <3>0, Told
    <3>b. PICK t \in Sessions({session.data}) : t = s0
      BY <3>0
    <3>c. session'.rest = t.rest
      <4>1. Ask(Answer(t, r)) /\ t.replies = Pending
        BY <3>0, <3>a, <3>b
      <4>2. Ask(Answer(t, r)) =>
                 /\ session' \in Sessions({session.data}) /\ session' \in Sessions({session'.data})
                 /\ session'.cwd = t.cwd /\ session'.rest = t.rest
                 /\ session'.open = t.open /\ session'.data = t.data
                 /\ Shifted(r)
        BY <3>0, <4>1, Told
      <4> QED
        BY <4>1, <4>2
    <3>2. session'.rest = s0.rest
      BY <3>b, <3>c
    <3>3. Shifted(r)
      BY <3>0, <3>a, Told
    <3> QED
      BY <3>3, <2>2, <2>a, <3>1, <3>2
  <2>4. plan' = Tail(plan) /\ UNCHANGED <<world, stage, stack, disk, listing, retrieved, con>>
    BY <1>0, <1>4 DEF Proceed, Locals
  <2>5. /\ SameJob /\ job'.restval = job.restval /\ job'.qtyread = job.qtyread
        /\ job'.rest_failed = (Class(Heard(s)) # 3)
    <3>1. PICK b \in BOOLEAN : b = (Class(Heard(s)) # 3)
      OBVIOUS
    <3>2. job' = [job EXCEPT !.rest_failed = b]
      BY <1>4, <3>1
    <3>3. SameJob /\ job'.restval = job.restval /\ job'.qtyread = job.qtyread /\ job'.rest_failed = b
      BY <1>1, <3>2 DEF SameJob, Jobs
    <3> QED
      BY <3>1, <3>3
  <2>6. Head(plan') \in After("rest")
    BY <1>1, <2>4, <2>5, PlanTail DEF Inv, Transferring, Data, SameJob
  <2>7. PICK d : Head(plan') = d /\ d = "retr"
    BY <2>6 DEF After, Follows, Ports
  <2>8. Pending' = <<>> => session'.rest = From'
    <3> SUFFICES ASSUME Pending' = <<>> PROVE session'.rest = From'
      OBVIOUS
    <3>1. Pending = <<>>
      BY <1>1, <1>3, <2>3, Shifting
    <3>2. Heard(s) = r
      BY <2>3, <3>1
    <3>3. r = 350 <=> Class(r) = 3
      BY ClassOf
    <3> QED
      BY <2>3, <2>5, <3>2, <3>3 DEF From
  <2>9. RestOK' /\ DataOK'
    BY <2>4, <2>7, <2>8, <1>1 DEF RestOK, DataOK, At
  <2>10. Alike
    BY <2>4, <2>5 DEF Alike
  <2> QED
    BY <1>0, <2>4, <2>5, <2>7, <2>9, <2>10, GoingOn
<1> QED
  BY <1>2, <1>4 DEF Rest

\* A transfer clears what REST said.
LEMMA RestCleared ==
    ASSUME NEW data, session \in Sessions(data)
    PROVE  /\ \A r, o : Ask(Refused(r, o)) => session'.rest = 0
           /\ \A of, d, f : Ask(Sent(of, d, f)) => session'.rest = 0
<1>1. ASSUME NEW o, NEW x, NEW y, session' = [[session EXCEPT !.rest = 0, !.open = o, !.replies = x] EXCEPT !.replies = y]
      PROVE  session'.rest = 0
  BY <1>1 DEF Sessions
<1>2. ASSUME NEW o, NEW x, NEW y, NEW z,
             session' = [[session EXCEPT !.rest = 0, !.open = o, !.replies = x, !.data = z] EXCEPT !.replies = y]
      PROVE  session'.rest = 0
  BY <1>2 DEF Sessions
<1>3. ASSUME NEW r, NEW o, Ask(Refused(r, o)) PROVE session'.rest = 0
  <2>1. PICK x : x = Append(session.replies, r)
    OBVIOUS
  <2>2. Refused(r, o) = [session EXCEPT !.rest = 0, !.open = o, !.replies = x]
    BY <2>1 DEF Refused, Answer, Sessions
  <2>3. PICK y : y = Tail(Refused(r, o).replies)
    OBVIOUS
  <2>4. session' = [[session EXCEPT !.rest = 0, !.open = o, !.replies = x] EXCEPT !.replies = y]
    BY <1>3, <2>2, <2>3 DEF Ask
  <2> QED
    BY <1>1, <2>4
<1>4. ASSUME NEW of, NEW d, NEW f, Ask(Sent(of, d, f)) PROVE session'.rest = 0
  <2>1. PICK x : x = session.replies \o <<150, f>>
    OBVIOUS
  <2>2. PICK z : z = [of |-> of, items |-> d]
    OBVIOUS
  <2>3. Sent(of, d, f) = [session EXCEPT !.rest = 0, !.open = FALSE, !.replies = x, !.data = z]
    BY <2>1, <2>2 DEF Sent, Sessions
  <2>4. PICK y : y = Tail(Sent(of, d, f).replies)
    OBVIOUS
  <2>5. session' = [[session EXCEPT !.rest = 0, !.open = FALSE, !.replies = x, !.data = z] EXCEPT !.replies = y]
    BY <1>4, <2>3, <2>4 DEF Ask
  <2> QED
    BY <1>2, <2>5
<1> QED
  BY <1>3, <1>4

\* A transfer is begun, or refused.
LEMMA RequestSaves ==
    ASSUME Inv, SavingInv, NEW c \in Transferring, Sending(c), UNCHANGED Locals, NEW s, NEW b \in BOOLEAN,
           Requested(s, b), Ask(s) => session'.rest = 0,
           Class(Heard(s)) = 1 /\ Ask(s) /\ job' = [job EXCEPT !.list_a = b] => Received'
    PROVE  SavingInv'
<1>1. c \notin Data /\ c # "done"
  BY DEF Transferring, Data
<1>2. job \in Jobs
  BY Commanded
<1>3. ASSUME Class(Heard(s)) = 1, Ask(s), Proceed(<<"open">>), job' = [job EXCEPT !.list_a = b]
      PROVE  SavingInv'
  <2>1. SameJob /\ job'.restval = job.restval /\ job'.qtyread = job.qtyread
    BY <1>2, <1>3 DEF SameJob, Jobs
  <2>2. plan' = <<"open">> /\ UNCHANGED <<world, stage, stack, disk, listing, retrieved, con>>
    BY <1>3 DEF Proceed, Locals
  <2>3. Alike
    BY <2>1, <2>2 DEF Alike
  <2>4. Received' /\ session'.rest = 0
    BY <1>3
  <2>5. PICK d : Head(plan') = d /\ d = "open"
    BY <2>2
  <2>6. RestOK' /\ DataOK'
    BY <2>4, <2>5 DEF RestOK, DataOK, At
  <2> QED
    BY <1>1, <2>1, <2>2, <2>3, <2>5, <2>6, GoingOn
<1>4. ASSUME Ask(s), Return("FTPNSFOD") PROVE SavingInv'
  <2>1. job' = [job EXCEPT !.err = "FTPNSFOD"] /\ stage' = "outcome" /\ con'.own = con.own
    BY <1>4 DEF Return
  <2>2. session'.rest = 0
    BY <1>4
  <2> QED
    BY <1>1, <2>1, <2>2, Undone
<1>5. CASE CloseReturn("FTPRERR")
  BY <1>1, <1>5, HangingUp
<1> QED
  BY <1>3, <1>4, <1>5 DEF Requested

LEMMA RetrSaves == Inv /\ SavingInv /\ Retr => SavingInv'
<1> SUFFICES ASSUME Inv, SavingInv, Retr PROVE SavingInv'
  OBVIOUS
<1>0. Sending("retr") /\ UNCHANGED Locals
  BY DEF Retr
<1>1. /\ stage = "getftp" /\ plan # <<>> /\ Head(plan) = "retr" /\ con.alive
      /\ Fits("retr") /\ Pending \in Seq(Codes)
      /\ session \in Sessions({session.data}) /\ job \in Jobs
  BY <1>0, Commanded
<1>2. job.op = "RETR" /\ "retr" \in Transferring
  BY <1>1 DEF Fits, Transferring
<1>3. CASE Broken
  <2>1. "retr" # "done" /\ "FTPRERR" # "RETRFINISHED"
    OBVIOUS
  <2> QED
    BY <1>3, <1>0, <2>1, HangingUp DEF Broken
<1>4. Pending = <<>> \/ Single({2, 3, 5})
  BY <1>1 DEF Inv, DialogueOK, Left, Data, Transferring
<1> DEFINE items == SubSeq(Doc(job.of), session.rest + 1, N)
           here == job.of \in Files(session.cwd)
<1>5. /\ Pending = <<>> => items = SubSeq(Doc(job.of), From + 1, N)
      /\ From \in 0 .. N /\ job.of \in Names
  <2>1. Pending = <<>> => session.rest = From
    BY <1>1 DEF SavingInv, Saving, RestOK, At
  <2>2. OnDisk(job.restval)
    BY <1>1, <1>2 DEF SavingInv, Saving, FileOK, At
  <2>3. job.restval \in Nat /\ job.of \in Names /\ N \in Nat
    BY <1>1, WorldsAssumption DEF Jobs
  <2>4. From \in 0 .. N
    BY <2>2, <2>3 DEF From, OnDisk
  <2> QED
    BY <2>1, <2>3, <2>4
<1> HIDE DEF items, here
<1>6. ASSUME NEW s \in IF here THEN Transfers(job.of, items) ELSE Refusals, Requested(s, FALSE)
      PROVE  SavingInv'
  <2>0. CASE \E r \in {450, 550}, o \in BOOLEAN : s = Refused(r, o)
    <3>1. PICK r \in {450, 550}, o \in BOOLEAN : s = Refused(r, o)
      BY <2>0
    <3>2. Heard(s) = IF Pending = <<>> THEN r ELSE Pending[1]
      BY <1>1, <3>1, Refusing
    <3>3. Class(r) = 4 \/ Class(r) = 5
      BY ClassOf
    <3>4. Class(Heard(s)) # 1
      BY <1>4, <3>2, <3>3 DEF Single, First
    <3>5. Ask(s) => session'.rest = 0
      BY <1>1, <3>1, RestCleared
    <3> QED
      BY <1>0, <1>2, <1>6, <3>4, <3>5, RequestSaves
  <2>1. ASSUME NEW f \in {226, 426}, NEW d, s = Sent(job.of, d, f), Prefix(d, items), f = 226 => d = items
        PROVE  SavingInv'
    <3>1. /\ Pending = <<>> => Heard(s) = 150
          /\ Pending # <<>> => Heard(s) = Pending[1]
      BY <1>1, <2>1, Hearing150
    <3>2. Ask(s) => session'.data = [of |-> job.of, items |-> d] /\ Shifted2(f)
      BY <1>1, <2>1, Sending150
    <3>3. Ask(s) => session'.rest = 0
      BY <1>1, <2>1, RestCleared
    <3>4. ASSUME Class(Heard(s)) = 1, Ask(s), job' = [job EXCEPT !.list_a = FALSE] PROVE Received'
      <4>1. Pending = <<>>
        BY <1>4, <3>1, <3>4 DEF Single, First
      <4>2. Pending'[1] = f
        BY <1>1, <3>2, <3>4, <4>1, Shifting2
      <4>3. PICK q \in 0 .. N : q = From
        BY <1>5
      <4>4. Prefix(d, SubSeq(Doc(job.of), q + 1, N)) /\ (f = 226 => d = SubSeq(Doc(job.of), q + 1, N))
        BY <1>5, <2>1, <4>1, <4>3
      <4>5. /\ \E m \in q .. N : IsPiece(d, job.of, q, m)
            /\ IsPiece(SubSeq(Doc(job.of), q + 1, N), job.of, q, N)
        BY <1>5, <4>4, Rested
      <4>6. \E m \in q .. N : IsPiece(d, job.of, q, m) /\ (f = 226 => m = N)
        <5>1. CASE f = 226
          <6>1. N \in q .. N
            BY WorldsAssumption
          <6> QED
            BY <4>4, <4>5, <5>1, <6>1
        <5> QED
          BY <4>5, <5>1
      <4>7. job'.op = "RETR" /\ job'.of = job.of /\ From' = From
        BY <1>1, <1>2, <3>4 DEF Jobs, From
      <4>8. session'.data.items = d
        BY <3>2, <3>4
      <4> QED
        BY <4>2, <4>3, <4>6, <4>7, <4>8 DEF Received
    <3> QED
      BY <1>0, <1>2, <1>6, <3>3, <3>4, RequestSaves
  <2> QED
    BY <1>1, <1>6, <2>0, <2>1, Served, RefusedBy
<1> QED
  BY <1>3, <1>6 DEF Retr, items, here

\* A listing that is sent is one of the directory.
LEMMA ListingSent ==
    ASSUME Inv, Right, NEW d, NEW items, NEW hidden \in BOOLEAN,
           items = Listed(session.cwd, hidden) \/ items = <<>>, Prefix(d, items)
    PROVE  Lists(job.dir, d)
<1>1. session.cwd \in DOMAIN Tree
  BY DEF Inv, TypeOK, Sessions
<1>2. items \in Seq(ListEntries) /\ Lists(session.cwd, items)
  BY <1>1, ListedOf, ListsListed, ListsNothing, EmptySeq
<1>3. Lists(session.cwd, d)
  BY <1>2, ListsPrefix
<1> QED
  BY <1>3 DEF Right

LEMMA ListASaves == Inv /\ SavingInv /\ ListA => SavingInv'
<1> SUFFICES ASSUME Inv, SavingInv, ListA PROVE SavingInv'
  OBVIOUS
<1>0. Sending("list_a") /\ UNCHANGED Locals
  BY DEF ListA
<1>1. /\ stage = "getftp" /\ plan # <<>> /\ Head(plan) = "list_a" /\ con.alive
      /\ Fits("list_a") /\ Pending \in Seq(Codes)
      /\ session \in Sessions({session.data}) /\ job \in Jobs
  BY <1>0, Commanded
<1>2. job.op = "LIST" /\ "list_a" \in Transferring /\ "list_a" \notin Data
  BY <1>1 DEF Fits, Transferring, Data
<1>3. CASE Broken
  <2>1. "list_a" # "done" /\ "FTPRERR" # "RETRFINISHED"
    OBVIOUS
  <2> QED
    BY <1>3, <1>0, <2>1, HangingUp DEF Broken
<1>4. /\ Right
      /\ Pending = <<>> \/ Single({2, 5}) \/ (Len(Pending) = 2 /\ First({4, 5}) /\ Class(Pending[2]) \in {2, 5})
  BY <1>1 DEF Inv, DialogueOK, Left, Data, Transferring
<1> DEFINE items == IF world.list_a THEN Listed(session.cwd, TRUE) ELSE <<>>
<1>5. items = Listed(session.cwd, TRUE) \/ items = <<>>
  OBVIOUS
<1> HIDE DEF items
<1>6. ASSUME NEW s \in Transfers(session.cwd, items),
             \/ Requested(s, TRUE)
             \/ Class(Heard(s)) # 1 /\ Ask(s) /\ Proceed(<<"list">>) /\ UNCHANGED job
      PROVE  SavingInv'
  <2>1. \/ \E r \in {450, 550}, o \in BOOLEAN : s = Refused(r, o)
        \/ \E f \in {226, 426} : \E d : s = Sent(session.cwd, d, f) /\ Prefix(d, items)
    BY <1>1, <1>6, Served
  <2>2. Ask(s) => session'.rest = 0
    BY <1>1, <2>1, RestCleared
  <2>3. Class(Heard(s)) = 1 /\ Ask(s) => Lists(job.dir, session'.data.items)
    <3>1. ASSUME NEW r \in {450, 550}, NEW o \in BOOLEAN, s = Refused(r, o) PROVE Class(Heard(s)) # 1
      <4>1. Heard(s) = IF Pending = <<>> THEN r ELSE Pending[1]
        BY <1>1, <3>1, Refusing
      <4>2. Class(r) = 4 \/ Class(r) = 5
        BY ClassOf
      <4> QED
        BY <1>4, <4>1, <4>2 DEF Single, First
    <3>2. ASSUME NEW f \in {226, 426}, NEW d, s = Sent(session.cwd, d, f), Prefix(d, items), Ask(s)
          PROVE  Lists(job.dir, session'.data.items)
      <4>1. session'.data = [of |-> session.cwd, items |-> d]
        BY <1>1, <3>2, Sending150
      <4>2. Lists(job.dir, d)
        BY <1>4, <1>5, <3>2, ListingSent
      <4> QED
        BY <4>1, <4>2
    <3> QED
      BY <2>1, <3>1, <3>2
  <2>4. Ask(s) /\ First({1})' => Lists(job.dir, session'.data.items)
    <3>1. ASSUME NEW r \in {450, 550}, NEW o \in BOOLEAN, s = Refused(r, o), Ask(s) PROVE ~First({1})'
      <4>1. Shifted(r)
        BY <1>1, <3>1, Refusing
      <4>2. Class(r) = 4 \/ Class(r) = 5
        BY ClassOf
      <4>3. CASE Pending = <<>>
        <5>1. Pending' = <<>>
          BY <1>1, <4>1, <4>3, Shifting
        <5> QED
          BY <5>1 DEF First
      <4>4. CASE Single({2, 5})
        <5>1. Pending'[1] = r
          BY <1>1, <4>1, <4>4, Shifting DEF Single
        <5> QED
          BY <4>2, <5>1 DEF First
      <4>5. CASE Len(Pending) = 2 /\ Class(Pending[2]) \in {2, 5}
        <5>1. Pending'[1] = Pending[2]
          BY <1>1, <4>1, <4>5, Shifting
        <5> QED
          BY <4>5, <5>1 DEF First
      <4> QED
        BY <1>4, <4>3, <4>4, <4>5
    <3>2. ASSUME NEW f \in {226, 426}, NEW d, s = Sent(session.cwd, d, f), Prefix(d, items), Ask(s)
          PROVE  Lists(job.dir, session'.data.items)
      <4>1. session'.data = [of |-> session.cwd, items |-> d]
        BY <1>1, <3>2, Sending150
      <4>2. Lists(job.dir, d)
        BY <1>4, <1>5, <3>2, ListingSent
      <4> QED
        BY <4>1, <4>2
    <3> QED
      BY <2>1, <3>1, <3>2
  <2>5. CASE Requested(s, TRUE)
    <3>1. ASSUME Class(Heard(s)) = 1, Ask(s), job' = [job EXCEPT !.list_a = TRUE] PROVE Received'
      <4>1. job'.op = "LIST" /\ job'.dir = job.dir
        BY <1>1, <1>2, <3>1 DEF Jobs
      <4> QED
        BY <2>3, <3>1, <4>1 DEF Received
    <3> QED
      BY <1>0, <1>2, <2>2, <2>5, <3>1, RequestSaves
  <2>6. CASE Class(Heard(s)) # 1 /\ Ask(s) /\ Proceed(<<"list">>) /\ UNCHANGED job
    <3>1. plan' = <<"list">> /\ UNCHANGED <<world, stage, stack, disk, listing, retrieved, con, job>>
      BY <1>0, <2>6 DEF Proceed, Locals
    <3>2. Alike
      BY <3>1 DEF Alike, SameJob
    <3>3. PICK d : Head(plan') = d /\ d = "list"
      BY <3>1
    <3>4. session'.rest = 0 /\ (First({1})' => Lists(job'.dir, session'.data.items))
      BY <2>2, <2>4, <2>6
    <3>5. RestOK' /\ DataOK'
      BY <3>3, <3>4 DEF RestOK, DataOK, At
    <3> QED
      BY <1>0, <1>2, <3>1, <3>2, <3>3, <3>5, GoingOn
  <2> QED
    BY <1>6, <2>5, <2>6
<1> QED
  BY <1>3, <1>6 DEF ListA, items

LEMMA ListSaves == Inv /\ SavingInv /\ List => SavingInv'
<1> SUFFICES ASSUME Inv, SavingInv, List PROVE SavingInv'
  OBVIOUS
<1>0. Sending("list") /\ UNCHANGED Locals
  BY DEF List
<1>1. /\ stage = "getftp" /\ plan # <<>> /\ Head(plan) = "list" /\ con.alive
      /\ Fits("list") /\ Pending \in Seq(Codes)
      /\ session \in Sessions({session.data}) /\ job \in Jobs
  BY <1>0, Commanded
<1>2. job.op = "LIST" /\ "list" \in Transferring
  BY <1>1 DEF Fits, Transferring
<1>3. CASE Broken
  <2>1. "list" # "done" /\ "FTPRERR" # "RETRFINISHED"
    OBVIOUS
  <2> QED
    BY <1>3, <1>0, <2>1, HangingUp DEF Broken
<1>4. Right
  BY <1>1 DEF Inv, DialogueOK, Transferring
<1>5. First({1}) => Lists(job.dir, session.data.items)
  BY <1>1 DEF SavingInv, Saving, DataOK, At
<1> DEFINE items == Listed(session.cwd, FALSE)
<1>i. items = Listed(session.cwd, FALSE) \/ items = <<>>
  OBVIOUS
<1> HIDE DEF items
<1>6. ASSUME NEW s \in Transfers(session.cwd, items), Requested(s, FALSE)
      PROVE  SavingInv'
  <2>1. \/ \E r \in {450, 550}, o \in BOOLEAN : s = Refused(r, o)
        \/ \E f \in {226, 426} : \E d : s = Sent(session.cwd, d, f) /\ Prefix(d, items)
    BY <1>1, <1>6, Served
  <2>2. Ask(s) => session'.rest = 0
    BY <1>1, <2>1, RestCleared
  <2>3. Class(Heard(s)) = 1 /\ Ask(s) => Lists(job.dir, session'.data.items)
    <3>1. ASSUME NEW r \in {450, 550}, NEW o \in BOOLEAN, s = Refused(r, o), Class(Heard(s)) = 1, Ask(s)
          PROVE  Lists(job.dir, session'.data.items)
      <4>1. Heard(s) = IF Pending = <<>> THEN r ELSE Pending[1]
        BY <1>1, <3>1, Refusing
      <4>2. Class(r) = 4 \/ Class(r) = 5
        BY ClassOf
      <4>3. First({1})
        BY <3>1, <4>1, <4>2 DEF First
      <4>4. session'.data = session.data
        BY <1>1, <3>1, Refusing
      <4> QED
        BY <1>5, <4>3, <4>4
    <3>2. ASSUME NEW f \in {226, 426}, NEW d, s = Sent(session.cwd, d, f), Prefix(d, items), Ask(s)
          PROVE  Lists(job.dir, session'.data.items)
      <4>1. session'.data = [of |-> session.cwd, items |-> d]
        BY <1>1, <3>2, Sending150
      <4>2. Lists(job.dir, d)
        BY <1>4, <1>i, <3>2, ListingSent
      <4> QED
        BY <4>1, <4>2
    <3> QED
      BY <2>1, <3>1, <3>2
  <2>4. ASSUME Class(Heard(s)) = 1, Ask(s), job' = [job EXCEPT !.list_a = FALSE] PROVE Received'
    <3>1. job'.op = "LIST" /\ job'.dir = job.dir
      BY <1>1, <1>2, <2>4 DEF Jobs
    <3> QED
      BY <2>3, <2>4, <3>1 DEF Received
  <2> QED
    BY <1>0, <1>2, <1>6, <2>2, <2>4, RequestSaves
<1> QED
  BY <1>3, <1>6 DEF List, items

\* The file at work is written.
LEMMA Written ==
    ASSUME DiskSaved, WholeKept, UNCHANGED <<world, retrieved>>, NEW g, g \notin retrieved,
           NEW n \in 0 .. N, NEW s, IsPiece(s, g, 0, n), DOMAIN disk' = DOMAIN disk \cup {g},
           \A f \in DOMAIN disk' : disk'[f] = IF f = g THEN s ELSE disk[f]
    PROVE  DiskSaved' /\ WholeKept' /\ Begins(g, n)'
<1>1. \A f \in DOMAIN disk : f # g => f \in DOMAIN disk' /\ disk'[f] = disk[f]
  OBVIOUS
<1>2. g \in DOMAIN disk' /\ disk'[g] = s
  OBVIOUS
<1>3. Begins(g, n)'
  BY <1>2 DEF Begins
<1>4. DiskSaved'
  <2> SUFFICES ASSUME NEW f \in DOMAIN disk'
               PROVE  \/ ~world'.rest /\ disk'[f] = Outdated
                      \/ \E k \in 0 .. N : IsPiece(disk'[f], f, 0, k)
    BY DEF DiskSaved
  <2>1. CASE f = g
    BY <1>2, <2>1
  <2>2. CASE f # g
    <3>1. f \in DOMAIN disk /\ disk'[f] = disk[f]
      BY <1>1, <2>2
    <3> QED
      BY <3>1 DEF DiskSaved
  <2> QED
    BY <2>1, <2>2
<1>5. WholeKept'
  <2> SUFFICES ASSUME NEW f \in retrieved PROVE Begins(f, N)'
    BY DEF WholeKept
  <2>1. f \in DOMAIN disk /\ IsPiece(disk[f], f, 0, N) /\ f # g
    BY DEF WholeKept, Begins
  <2> QED
    BY <1>1, <2>1 DEF Begins
<1> QED
  BY <1>3, <1>4, <1>5

LEMMA OpenSaves == Inv /\ SavingInv /\ Open => SavingInv'
<1> SUFFICES ASSUME Inv, SavingInv, Open PROVE SavingInv'
  OBVIOUS
<1>0. Sending("open") /\ UNCHANGED <<world, stack, retrieved>>
  BY DEF Open
<1>1. /\ stage = "getftp" /\ Head(plan) = "open"
      /\ session \in Sessions({session.data}) /\ job \in Jobs /\ job.op \in {"LIST", "RETR"}
  BY <1>0, Commanded
<1>2. session.rest = 0
  <2>1. "open" # "retr"
    OBVIOUS
  <2> QED
    BY <1>0, <2>1, NoRest
<1>3. Received
  BY <1>1 DEF SavingInv, Saving, DataOK, At
<1>4. ASSUME Proceed(<<"read">>),
             IF job.op = "LIST" THEN listing' = <<>> /\ UNCHANGED disk
             ELSE /\ disk' = IF job.restval > 0 /\ job.of \in DOMAIN disk THEN disk
                             ELSE With(disk, job.of, <<>>)
                  /\ UNCHANGED listing,
             UNCHANGED <<job, session>>
      PROVE  SavingInv'
  <2>1. plan' = <<"read">> /\ UNCHANGED <<world, stage, stack, retrieved, con, job, session>>
    BY <1>0, <1>4 DEF Proceed
  <2>2. PICK d : Head(plan') = d /\ d = "read"
    BY <2>1
  <2>3. Alike
    BY <2>1 DEF Alike, SameJob
  <2>4. Walked'
    BY <2>3, WalkKept DEF SavingInv, Walked
  <2>5. RestOK'
    BY <1>2, <2>1, <2>2 DEF RestOK, At
  <2>6. DataOK'
    <3>1. Received'
      BY <1>3, <2>1 DEF Received, From, Pending
    <3> QED
      BY <2>2, <3>1 DEF DataOK, At
  <2>7. CASE job.op = "LIST"
    <3>1. DiskSaved' /\ WholeKept'
      BY <1>4, <2>1, <2>7, DiskKept DEF SavingInv, Saving
    <3>2. FileOK'
      BY <2>1, <2>7 DEF FileOK
    <3>3. ListingOK'
      <4>1. listing' = <<>> /\ Lists(job.dir, <<>>)
        BY <1>4, <2>7, ListsNothing
      <4>2. world.mode = "one" => retrieved = {}
        BY <2>7 DEF SavingInv, Saving, ListingOK
      <4> QED
        BY <2>1, <2>7, <4>1, <4>2 DEF ListingOK
    <3> QED
      BY <2>4, <2>5, <2>6, <3>1, <3>2, <3>3 DEF SavingInv, Saving, Walked
  <2>8. CASE job.op = "RETR"
    <3>1. /\ job.of \notin retrieved /\ job.qtyread = job.restval
          /\ job.restval <= N /\ (job.restval > 0 => Begins(job.of, job.restval))
      BY <1>1, <2>8 DEF SavingInv, Saving, FileOK, At, OnDisk
    <3>2. DiskSaved /\ WholeKept
      BY DEF SavingInv, Saving
    <3>3. DiskSaved' /\ WholeKept' /\ Begins(job.of, job.restval)'
      <4>1. CASE job.restval > 0
        <5>1. disk' = disk
          BY <1>4, <2>8, <3>1, <4>1 DEF Begins
        <5>2. DiskSaved' /\ WholeKept' /\ \A f, n : Begins(f, n) => Begins(f, n)'
          BY <2>1, <3>2, <5>1, DiskKept
        <5> QED
          BY <2>1, <3>1, <4>1, <5>2
      <4>2. CASE ~ (job.restval > 0)
        <5>1. disk' = With(disk, job.of, <<>>) /\ job.restval = 0
          BY <1>1, <1>4, <2>8, <4>2 DEF Jobs
        <5>2. PICK g \in Names : g = job.of
          BY <1>1 DEF Jobs
        <5>3. PICK s : s = <<>>
          OBVIOUS
        <5>4. DOMAIN disk' = DOMAIN disk \cup {g}
          BY <5>1, <5>2 DEF With
        <5>5. \A f \in DOMAIN disk' : disk'[f] = IF f = g THEN s ELSE disk[f]
          BY <5>1, <5>2, <5>3, <5>4 DEF With
        <5>6. 0 \in 0 .. N /\ 0 \in Nat
          BY WorldsAssumption
        <5>7. IsPiece(s, g, 0, 0)
          BY <5>3, <5>6, NoPiece
        <5>8. DiskSaved' /\ WholeKept' /\ Begins(g, 0)'
          BY <2>1, <3>1, <3>2, <5>2, <5>4, <5>5, <5>6, <5>7, Written
        <5>9. job'.of = g /\ job'.restval = 0
          BY <2>1, <5>1, <5>2
        <5> QED
          BY <5>8, <5>9
      <4> QED
        BY <4>1, <4>2
    <3>4. FileOK'
      <4>1. OnDisk(job.restval)'
        BY <2>1, <3>1, <3>3 DEF OnDisk
      <4>2. ~At("done")' /\ stage' = "getftp" /\ job' = job /\ retrieved' = retrieved
        BY <1>1, <2>1, <2>2 DEF At
      <4> QED
        BY <2>8, <3>1, <3>3, <4>1, <4>2 DEF FileOK
    <3>5. ListingOK'
      <4>1. listing = <<>>
        BY <2>8 DEF SavingInv, Saving, ListingOK
      <4>2. listing' = <<>> /\ job'.op # "LIST"
        BY <1>4, <2>1, <2>8, <4>1
      <4> QED
        BY <4>2 DEF ListingOK
    <3> QED
      BY <2>4, <2>5, <2>6, <3>3, <3>4, <3>5 DEF SavingInv, Saving, Walked
  <2> QED
    BY <1>1, <2>7, <2>8
<1>5. ASSUME CloseReturn("FOPENERR"), UNCHANGED <<disk, listing>> PROVE SavingInv'
  <2>1. UNCHANGED Locals
    BY <1>0, <1>5 DEF Locals
  <2>2. "open" # "done" /\ "FOPENERR" # "RETRFINISHED"
    OBVIOUS
  <2> QED
    BY <1>0, <1>5, <2>1, <2>2, HangingUp
<1>6. ASSUME Return("CONERROR"), session' = [session EXCEPT !.data = NoData], UNCHANGED <<disk, listing>>
      PROVE  SavingInv'
  <2>1. UNCHANGED Locals
    BY <1>0, <1>6 DEF Locals
  <2>2. session'.rest = 0
    BY <1>1, <1>2, <1>6 DEF Sessions
  <2>3. job' = [job EXCEPT !.err = "CONERROR"] /\ stage' = "outcome" /\ con'.own = con.own
    BY <1>6 DEF Return
  <2>4. "open" # "done" /\ "CONERROR" # "RETRFINISHED"
    OBVIOUS
  <2> QED
    BY <1>0, <2>1, <2>2, <2>3, <2>4, Undone
<1> QED
  BY <1>4, <1>5, <1>6 DEF Open

LEMMA ReadSaves == Inv /\ SavingInv /\ Read => SavingInv'
<1> SUFFICES ASSUME Inv, SavingInv, Read PROVE SavingInv'
  OBVIOUS
<1>0. Sending("read") /\ UNCHANGED <<world, stack, retrieved>>
  BY DEF Read
<1>1. /\ stage = "getftp" /\ Head(plan) = "read" /\ con.alive
      /\ session \in Sessions({session.data}) /\ job \in Jobs /\ con \in Cons
      /\ job.op \in {"LIST", "RETR"}
  BY <1>0, Commanded
<1>2. session.rest = 0
  <2>1. "read" # "retr"
    OBVIOUS
  <2> QED
    BY <1>0, <2>1, NoRest
<1>3. Received
  BY <1>1 DEF SavingInv, Saving, DataOK, At
<1>4. Good
  BY <1>1 DEF Inv, DialogueOK
<1>5. ASSUME NEW k \in 0 .. Len(session.data.items), NEW new, IsPart(new, session.data.items, Skip + 1, k),
             IF job.op = "LIST" THEN listing' = listing \o new /\ UNCHANGED disk
             ELSE disk' = [disk EXCEPT ![job.of] = @ \o new] /\ UNCHANGED listing,
             \/ /\ \E res \in {-1} \cup (IF k = Len(session.data.items) THEN {0} ELSE {}) :
                      job' = [job EXCEPT !.res = res, !.qtyread = @ + Len(new)]
                /\ session' = [session EXCEPT !.data = NoData]
                /\ Proceed(<<"done">>)
             \/ CloseReturn("FWRITEERR")
      PROVE  SavingInv'
  <2>1. \/ /\ stage' = "getftp" /\ plan' = <<"done">> /\ con' = con
           /\ session' = [session EXCEPT !.data = NoData]
           /\ \E res \in {-1} \cup (IF k = Len(session.data.items) THEN {0} ELSE {}) :
                      job' = [job EXCEPT !.res = res, !.qtyread = @ + Len(new)]
        \/ /\ stage' = "outcome" /\ con' = [con EXCEPT !.alive = FALSE] /\ session' = Session
           /\ job' = [job EXCEPT !.err = "FWRITEERR"]
    BY <1>1, <1>5 DEF Proceed, CloseReturn
  <2>2. /\ SameJob /\ con'.own = con.own /\ session'.rest = 0
        /\ job'.restval = job.restval
        /\ \/ /\ stage' = "getftp" /\ Head(plan') = "done" /\ job'.qtyread = job.qtyread + Len(new)
              /\ session'.replies = session.replies
              /\ job'.res # -1 => k = Len(session.data.items)
           \/ stage' = "outcome" /\ job'.err = "FWRITEERR"
    <3>1. ASSUME NEW res, res # -1 => k = Len(session.data.items),
                 job' = [job EXCEPT !.res = res, !.qtyread = @ + Len(new)]
          PROVE  /\ SameJob /\ job'.restval = job.restval /\ job'.qtyread = job.qtyread + Len(new)
                 /\ job'.res # -1 => k = Len(session.data.items)
      BY <1>1, <3>1 DEF SameJob, Jobs
    <3>2. CASE /\ stage' = "getftp" /\ plan' = <<"done">> /\ con' = con
               /\ session' = [session EXCEPT !.data = NoData]
               /\ \E res \in {-1} \cup (IF k = Len(session.data.items) THEN {0} ELSE {}) :
                      job' = [job EXCEPT !.res = res, !.qtyread = @ + Len(new)]
      <4>1. session'.rest = 0 /\ session'.replies = session.replies
        BY <1>1, <1>2, <3>2 DEF Sessions
      <4>2. Head(plan') = "done" /\ con'.own = con.own
        BY <3>2
      <4>3. PICK res \in {-1} \cup (IF k = Len(session.data.items) THEN {0} ELSE {}) :
               job' = [job EXCEPT !.res = res, !.qtyread = @ + Len(new)]
        BY <3>2
      <4>4. res # -1 => k = Len(session.data.items)
        OBVIOUS
      <4>5. /\ SameJob /\ job'.restval = job.restval /\ job'.qtyread = job.qtyread + Len(new)
            /\ job'.res # -1 => k = Len(session.data.items)
        BY <3>1, <4>3, <4>4
      <4> QED
        BY <3>2, <4>1, <4>2, <4>5
    <3>3. CASE /\ stage' = "outcome" /\ con' = [con EXCEPT !.alive = FALSE] /\ session' = Session
               /\ job' = [job EXCEPT !.err = "FWRITEERR"]
      BY <1>1, <3>3 DEF SameJob, Jobs, Cons, Session
    <3> QED
      BY <2>1, <3>2, <3>3
  <2>3. Alike
    BY <1>0, <2>2 DEF Alike
  <2>4. Walked'
    BY <2>3, WalkKept DEF SavingInv, Walked
  <2>5. \A c : At(c)' => c = "done"
    BY <2>2 DEF At
  <2>6. RestOK' /\ DataOK'
    BY <2>2, <2>5 DEF RestOK, DataOK
  <2>7. CASE job.op = "LIST"
    <3>1. DiskSaved' /\ WholeKept'
      BY <1>0, <1>5, <2>7, DiskKept DEF SavingInv, Saving
    <3>2. FileOK'
      BY <2>2, <2>7 DEF FileOK, SameJob
    <3>3. ListingOK'
      <4>1. listing = <<>> /\ (world.mode = "one" => retrieved = {})
        BY <1>1, <2>7 DEF SavingInv, Saving, ListingOK, At
      <4>2. PICK items \in Seq(ListEntries) : items = session.data.items
        BY <1>4, <2>7 DEF Good
      <4>3. Skip + 1 \in Nat \ {0}
        BY <1>1 DEF Skip, Jobs
      <4>4. k \in 0 .. Len(items) /\ IsPart(new, items, Skip + 1, k) /\ Lists(job.dir, items)
        BY <1>3, <1>5, <2>7, <4>2 DEF Received
      <4>5. Lists(job.dir, new)
        BY <4>3, <4>4, ListsPart
      <4>6. new \in Seq(ListEntries)
        <5>1. k \in Nat /\ k <= Len(items)
          BY <4>4
        <5>2. SubSeq(items, Skip + 1, k) \in Seq(ListEntries)
          BY <4>3, <5>1, PrefixOf
        <5> QED
          BY <4>4, <5>2 DEF IsPart
      <4>7. listing' = new
        BY <1>5, <2>7, <4>1, <4>6, ConcatEmptySeq
      <4>8. ~At("read")'
        BY <2>5
      <4> QED
        BY <1>0, <2>2, <2>7, <4>1, <4>5, <4>7, <4>8 DEF ListingOK, SameJob
    <3> QED
      BY <2>4, <2>6, <3>1, <3>2, <3>3 DEF SavingInv, Saving, Walked
  <2>8. CASE job.op = "RETR"
    <3>1. /\ job.of \notin retrieved /\ job.qtyread = job.restval
          /\ job.restval <= N /\ Begins(job.of, job.restval)
      BY <1>1, <2>8 DEF SavingInv, Saving, FileOK, At, OnDisk
    <3>2. DiskSaved /\ WholeKept
      BY DEF SavingInv, Saving
    <3>3. PICK g \in Names : g = job.of
      BY <1>1 DEF Jobs
    <3>4. PICK r \in 0 .. N : r = job.restval
      BY <1>1, <3>1, WorldsAssumption DEF Jobs
    <3>5. PICK from \in Nat, skip \in Nat : from = From /\ skip = Skip /\ from + skip = r
      <4>1. job.restval \in Nat /\ job.rest_failed \in BOOLEAN
        BY <1>1 DEF Jobs
      <4> QED
        BY <3>4, <4>1 DEF From, Skip
    <3>6. PICK items : items = session.data.items
      OBVIOUS
    <3>7. PICK m \in from .. N : IsPiece(items, g, from, m) /\ (Pending[1] = 226 => m = N)
      BY <1>3, <2>8, <3>3, <3>5, <3>6 DEF Received
    <3>8. PICK old : old = disk[g]
      OBVIOUS
    <3>9. g \in DOMAIN disk /\ IsPiece(old, g, 0, r)
      BY <3>1, <3>3, <3>4, <3>8 DEF Begins
    <3>10. k \in 0 .. Len(items) /\ IsPart(new, items, skip + 1, k)
      BY <1>5, <3>5, <3>6
    <3>11. /\ Len(new) \in Nat /\ r + Len(new) \in 0 .. N
           /\ IsPiece(old \o new, g, 0, r + Len(new))
           /\ m = N /\ k = Len(items) => r + Len(new) = N
      BY <3>5, <3>7, <3>9, <3>10, Appended
    <3>12. PICK n \in 0 .. N : n = r + Len(new)
      BY <3>11
    <3>13. PICK s : s = old \o new
      OBVIOUS
    <3>14. DOMAIN disk' = DOMAIN disk \cup {g} /\ \A f \in DOMAIN disk' : disk'[f] = IF f = g THEN s ELSE disk[f]
      <4>1. disk' = [disk EXCEPT ![g] = s]
        BY <1>5, <2>8, <3>3, <3>8, <3>13
      <4> QED
        BY <3>9, <4>1
    <3>15. IsPiece(s, g, 0, n)
      BY <3>11, <3>12, <3>13
    <3>16. DiskSaved' /\ WholeKept' /\ Begins(g, n)'
      BY <1>0, <3>1, <3>2, <3>3, <3>14, <3>15, Written
    <3>17. FileOK'
      <4>1. job'.of = g /\ g \notin retrieved'
        BY <1>0, <2>2, <3>1, <3>3 DEF SameJob
      <4>2. CASE stage' = "outcome" /\ job'.err = "FWRITEERR"
        <5>1. job'.err \in Fatal /\ ~At("done")' /\ ~At("read")'
          BY <4>2 DEF Fatal, At
        <5> QED
          BY <4>1, <4>2, <5>1 DEF FileOK
      <4>3. CASE /\ stage' = "getftp" /\ Head(plan') = "done" /\ job'.qtyread = job.qtyread + Len(new)
                 /\ session'.replies = session.replies
                 /\ job'.res # -1 => k = Len(session.data.items)
        <5>1. At("done")' /\ ~At("read")'
          BY <4>3 DEF At
        <5>2. job'.qtyread = n /\ n <= N
          BY <3>1, <3>4, <3>12, <4>3
        <5>3. (Pending[1] = 226)' /\ job'.res # -1 => n = N
          <6>1. Pending' = Pending
            BY <4>3 DEF Pending
          <6> QED
            BY <3>6, <3>7, <3>11, <3>12, <4>3, <6>1
        <5> QED
          BY <3>16, <4>1, <4>3, <5>1, <5>2, <5>3 DEF FileOK
      <4> QED
        BY <2>2, <4>2, <4>3
    <3>18. ListingOK'
      <4>1. listing = <<>>
        BY <2>8 DEF SavingInv, Saving, ListingOK
      <4>2. listing' = <<>> /\ job'.op # "LIST"
        BY <1>5, <2>2, <2>8, <4>1 DEF SameJob
      <4> QED
        BY <4>2 DEF ListingOK
    <3> QED
      BY <2>4, <2>6, <3>16, <3>17, <3>18 DEF SavingInv, Saving, Walked
  <2> QED
    BY <1>1, <2>7, <2>8
<1> QED
  BY <1>5 DEF Read, IsPart

LEMMA ResponseSaves == Inv /\ SavingInv /\ Response => SavingInv'
<1> SUFFICES ASSUME Inv, SavingInv, Response PROVE SavingInv'
  OBVIOUS
<1>0. Sending("done") /\ UNCHANGED Locals
  BY DEF Response
<1>1. /\ stage = "getftp" /\ Head(plan) = "done"
      /\ session \in Sessions({session.data}) /\ job \in Jobs /\ con \in Cons
  BY <1>0, Commanded
<1>2. Pending # <<>> /\ Pending[1] \in {226, 426}
  BY <1>1, <1>0, Commanded DEF Inv, DialogueOK, Left, Data
<1>3. session.rest = 0
  <2>1. "done" # "retr"
    OBVIOUS
  <2> QED
    BY <1>0, <2>1, NoRest
<1>4. Ask(session) => session'.rest = 0
  <2>1. PICK t : t = Tail(Pending)
    OBVIOUS
  <2>2. Ask(session) => session' = [session EXCEPT !.replies = t]
    BY <2>1 DEF Ask, Pending
  <2> QED
    BY <1>1, <1>3, <2>2 DEF Sessions
<1>5. job.op = "RETR" => /\ OnDisk(job.qtyread)
                         /\ Pending[1] = 226 /\ job.res # -1 => job.qtyread = N
  BY <1>1 DEF SavingInv, Saving, FileOK, At, OnDisk
\* getftp returns.
<1>6. ASSUME NEW err, job' = [job EXCEPT !.err = err], stage' = "outcome", con'.own = con.own,
             session'.rest = 0, err = "RETRFINISHED" /\ job.op = "RETR" => job.qtyread = N
      PROVE  SavingInv'
  <2>1. SameJob /\ job'.qtyread = job.qtyread /\ job'.err = err
    BY <1>1, <1>6 DEF SameJob, Jobs
  <2>2. UNCHANGED <<world, stack, disk, listing, retrieved>>
    BY <1>0 DEF Locals
  <2>3. Alike
    BY <1>6, <2>1, <2>2 DEF Alike
  <2> QED
    BY <1>1, <1>5, <1>6, <2>1, <2>2, <2>3, GivingUp
<1>7. ASSUME CloseReturn("FTPRETRINT") PROVE SavingInv'
  <2>1. /\ job' = [job EXCEPT !.err = "FTPRETRINT"] /\ stage' = "outcome"
        /\ con' = [con EXCEPT !.alive = FALSE] /\ session' = Session
    BY <1>7 DEF CloseReturn
  <2>2. con'.own = con.own /\ session'.rest = 0
    BY <1>1, <2>1 DEF Cons, Session
  <2>3. "FTPRETRINT" # "RETRFINISHED"
    OBVIOUS
  <2> QED
    BY <1>6, <2>1, <2>2, <2>3
<1>8. ASSUME NEW err, Ask(session), Return(err),
             err = "RETRFINISHED" => Class(Heard(session)) = 2 /\ job.res # -1
      PROVE  SavingInv'
  <2>1. job' = [job EXCEPT !.err = err] /\ stage' = "outcome" /\ con'.own = con.own
    BY <1>8 DEF Return
  <2>2. Heard(session) = Pending[1]
    BY <1>1, <1>2 DEF Heard, Pending, Sessions
  <2>3. Class(426) = 4
    BY ClassOf
  <2>4. err = "RETRFINISHED" /\ job.op = "RETR" => job.qtyread = N
    BY <1>2, <1>5, <1>8, <2>2, <2>3
  <2> QED
    BY <1>4, <1>6, <1>8, <2>1, <2>4
\* The other command is tried.
<1>9. ASSUME Ask(session), job.op = "LIST", NEW c, plan' = <<Mode, c>>, con'.own = con.own,
             job' = [job EXCEPT !.before = Len(listing)], UNCHANGED stage
      PROVE  SavingInv'
  <2>1. SameJob /\ UNCHANGED <<world, stack, disk, listing, retrieved>>
    BY <1>0, <1>1, <1>9 DEF SameJob, Jobs, Locals
  <2>2. Alike
    BY <1>9, <2>1 DEF Alike
  <2>3. Walked'
    BY <2>2, WalkKept DEF SavingInv, Walked
  <2>4. PICK d : Head(plan') = d /\ d \in {"pasv", "port"}
    BY <1>9 DEF Mode
  <2>5. RestOK' /\ DataOK'
    BY <1>4, <1>9, <2>4, NoDataYet
  <2>6. DiskSaved' /\ WholeKept'
    BY <2>1, DiskKept DEF SavingInv, Saving
  <2>7. FileOK'
    BY <1>9, <2>1 DEF FileOK, SameJob
  <2>8. ListingOK'
    <3>1. ~At("read")'
      BY <2>4 DEF At
    <3> QED
      BY <1>9, <2>1, <3>1 DEF SavingInv, Saving, ListingOK, SameJob
  <2> QED
    BY <2>3, <2>5, <2>6, <2>7, <2>8 DEF SavingInv, Saving, Walked
<1>10. ASSUME Ask(session), Probing, Compare PROVE SavingInv'
  <2>1. job.op = "LIST"
    BY <1>10 DEF Probing
  <2>2. con'.own = con.own
    <3>1. \/ \E b \in BOOLEAN : con' = [con EXCEPT !.avoid_a = b]
          \/ \E b \in BOOLEAN : \E d : con' = [con EXCEPT !.checked = TRUE, !.avoid_a = b, !.avoid_list = d]
      BY <1>10 DEF Compare, Settle
    <3> QED
      BY <1>1, <3>1 DEF Cons
  <2>3. \/ job' = [job EXCEPT !.err = "RETRFINISHED"] /\ stage' = "outcome"
        \/ /\ job' = [job EXCEPT !.before = Len(listing)] /\ UNCHANGED stage
           /\ \E c : plan' = <<Mode, c>>
    BY <1>10 DEF Compare
  <2>4. CASE job' = [job EXCEPT !.err = "RETRFINISHED"] /\ stage' = "outcome"
    <3>1. "LIST" # "RETR"
      OBVIOUS
    <3> QED
      BY <1>4, <1>6, <1>10, <2>1, <2>2, <2>4, <3>1
  <2>5. ASSUME job' = [job EXCEPT !.before = Len(listing)], UNCHANGED stage, NEW c, plan' = <<Mode, c>>
        PROVE  SavingInv'
    BY <1>9, <1>10, <2>1, <2>2, <2>5
  <2> QED
    BY <2>3, <2>4, <2>5
<1>11. "FTPRETRINT" # "RETRFINISHED"
  OBVIOUS
<1> QED
  BY <1>7, <1>8, <1>10, <1>11 DEF Response

LEMMA TrySaves == Inv /\ Inv' /\ SavingInv /\ Try => SavingInv'
<1> SUFFICES ASSUME Inv, Inv', SavingInv, Try PROVE SavingInv'
  OBVIOUS
<1>1. /\ stage = "try" /\ stage' = "getftp" /\ plan' = Commands(Restval)
      /\ job' = [Job(job.op, job.of, job.dir, job.sized) EXCEPT
                    !.count = Counted, !.restval = Restval, !.qtyread = Restval]
      /\ UNCHANGED <<world, con, session, stack, disk, listing, retrieved>>
  BY DEF Try
<1>2. job \in Jobs /\ con \in Cons /\ (job.op = "LIST" \/ job.op = "RETR")
  <2>1. "try" \notin {"walk", "over"}
    OBVIOUS
  <2> QED
    BY <1>1, <2>1 DEF Inv, TypeOK, JobOK
<1>3. /\ SameJob /\ job'.restval = Restval /\ job'.qtyread = Restval
  <2>1. PICK q : q = Restval
    OBVIOUS
  <2> QED
    BY <1>1, <2>1 DEF SameJob, Job
<1>4. \A c : ~At(c)
  BY <1>1 DEF At
<1>5. session'.rest = 0
  BY <1>1, <1>4 DEF SavingInv, Saving, RestOK
<1>6. PICK d : Head(plan') = d /\ d \in {"login", "cwd", "size", "pasv", "port"}
  <2>1. con.alive => Head(plan') = IF Enters THEN "cwd" ELSE IF Opens THEN "size" ELSE Mode
    BY Planned
  <2>2. plan' # <<>> /\ (Head(plan') = "login" <=> ~con'.alive)
    BY <1>1 DEF Inv, PlanOK
  <2>3. CASE con.alive
    BY <2>1, <2>3 DEF Mode
  <2>4. CASE ~con.alive
    BY <1>1, <2>2, <2>4
  <2> QED
    BY <2>3, <2>4
<1>7. RestOK' /\ DataOK'
  BY <1>5, <1>6, NoDataYet
<1>8. ~At("read")' /\ ~At("done")'
  BY <1>6 DEF At
<1>9. DiskSaved' /\ WholeKept' /\ \A f, n : Begins(f, n) => Begins(f, n)'
  BY <1>1, DiskKept DEF SavingInv, Saving
<1>10. job.op = "RETR" => OnDisk(Restval)
  <2> SUFFICES ASSUME job.op = "RETR" PROVE OnDisk(Restval)
    OBVIOUS
  <2>1. Restval = IF world.rest /\ job.of \in DOMAIN disk THEN Len(disk[job.of])
                  ELSE IF job.count > 0 THEN job.qtyread ELSE 0
    BY DEF Restval
  <2>2. OnDisk(0) /\ OnDisk(job.qtyread)
    BY <1>1, WorldsAssumption DEF SavingInv, Saving, FileOK, OnDisk
  <2>3. ASSUME world.rest, job.of \in DOMAIN disk PROVE OnDisk(Len(disk[job.of]))
    <3>1. PICK n \in 0 .. N : IsPiece(disk[job.of], job.of, 0, n)
      BY <2>3 DEF SavingInv, Saving, DiskSaved
    <3>2. PICK g \in Names : g = job.of
      BY <1>2 DEF Jobs
    <3>3. PICK s : s = disk[job.of]
      OBVIOUS
    <3>4. Len(s) = n - 0 /\ n <= N /\ n \in Nat
      <4>1. n \in Nat /\ 0 <= n /\ 0 \in Nat /\ n <= N
        BY WorldsAssumption
      <4>2. IsPiece(s, g, 0, n)
        BY <3>1, <3>2, <3>3
      <4> QED
        BY <4>1, <4>2, PieceIs
    <3>5. Begins(job.of, n)
      BY <2>3, <3>1 DEF Begins
    <3>6. Len(s) = n
      BY <3>4
    <3> QED
      BY <3>3, <3>4, <3>5, <3>6 DEF OnDisk
  <2> QED
    BY <2>1, <2>2, <2>3
<1>11. FileOK'
  <2> SUFFICES ASSUME job.op = "RETR" PROVE FileOK'
    BY <1>3 DEF FileOK, SameJob
  <2>1. job.of \notin retrieved
    BY <1>1 DEF SavingInv, Saving, FileOK
  <2>2. job'.of \notin retrieved'
    BY <1>1, <1>3, <2>1 DEF SameJob
  <2>3. OnDisk(job.restval)'
    <3>1. PICK n : n = Restval
      OBVIOUS
    <3>2. n <= N /\ (n > 0 => Begins(job.of, n))
      BY <1>10, <3>1 DEF OnDisk
    <3>3. job'.restval = n /\ job'.of = job.of
      BY <1>3, <3>1 DEF SameJob
    <3>4. n > 0 => Begins(job.of, n)'
      BY <1>9, <3>2, <3>3
    <3> QED
      BY <3>2, <3>3, <3>4 DEF OnDisk
  <2> QED
    BY <1>1, <1>3, <1>8, <2>2, <2>3 DEF FileOK
<1>12. ListingOK'
  BY <1>1, <1>3, <1>8 DEF SavingInv, Saving, ListingOK, SameJob
<1>13. Walked'
  <2>1. Alike
    BY <1>1, <1>3 DEF Alike
  <2> QED
    BY <2>1, WalkKept DEF SavingInv, Walked
<1> QED
  BY <1>7, <1>9, <1>11, <1>12, <1>13 DEF SavingInv, Saving, Walked

\* ftp_loop_internal returns.
LEMMA LeavingSaves ==
    ASSUME Inv, SavingInv, stage = "outcome", NEW c, NEW err, Returned(c, err), c.own = con.own,
           session'.rest = 0, UNCHANGED <<world, plan, stack, disk, listing>>, err = "RETROK" => Succeeded
    PROVE  SavingInv'
<1>1. /\ job' = [Job(job.op, job.of, job.dir, job.sized) EXCEPT !.err = err]
      /\ stage' = "returned" /\ con' = c
      /\ retrieved' = IF job.op = "RETR" /\ err = "RETROK" THEN retrieved \cup {job.of} ELSE retrieved
  BY DEF Returned
<1>2. SameJob
  BY <1>1 DEF SameJob, Job
<1>3. \A k : ~At(k)'
  BY <1>1 DEF At
<1>4. RestOK' /\ DataOK'
  BY <1>3 DEF RestOK, DataOK
<1>5. FileOK'
  BY <1>1, <1>3 DEF FileOK
<1>6. ListingOK'
  <2>1. CASE job.op = "LIST"
    <3>1. retrieved' = retrieved
      BY <1>1, <2>1
    <3> QED
      BY <1>2, <1>3, <2>1, <3>1 DEF SavingInv, Saving, ListingOK, SameJob
  <2>2. CASE job.op # "LIST"
    BY <1>2, <2>2 DEF SavingInv, Saving, ListingOK, SameJob
  <2> QED
    BY <2>1, <2>2
<1>7. DiskSaved'
  BY DEF SavingInv, Saving, DiskSaved
\* A file that is complete has all its bytes.
<1>8. job.op = "RETR" /\ err = "RETROK" => Begins(job.of, N)
  <2> SUFFICES ASSUME job.op = "RETR", Succeeded PROVE Begins(job.of, N)
    OBVIOUS
  <2>1. job.err \notin Fatal
    BY DEF Succeeded, Fatal
  <2>2. OnDisk(job.qtyread) /\ job.qtyread = N
    BY <2>1 DEF SavingInv, Saving, FileOK, Succeeded
  <2>3. N > 0
    BY WorldsAssumption
  <2> QED
    BY <2>2, <2>3 DEF OnDisk
<1>9. WholeKept'
  <2> SUFFICES ASSUME NEW f \in retrieved' PROVE Begins(f, N)'
    BY DEF WholeKept
  <2>1. Begins(f, N)
    <3>1. CASE f \in retrieved
      BY <3>1 DEF SavingInv, Saving, WholeKept
    <3>2. CASE f \notin retrieved
      BY <1>1, <1>8, <3>2
    <3> QED
      BY <3>1, <3>2
  <2> QED
    BY <2>1 DEF Begins
<1>10. PICK V \in SUBSET DOMAIN Tree : WalkOK(V)
  BY DEF SavingInv
<1>11. WalkOK(V)'
  <2>1. world' = world /\ stack' = stack /\ Top' = Top /\ con'.own = con.own
    BY <1>1 DEF Top
  <2>2. CASE retrieved' = retrieved
    BY <1>2, <1>10, <2>1, <2>2 DEF WalkOK, SameJob
  <2>3. CASE job.op = "RETR" /\ retrieved' = retrieved \cup {job.of}
    <3>1. /\ job.sized <=> ~con.own
          /\ job.sized => stack # <<>> /\ job.dir = Top.dir
      BY <2>3 DEF Inv, JobOK
    <3>2. con.own => stack = <<>>
      BY DEF Inv, StackOK
    <3>3. ~con.own => /\ job.of \in Files(Top.dir)
                      /\ \A i \in 1 .. Len(stack) : Never("file", stack[i].files, {job.of})
      BY <1>10, <2>3, <3>1 DEF WalkOK
    <3>4. ~con.own => Top.dir \in V
      <4> SUFFICES ASSUME ~con.own PROVE Top.dir \in V
        OBVIOUS
      <4>1. Len(stack) \in 1 .. Len(stack)
        BY <3>1, StackType
      <4> QED
        BY <1>10, <4>1 DEF WalkOK, Top
    <3>5. con.own \/ \A f \in retrieved' : \E d \in V : f \in Files(d)
      <4> SUFFICES ASSUME ~con.own, NEW f \in retrieved' PROVE \E d \in V : f \in Files(d)
        OBVIOUS
      <4>1. CASE f = job.of
        BY <3>3, <3>4, <4>1
      <4>2. CASE f \in retrieved
        BY <1>10, <4>2 DEF WalkOK
      <4> QED
        BY <2>3, <4>1, <4>2
    <3>6. \A i \in 1 .. Len(stack) : Never("file", stack[i].files, retrieved')
      <4> SUFFICES ASSUME NEW i \in 1 .. Len(stack) PROVE Never("file", stack[i].files, retrieved')
        OBVIOUS
      <4>1. ~con.own
        <5>1. ASSUME con.own PROVE FALSE
          <6>1. Len(stack) = 0
            BY <3>2, <5>1
          <6> QED
            BY <6>1
        <5> QED
          BY <5>1
      <4>2. Never("file", stack[i].files, retrieved) /\ Never("file", stack[i].files, {job.of})
        BY <1>10, <3>3, <4>1 DEF WalkOK
      <4> QED
        BY <2>3, <4>2 DEF Never
    <3> QED
      BY <1>2, <1>10, <2>1, <3>5, <3>6 DEF WalkOK, SameJob
  <2> QED
    BY <1>1, <2>2, <2>3
<1> QED
  BY <1>4, <1>5, <1>6, <1>7, <1>9, <1>11 DEF SavingInv, Saving

LEMMA LoopSaves == Inv /\ SavingInv /\ Loop => SavingInv'
<1> SUFFICES ASSUME Inv, SavingInv, Loop PROVE SavingInv'
  OBVIOUS
<1> DEFINE c == [con EXCEPT !.done_cwd = con.alive]
           done == IF con.own THEN [c EXCEPT !.alive = FALSE] ELSE c
           again == /\ job' = [Job(job.op, job.of, job.dir, job.sized) EXCEPT
                                  !.count = job.count, !.qtyread = job.qtyread]
                    /\ stage' = "try" /\ con' = c /\ UNCHANGED retrieved
<1>1. /\ stage = "outcome"
      /\ session' = (IF con'.alive THEN session ELSE Session)
      /\ UNCHANGED <<world, plan, stack, disk, listing>>
      /\ \/ job.err \in Fatal /\ Returned(c, job.err)
         \/ Succeeded /\ Returned(done, "RETROK")
         \/ job.err \notin Fatal /\ again
         \/ ~Succeeded /\ Returned(done, "TRYLIMEXC")
  BY DEF Loop
<1>2. con \in Cons /\ job \in Jobs
  BY DEF Inv, TypeOK
<1>3. c.own = con.own /\ done.own = con.own
  BY <1>2 DEF Cons
<1> HIDE DEF c, done
<1>4. session'.rest = 0
  <2>1. ~At("retr")
    BY <1>1 DEF At
  <2>2. session.rest = 0
    BY <2>1 DEF SavingInv, Saving, RestOK
  <2> QED
    BY <1>1, <2>2 DEF Session
<1>5. CASE job.err \in Fatal /\ Returned(c, job.err)
  <2>1. job.err # "RETROK"
    BY <1>5 DEF Fatal
  <2> QED
    BY <1>1, <1>3, <1>4, <1>5, <2>1, LeavingSaves
<1>6. CASE Succeeded /\ Returned(done, "RETROK")
  BY <1>1, <1>3, <1>4, <1>6, LeavingSaves
<1>7. CASE ~Succeeded /\ Returned(done, "TRYLIMEXC")
  <2>1. "TRYLIMEXC" # "RETROK"
    OBVIOUS
  <2> QED
    BY <1>1, <1>3, <1>4, <1>7, <2>1, LeavingSaves
<1>8. CASE job.err \notin Fatal /\ again
  <2>1. SameJob /\ job'.qtyread = job.qtyread
    BY <1>8 DEF SameJob, Job
  <2>2. stage' = "try" /\ con'.own = con.own /\ retrieved' = retrieved
    BY <1>3, <1>8
  <2>3. \A k : ~At(k)'
    BY <2>2 DEF At
  <2>4. RestOK' /\ DataOK'
    BY <1>4, <2>3 DEF RestOK, DataOK
  <2>5. DiskSaved' /\ WholeKept' /\ \A f, n : Begins(f, n) => Begins(f, n)'
    BY <1>1, <2>2, DiskKept DEF SavingInv, Saving
  <2>6. FileOK'
    <3> SUFFICES ASSUME job.op = "RETR" PROVE FileOK'
      BY <2>1 DEF FileOK, SameJob
    <3>1. job.of \notin retrieved /\ job.qtyread <= N /\ (job.qtyread > 0 => Begins(job.of, job.qtyread))
      BY <1>1, <1>8 DEF SavingInv, Saving, FileOK, OnDisk
    <3>2. OnDisk(job.qtyread)'
      BY <2>1, <2>5, <3>1 DEF OnDisk, SameJob
    <3>3. job'.of \notin retrieved'
      BY <2>1, <2>2, <3>1 DEF SameJob
    <3> QED
      BY <2>2, <2>3, <3>2, <3>3 DEF FileOK
  <2>7. ListingOK'
    BY <1>1, <2>1, <2>2, <2>3 DEF SavingInv, Saving, ListingOK, SameJob
  <2>8. Walked'
    <3>1. Alike
      BY <1>1, <2>1, <2>2 DEF Alike
    <3> QED
      BY <3>1, WalkKept DEF SavingInv, Walked
  <2> QED
    BY <2>4, <2>5, <2>6, <2>7, <2>8 DEF SavingInv, Saving, Walked
<1> QED
  BY <1>1, <1>5, <1>6, <1>7, <1>8

(***************************************************************************)
(* The walk keeps it                                                       *)
(***************************************************************************)
LEMMA NowhereElse ==
    ASSUME NEW d \in DOMAIN Tree, NEW e \in DOMAIN Tree, d # e
    PROVE  /\ \A f : ~ (f \in Files(d) /\ f \in Files(e))
           /\ \A f : ~ (f \in Dirs(d) /\ f \in Dirs(e))
<1>1. Files(d) \cap Files(e) = {} /\ Dirs(d) \cap Dirs(e) = {}
  BY NamesAssumption DEF InOnePlace
<1> QED
  BY <1>1

\* What the walk asks for next was not retrieved or listed yet.
Going(V) ==
    /\ job.op = "LIST" =>
          /\ job.dir \notin V
          /\ \A i \in 1 .. Len(stack) : Never("dir", stack[i].dirs, {job.dir})
          /\ world.mode = "tree" /\ job.dir # "" => \E p \in V : job.dir \in Dirs(p)
    /\ job.op = "RETR" /\ job.sized =>
          /\ job.of \in Files(Top.dir)
          /\ \A i \in 1 .. Len(stack) : Never("file", stack[i].files, {job.of})
FrameOK(V, d, files, dirs) ==
    /\ d \in V
    /\ Lists(d, files) /\ Never("file", files, retrieved)
    /\ Lists(d, dirs) /\ Never("dir", dirs, V)

LEMMA FramesOf ==
    ASSUME NEW V, WalkOK(V)
    PROVE  /\ \A i \in 1 .. Len(stack) : FrameOK(V, stack[i].dir, stack[i].files, stack[i].dirs)
           /\ \A i, j \in 1 .. Len(stack) : stack[i].dir = stack[j].dir => i = j
           /\ V \subseteq DOMAIN Tree
BY DEF WalkOK, FrameOK

LEMMA Strolls ==
    ASSUME NEW V, WalkOK(V), UNCHANGED <<world, retrieved>>, con'.own = con.own, Going(V)',
           \A i \in 1 .. Len(stack') : FrameOK(V, stack'[i].dir, stack'[i].files, stack'[i].dirs),
           \A i, j \in 1 .. Len(stack') : stack'[i].dir = stack'[j].dir => i = j
    PROVE  WalkOK(V)'
<1>1. /\ V \subseteq DOMAIN Tree
      /\ world.mode = "tree" => \A d \in V : d = "" \/ \E p \in V : d \in Dirs(p)
      /\ world.mode = "own" => con.own
      /\ con.own \/ \A f \in retrieved : \E d \in V : f \in Files(d)
  BY DEF WalkOK
<1>2. \A i \in 1 .. Len(stack') :
          /\ stack'[i].dir \in V
          /\ Lists(stack'[i].dir, stack'[i].files) /\ Never("file", stack'[i].files, retrieved)
          /\ Lists(stack'[i].dir, stack'[i].dirs) /\ Never("dir", stack'[i].dirs, V)
  BY DEF FrameOK
<1> QED
  BY <1>1, <1>2 DEF WalkOK, Going

\* Between two files nothing is written.
LEMMA Between ==
    ASSUME SavingInv, stage # "getftp", stage' # "getftp", stage' # "outcome",
           UNCHANGED <<world, disk, retrieved>>, session'.rest = 0, ListingOK', Walked',
           stage' = "try" /\ job'.op = "RETR" => job'.of \notin retrieved /\ job'.qtyread = 0
    PROVE  SavingInv'
<1>1. \A k : ~At(k)'
  BY DEF At
<1>2. RestOK' /\ DataOK'
  BY <1>1 DEF RestOK, DataOK
<1>3. DiskSaved' /\ WholeKept'
  BY DiskKept DEF SavingInv, Saving
<1>4. FileOK'
  <2>1. 0 <= N
    BY WorldsAssumption
  <2>2. stage' = "try" /\ job'.op = "RETR" => OnDisk(job.qtyread)'
    BY <2>1 DEF OnDisk
  <2> QED
    BY <1>1, <2>2 DEF FileOK
<1> QED
  BY <1>2, <1>3, <1>4 DEF SavingInv, Saving, Walked

LEMMA Resting ==
    ASSUME SavingInv, stage # "getftp"
    PROVE  session.rest = 0
BY DEF SavingInv, Saving, RestOK, At

\* What the innermost directory has left gets shorter.
LEMMA TopShorter ==
    ASSUME NEW V, WalkOK(V), UNCHANGED <<world, retrieved>>, con'.own = con.own, Going(V)',
           stack \in Seq(Frames), stack # <<>>, NEW f \in Frames, stack' = [stack EXCEPT ![Len(stack)] = f],
           FrameOK(V, Top.dir, f.files, f.dirs), f.dir = Top.dir
    PROVE  WalkOK(V)'
<1>1. PICK n : n = Len(stack)
  OBVIOUS
<1>2. f.dir = stack[Len(stack)].dir
  BY DEF Top
<1>3. /\ Len(stack') = n
      /\ \A i \in 1 .. n : i # n => stack'[i] = stack[i]
      /\ stack'[n] = f
  BY <1>1, <1>2, TopChanged
<1>4. /\ \A i \in 1 .. n : FrameOK(V, stack[i].dir, stack[i].files, stack[i].dirs)
      /\ \A i, j \in 1 .. n : stack[i].dir = stack[j].dir => i = j
  BY <1>1, FramesOf
<1>5. \A i \in 1 .. n : stack'[i].dir = stack[i].dir
  BY <1>1, <1>2, <1>3
<1>6. ASSUME NEW i \in 1 .. n
      PROVE  FrameOK(V, stack'[i].dir, stack'[i].files, stack'[i].dirs)
  <2>1. CASE i = n
    BY <1>3, <2>1
  <2>2. CASE i # n
    BY <1>3, <1>4, <2>2
  <2> QED
    BY <2>1, <2>2
<1>7. \A i, j \in 1 .. n : stack'[i].dir = stack'[j].dir => i = j
  BY <1>4, <1>5
<1> QED
  BY <1>3, <1>6, <1>7, Strolls

LEMMA GotFileSaves == Inv /\ SavingInv /\ GotFile => SavingInv'
<1> SUFFICES ASSUME Inv, SavingInv, GotFile PROVE SavingInv'
  OBVIOUS
<1>1. /\ stage = "returned" /\ job.op = "RETR" /\ stage' = "walk" /\ job' = NoJob
      /\ UNCHANGED <<world, plan, con, session, disk, listing, retrieved>>
  BY DEF GotFile, Walking
<1>2. PICK V \in SUBSET DOMAIN Tree : WalkOK(V)
  BY DEF SavingInv
<1>3. job'.op = "none"
  BY <1>1 DEF NoJob, Job
<1>4. session'.rest = 0
  BY <1>1, Resting
<1>5. Going(V)'
  BY <1>3 DEF Going
<1>6. ListingOK'
  BY <1>1, <1>3 DEF SavingInv, Saving, ListingOK
<1>7. WalkOK(V)'
  <2>1. CASE stack' = stack
    BY <1>1, <1>2, <1>5, <2>1, FramesOf, Strolls
  <2>2. CASE stack # <<>> /\ stack' = [stack EXCEPT ![Len(stack)].files = <<>>]
    <3>1. stack \in Seq(Frames) /\ Top \in Frames /\ Len(stack) \in 1 .. Len(stack)
      BY <2>2, StackType
    <3>2. PICK f : f = [Top EXCEPT !.files = <<>>]
      OBVIOUS
    <3>3. f \in Frames /\ f.dir = Top.dir /\ f.dirs = Top.dirs /\ f.files = <<>>
      BY <3>1, <3>2, EmptySeq DEF Frames
    <3>4. stack' = [stack EXCEPT ![Len(stack)] = f]
      <4>1. stack[Len(stack)] = Top
        BY DEF Top
      <4> QED
        BY <2>2, <3>2, <4>1
    <3>5. FrameOK(V, Top.dir, Top.files, Top.dirs)
      BY <1>2, <3>1, FramesOf DEF Top
    <3>6. Lists(Top.dir, <<>>) /\ Never("file", <<>>, retrieved)
      BY ListsNothing DEF Never
    <3>7. FrameOK(V, Top.dir, f.files, f.dirs)
      BY <3>3, <3>5, <3>6 DEF FrameOK
    <3> QED
      BY <1>1, <1>2, <1>5, <2>2, <3>1, <3>3, <3>4, <3>7, TopShorter
  <2> QED
    BY <2>1, <2>2 DEF GotFile
<1>8. Walked'
  BY <1>7 DEF Walked
<1> QED
  BY <1>1, <1>3, <1>4, <1>6, <1>8, Between

LEMMA EndSaves == Inv /\ SavingInv /\ End => SavingInv'
<1> SUFFICES ASSUME Inv, SavingInv, End PROVE SavingInv'
  OBVIOUS
<1>1. /\ stage = "walk" /\ stage' = "over" /\ con' = [con EXCEPT !.alive = FALSE] /\ session' = Session
      /\ UNCHANGED <<world, plan, job, stack, disk, listing, retrieved>>
  BY DEF End
<1>2. PICK V \in SUBSET DOMAIN Tree : WalkOK(V)
  BY DEF SavingInv
<1>3. job = NoJob /\ con \in Cons
  BY <1>1 DEF Inv, JobOK, TypeOK
<1>4. job'.op = "none" /\ job.op = "none" /\ con'.own = con.own
  BY <1>1, <1>3 DEF NoJob, Job, Cons
<1>5. session'.rest = 0
  BY <1>1 DEF Session
<1>6. Going(V)'
  BY <1>4 DEF Going
<1>7. ListingOK'
  BY <1>1, <1>4 DEF SavingInv, Saving, ListingOK
<1>8. WalkOK(V)'
  BY <1>1, <1>2, <1>4, <1>6, FramesOf, Strolls
<1>9. Walked'
  BY <1>8 DEF Walked
<1> QED
  BY <1>1, <1>5, <1>7, <1>9, Between

LEMMA NextFileSaves == Inv /\ SavingInv /\ NextFile => SavingInv'
<1> SUFFICES ASSUME Inv, SavingInv, NextFile PROVE SavingInv'
  OBVIOUS
<1>1. /\ stage = "walk" /\ stack # <<>> /\ Top.files # <<>>
      /\ UNCHANGED <<world, plan, con, session, disk, listing, retrieved>>
      /\ stack' = [stack EXCEPT ![Len(stack)].files = Tail(@)]
  BY DEF NextFile
<1>2. stack \in Seq(Frames) /\ Top \in Frames /\ Len(stack) \in 1 .. Len(stack) /\ job = NoJob
  BY <1>1, StackType DEF Inv, JobOK
<1>3. PICK e, t : e = Head(Top.files) /\ t = Tail(Top.files)
  OBVIOUS
<1>4. Top.files \in Seq(ListEntries) /\ t \in Seq(ListEntries)
  <2>1. Top.files \in Seq(ListEntries)
    BY <1>2 DEF Frames
  <2> QED
    BY <1>1, <1>3, <2>1, HeadTailProperties
<1>5. PICK f : f = [Top EXCEPT !.files = t]
  OBVIOUS
<1>6. f \in Frames /\ f.dir = Top.dir /\ f.dirs = Top.dirs /\ f.files = t
  BY <1>2, <1>4, <1>5 DEF Frames
<1>7. stack' = [stack EXCEPT ![Len(stack)] = f]
  <2>1. stack[Len(stack)] = Top
    BY DEF Top
  <2> QED
    BY <1>1, <1>3, <1>5, <2>1
<1>8. PICK V \in SUBSET DOMAIN Tree : WalkOK(V)
  BY DEF SavingInv
<1>9. FrameOK(V, Top.dir, Top.files, Top.dirs)
  BY <1>2, <1>8, FramesOf DEF Top
<1>10. /\ Lists(Top.dir, t) /\ Never("file", t, retrieved)
       /\ e.kind = "file" => e.name \notin retrieved /\ e.name \in Files(Top.dir)
       /\ Never(e.kind, t, {e.name})
  <2>1. Lists(Top.dir, Top.files) /\ Never("file", Top.files, retrieved)
    BY <1>9 DEF FrameOK
  <2> QED
    BY <1>1, <1>3, <1>4, <2>1, ListsTail
<1>11. FrameOK(V, Top.dir, f.files, f.dirs)
  BY <1>6, <1>9, <1>10 DEF FrameOK
<1>12. session'.rest = 0
  BY <1>1, Resting
<1>13. listing' = <<>> /\ job.op = "none"
  BY <1>1, <1>2 DEF SavingInv, Saving, ListingOK, NoJob, Job
<1>14. CASE UNCHANGED <<job, stage>>
  <2>1. job'.op = "none"
    BY <1>13, <1>14
  <2>2. Going(V)' /\ ListingOK'
    BY <1>13, <2>1 DEF Going, ListingOK
  <2>3. WalkOK(V)'
    BY <1>1, <1>2, <1>6, <1>7, <1>8, <1>11, <2>2, TopShorter
  <2>4. Walked'
    BY <2>3 DEF Walked
  <2> QED
    BY <1>1, <1>12, <1>14, <2>1, <2>2, <2>4, Between
<1>15. CASE Wanted(e) /\ job' = FileJob(e.name, Top.dir, TRUE) /\ stage' = "try"
  <2>1. e.kind = "file" /\ e.name \notin retrieved /\ e.name \in Files(Top.dir)
        /\ Never("file", t, {e.name})
    <3>1. e.kind = "file"
      BY <1>15 DEF Wanted
    <3> QED
      BY <1>10, <3>1
  <2>2. job'.op = "RETR" /\ job'.of = e.name /\ job'.qtyread = 0
    BY <1>15 DEF FileJob, Job
  <2>3. PICK n : n = Len(stack)
    OBVIOUS
  <2>4. /\ Len(stack') = n /\ Top'.dir = Top.dir
        /\ \A i \in 1 .. n : i # n => stack'[i] = stack[i]
        /\ stack'[n] = f
    <3>1. f.dir = stack[Len(stack)].dir
      BY <1>6 DEF Top
    <3> QED
      BY <1>1, <1>2, <1>6, <1>7, <2>3, <3>1, TopChanged
  <2>5. ASSUME NEW i \in 1 .. n PROVE Never("file", stack'[i].files, {e.name})
    <3>1. CASE i = n
      BY <1>6, <2>1, <2>4, <3>1
    <3>2. CASE i # n
      <4>1. i \in 1 .. n - 1
        BY <1>2, <2>3, <3>2
      <4>2. stack[i].files = <<>>
        BY <2>3, <4>1 DEF Inv, StackOK
      <4>3. DOMAIN stack'[i].files = {}
        BY <2>4, <3>2, <4>2
      <4> QED
        BY <4>3 DEF Never
    <3> QED
      BY <3>1, <3>2
  <2>6. Going(V)'
    BY <2>1, <2>2, <2>4, <2>5 DEF Going
  <2>7. ListingOK'
    BY <1>13, <2>2 DEF ListingOK
  <2>8. WalkOK(V)'
    BY <1>1, <1>2, <1>6, <1>7, <1>8, <1>11, <2>6, TopShorter
  <2>9. Walked'
    BY <2>8 DEF Walked
  <2> QED
    BY <1>1, <1>12, <1>15, <2>1, <2>2, <2>7, <2>9, Between
<1> QED
  BY <1>3, <1>14, <1>15 DEF NextFile

LEMMA NextDirSaves == Inv /\ SavingInv /\ NextDir => SavingInv'
<1> SUFFICES ASSUME Inv, SavingInv, NextDir PROVE SavingInv'
  OBVIOUS
<1>1. /\ stage = "walk" /\ stack # <<>> /\ Top.files = <<>>
      /\ UNCHANGED <<world, plan, session, disk, listing, retrieved>>
  BY DEF NextDir
<1>2. /\ stack \in Seq(Frames) /\ Top \in Frames /\ Len(stack) \in 1 .. Len(stack)
      /\ con \in Cons
  BY <1>1, StackType
<1>3. job = NoJob /\ ~con.own
  BY <1>1 DEF Inv, JobOK, StackOK
<1>4. PICK V \in SUBSET DOMAIN Tree : WalkOK(V)
  BY DEF SavingInv
<1>5. PICK n : n = Len(stack) /\ n \in Nat /\ n >= 1
  BY <1>2
<1>6. /\ \A i \in 1 .. n : FrameOK(V, stack[i].dir, stack[i].files, stack[i].dirs)
      /\ \A i, j \in 1 .. n : stack[i].dir = stack[j].dir => i = j
      /\ V \subseteq DOMAIN Tree
  BY <1>4, <1>5, FramesOf
<1>7. FrameOK(V, Top.dir, Top.files, Top.dirs) /\ Top = stack[n] /\ n \in 1 .. n
  <2>1. Top = stack[n] /\ n \in 1 .. n
    BY <1>5 DEF Top
  <2> QED
    BY <1>6, <2>1
<1>8. session'.rest = 0
  BY <1>1, Resting
<1>9. listing' = <<>> /\ job.op = "none"
  BY <1>1, <1>3 DEF SavingInv, Saving, ListingOK, NoJob, Job
<1>10. CASE stack' = SubSeq(stack, 1, Len(stack) - 1) /\ UNCHANGED <<job, stage, con>>
  <2>1. Len(stack') = n - 1 /\ \A i \in 1 .. n - 1 : stack'[i] = stack[i]
    <3>1. \A i \in 1 .. n - 1 : stack[i] \in Frames
      BY <1>2, <1>5, ElementOfSeq
    <3>2. n - 1 \in Nat /\ n - 1 <= Len(stack) /\ n - 1 \in 1 - 1 .. Len(stack)
      BY <1>5
    <3> QED
      BY <1>2, <1>5, <1>10, <3>1, <3>2, SubSeqProperties
  <2>2. Going(V)' /\ ListingOK'
    BY <1>9, <1>10 DEF Going, ListingOK
  <2>3. \A i \in 1 .. n - 1 : i \in 1 .. n
    BY <1>5
  <2>4. \A i \in 1 .. n - 1 : FrameOK(V, stack'[i].dir, stack'[i].files, stack'[i].dirs)
    BY <1>6, <2>1, <2>3
  <2>5. \A i, j \in 1 .. n - 1 : stack'[i].dir = stack'[j].dir => i = j
    BY <1>6, <2>1, <2>3
  <2>6. WalkOK(V)'
    BY <1>1, <1>4, <1>10, <2>1, <2>2, <2>4, <2>5, Strolls
  <2>7. Walked'
    BY <2>6 DEF Walked
  <2>8. stage' # "getftp" /\ stage' # "outcome" /\ stage' # "try"
    BY <1>1, <1>10
  <2> QED
    BY <1>1, <1>8, <2>2, <2>7, <2>8, Between
<1>11. CASE /\ Top.dirs # <<>>
            /\ stack' = [stack EXCEPT ![Len(stack)].dirs = Tail(@)]
            /\ \/ /\ Head(Top.dirs).kind = "dir"
                  /\ job' = ListJob(Head(Top.dirs).name) /\ stage' = "try" /\ Enter
               \/ UNCHANGED <<job, stage, con>>
  <2>1. PICK e, t : e = Head(Top.dirs) /\ t = Tail(Top.dirs)
    OBVIOUS
  <2>2. Top.dirs \in Seq(ListEntries) /\ t \in Seq(ListEntries)
    <3>1. Top.dirs \in Seq(ListEntries)
      BY <1>2 DEF Frames
    <3> QED
      BY <1>11, <2>1, <3>1, HeadTailProperties
  <2>3. PICK f : f = [Top EXCEPT !.dirs = t]
    OBVIOUS
  <2>4. f \in Frames /\ f.dir = Top.dir /\ f.dirs = t /\ f.files = Top.files
    BY <1>2, <2>2, <2>3 DEF Frames
  <2>5. stack' = [stack EXCEPT ![Len(stack)] = f]
    <3>1. stack[Len(stack)] = Top
      BY DEF Top
    <3> QED
      BY <1>11, <2>1, <2>3, <3>1
  <2>6. /\ Lists(Top.dir, t) /\ Never("dir", t, V)
        /\ e.name \in IF e.kind = "file" THEN Files(Top.dir) ELSE Dirs(Top.dir)
        /\ e.kind = "dir" => e.name \notin V
        /\ Never(e.kind, t, {e.name})
    <3>1. Lists(Top.dir, Top.dirs) /\ Never("dir", Top.dirs, V)
      BY <1>7 DEF FrameOK
    <3> QED
      BY <1>11, <2>1, <2>2, <3>1, ListsTail
  <2>7. FrameOK(V, Top.dir, f.files, f.dirs)
    BY <1>7, <2>4, <2>6 DEF FrameOK
  <2>8. CASE UNCHANGED <<job, stage, con>>
    <3>1. Going(V)' /\ ListingOK'
      BY <1>9, <2>8 DEF Going, ListingOK
    <3>2. WalkOK(V)'
      BY <1>1, <1>2, <1>4, <2>4, <2>5, <2>7, <2>8, <3>1, TopShorter
    <3>3. Walked'
      BY <3>2 DEF Walked
    <3>4. stage' # "getftp" /\ stage' # "outcome" /\ stage' # "try"
      BY <1>1, <2>8
    <3> QED
      BY <1>1, <1>8, <3>1, <3>3, <3>4, Between
  <2>9. CASE e.kind = "dir" /\ job' = ListJob(e.name) /\ stage' = "try" /\ Enter
    <3>1. job'.op = "LIST" /\ job'.dir = e.name
      BY <2>9 DEF ListJob, Job
    <3>2. con'.own = con.own
      BY <1>2, <2>9 DEF Enter, Cons
    <3>3. e.name \in Dirs(Top.dir) /\ e.name \notin V /\ Never("dir", t, {e.name}) /\ Top.dir \in V
      <4>1. "dir" # "file"
        OBVIOUS
      <4> QED
        BY <1>7, <2>6, <2>9, <4>1 DEF FrameOK
    <3>4. /\ Len(stack') = n
          /\ \A i \in 1 .. n : i # n => stack'[i] = stack[i]
          /\ stack'[n] = f
      <4>1. f.dir = stack[Len(stack)].dir
        BY <2>4 DEF Top
      <4> QED
        BY <1>1, <1>2, <1>5, <2>4, <2>5, <4>1, TopChanged
    <3>5. ASSUME NEW i \in 1 .. n PROVE Never("dir", stack'[i].dirs, {e.name})
      <4>1. CASE i = n
        BY <2>4, <3>3, <3>4, <4>1
      <4>2. CASE i # n
        <5>1. stack[i].dir # Top.dir
          BY <1>6, <1>7, <4>2
        <5>2. FrameOK(V, stack[i].dir, stack[i].files, stack[i].dirs)
          BY <1>6
        <5>3. stack[i].dir \in DOMAIN Tree /\ Top.dir \in DOMAIN Tree /\ Lists(stack[i].dir, stack[i].dirs)
          BY <1>6, <3>3, <5>2 DEF FrameOK
        <5>4. e.name \notin Dirs(stack[i].dir)
          BY <3>3, <5>1, <5>3, NowhereElse
        <5>5. Never("dir", stack[i].dirs, {e.name})
          BY <5>3, <5>4 DEF Never, Lists
        <5> QED
          BY <3>4, <4>2, <5>5
      <4> QED
        BY <4>1, <4>2
    <3>6. Going(V)'
      BY <3>1, <3>3, <3>4, <3>5 DEF Going
    <3>7. ListingOK'
      <4>1. world.mode # "one"
        <5> SUFFICES ASSUME world.mode = "one" PROVE FALSE
          OBVIOUS
        <5>1. stack[n].dirs = <<>>
          BY <1>5, <1>7 DEF Inv, StackOK
        <5> QED
          BY <1>7, <1>11, <5>1
      <4>2. ~At("read")'
        BY <2>9 DEF At
      <4>3. Lists(job'.dir, <<>>)
        BY ListsNothing
      <4> QED
        BY <1>1, <1>9, <3>1, <4>1, <4>2, <4>3 DEF ListingOK
    <3>8. WalkOK(V)'
      BY <1>1, <1>2, <1>4, <2>4, <2>5, <2>7, <3>2, <3>6, TopShorter
    <3>9. Walked'
      BY <3>8 DEF Walked
    <3> QED
      BY <1>1, <1>8, <2>9, <3>1, <3>7, <3>9, Between
  <2> QED
    BY <1>11, <2>1, <2>8, <2>9
<1> QED
  BY <1>10, <1>11 DEF NextDir

\* The directory that was listed becomes the innermost one.
LEMMA Entering ==
    ASSUME Inv, NEW V, WalkOK(V), UNCHANGED <<world, con, retrieved>>, job' = NoJob, ~con.own,
           job.op = "LIST", Lists(job.dir, listing), stack' = Append(stack, Frame),
           NEW W, W = V \cup {job.dir}
    PROVE  WalkOK(W)'
<1> DEFINE d == job.dir
           dirs == IF world.mode = "one" THEN <<>> ELSE listing
<1>1. /\ V \subseteq DOMAIN Tree /\ world.mode \in {"tree", "one", "own"} /\ world.mode # "own"
      /\ world.mode = "tree" => \A x \in V : x = "" \/ \E p \in V : x \in Dirs(p)
      /\ \A f \in retrieved : \E x \in V : f \in Files(x)
      /\ d \notin V
      /\ \A i \in 1 .. Len(stack) : Never("dir", stack[i].dirs, {d})
      /\ world.mode = "tree" /\ d # "" => \E p \in V : d \in Dirs(p)
  <2>1. world.mode \in {"tree", "one", "own"}
    BY WorldsAssumption DEF Inv, TypeOK
  <2> QED
    BY <2>1 DEF WalkOK
<1>2. d \in DOMAIN Tree /\ stack \in Seq(Frames) /\ Len(stack) \in Nat
  <2>1. stack \in Seq(Frames) /\ job \in Jobs
    BY StackType
  <2> QED
    BY <2>1 DEF Jobs
<1>3. /\ \A i \in 1 .. Len(stack) : FrameOK(V, stack[i].dir, stack[i].files, stack[i].dirs)
      /\ \A i, j \in 1 .. Len(stack) : stack[i].dir = stack[j].dir => i = j
  BY FramesOf
<1>4. PICK n : n = Len(stack) /\ n \in Nat
  BY <1>2
<1>5. /\ Len(stack') = n + 1 /\ \A i \in 1 .. n : stack'[i] = stack[i]
      /\ stack'[n + 1].dir = d /\ stack'[n + 1].files = listing /\ stack'[n + 1].dirs = dirs
  <2>1. PICK f : f = Frame
    OBVIOUS
  <2>2. f.dir = d /\ f.files = listing /\ f.dirs = dirs
    BY <2>1 DEF Frame
  <2>3. Len(stack') = n + 1 /\ stack'[n + 1] = f /\ \A i \in 1 .. n : stack'[i] = stack[i]
    BY <1>2, <1>4, <2>1, AppendProperties
  <2> QED
    BY <2>2, <2>3
\* A directory of the listing was not listed before.
<1>6. Lists(d, dirs) /\ Never("dir", dirs, W)
  <2>1. CASE world.mode = "one"
    BY <2>1, ListsNothing DEF Never
  <2>2. CASE world.mode = "tree"
    <3>1. ASSUME NEW x \in Dirs(d) PROVE x \notin W
      <4>1. x # ""
        <5>1. PICK i \in DOMAIN Tree[d].dirs : x = Tree[d].dirs[i]
          BY <3>1 DEF Dirs
        <5>2. Tree[d].dirs \in Seq(DOMAIN Tree \ {""})
          BY <1>2, TreeAssumption
        <5>3. PICK s : s = Tree[d].dirs
          OBVIOUS
        <5>4. i \in 1 .. Len(s) /\ s \in Seq(DOMAIN Tree \ {""})
          BY <5>1, <5>2, <5>3, LenProperties
        <5>5. s[i] \in DOMAIN Tree \ {""}
          BY <5>4, ElementOfSeq
        <5> QED
          BY <5>1, <5>3, <5>5
      <4>2. ASSUME x \in W PROVE FALSE
        <5>1. PICK p \in V : x \in Dirs(p)
          BY <1>1, <2>2, <4>1, <4>2
        <5>2. p # d /\ p \in DOMAIN Tree
          BY <1>1, <5>1
        <5> QED
          BY <1>2, <3>1, <5>1, <5>2, NowhereElse
      <4> QED
        BY <4>2
    <3>2. \A k \in DOMAIN listing : listing[k].kind = "dir" => listing[k].name \in Dirs(d)
      BY DEF Lists
    <3>3. dirs = listing
      BY <2>2
    <3> QED
      BY <3>1, <3>2, <3>3 DEF Never
  <2> QED
    BY <1>1, <2>1, <2>2
\* Nor was a file of it retrieved.
<1>7. Never("file", listing, retrieved)
  <2> SUFFICES ASSUME NEW k \in DOMAIN listing, listing[k].kind = "file", listing[k].name \in retrieved
               PROVE  FALSE
    BY DEF Never
  <2>1. listing[k].name \in Files(d)
    BY DEF Lists
  <2>2. PICK x \in V : listing[k].name \in Files(x)
    BY <1>1
  <2>3. x # d /\ x \in DOMAIN Tree
    BY <1>1, <2>2
  <2> QED
    BY <1>2, <2>1, <2>2, <2>3, NowhereElse
<1>8. ASSUME NEW i \in 1 .. n + 1
      PROVE  /\ stack'[i].dir \in W
             /\ Lists(stack'[i].dir, stack'[i].files) /\ Never("file", stack'[i].files, retrieved)
             /\ Lists(stack'[i].dir, stack'[i].dirs) /\ Never("dir", stack'[i].dirs, W)
  <2>1. CASE i = n + 1
    BY <1>5, <1>6, <1>7, <2>1
  <2>2. CASE i \in 1 .. n
    <3>1. stack'[i] = stack[i] /\ FrameOK(V, stack[i].dir, stack[i].files, stack[i].dirs)
          /\ Never("dir", stack[i].dirs, {d})
      BY <1>1, <1>3, <1>4, <1>5, <2>2
    <3>2. Never("dir", stack[i].dirs, V) /\ Never("dir", stack[i].dirs, {d})
      BY <3>1 DEF FrameOK
    <3>3. Never("dir", stack[i].dirs, W)
      BY <3>2 DEF Never
    <3> QED
      BY <3>1, <3>3 DEF FrameOK
  <2> QED
    BY <1>4, <2>1, <2>2
<1>9. ASSUME NEW i \in 1 .. n + 1, NEW j \in 1 .. n + 1, stack'[i].dir = stack'[j].dir PROVE i = j
  <2>1. \A k \in 1 .. n : stack'[k].dir \in V /\ stack'[k].dir = stack[k].dir
    BY <1>3, <1>4, <1>5 DEF FrameOK
  <2>2. \A k \in 1 .. n + 1 : k \in 1 .. n \/ k = n + 1
    BY <1>4
  <2>3. \A k, m \in 1 .. n : stack[k].dir = stack[m].dir => k = m
    BY <1>3, <1>4
  <2>4. CASE i \in 1 .. n /\ j \in 1 .. n
    BY <1>9, <2>1, <2>3, <2>4
  <2>5. stack'[n + 1].dir = d /\ d \notin V
    BY <1>1, <1>5
  <2>6. CASE i \in 1 .. n /\ j = n + 1
    BY <1>9, <2>1, <2>5, <2>6
  <2>7. CASE j \in 1 .. n /\ i = n + 1
    BY <1>9, <2>1, <2>5, <2>7
  <2> QED
    BY <2>2, <2>4, <2>6, <2>7
<1>10. job'.op = "none"
  BY DEF NoJob, Job
<1>11. /\ W \subseteq DOMAIN Tree
       /\ world.mode = "tree" => \A x \in W : x = "" \/ \E p \in W : x \in Dirs(p)
       /\ \A f \in retrieved : \E x \in W : f \in Files(x)
  BY <1>1, <1>2
<1>12. world'.mode # "own" /\ Len(stack') = n + 1
  BY <1>1, <1>5
<1> HIDE DEF d, dirs
<1> QED
  BY <1>8, <1>9, <1>10, <1>11, <1>12 DEF WalkOK

LEMMA GotListingSaves == Inv /\ SavingInv /\ GotListing => SavingInv'
<1> SUFFICES ASSUME Inv, SavingInv, GotListing PROVE SavingInv'
  OBVIOUS
<1>1. /\ stage = "returned" /\ job.op = "LIST" /\ listing' = <<>>
      /\ UNCHANGED <<world, plan, session, disk, retrieved>>
  BY DEF GotListing
<1>2. ~con.own /\ (world.mode = "one" => stack = <<>>) /\ job \in Jobs
  BY <1>1 DEF Inv, JobOK, TypeOK
<1>3. Lists(job.dir, listing) /\ (world.mode = "one" => retrieved = {})
  BY <1>1 DEF SavingInv, Saving, ListingOK
<1>4. session'.rest = 0
  BY <1>1, Resting
<1>5. PICK V \in SUBSET DOMAIN Tree : WalkOK(V)
  BY DEF SavingInv
<1>6. ASSUME job' = NoJob, stage' = "walk", UNCHANGED con, NEW W \in SUBSET DOMAIN Tree, WalkOK(W)'
      PROVE  SavingInv'
  <2>1. job'.op = "none"
    BY <1>6 DEF NoJob, Job
  <2>2. ListingOK'
    BY <1>1, <2>1 DEF ListingOK
  <2>3. Walked'
    BY <1>6 DEF Walked
  <2> QED
    BY <1>1, <1>4, <1>6, <2>1, <2>2, <2>3, Between
<1>7. CASE Walking /\ UNCHANGED <<stack, con>>
  <2>1. job' = NoJob /\ stage' = "walk"
    BY <1>7 DEF Walking
  <2>2. Going(V)'
    BY <2>1 DEF Going, NoJob, Job
  <2>3. WalkOK(V)'
    BY <1>1, <1>5, <1>7, <2>2, FramesOf, Strolls
  <2> QED
    BY <1>6, <1>7, <2>1, <2>3
<1>8. CASE /\ stack = <<>> /\ job' = FileJob(UrlFile, job.dir, FALSE)
           /\ con' = [Con EXCEPT !.alive = con.alive] /\ stage' = "try" /\ UNCHANGED stack
  <2>0. UrlFile \notin retrieved
    <3>1. CASE world.mode = "one"
      BY <1>3, <3>1
    <3>2. CASE world.mode # "one"
      <4>1. \A f \in retrieved : \E d \in DOMAIN Tree : f \in Files(d)
        BY <1>2, <1>5 DEF WalkOK
      <4> QED
        BY <3>2, <4>1, NamesAssumption DEF UrlFile
    <3> QED
      BY <3>1, <3>2
  <2>1. job'.op = "RETR" /\ job'.qtyread = 0 /\ ~job'.sized /\ job'.of = UrlFile
    BY <1>8 DEF FileJob, Job
  <2>2. con'.own
    BY <1>8 DEF Con
  <2>3. ListingOK'
    BY <1>1, <2>1 DEF ListingOK
  <2>4. Len(stack') = 0 /\ V \subseteq DOMAIN Tree /\ world' = world
    BY <1>1, <1>8
  <2>5. \A i \in 1 .. Len(stack') : FALSE
    BY <2>4
  <2>6. WalkOK(V)'
    BY <1>5, <2>1, <2>2, <2>4, <2>5 DEF WalkOK
  <2>7. Walked'
    BY <2>6 DEF Walked
  <2> QED
    BY <1>1, <1>4, <1>8, <2>0, <2>1, <2>3, <2>7, Between
<1>9. CASE Walking /\ stack' = Append(stack, Frame) /\ UNCHANGED con
  <2>1. job' = NoJob /\ stage' = "walk"
    BY <1>9 DEF Walking
  <2>2. PICK W : W = V \cup {job.dir}
    OBVIOUS
  <2>3. WalkOK(W)'
    BY <1>1, <1>2, <1>3, <1>5, <1>9, <2>1, <2>2, Entering
  <2>4. W \in SUBSET DOMAIN Tree
    BY <1>2, <2>2 DEF Jobs
  <2> QED
    BY <1>6, <1>9, <2>1, <2>2, <2>3, <2>4
<1> QED
  BY <1>2, <1>7, <1>8, <1>9 DEF GotListing, NotListed

\* What an earlier wget left is the beginning of the file, or an older one.
LEMMA LeftIs ==
    ASSUME Init, NEW c \in LeftBehind(world.file), NEW f \in Names, f = world.file
    PROVE  (~world.rest /\ c = Outdated) \/ \E n \in 0 .. N : IsPiece(c, f, 0, n)
<1>1. IsPiece(Doc(f), f, 0, N) /\ N \in Nat
  BY DocIs, WorldsAssumption
<1>2. CASE world.rest
  <2>1. PICK k \in 0 .. N : c = SubSeq(Doc(f), 1, k)
    BY <1>2 DEF LeftBehind
  <2>2. PICK a, d : a = 0 /\ d = Doc(f)
    OBVIOUS
  <2>3. /\ k \in Nat /\ a \in Nat /\ a <= N /\ a <= k /\ k <= N - a /\ IsPiece(d, f, a, N)
        /\ a + a = 0 /\ a + k = k /\ a + 1 = 1
    BY <1>1, <2>1, <2>2
  <2>4. IsPiece(SubSeq(d, a + 1, k), f, a + a, a + k)
    BY <1>1, <2>3, PartOfPiece
  <2> QED
    BY <2>1, <2>2, <2>3, <2>4
<1>3. CASE ~world.rest
  <2>1. c = Outdated \/ c = Doc(f)
    BY <1>3 DEF LeftBehind
  <2>2. N \in 0 .. N
    BY <1>1
  <2> QED
    BY <1>1, <1>3, <2>1, <2>2
<1> QED
  BY <1>2, <1>3

LEMMA InitSaves == Init => SavingInv
<1> SUFFICES ASSUME Init PROVE SavingInv
  OBVIOUS
<1>1. /\ world \in Worlds /\ stage = "try" /\ session = Session /\ stack = <<>> /\ listing = <<>>
      /\ con = [Con EXCEPT !.own = world.mode = "own"] /\ retrieved = {}
      /\ job = IF world.mode = "own" THEN FileJob(world.file, world.dir, FALSE)
               ELSE ListJob(IF world.mode = "one" THEN world.dir ELSE "")
  BY DEF Init
<1>2. \A k : ~At(k)
  BY <1>1 DEF At
<1>3. RestOK /\ DataOK
  BY <1>1, <1>2 DEF RestOK, DataOK, Session
<1>4. /\ con.own <=> world.mode = "own"
      /\ world.mode = "own" => job.op = "RETR" /\ ~job.sized /\ job.qtyread = 0
      /\ world.mode # "own" => job.op = "LIST" /\ (world.mode = "tree" => job.dir = "")
  BY <1>1 DEF FileJob, ListJob, Job, Con
<1>5. FileOK
  <2>1. 0 <= N
    BY WorldsAssumption
  <2>2. job.op = "RETR" => OnDisk(job.qtyread)
    BY <1>4, <2>1 DEF OnDisk
  <2> QED
    BY <1>1, <1>2, <2>2 DEF FileOK
<1>6. WholeKept
  BY <1>1 DEF WholeKept
<1>7. ListingOK
  BY <1>1, <1>4, ListsNothing DEF ListingOK
<1>8. WalkOK({})
  <2>1. \A i \in 1 .. Len(stack) : FALSE
    <3>1. Len(stack) = 0
      BY <1>1
    <3> QED
      BY <3>1
  <2> QED
    BY <1>1, <1>4, <2>1 DEF WalkOK
<1>9. DiskSaved
  <2> SUFFICES ASSUME NEW f \in DOMAIN disk
               PROVE  (~world.rest /\ disk[f] = Outdated) \/ \E n \in 0 .. N : IsPiece(disk[f], f, 0, n)
    BY DEF DiskSaved
  <2>1. PICK c \in LeftBehind(world.file) : disk = With(<<>>, world.file, c)
    <3>1. disk # <<>>
      <4>1. DOMAIN <<>> = {}
        OBVIOUS
      <4> QED
        BY <4>1
    <3> QED
      BY <3>1 DEF Init
  <2>2. f = world.file /\ disk[f] = c
    <3>1. DOMAIN <<>> = {}
      OBVIOUS
    <3> QED
      BY <2>1, <3>1 DEF With
  <2>3. f \in Names
    BY <1>1, <2>2, WorldsAssumption DEF Names
  <2> QED
    BY <2>2, <2>3, LeftIs
<1> QED
  BY <1>3, <1>5, <1>6, <1>7, <1>8, <1>9 DEF SavingInv, Saving

\* Whatever is interrupted and asked for again, this is kept too.
LEMMA SavingKept == Inv /\ PasvKnown /\ Inv' /\ SavingInv /\ [Next]_vars => SavingInv'
<1> SUFFICES ASSUME Inv, PasvKnown, Inv', SavingInv, [Next]_vars PROVE SavingInv'
  OBVIOUS
<1>1. CASE Try
  BY <1>1, TrySaves
<1>2. CASE Dialogue
  BY <1>2, LoginSaves, CwdSaves, SizeSaves, PasvSaves, PortSaves, RestSaves, RetrSaves, ListASaves, ListSaves
     DEF Dialogue
<1>3. CASE Transfer
  BY <1>3, OpenSaves, ReadSaves, ResponseSaves DEF Transfer
<1>4. CASE Loop
  BY <1>4, LoopSaves
<1>5. CASE Walk
  BY <1>5, GotListingSaves, NextFileSaves, GotFileSaves, NextDirSaves, EndSaves DEF Walk
<1>6. CASE UNCHANGED vars
  <2>1. UNCHANGED <<world, stage, plan, con, session, job, stack, disk, listing, retrieved>>
    BY <1>6 DEF vars
  <2>2. /\ \A k : At(k)' <=> At(k)
        /\ \A n : OnDisk(n)' <=> OnDisk(n)
        /\ \A f, n : Begins(f, n)' <=> Begins(f, n)
        /\ Pending' = Pending /\ From' = From /\ (Received => Received') /\ (First({1})' <=> First({1}))
    BY <2>1 DEF At, OnDisk, Begins, Pending, From, Received, First
  <2>3. DiskSaved' /\ WholeKept'
    BY <2>1, DiskKept DEF SavingInv, Saving
  <2>4. FileOK'
    BY <2>1, <2>2 DEF SavingInv, Saving, FileOK
  <2>5. RestOK'
    BY <2>1, <2>2 DEF SavingInv, Saving, RestOK
  <2>6. DataOK'
    BY <2>1, <2>2 DEF SavingInv, Saving, DataOK
  <2>7. ListingOK'
    BY <2>1, <2>2 DEF SavingInv, Saving, ListingOK
  <2>8. Walked'
    BY <2>1, WalkKept DEF SavingInv, Walked, Alike, SameJob
  <2> QED
    BY <2>3, <2>4, <2>5, <2>6, <2>7, <2>8 DEF SavingInv, Saving, Walked
<1> QED
  BY <1>1, <1>2, <1>3, <1>4, <1>5, <1>6 DEF Next, Run, Terminated

\* The beginning of a file is a prefix of it.
LEMMA PrefixIs ==
    ASSUME NEW f \in Names, NEW n \in 0 .. N, NEW s, IsPiece(s, f, 0, n)
    PROVE  Len(s) = n /\ n <= N /\ s = SubSeq(Doc(f), 1, n)
<1>1. N \in Nat /\ n \in Nat /\ n <= N /\ 0 <= n
  BY WorldsAssumption
<1>2. PICK a : a = 0
  OBVIOUS
<1>3. s \in Seq(Bytes) /\ Len(s) = n - a /\ \A i \in 1 .. n - a : s[i] = Byte(f, a + i)
  BY <1>1, <1>2, PieceIs
<1>4. /\ Doc(f) \in Seq(Bytes) /\ Len(Doc(f)) = N
      /\ \A i \in 1 .. N : Doc(f)[i] = Byte(f, i)
  BY DocOf
<1>5. PICK p : p = SubSeq(Doc(f), 1, n)
  OBVIOUS
<1>6. p \in Seq(Bytes) /\ Len(p) = n /\ \A i \in 1 .. n : p[i] = Doc(f)[i]
  <2>1. \A i \in 1 .. n : Doc(f)[i] \in Bytes
    <3>1. \A i \in 1 .. n : i \in 1 .. N
      BY <1>1
    <3> QED
      BY <1>4, <3>1, ElementOfSeq
  <2>2. n \in 1 - 1 .. N
    BY <1>1
  <2> QED
    BY <1>1, <1>4, <1>5, <2>1, <2>2, SubSeqProperties
<1>7. \A i \in 1 .. n : s[i] = Byte(f, i)
  <2>1. \A i \in 1 .. n : a + i = i
    BY <1>1, <1>2
  <2>2. n - a = n
    BY <1>1, <1>2
  <2> QED
    BY <1>3, <2>1, <2>2
<1>8. \A i \in 1 .. n : s[i] = p[i]
  <2>1. \A i \in 1 .. n : i \in 1 .. N
    BY <1>1
  <2> QED
    BY <1>4, <1>6, <1>7, <2>1
<1>9. Len(s) = n
  BY <1>1, <1>2, <1>3
<1>10. s = p
  BY <1>3, <1>6, <1>8, <1>9, SeqEqual
<1> QED
  BY <1>1, <1>5, <1>9, <1>10

LEMMA SavedFollows == Inv /\ SavingInv => SavedWhole
<1> SUFFICES ASSUME Inv, SavingInv PROVE SavedWhole
  OBVIOUS
<1>1. DiskSaved /\ WholeKept /\ \A f \in DOMAIN disk : f \in Names
  BY DEF SavingInv, Saving, Inv, TypeOK
<1>2. ASSUME NEW f \in DOMAIN disk, disk[f] # Outdated
      PROVE  Len(disk[f]) <= N /\ disk[f] = SubSeq(Doc(f), 1, Len(disk[f]))
  <2>1. f \in Names
    BY <1>1
  <2>2. PICK s : s = disk[f]
    OBVIOUS
  <2>3. PICK n \in 0 .. N : IsPiece(s, f, 0, n)
    BY <1>1, <1>2, <2>2 DEF DiskSaved
  <2> QED
    BY <2>1, <2>2, <2>3, PrefixIs
<1>3. ASSUME NEW f \in retrieved PROVE f \in DOMAIN disk /\ disk[f] = Doc(f)
  <2>1. f \in DOMAIN disk /\ IsPiece(disk[f], f, 0, N)
    BY <1>1 DEF WholeKept, Begins
  <2>2. IsPiece(Doc(f), f, 0, N)
    BY <1>1, <2>1, DocIs
  <2> QED
    BY <2>1, <2>2 DEF IsPiece
<1> QED
  BY <1>2, <1>3 DEF SavedWhole

\* However often a file is interrupted, whether it is continued by the server or by
\* skipping what is there, and whatever other jobs were given up before it, the bytes
\* of a file are those of the one it is named for, each once and in order, and a file
\* that ftp_loop_internal returned RETROK for is complete and is never touched again
\* (ftp.c, getftp with restval and fd_read_body; the walk of ftp_retrieve_list).
THEOREM SavesWhole == Spec => []SavedWhole
<1>1. Spec => [](Inv /\ PasvKnown)
  BY InStep
<1>2. Init => SavingInv
  BY InitSaves
<1>3. Inv /\ PasvKnown /\ Inv' /\ SavingInv /\ [Next]_vars => SavingInv'
  BY SavingKept
<1>4. Inv /\ SavingInv => SavedWhole
  BY SavedFollows
<1> QED
  BY <1>1, <1>2, <1>3, <1>4, PTL DEF Spec
=============================================================================
