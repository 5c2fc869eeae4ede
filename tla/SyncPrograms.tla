---------------------------- MODULE SyncPrograms ----------------------------
(***************************************************************************)
(* The example programs of src/sync, row by row.  Comment lines of a       *)
(* column are rows too (they do nothing); blank lines are not.             *)
(* A program is                                                            *)
(*   sems:     the semaphores its first block creates, with their value    *)
(*   switches: the Lightswitches it creates                                *)
(*   locals:   its integer variables                                       *)
(*   cols:     one sequence of rows for each "## Thread" block             *)
(* The sizes that only scale a program (seats, spaces) are parameters.     *)
(***************************************************************************)
EXTENDS SyncRows, Sequences

None == <<>>                       \* no variable: the empty function

Program(sems, switches, locals, cols) ==
  [sems |-> sems, switches |-> switches, locals |-> locals, cols |-> cols]

(* The variables counter and x only ever grow and no row reads them: their *)
(* increments are rows that do nothing else.                               *)
Mutex == Program([mutex |-> 1], {}, None,
  << <<Wait(0, "mutex"),
       Pass(0),                     \* critical section
       Pass(0),                     \* counter += 1
       Signal(0, "mutex")>> >>)

MutexColumn == <<Wait(0, "mutex"),
                 Pass(1),           \* critical section
                 Pass(1),           \* x = x + 1
                 Signal(0, "mutex")>>
Mutex2 == Program([mutex |-> 1], {}, None, <<MutexColumn, MutexColumn>>)

Multiplex(size) == Program([multiplex |-> size], {}, None,
  << <<Wait(0, "multiplex"),
       Pass(1),                     \* critical section
       Signal(0, "multiplex")>> >>)

Coke(size) == Program([mutex |-> 1, cokes |-> 0, spaces |-> size], {}, None,
  << <<Wait(0, "cokes"),
       Wait(0, "mutex"),
       Pass(1),                     \* get a coke
       Signal(0, "mutex"),
       Signal(0, "spaces"),
       Pass(0)>>,                   \* drink the coke
     <<Pass(0),                     \* bring a coke
       Wait(0, "spaces"),
       Wait(0, "mutex"),
       Pass(1),                     \* put a coke
       Signal(0, "mutex"),
       Signal(0, "cokes")>> >>)

Writers == <<Pass(0),
             Wait(0, "roomEmpty"),
             Pass(0),               \* go ahead and write
             Signal(0, "roomEmpty")>>

Readers == <<Pass(0),
             Wait(0, "mutex"),
             Add(1, "readers", 1),
             OnlyIf(Equal(Var("readers"), Const(1)), Wait(1, "roomEmpty")),
             Signal(0, "mutex"),
             Pass(0),               \* critical section for readers
             Wait(0, "mutex"),
             Add(1, "readers", -1),
             OnlyIf(Equal(Var("readers"), Const(0)), Signal(1, "roomEmpty")),
             Signal(0, "mutex")>>

ReadWrite == Program([mutex |-> 1, roomEmpty |-> 1], {}, [readers |-> 0],
                     <<Writers, Readers>>)

(* The same with the Lightswitch class.                                    *)
ReadWrite2 == Program([roomEmpty |-> 1], {"readSwitch"}, None,
  <<Writers,
    <<Pass(0),
      Lock(0, "readSwitch", "roomEmpty"),
      Pass(0),                      \* critical section for readers
      Unlock(0, "readSwitch", "roomEmpty")>> >>)

Dance(size) ==
  Program([leader1 |-> 0, follower1 |-> 0, leader2 |-> 0, follower2 |-> 0,
           multiplex |-> size], {}, None,
  << <<Signal(0, "follower1"),
       Wait(0, "leader1"),
       Wait(0, "multiplex"),
       Pass(1),                     \* dance
       Signal(0, "multiplex"),
       Signal(0, "follower2"),
       Wait(0, "leader2")>>,
     <<Signal(0, "leader1"),
       Wait(0, "follower1"),
       Wait(0, "multiplex"),
       Pass(1),                     \* dance
       Signal(0, "multiplex"),
       Signal(0, "leader2"),
       Wait(0, "follower2")>> >>)

Rendez == Program([Aarrived |-> 0, Barrived |-> 0], {}, None,
  << <<Signal(0, "Aarrived"), Wait(0, "Barrived"), Pass(0)>>,
     <<Signal(0, "Barrived"), Wait(0, "Aarrived"), Pass(0)>> >>)

Barber(chairs) ==
  Program([mutex |-> 1, customer |-> 0, barber |-> 0,
           customerDone |-> 0, barberDone |-> 0], {},
          [n |-> chairs, customers |-> 0],
  << <<Pass(0),                     \* customers
       Wait(0, "mutex"),
       If(1, Equal(Var("customers"), Var("n"))),
       Signal(2, "mutex"),
       Balk(2),
       Add(1, "customers", 1),
       Signal(0, "mutex"),
       Signal(0, "customer"),
       Wait(0, "barber"),
       Pass(0),                     \* getHairCut()
       Signal(0, "customerDone"),
       Wait(0, "barberDone"),
       Wait(0, "mutex"),
       Add(1, "customers", -1),
       Signal(0, "mutex")>>,
     <<Pass(0),                     \* barber
       Wait(0, "customer"),
       Signal(0, "barber"),
       Pass(0),                     \* cutHair()
       Wait(0, "customerDone"),
       Signal(0, "barberDone")>> >>)

(* Trials of the conditionals.                                             *)
WhileTest == Program(None, {}, [counter |-> 0],
  << <<While(0, Equal(Var("counter"), Const(1))),
       Pass(1),
     While(0, Less(Var("counter"), Const(1))),
       Add(1, "counter", 1),
     Pass(0)>> >>)

Conditional == Program(None, {}, [counter |-> 0],
  << <<If(0, Equal(Var("counter"), Const(0))),
       Pass(1),                     \* print True
     If(0, Equal(Var("counter"), Const(1))),
       Pass(1),                     \* print False
     Pass(0),
     If(0, Equal(Var("counter"), Plus("counter", 1))),
       Pass(1),
       Pass(1),
     Else(0),
       Pass(1),                     \* print False
     If(0, Always),
       Pass(1),                     \* print True
     Else(0),
       Pass(1),                     \* print False
     Pass(0)>> >>)

(* The rows behind a tab (lines 22 and 25) have the indent of the if, and  *)
(* line 30 is no statement.                                                *)
Morris ==
  Program([mutex |-> 1, t1 |-> 1, t2 |-> 0], {}, [room1 |-> 0, room2 |-> 0],
  << <<Wait(0, "mutex"),
       Add(1, "room1", 1),
     Signal(0, "mutex"),
     Wait(0, "t1"),
       Add(1, "room2", 1),
       Wait(1, "mutex"),
       Add(1, "room1", -1),
       If(1, Equal(Var("room1"), Const(0))),
         Signal(2, "mutex"),
       Signal(1, "t2"),
       Else(1),
         Signal(2, "mutex"),
       Signal(1, "t1"),
     Wait(0, "t2"),
       Add(1, "room2", -1),
       Invalid(1),                  \* critical section
       If(1, Equal(Var("room2"), Const(0))),
         Signal(2, "t1"),
       Else(1),
         Signal(2, "t2")>> >>)
-----------------------------------------------------------------------------
(* Barriers.  Row 1 is the rendezvous; the critical point is the row after *)
(* the turnstile.                                                          *)
AllHere == Equal(Var("count"), NumThreads)
AllGone == Equal(Var("count"), Const(0))
AllAreN == Equal(Var("count"), Var("n"))

OneBarrier(column) ==
  Program([mutex |-> 1, barrier |-> 0], {}, [count |-> 0], <<column>>)

(* Waits for the others with the mutex in its hands: no solution.          *)
Barrier3 == OneBarrier(
  <<Pass(0),
    Wait(0, "mutex"),
      Add(1, "count", 1),
      OnlyIf(AllHere, Signal(1, "barrier")),
      Wait(1, "barrier"),
      Signal(1, "barrier"),
    Signal(0, "mutex"),
    Pass(0)>>)

SimpleBarrier == OneBarrier(
  <<Pass(0),
    Wait(0, "mutex"),
      Add(1, "count", 1),
      OnlyIf(AllHere, Signal(1, "barrier")),
    Signal(0, "mutex"),
    Wait(0, "barrier"),
    Signal(0, "barrier"),
    Pass(0)>>)

Barrier2 == OneBarrier(
  <<Pass(0),
    Wait(0, "mutex"),
      Add(1, "count", 1),
    Signal(0, "mutex"),
    OnlyIf(AllHere, Signal(0, "barrier")),
    Wait(0, "barrier"),
    Signal(0, "barrier"),
    Pass(0)>>)

(* A single turnstile, closed by the last one out: no solution.            *)
Rebar2 ==
  Program([mutex |-> 1, turnstile |-> 0], {}, [count |-> 0],
  << <<Pass(0),
       Wait(0, "mutex"),
         Add(1, "count", 1),
         OnlyIf(AllHere, Signal(1, "turnstile")),
       Signal(0, "mutex"),
       Wait(0, "turnstile"),
       Signal(0, "turnstile"),
       Pass(0),                     \* critical point
       Wait(0, "mutex"),
         Add(1, "count", -1),
         OnlyIf(AllGone, Wait(1, "turnstile")),
       Signal(0, "mutex")>> >>)

Rebar3 ==
  Program([mutex |-> 1, turnstile1 |-> 0, turnstile2 |-> 1], {}, [count |-> 0],
  << <<Pass(0),
       Wait(0, "mutex"),
         Add(1, "count", 1),
         OnlyIf(AllHere, Wait(1, "turnstile2")),
         OnlyIf(AllHere, Signal(1, "turnstile1")),
       Signal(0, "mutex"),
       Wait(0, "turnstile1"),
       Signal(0, "turnstile1"),
       Pass(0),                     \* critical point
       Wait(0, "mutex"),
         Add(1, "count", -1),
         OnlyIf(AllGone, Wait(1, "turnstile1")),
         OnlyIf(AllGone, Signal(1, "turnstile2")),
       Signal(0, "mutex"),
       Wait(0, "turnstile2"),
       Signal(0, "turnstile2")>> >>)

Rebar4 ==
  Program([mutex |-> 1, turnstile1 |-> 0, turnstile2 |-> 1], {},
          [count |-> 0, n |-> 0],
  << <<Pass(0),
       Wait(0, "mutex"),
         Add(1, "count", 1),
         Assign(1, "n", NumThreads),
         OnlyIf(AllAreN, Wait(1, "turnstile2")),
         OnlyIf(AllAreN, SignalBy(1, "turnstile1", Plus("n", 1))),
       Signal(0, "mutex"),
       Wait(0, "turnstile1"),
       Pass(0),                     \* critical point
       Wait(0, "mutex"),
         Add(1, "count", -1),
         Assign(1, "n", NumThreads),
         OnlyIf(AllGone, Wait(1, "turnstile1")),
         OnlyIf(AllGone, SignalBy(1, "turnstile2", Plus("n", 1))),
       Signal(0, "mutex"),
       Wait(0, "turnstile2")>> >>)

Rebar5 ==
  Program([mutex |-> 1, turnstile1 |-> 0, turnstile2 |-> 0], {},
          [count |-> 0, n |-> 0],
  << <<Pass(0),
       Assign(0, "n", NumThreads),
       Wait(0, "mutex"),
         Add(1, "count", 1),
         OnlyIf(AllAreN, SignalBy(1, "turnstile1", Var("n"))),
       Signal(0, "mutex"),
       Wait(0, "turnstile1"),
       Pass(0),                     \* critical point
       Wait(0, "mutex"),
         Add(1, "count", -1),
         OnlyIf(AllGone, SignalBy(1, "turnstile2", Var("n"))),
       Signal(0, "mutex"),
       Wait(0, "turnstile2")>> >>)
=============================================================================
