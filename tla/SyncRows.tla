------------------------------ MODULE SyncRows ------------------------------
(***************************************************************************)
(* The row language of the Sync simulator (src/sync/Sync.py): what one row *)
(* of a column can be, as the example programs of src/sync use it.  A row  *)
(* is a complete Python statement or the header of a conditional; only its *)
(* effect on the simulator is kept.                                        *)
(***************************************************************************)
EXTENDS Integers

(* An integer expression: a variable of sync.locals plus a constant, a     *)
(* constant, or num_threads().                                             *)
Const(k)   == [var |-> "0", plus |-> k]
Var(v)     == [var |-> v, plus |-> 0]
Plus(v, k) == [var |-> v, plus |-> k]
NumThreads == [var |-> "num_threads()", plus |-> 0]

Equal(a, b) == [left |-> a, rel |-> "==", right |-> b]
Less(a, b)  == [left |-> a, rel |-> "<", right |-> b]
Always      == Equal(Const(0), Const(0))

(* indent: nesting depth, see count_spaces;  op: what the row does;        *)
(* on: the semaphore or variable it does it to;  switch: the Lightswitch;  *)
(* arg: its integer argument;  when: the condition of a header, or of an   *)
(* `if c: statement` that fits in one row.                                 *)
Row(i, op, on, switch, arg, when) ==
  [indent |-> i, op |-> op, on |-> on, switch |-> switch,
   arg |-> arg, when |-> when]

Pass(i)          == Row(i, "pass", "", "", Const(0), Always)
Wait(i, s)       == Row(i, "wait", s, "", Const(0), Always)
SignalBy(i, s, k) == Row(i, "signal", s, "", k, Always)
Signal(i, s)     == SignalBy(i, s, Const(1))
Assign(i, v, e)  == Row(i, "assign", v, "", e, Always)
Add(i, v, k)     == Assign(i, v, Plus(v, k))
Balk(i)          == Row(i, "balk", "", "", Const(0), Always)
Lock(i, w, s)    == Row(i, "lock", s, w, Const(0), Always)
Unlock(i, w, s)  == Row(i, "unlock", s, w, Const(0), Always)
If(i, c)         == Row(i, "if", "", "", Const(0), c)
While(i, c)      == Row(i, "while", "", "", Const(0), c)
Else(i)          == Row(i, "else", "", "", Const(0), Always)
Invalid(i)       == Row(i, "invalid", "", "", Const(0), Always)

(* `if c: statement` in one row.                                           *)
OnlyIf(c, r) == [r EXCEPT !.when = c]

Ops     == {"pass", "wait", "signal", "assign", "balk", "lock", "unlock",
            "if", "while", "else", "invalid"}
Headers == {"if", "while", "else"}
=============================================================================
