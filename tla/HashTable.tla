----------------------------- MODULE HashTable -----------------------------
(***************************************************************************)
(* wget's hash tables (hash.c): open addressing with linear probing.  An   *)
(* entry sits in the first free cell from its hash position on; removing   *)
(* one moves the entries that follow it, so that every entry is still      *)
(* found; the table grows before it is three quarters full.                *)
(***************************************************************************)
EXTENDS Integers, FiniteSets, Sequences

LOCAL Seqs == INSTANCE SequencesExt

CONSTANTS
    Hash,     \* [keys -> Nat]
    Primes    \* the sizes a table may have, ascending

ASSUME PrimesAssumption == \A i \in DOMAIN Primes : Primes[i] \in Nat \ {0}

\* op(x), with x computed once; and one step after the other: op(.., n) of ..
\* op(op(t, 1), 2).
Then(x, op(_)) == CHOOSE y \in { op(z) : z \in {x} } : TRUE
Steps(t, n, op(_, _)) ==
    Seqs!FoldLeft(LAMBDA x, i : Then(x, LAMBDA z : op(z, i)), t, [i \in 1 .. n |-> i])

Unoccupied == [key |-> "unoccupied"]
Occupied(t, i) == t.cells[i] # Unoccupied
Count(t) == Cardinality({ i \in DOMAIN t.cells : Occupied(t, i) })

\* The least prime that is large enough.
PrimeSize(n) == Primes[CHOOSE i \in DOMAIN Primes :
    Primes[i] >= n /\ \A j \in 1 .. i - 1 : Primes[j] < n]
ResizeThreshold(size) == (size * 3) \div 4

Empty(size) == [size |-> size, cells |-> [i \in 0 .. size - 1 |-> Unoccupied]]
New(items) == Empty(PrimeSize(1 + (items * 4) \div 3))

\* The first cell from the key's position on that holds the key or is free.
FindCell(t, k) ==
    LET at(i) == (Hash[k] + i) % t.size
        fits(i) == ~Occupied(t, at(i)) \/ t.cells[at(i)].key = k
    IN at(CHOOSE i \in 0 .. t.size - 1 : fits(i) /\ \A j \in 0 .. i - 1 : ~fits(j))

Contains(t, k) == Occupied(t, FindCell(t, k))
Get(t, k) == t.cells[FindCell(t, k)].value

Store(t, cell) == [t EXCEPT !.cells[FindCell(t, cell.key)] = cell]
Clear(t, i) == [t EXCEPT !.cells[i] = Unoccupied]

\* The entries are stored again, in the order of their cells.
Grow(t) ==
    Steps(Empty(PrimeSize(2 * t.size)), t.size,
          LAMBDA new, i : IF Occupied(t, i - 1) THEN Store(new, t.cells[i - 1]) ELSE new)

Put(t, k, v) ==
    Then(IF ~Contains(t, k) /\ Count(t) >= ResizeThreshold(t.size) THEN Grow(t) ELSE t,
         LAMBDA s : Store(s, [key |-> k, value |-> v]))

\* After an entry is cleared, each entry of the occupied cells that follow is
\* moved to the first free cell of its chain, if that comes before its own.
RehashNot(t, i) == t    \* Mutation
Rehash(t, i) == Then(Clear(t, i), LAMBDA s : Store(s, t.cells[i]))
Remove(t, k) ==
    IF ~Contains(t, k) THEN t
    ELSE LET hole == FindCell(t, k)
             next(j) == (hole + j) % t.size
             chain == CHOOSE n \in 0 .. t.size - 1 :
                         /\ \A j \in 1 .. n : Occupied(t, next(j))
                         /\ n = t.size - 1 \/ ~Occupied(t, next(n + 1))
         IN Steps(Clear(t, hole), chain, LAMBDA s, j : Rehash(s, next(j)))

\* hash_table_for_each with a function that removes the entries with value v:
\* the cells in order, a cell again as long as another entry has moved into it.
RemoveValue(t, v) ==
    LET again(s, n) == LET c == s.cells[(n - 1) \div t.size]
                       IN IF c # Unoccupied /\ c.value = v THEN Remove(s, c.key) ELSE s
    IN Steps(t, t.size * t.size, again)

\* Every entry is found where its key leads, and there is room to end a search.
Sound(t) ==
    /\ \A i \in DOMAIN t.cells : Occupied(t, i) => FindCell(t, t.cells[i].key) = i
    /\ Count(t) <= ResizeThreshold(t.size)
=============================================================================
