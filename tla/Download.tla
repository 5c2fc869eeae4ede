------------------------------ MODULE Download ------------------------------
(***************************************************************************)
(* What wget promises of one retrieval, whatever the connections, retries, *)
(* redirections and interruptions it takes: the file on disk is always the *)
(* document's first kept bytes; it grows a byte at a time; data that is    *)
(* being continued (wget -c) is never thrown away, unless this call found  *)
(* an older version in its place and began the file anew; a retrieval      *)
(* reported as complete left all Size bytes behind.                        *)
(***************************************************************************)
EXTENDS Integers

CONSTANTS
    Names,       \* the local files
    Size,        \* the length of every document, a natural number
    Interrupts   \* how often the user stops wget and calls it again

VARIABLES
    kept,        \* [Names -> -1 .. Size], -1: no data of the document
    state,       \* [Names -> {"idle", "busy", "renewing", "complete", "assumed",
                 \*            "failed"}]
    continuing,  \* the user asked for data on disk to be continued
    stops        \* how often wget was stopped
dvars == <<kept, state, continuing, stops>>

DInit ==
    /\ kept \in [Names -> -1 .. Size]
    /\ state = [n \in Names |-> "idle"]
    /\ continuing \in BOOLEAN
    /\ stops = 0

\* wget begins to retrieve into n.
Start(n) ==
    /\ state[n] = "idle"
    /\ state' = [state EXCEPT ![n] = "busy"]
    /\ UNCHANGED <<kept, continuing, stops>>

\* What is on disk turns out to be of an older version, no data of the document:
\* until the retrieval ends, nothing that was there before it is continued.
Renew(n) ==
    /\ state[n] = "busy" /\ kept[n] = -1
    /\ state' = [state EXCEPT ![n] = "renewing"]
    /\ UNCHANGED <<kept, continuing, stops>>

\* One more byte of the document arrives, or the file is created.
Grow(n) ==
    /\ state[n] \in {"busy", "renewing"}
    /\ kept[n] < Size
    /\ kept' = [kept EXCEPT ![n] = @ + 1]
    /\ UNCHANGED <<state, continuing, stops>>

\* The retrieval starts over: never when there is data the user wants continued.
StartOver(n) ==
    /\ state[n] \in {"busy", "renewing"}
    /\ ~ (continuing /\ state[n] = "busy" /\ kept[n] > 0)
    /\ kept' = [kept EXCEPT ![n] = 0]
    /\ UNCHANGED <<state, continuing, stops>>

\* The retrieval ends: "complete" is said of a whole file only, "assumed" of
\* one whose length the server did not tell.
End(n, s) ==
    /\ state[n] \in {"busy", "renewing"}
    /\ s = "complete" => kept[n] = Size
    /\ state' = [state EXCEPT ![n] = s]
    /\ UNCHANGED <<kept, continuing, stops>>

\* The user stops wget; the next call retrieves everything again.
Interrupt ==
    /\ stops < Interrupts
    /\ stops' = stops + 1
    /\ state' = [n \in Names |-> "idle"]
    /\ UNCHANGED <<kept, continuing>>

DNext ==
    \/ Interrupt
    \/ \E n \in Names :
          \/ Start(n) \/ Renew(n) \/ Grow(n) \/ StartOver(n)
          \/ \E s \in {"complete", "assumed", "failed"} : End(n, s)

DSpec == DInit /\ [][DNext]_dvars
=============================================================================
