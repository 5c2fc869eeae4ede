----------------------------- MODULE MCBarriers -----------------------------
(***************************************************************************)
(* The barrier programs of src/sync that work, for TLC.                    *)
(***************************************************************************)
EXTENDS Barriers, SyncPrograms

MCPrograms == [barrier |-> SimpleBarrier, barrier2 |-> Barrier2, rebar3 |-> Rebar3,
               rebar4 |-> Rebar4, rebar5 |-> Rebar5]

MCCritical == [barrier |-> 8, barrier2 |-> 8, rebar3 |-> 9, rebar4 |-> 9,
               rebar5 |-> 8]

MCReusable == {"rebar3", "rebar4", "rebar5"}
=============================================================================
