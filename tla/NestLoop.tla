------------------------------ MODULE NestLoop ------------------------------
(***************************************************************************)
(* A nested loop (executor/nodeNestloop.c) over two scans of the same raw  *)
(* file: the self-join in which one scan is rescanned while the other is   *)
(* in the middle of its pass, and both share caches, EOL cache and locks.  *)
(***************************************************************************)
EXTENDS NoDBScan

CONSTANTS Outer, Inner,  \* the two scan nodes
          SingleMatch    \* JOIN_SEMI and JOIN_ANTI leave the inner pass at a match

ASSUME NestLoopAssumption == Scans = {Outer, Inner} /\ Outer # Inner

VARIABLE nl   \* "outer" (nl_NeedNewOuter), "rescan" or "inner"

loopVars == <<vars, nl>>

LoopInit == Init /\ nl = "outer"

LoopStart == StartStatement /\ nl' = "outer"

\* A new outer tuple; every one makes the inner plan start over.
LoopOuter ==
    /\ nl = "outer"
    /\ ExecScan(Outer)
    /\ nl' = IF scan'[Outer].tuple # NoTuple THEN "rescan" ELSE "outer"

LoopRescan ==
    /\ nl = "rescan"
    /\ ExecScanReScan(Inner)
    /\ nl' = "inner"

LoopInner ==
    /\ nl = "inner"
    /\ ExecScan(Inner)
    /\ \/ scan'[Inner].phase = "eof" /\ nl' = "outer"
       \/ scan'[Inner].phase # "eof" /\ nl' = "inner"
       \/ scan'[Inner].tuple # NoTuple /\ SingleMatch /\ nl' = "outer"

LoopEnd ==
    /\ nl = "outer" /\ scan[Outer].phase = "eof"
    /\ NullSlot
    /\ UNCHANGED nl

LoopNext == LoopStart \/ LoopOuter \/ LoopRescan \/ LoopInner \/ LoopEnd

LoopSpec == LoopInit /\ [][LoopNext]_loopVars
=============================================================================
