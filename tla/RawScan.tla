------------------------------- MODULE RawScan -------------------------------
(***************************************************************************)
(* What the scan nodes of one statement promise the executor, whatever     *)
(* caches they use: each delivers the rows of the file in order, once per  *)
(* pass, with the values the file has, and reports the end exactly after   *)
(* the last row.  A delivered tuple maps a column to the row its value is  *)
(* from.                                                                   *)
(***************************************************************************)
EXTENDS Integers

CONSTANTS Scan, Column, N, NoTuple

VARIABLES phase,   \* "off", "run" or "eof"
          pos,     \* rows of this pass already passed
          tuple    \* the tuple of the last call, if it qualified

rawVars == <<phase, pos, tuple>>

AllOff == phase = [s \in Scan |-> "off"]

RawInit == AllOff /\ pos = [s \in Scan |-> 0] /\ tuple = [s \in Scan |-> NoTuple]

Open ==
    /\ AllOff
    /\ phase' = [s \in Scan |-> "run"]
    /\ pos' = [s \in Scan |-> 0]
    /\ tuple' = [s \in Scan |-> NoTuple]

\* A statement suspended between two fetches continues where it stopped.
Resume ==
    /\ AllOff
    /\ phase' = [s \in Scan |-> "run"]
    /\ UNCHANGED <<pos, tuple>>

Fetch(s) ==
    /\ phase[s] = "run" /\ pos[s] < N
    /\ pos' = [pos EXCEPT ![s] = @ + 1]
    /\ \E cols \in SUBSET Column :
        \E t \in {NoTuple, [c \in cols |-> pos[s]]} : tuple' = [tuple EXCEPT ![s] = t]
    /\ UNCHANGED phase

End(s) ==
    /\ phase[s] = "run" /\ pos[s] = N
    /\ phase' = [phase EXCEPT ![s] = "eof"]
    /\ tuple' = [tuple EXCEPT ![s] = NoTuple]
    /\ UNCHANGED pos

Rewind(s) ==
    /\ phase[s] # "off"
    /\ phase' = [phase EXCEPT ![s] = "run"]
    /\ pos' = [pos EXCEPT ![s] = 0]
    /\ tuple' = [tuple EXCEPT ![s] = NoTuple]

\* The executor returned as many tuples as it was asked for.
Suspend ==
    /\ phase' = [s \in Scan |-> "off"]
    /\ tuple' = [s \in Scan |-> NoTuple]
    /\ UNCHANGED pos

Close ==
    /\ phase' = [s \in Scan |-> "off"]
    /\ pos' = [s \in Scan |-> 0]
    /\ tuple' = [s \in Scan |-> NoTuple]

RawNext ==
    \/ Open \/ Resume \/ Suspend \/ Close
    \/ \E s \in Scan : Fetch(s) \/ End(s) \/ Rewind(s)

RawSpec == RawInit /\ [][RawNext]_rawVars
=============================================================================
