----------------------------- MODULE EditedFile -----------------------------
(***************************************************************************)
(* A file that changes while the backend lives.  "Modifications of the     *)
(* data are done directly in the file" (README.md), so between two         *)
(* statements a row may get new values.  Only the mildest edit is modelled *)
(* here: one that leaves every line its length.  What a data cache has of  *)
(* the row is then no value of the file any more.                          *)
(***************************************************************************)
EXTENDS MCNoDBScan

Outdated(cache, r) ==
    IF cache.type = "data" THEN [cache EXCEPT !.cell = [c \in Cols |-> [@[c] EXCEPT ![r] = Junk]]]
    ELSE cache

\* Somebody writes row r.  No function of the backend runs.
EditRow(r) ==
    /\ stmt = "idle"
    /\ caches' = [k \in DOMAIN caches |-> Outdated(caches[k], r)]
    /\ UNCHANGED <<eol, cacheLock, pmLock, relRows, overrun, scan, stmt>>

EditedNext == Next \/ \E r \in 0 .. (N - 1) : EditRow(r)

EditedSpec == Init /\ [][EditedNext]_vars
=============================================================================
