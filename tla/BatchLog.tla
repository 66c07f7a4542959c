------------------------------ MODULE BatchLog ------------------------------
(***************************************************************************)
(* What the storage of the engine promises: a file is a log of batches.    *)
(* Batches are appended in order, the log is sealed once and for all, or   *)
(* abandoned. A reader gets the batches of the log in its order and        *)
(* reaches the end of the stream only on a sealed log, after all of them;  *)
(* otherwise it fails.                                                     *)
(***************************************************************************)
EXTENDS Naturals, Sequences

CONSTANT Batches        \* what a batch may be

VARIABLES log,          \* the batches appended
          sealed,       \* no more will come and none is missing
          nread,        \* batches the reader has been given
          reader        \* "reading", "end" or "failed"

blvars == <<log, sealed, nread, reader>>

BLInit ==
    /\ log = <<>>
    /\ sealed = FALSE
    /\ nread = 0
    /\ reader = "reading"

AppendBatch ==
    /\ ~sealed
    /\ \E b \in Batches : log' = Append(log, b)
    /\ UNCHANGED <<sealed, nread, reader>>

Seal ==
    /\ ~sealed
    /\ sealed' = TRUE
    /\ UNCHANGED <<log, nread, reader>>

ReadBatch ==
    /\ reader = "reading"
    /\ nread < Len(log)
    /\ nread' = nread + 1
    /\ UNCHANGED <<log, sealed, reader>>

ReadEnd ==
    /\ reader = "reading"
    /\ sealed
    /\ nread = Len(log)
    /\ reader' = "end"
    /\ UNCHANGED <<log, sealed, nread>>

Fail ==
    /\ reader = "reading"
    /\ reader' = "failed"
    /\ UNCHANGED <<log, sealed, nread>>

BLNext == AppendBatch \/ Seal \/ ReadBatch \/ ReadEnd \/ Fail

BLSpec == BLInit /\ [][BLNext]_blvars
=============================================================================
