------------------------------ MODULE DataIter ------------------------------
(***************************************************************************)
(* What an iterator over data promises (DataIter of dmlc-core): every      *)
(* round delivers the items 1 .. NumItems in order, each once, the end is  *)
(* reported after the last one, and BeforeFirst starts a new round.        *)
(***************************************************************************)
EXTENDS Naturals, Sequences

CONSTANT NumItems

VARIABLES
    delivered,  \* the items delivered in this round
    ended       \* the end was reported in this round

iterVars == <<delivered, ended>>

Start == delivered = <<>> /\ ended = FALSE

Deliver ==
    /\ Len(delivered) < NumItems
    /\ delivered' = Append(delivered, Len(delivered) + 1)
    /\ UNCHANGED ended

ReportEnd ==
    /\ Len(delivered) = NumItems
    /\ ended' = TRUE
    /\ UNCHANGED delivered

Rewind == delivered' = <<>> /\ ended' = FALSE

Iterate == Start /\ [][Deliver \/ ReportEnd \/ Rewind]_iterVars
=============================================================================
