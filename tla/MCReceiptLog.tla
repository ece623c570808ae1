---------------------------- MODULE MCReceiptLog ----------------------------
(***************************************************************************)
(* Receipts from both sides: as one is built, signed, read back and        *)
(* matched (Receipts), and as the verifier logs them (ReceiptLog).  The    *)
(* log takes a receipt as an opaque text, so a behaviour exercises one of  *)
(* the two while the other rests.  Logged receipts are interchangeable:    *)
(* nothing compares them but by equality.                                  *)
(***************************************************************************)
EXTENDS ReceiptLog, MCReceipts, TLC

ReceiptSymmetry == Permutations(Receipts)

LogRests == entries = <<>>
BuilderRests == receipt = None /\ wire = None

MCInit == Init /\ BuildInit

MCNext ==
  \/ BuilderRests /\ Next /\ UNCHANGED build_vars
  \/ LogRests /\ BuildNext /\ UNCHANGED vars

MCSpec == MCInit /\ [][MCNext]_<<vars, build_vars>>
=============================================================================
