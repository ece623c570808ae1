----------------------------- MODULE ReceiptLog -----------------------------
(***************************************************************************)
(* The verifier's hash-chained log of receipts (receipt/src/log.rs), the   *)
(* rows that persist it, and what people outside keep of it.               *)
(*                                                                         *)
(* The verifier appends in memory and stores each entry as a row.  The     *)
(* rows may afterwards be changed behind its back: edited, removed,        *)
(* repeated, reordered, cut off at the end, hashed anew.  Whoever received *)
(* a receipt that carries `prev` has kept the head of that moment.         *)
(*                                                                         *)
(* SHA-256 has no collisions: an entry's hash is the triple it is taken    *)
(* of, and the empty string before the first entry is the empty tuple.     *)
(***************************************************************************)
EXTENDS SequencesExt, Integers

CONSTANTS
  Receipts,      \* signed receipts
  Garbled,       \* a value no hash and no number equals
  MaxEntries,    \* bound on the log
  MaxChanges     \* bound on the changes made to the rows

ASSUME ReceiptLogAssumption == MaxEntries \in Nat /\ MaxChanges \in Nat

VARIABLES
  entries,       \* Log.entries
  rows,          \* the persisted entries
  kept,          \* heads that somebody outside kept
  changes,       \* how often the rows were changed
  rehashed       \* whether a change recomputed hashes

vars == <<entries, rows, kept, changes, rehashed>>

---------------------------------------------------------------------------
NoHash == <<>>

(* Mutant: the hash leaves out the previous one. *)
UnchainedHash(seq, prev, receipt) == <<seq, receipt>>

entry_hash(seq, prev, receipt) == <<seq, prev, receipt>>

head(log) == IF log = <<>> THEN NoHash ELSE log[Len(log)].hash

NewEntry(log, receipt) ==
  [seq     |-> Len(log),
   prev    |-> head(log),
   hash    |-> entry_hash(Len(log), head(log), receipt),
   receipt |-> receipt]

(* The hash that entry i (from 1) must point back to. *)
PrevOf(log, i) == IF i = 1 THEN NoHash ELSE log[i - 1].hash

(* Mutant: the hash is trusted. *)
RowUnhashed(log, i) ==
  IF log[i].seq # i - 1 THEN "Sequence"
  ELSE IF log[i].prev # PrevOf(log, i) THEN "PrevMismatch"
  ELSE "ok"

(* The checks on entry i, given that those before it are sound. *)
row_error(log, i) ==
  IF log[i].seq # i - 1 THEN "Sequence"
  ELSE IF log[i].prev # PrevOf(log, i) THEN "PrevMismatch"
  ELSE IF log[i].hash # entry_hash(log[i].seq, log[i].prev, log[i].receipt) THEN "HashMismatch"
  ELSE "ok"

(* The first bad entry and its error, or the head. *)
verify(log) ==
  LET bad == {i \in DOMAIN log : row_error(log, i) # "ok"}
  IN  IF bad = {} THEN [ok |-> TRUE, head |-> head(log)]
      ELSE [ok |-> FALSE, seq |-> Min(bad) - 1, error |-> row_error(log, Min(bad))]

---------------------------------------------------------------------------
Init == entries = <<>> /\ rows = <<>> /\ kept = {} /\ changes = 0 /\ rehashed = FALSE

(* Log::append, and the row that stores the entry.  A receipt made with    *)
(* with_prev tells its receiver the head it was made under.                *)
append(receipt, withPrev) ==
  /\ Len(entries) < MaxEntries
  /\ entries' = Append(entries, NewEntry(entries, receipt))
  /\ rows' = Append(rows, NewEntry(entries, receipt))
  /\ kept' = IF withPrev THEN kept \cup {head(entries)} ELSE kept
  /\ UNCHANGED <<changes, rehashed>>

Change(newRows) ==
  /\ changes < MaxChanges
  /\ newRows # rows
  /\ changes' = changes + 1
  /\ rows' = newRows
  /\ UNCHANGED <<entries, kept>>

(* One field of one row, to something another row holds or to garbage. *)
Edit(i) ==
  /\ \/ \E n \in 0..MaxEntries : Change([rows EXCEPT ![i].seq = n])
     \/ \E h \in {rows[j].hash : j \in DOMAIN rows} \cup {NoHash, <<Garbled>>} :
          Change([rows EXCEPT ![i].prev = h]) \/ Change([rows EXCEPT ![i].hash = h])
     \/ \E r \in Receipts : Change([rows EXCEPT ![i].receipt = r])
  /\ UNCHANGED rehashed

Delete(i) == Change(RemoveAt(rows, i)) /\ UNCHANGED rehashed

Repeat(i) == Change(InsertAt(rows, i, rows[i])) /\ UNCHANGED rehashed

Swap(i, j) == Change([rows EXCEPT ![i] = rows[j], ![j] = rows[i]]) /\ UNCHANGED rehashed

Truncate(n) == Change(SubSeq(rows, 1, n)) /\ UNCHANGED rehashed

(* A row rewritten with a receipt of choice, position, link and hash all   *)
(* made to fit the rows before it.                                         *)
Rehash(i) ==
  /\ \E r \in Receipts :
       LET fitting == [seq |-> i - 1, prev |-> PrevOf(rows, i),
                       hash |-> entry_hash(i - 1, PrevOf(rows, i), r), receipt |-> r]
       IN  Change([rows EXCEPT ![i] = fitting])
  /\ rehashed' = TRUE

Next ==
  \/ \E r \in Receipts, withPrev \in BOOLEAN : append(r, withPrev)
  \/ \E i \in DOMAIN rows : Edit(i) \/ Delete(i) \/ Repeat(i) \/ Rehash(i)
  \/ \E i, j \in DOMAIN rows : Swap(i, j)
  \/ \E n \in 0..(Len(rows) - 1) : Truncate(n)

Spec == Init /\ [][Next]_vars

---------------------------------------------------------------------------
Verified(log) == verify(log).ok

(* "Editing, deleting or reordering any entry breaks verification from     *)
(* that point on" (log.rs:2-3): as long as no hash was recomputed, rows    *)
(* that verify are what the verifier appended, up to a cut at the end, and *)
(* rows that do not are sound up to the entry that the error names.  So    *)
(* rows nobody touched verify: append's arithmetic and verify's agree.     *)
DamageIsLocated ==
  ~rehashed =>
    IF Verified(rows) THEN IsPrefix(rows, entries)
    ELSE /\ IsPrefix(SubSeq(rows, 1, verify(rows).seq), entries)
         /\ ~IsPrefix(SubSeq(rows, 1, verify(rows).seq + 1), entries)

(* "Dropping entries from the end is only detectable against a head        *)
(* someone kept" (log.rs:4-5), and against one it is: rows that verify and *)
(* contain a kept head hold, up to it, exactly what was appended, however  *)
(* the rows were changed and hashed anew.                                  *)
KeptHeadProtects ==
  Verified(rows) =>
    \A n \in DOMAIN rows :
      rows[n].hash \in kept => IsPrefix(SubSeq(rows, 1, n), entries)
=============================================================================
