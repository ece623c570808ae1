--------------------------- MODULE ReceiptProofs ---------------------------
(***************************************************************************)
(* Proofs about receipts.                                                  *)
(*                                                                         *)
(* ReceiptLog: for logs of any length and any number of changes to the     *)
(* persisted rows.                                                         *)
(*                                                                         *)
(* Receipts: for any presentations, names, payloads of other               *)
(* implementations and number of released fields.                          *)
(***************************************************************************)
EXTENDS ReceiptLog, Receipts, SequenceTheorems, WellFoundedInduction, TLAPS

(* Entry i of a log as append writes it and verify wants it. *)
Sound(log, i) ==
  [seq |-> i - 1, prev |-> PrevOf(log, i),
   hash |-> entry_hash(i - 1, PrevOf(log, i), log[i].receipt), receipt |-> log[i].receipt]

IsRow(x) == x = [seq |-> x.seq, prev |-> x.prev, hash |-> x.hash, receipt |-> x.receipt]

Appended == {entries[k].hash : k \in 1..Len(entries)}

(* What a row may be as long as nobody computes hashes. *)
Unforged(x) == IsRow(x) /\ (~rehashed => x.hash \in Appended \cup {NoHash, <<Garbled>>})

EntriesInv ==
  /\ entries \in Seq(Range(entries))
  /\ \A k \in 1..Len(entries) : entries[k] = Sound(entries, k)

KeptInv == kept \subseteq Appended \cup {NoHash}

RowsInv == rows \in Seq(Range(rows)) /\ \A x \in Range(rows) : Unforged(x)

LogInv == EntriesInv /\ KeptInv /\ RowsInv

---------------------------------------------------------------------------
(* Sequences. *)

(* A set of naturals has a least member. *)
LEMMA LeastNatural ==
  ASSUME NEW S \in SUBSET Nat, S # {}
  PROVE  \E n \in S : \A m \in S : n <= m
<1> DEFINE R == OpToRel(<, Nat)
<1>1. IsWellFoundedOn(R, Nat)
  BY NatLessThanWellFounded
<1>2. \A x, y \in Nat : <<x, y>> \in R <=> x < y
  BY DEF OpToRel
<1> HIDE DEF R
<1>3. PICK n \in S : \A m \in S : <<m, n>> \notin R
  BY <1>1, WFMin
<1>4. ASSUME NEW m \in S PROVE n <= m
  <2>1. m \in Nat /\ n \in Nat
    OBVIOUS
  <2>2. ~(m < n)
    BY <1>2, <1>3, <2>1
  <2> QED BY <2>1, <2>2
<1> QED BY <1>4

(* A sequence is one over its own members, which are those of any set it is over. *)
LEMMA OwnMembers ==
  ASSUME NEW T, NEW s \in Seq(T)
  PROVE  s \in Seq(Range(s)) /\ Range(s) \subseteq T
<1>1. Len(s) \in Nat /\ s \in [1..Len(s) -> T] /\ DOMAIN s = 1..Len(s)
  BY LenProperties
<1>2. Range(s) \subseteq T /\ s \in [1..Len(s) -> Range(s)]
  BY <1>1 DEF Range
<1> QED BY <1>1, <1>2, SeqDef

(* One sequence is a prefix of another if it agrees with it as far as it goes. *)
LEMMA PrefixIs ==
  ASSUME NEW S, NEW s \in Seq(S), NEW T, NEW t \in Seq(T)
  PROVE  IsPrefix(s, t) <=> Len(s) <= Len(t) /\ \A i \in 1..Len(s) : s[i] = t[i]
<1>1. /\ Len(s) \in Nat /\ DOMAIN s = 1..Len(s)
      /\ Len(t) \in Nat /\ DOMAIN t = 1..Len(t)
  BY LenProperties
<1>2. SubSeq(s, 1, Len(s)) = s
  BY SubSeqFull
<1>3. ASSUME Len(s) <= Len(t)
      PROVE  SubSeq(t, 1, Len(s)) = s <=> \A i \in 1..Len(s) : s[i] = t[i]
  <2> DEFINE u == SubSeq(t, 1, Len(s))
  <2>1. \A i \in 1..Len(s) : t[i] \in S \cup T
    <3>1. \A i \in 1..Len(t) : t[i] \in T
      BY ElementOfSeq
    <3> QED BY <1>1, <1>3, <3>1
  <2>2. /\ u \in Seq(S \cup T)
        /\ Len(u) = Len(s)
        /\ \A i \in 1..Len(s) : u[i] = t[i]
    <3>1. /\ u \in Seq(S \cup T)
          /\ Len(u) = IF 1 <= Len(s) THEN Len(s) - 1 + 1 ELSE 0
          /\ \A i \in 1..(Len(s) - 1 + 1) : u[i] = t[1 + i - 1]
      BY <1>1, <2>1, SubSeqProperties
    <3> QED BY <1>1, <3>1
  <2>3. s \in Seq(S \cup T)
    BY SeqMonotonic
  <2> HIDE DEF u
  <2>4. (\A i \in 1..Len(s) : s[i] = u[i]) => u = s
    BY <2>2, <2>3, SeqEqual
  <2> QED BY <2>2, <2>4 DEF u
<1> QED BY <1>2, <1>3 DEF IsPrefix

---------------------------------------------------------------------------
(* The log itself. *)

(* The log with one entry more. *)
LEMMA EntryAppended ==
  ASSUME EntriesInv, NEW r, entries' = Append(entries, NewEntry(entries, r))
  PROVE  /\ EntriesInv'
         /\ Len(entries') = Len(entries) + 1 /\ Len(entries) \in Nat
         /\ \A k \in 1..Len(entries) : entries'[k] = entries[k]
         /\ entries'[Len(entries) + 1] = NewEntry(entries, r)
<1> DEFINE n == Len(entries)
           e == NewEntry(entries, r)
           T == Range(entries) \cup {e}
<1>1. n \in Nat /\ entries \in Seq(T)
  BY SeqMonotonic, LenProperties DEF EntriesInv
<1> HIDE DEF e
<1>2. /\ entries' \in Seq(T) /\ Len(entries') = n + 1
      /\ \A k \in 1..n : entries'[k] = entries[k]
      /\ entries'[n + 1] = e
  <2>1. entries' = Append(entries, e) /\ e \in T
    BY DEF e
  <2> QED BY <1>1, <2>1, AppendProperties
<1>3. entries' \in Seq(Range(entries'))
  BY <1>2, OwnMembers
<1>4. ASSUME NEW k \in 1..(n + 1) PROVE entries'[k] = Sound(entries', k)
  <2>1. CASE k \in 1..n
    <3>1. PrevOf(entries', k) = PrevOf(entries, k)
      <4>1. k # 1 => k - 1 \in 1..n
        BY <1>1, <2>1
      <4> QED BY <1>2, <4>1 DEF PrevOf
    <3>2. entries[k] = Sound(entries, k) /\ entries'[k] = entries[k]
      BY <1>2, <2>1 DEF EntriesInv
    <3> QED BY <3>1, <3>2 DEF Sound
  <2>2. CASE k = n + 1
    <3>1. head(entries) = PrevOf(entries', n + 1)
      <4>1. CASE n = 0
        <5>1. entries = <<>>
          BY <4>1, <1>1, EmptySeq
        <5> QED BY <4>1, <5>1 DEF head, PrevOf
      <4>2. CASE n # 0
        <5>1. entries # <<>> /\ n \in 1..n /\ n + 1 # 1 /\ n + 1 - 1 = n
          BY <4>2, <1>1, EmptySeq
        <5> QED BY <5>1, <1>2 DEF head, PrevOf
      <4> QED BY <4>1, <4>2
    <3>2. e = [seq |-> n, prev |-> head(entries),
               hash |-> entry_hash(n, head(entries), r), receipt |-> r]
      BY DEF e, NewEntry
    <3>3. n = n + 1 - 1
      BY <1>1
    <3> QED BY <1>2, <2>2, <3>1, <3>2, <3>3 DEF Sound
  <2> QED BY <1>1, <2>1, <2>2
<1> QED BY <1>1, <1>2, <1>3, <1>4 DEF EntriesInv, e

---------------------------------------------------------------------------
(* The rows. *)

(* Rows taken from rows that were unforged are unforged. *)
LEMMA RowsFrom ==
  ASSUME NEW T, \A x \in T : Unforged(x)', rows' \in Seq(T)
  PROVE  RowsInv'
BY OwnMembers DEF RowsInv

(* What a change by hand makes of the rows: a sequence over the rows that  *)
(* were there and one whose hash no one computed.                          *)
LEMMA ChangedByHand ==
  ASSUME LogInv, UNCHANGED <<entries, kept, rehashed>>,
         NEW y, IsRow(y), ~rehashed => y.hash \in Appended \cup {NoHash, <<Garbled>>},
         rows' \in Seq(Range(rows) \cup {y})
  PROVE  LogInv'
<1>1. Appended' = Appended
  BY DEF Appended
<1>2. \A x \in Range(rows) \cup {y} : Unforged(x)'
  BY <1>1 DEF LogInv, RowsInv, Unforged
<1>3. RowsInv'
  BY <1>2, RowsFrom
<1>4. EntriesInv' /\ KeptInv'
  BY <1>1 DEF LogInv, EntriesInv, KeptInv, Sound, PrevOf
<1> QED BY <1>3, <1>4 DEF LogInv

(* The log starts empty, and so do its rows. *)
LEMMA LogInit == Init => LogInv
<1> SUFFICES ASSUME Init PROVE LogInv
  OBVIOUS
<1>1. entries = <<>> /\ rows = <<>> /\ kept = {}
  BY DEF Init
<1>2. Len(<<>>) = 0 /\ <<>> \in Seq({}) /\ Range(<<>>) = {}
  BY EmptySeq DEF Range
<1>3. \A k \in 1..0 : FALSE
  OBVIOUS
<1> QED BY <1>1, <1>2, <1>3 DEF LogInv, EntriesInv, KeptInv, RowsInv

(* Appending adds the same sound entry to the log and to the rows. *)
LEMMA LogAppend ==
  ASSUME LogInv, NEW r, NEW withPrev, append(r, withPrev)
  PROVE  LogInv'
<1> DEFINE n == Len(entries)
           e == NewEntry(entries, r)
<1>1. /\ EntriesInv' /\ n \in Nat /\ Len(entries') = n + 1
      /\ \A k \in 1..n : entries'[k] = entries[k]
      /\ entries'[n + 1] = e
  BY EntryAppended DEF LogInv, append
<1>2. Appended \subseteq Appended' /\ e.hash \in Appended'
  <2>1. \A k \in 1..n : k \in 1..(n + 1)
    BY <1>1
  <2>2. n + 1 \in 1..(n + 1)
    BY <1>1
  <2> QED BY <1>1, <2>1, <2>2 DEF Appended
<1>3. head(entries) \in Appended \cup {NoHash}
  <2>1. CASE entries = <<>>
    BY <2>1 DEF head
  <2>2. CASE entries # <<>>
    <3>1. n \in 1..n
      BY <2>2, EmptySeq DEF LogInv, EntriesInv
    <3> QED BY <2>2, <3>1 DEF head, Appended
  <2> QED BY <2>1, <2>2
<1>4. KeptInv'
  BY <1>2, <1>3 DEF LogInv, KeptInv, append
<1>5. RowsInv'
  <2> DEFINE T == Range(rows) \cup {e}
  <2>1. IsRow(e)
    BY DEF IsRow, NewEntry
  <2> HIDE DEF e
  <2>2. \A x \in T : Unforged(x)'
    BY <1>2, <2>1 DEF LogInv, RowsInv, Unforged, append
  <2>3. rows \in Seq(T) /\ e \in T
    BY SeqMonotonic DEF LogInv, RowsInv
  <2>4. rows' = Append(rows, e)
    BY DEF append, e
  <2>5. rows' \in Seq(T)
    BY <2>3, <2>4, AppendProperties
  <2> QED BY <2>2, <2>5, RowsFrom
<1> QED BY <1>1, <1>4, <1>5 DEF LogInv

(* Every way of changing the rows by hand, Rehash aside. *)
LEMMA LogChange ==
  ASSUME LogInv, NEW i \in DOMAIN rows,
         Edit(i) \/ Delete(i) \/ Repeat(i) \/ Rehash(i)
                 \/ (\E j \in DOMAIN rows : Swap(i, j))
  PROVE  LogInv'
<1> DEFINE n == Len(rows)
           S == Range(rows)
<1>1. /\ rows \in Seq(S) /\ n \in Nat /\ DOMAIN rows = 1..n
      /\ \A j \in 1..n : rows[j] \in S /\ Unforged(rows[j])
  BY LenProperties DEF LogInv, RowsInv, Range
<1>2. UNCHANGED <<entries, kept>>
  BY DEF Edit, Delete, Repeat, Rehash, Swap, Change
<1>3. ASSUME UNCHANGED rehashed, NEW y, IsRow(y),
             ~rehashed => y.hash \in Appended \cup {NoHash, <<Garbled>>},
             rows' = [rows EXCEPT ![i] = y]
      PROVE  LogInv'
  <2>1. rows' \in Seq(S \cup {y})
    <3>1. rows \in Seq(S \cup {y}) /\ i \in 1..n /\ y \in S \cup {y}
      BY <1>1, SeqMonotonic
    <3> QED BY <1>3, <3>1, ExceptSeq
  <2> QED BY <1>2, <1>3, <2>1, ChangedByHand
<1>4. ASSUME UNCHANGED rehashed, rows' \in Seq(S) PROVE LogInv'
  <2>1. rows' \in Seq(S \cup {rows[i]})
    BY <1>4, SeqMonotonic
  <2> QED BY <1>1, <1>2, <1>4, <2>1, ChangedByHand DEF Unforged
<1> DEFINE x == rows[i]
<1>5. /\ x = [seq |-> x.seq, prev |-> x.prev, hash |-> x.hash, receipt |-> x.receipt]
      /\ ~rehashed => x.hash \in Appended \cup {NoHash, <<Garbled>>}
  BY <1>1 DEF Unforged, IsRow
<1>6. CASE Edit(i)
  <2>1. UNCHANGED rehashed
    BY <1>6 DEF Edit
  <2>2. CASE \E v : rows' = [rows EXCEPT ![i].seq = v]
    <3>1. PICK v : rows' = [rows EXCEPT ![i] = [x EXCEPT !.seq = v]]
      BY <2>2
    <3>2. [x EXCEPT !.seq = v] = [seq |-> v, prev |-> x.prev, hash |-> x.hash, receipt |-> x.receipt]
      BY <1>5
    <3> QED BY <1>3, <1>5, <2>1, <3>1, <3>2 DEF IsRow
  <2>3. CASE \E v : rows' = [rows EXCEPT ![i].prev = v]
    <3>1. PICK v : rows' = [rows EXCEPT ![i] = [x EXCEPT !.prev = v]]
      BY <2>3
    <3>2. [x EXCEPT !.prev = v] = [seq |-> x.seq, prev |-> v, hash |-> x.hash, receipt |-> x.receipt]
      BY <1>5
    <3> QED BY <1>3, <1>5, <2>1, <3>1, <3>2 DEF IsRow
  <2>4. CASE \E v : rows' = [rows EXCEPT ![i].receipt = v]
    <3>1. PICK v : rows' = [rows EXCEPT ![i] = [x EXCEPT !.receipt = v]]
      BY <2>4
    <3>2. [x EXCEPT !.receipt = v] = [seq |-> x.seq, prev |-> x.prev, hash |-> x.hash, receipt |-> v]
      BY <1>5
    <3> QED BY <1>3, <1>5, <2>1, <3>1, <3>2 DEF IsRow
  <2>5. CASE \E h \in {rows[j].hash : j \in DOMAIN rows} \cup {NoHash, <<Garbled>>} :
               rows' = [rows EXCEPT ![i].hash = h]
    <3>1. PICK h \in {rows[j].hash : j \in DOMAIN rows} \cup {NoHash, <<Garbled>>} :
            rows' = [rows EXCEPT ![i] = [x EXCEPT !.hash = h]]
      BY <2>5
    <3>2. [x EXCEPT !.hash = h] = [seq |-> x.seq, prev |-> x.prev, hash |-> h, receipt |-> x.receipt]
      BY <1>5
    <3>3. ~rehashed => h \in Appended \cup {NoHash, <<Garbled>>}
      BY <1>1, <3>1 DEF Unforged
    <3> QED BY <1>3, <2>1, <3>1, <3>2, <3>3 DEF IsRow
  <2> QED BY <1>6, <2>2, <2>3, <2>4, <2>5 DEF Edit, Change
<1>7. CASE Delete(i)
  <2>1. rows' = SubSeq(rows, 1, i - 1) \o SubSeq(rows, i + 1, n) /\ UNCHANGED rehashed
    BY <1>7 DEF Delete, Change, RemoveAt
  <2>2. SubSeq(rows, 1, i - 1) \in Seq(S) /\ SubSeq(rows, i + 1, n) \in Seq(S)
    BY <1>1, SubSeqProperties
  <2> QED BY <1>4, <2>1, <2>2, ConcatProperties
<1>8. CASE Repeat(i)
  <2>1. rows' = SubSeq(rows, 1, i - 1) \o <<x>> \o SubSeq(rows, i, n) /\ UNCHANGED rehashed
    BY <1>8 DEF Repeat, Change, InsertAt
  <2>2. SubSeq(rows, 1, i - 1) \in Seq(S) /\ SubSeq(rows, i, n) \in Seq(S)
    BY <1>1, SubSeqProperties
  <2>3. <<x>> \in Seq(S)
    BY <1>1
  <2>4. SubSeq(rows, 1, i - 1) \o <<x>> \in Seq(S)
    BY <2>2, <2>3, ConcatProperties
  <2> QED BY <1>4, <2>1, <2>2, <2>4, ConcatProperties
<1>9. CASE Rehash(i)
  <2>1. PICK y : IsRow(y) /\ rows' = [rows EXCEPT ![i] = y]
    BY <1>9 DEF Rehash, Change, IsRow
  <2>2. rows' \in Seq(S \cup {y})
    <3>1. rows \in Seq(S \cup {y}) /\ i \in 1..n /\ y \in S \cup {y}
      BY <1>1, SeqMonotonic
    <3> QED BY <2>1, <3>1, ExceptSeq
  <2>3. rehashed'
    BY <1>9 DEF Rehash
  <2>4. \A z \in S \cup {y} : Unforged(z)'
    BY <2>1, <2>3 DEF LogInv, RowsInv, Unforged
  <2>5. RowsInv'
    BY <2>2, <2>4, RowsFrom
  <2>6. EntriesInv' /\ KeptInv'
    BY <1>2 DEF LogInv, EntriesInv, KeptInv, Sound, PrevOf, Appended
  <2> QED BY <2>5, <2>6 DEF LogInv
<1>10. CASE \E j \in DOMAIN rows : Swap(i, j)
  <2>1. PICK j \in 1..n : rows' = [rows EXCEPT ![i] = rows[j], ![j] = rows[i]]
    BY <1>1, <1>10 DEF Swap, Change
  <2>2. UNCHANGED rehashed
    BY <1>10 DEF Swap
  <2>3. [rows EXCEPT ![i] = rows[j]] \in Seq(S) /\ Len([rows EXCEPT ![i] = rows[j]]) = n
    BY <1>1, ExceptSeq
  <2>4. rows' \in Seq(S)
    BY <1>1, <2>1, <2>3, ExceptSeq
  <2> QED BY <1>4, <2>2, <2>4
<1> QED BY <1>6, <1>7, <1>8, <1>9, <1>10

(* The log stays linked, the kept heads are its own, and the rows carry no *)
(* hash that was not there as long as none is computed.                    *)
LEMMA LogStep == LogInv /\ [Next]_vars => LogInv'
<1> SUFFICES ASSUME LogInv, [Next]_vars PROVE LogInv'
  OBVIOUS
<1>1. CASE UNCHANGED vars
  <2>1. entries' = entries /\ rows' = rows /\ kept' = kept /\ rehashed' = rehashed
    BY <1>1 DEF vars
  <2>2. Appended' = Appended
    BY <2>1 DEF Appended
  <2>3. EntriesInv' /\ KeptInv'
    BY <2>1, <2>2 DEF LogInv, EntriesInv, KeptInv, Sound, PrevOf
  <2>4. RowsInv'
    BY <2>1, <2>2 DEF LogInv, RowsInv, Unforged
  <2> QED BY <2>3, <2>4 DEF LogInv
<1>2. ASSUME NEW n \in 0..(Len(rows) - 1), Truncate(n) PROVE LogInv'
  <2>1. rows' = SubSeq(rows, 1, n) /\ UNCHANGED <<entries, kept, rehashed>>
    BY <1>2 DEF Truncate, Change
  <2>2. /\ rows \in Seq(Range(rows)) /\ Len(rows) \in Nat
        /\ \A j \in 1..Len(rows) : rows[j] \in Range(rows)
    BY LenProperties DEF LogInv, RowsInv, Range
  <2>3. rows' \in Seq(Range(rows)) /\ n \in Int
    BY <1>2, <2>1, <2>2, SubSeqProperties
  <2>4. Appended' = Appended
    BY <2>1 DEF Appended
  <2>5. \A z \in Range(rows) : Unforged(z)'
    BY <2>1, <2>4 DEF LogInv, RowsInv, Unforged
  <2>6. RowsInv'
    BY <2>3, <2>5, RowsFrom
  <2>7. EntriesInv' /\ KeptInv'
    BY <2>1, <2>4 DEF LogInv, EntriesInv, KeptInv, Sound, PrevOf
  <2> QED BY <2>6, <2>7 DEF LogInv
<1> QED BY <1>1, <1>2, LogAppend, LogChange DEF Next

(* The invariant of every reachable state. *)
LEMMA LogInvariant == Spec => []LogInv
BY LogInit, LogStep, PTL DEF Spec

---------------------------------------------------------------------------
(* Rows that verify. *)

(* The hash fixes the entry: a row whose hash is an entry's and fits the   *)
(* row is at the entry's place, with its receipt and its predecessor.      *)
LEMMA HashFixesEntry ==
  ASSUME LogInv, NEW i \in 1..Len(rows), NEW k \in 1..Len(entries),
         row_error(rows, i) = "ok", rows[i].hash = entries[k].hash
  PROVE  k = i /\ rows[i] = entries[i] /\ PrevOf(rows, i) = PrevOf(entries, i)
<1> DEFINE x == rows[i]
<1>1. /\ x.seq = i - 1 /\ x.prev = PrevOf(rows, i)
      /\ x.hash = <<x.seq, x.prev, x.receipt>>
  BY DEF row_error, entry_hash
<1>2. entries[k] = [seq |-> k - 1, prev |-> PrevOf(entries, k),
                    hash |-> <<k - 1, PrevOf(entries, k), entries[k].receipt>>,
                    receipt |-> entries[k].receipt]
  BY DEF LogInv, EntriesInv, Sound, entry_hash
<1>3. /\ i - 1 = k - 1 /\ PrevOf(rows, i) = PrevOf(entries, k)
      /\ x.receipt = entries[k].receipt
  <2>1. entries[k].hash = <<k - 1, PrevOf(entries, k), entries[k].receipt>>
    BY <1>2
  <2>2. <<x.seq, x.prev, x.receipt>> = <<k - 1, PrevOf(entries, k), entries[k].receipt>>
    BY <1>1, <2>1
  <2>3. x.seq = k - 1 /\ x.prev = PrevOf(entries, k) /\ x.receipt = entries[k].receipt
    BY ONLY <2>2
  <2> QED BY <1>1, <2>3
<1>4. Len(rows) \in Nat /\ Len(entries) \in Nat /\ DOMAIN rows = 1..Len(rows)
  BY LenProperties DEF LogInv, RowsInv, EntriesInv
<1>5. k = i
  BY <1>3, <1>4
<1>6. x = [seq |-> x.seq, prev |-> x.prev, hash |-> x.hash, receipt |-> x.receipt]
  BY <1>4 DEF LogInv, RowsInv, Unforged, IsRow, Range
<1> HIDE DEF x
<1>7. x = entries[i]
  BY <1>1, <1>2, <1>3, <1>5, <1>6
<1> QED BY <1>3, <1>5, <1>7 DEF x

(* While no hash was computed, a row that fits is the entry at its place:  *)
(* a triple is neither the empty hash nor garbage.                         *)
LEMMA FittingRowIsEntry ==
  ASSUME LogInv, ~rehashed, NEW i \in 1..Len(rows), row_error(rows, i) = "ok"
  PROVE  i \in 1..Len(entries) /\ rows[i] = entries[i]
<1>1. DOMAIN rows = 1..Len(rows)
  BY LenProperties DEF LogInv, RowsInv
<1>2. rows[i].hash \in Appended \cup {NoHash, <<Garbled>>}
  BY <1>1 DEF LogInv, RowsInv, Unforged, Range
<1>3. rows[i].hash = <<rows[i].seq, rows[i].prev, rows[i].receipt>>
  BY DEF row_error, entry_hash
<1>4. rows[i].hash \notin {NoHash, <<Garbled>>}
  BY ONLY <1>3 DEF NoHash
<1>5. PICK k \in 1..Len(entries) : rows[i].hash = entries[k].hash
  BY <1>2, <1>4 DEF Appended
<1> QED BY <1>5, HashFixesEntry

(* The first n rows and the log, entry by entry. *)
LEMMA RowsPrefix ==
  ASSUME LogInv, NEW n \in 0..Len(rows)
  PROVE  IsPrefix(SubSeq(rows, 1, n), entries) <=>
           n <= Len(entries) /\ \A i \in 1..n : rows[i] = entries[i]
<1> DEFINE s == SubSeq(rows, 1, n)
<1>1. /\ entries \in Seq(Range(entries))
      /\ Len(rows) \in Nat
      /\ \A i \in 1..Len(rows) : rows[i] \in Range(rows)
  BY LenProperties DEF LogInv, EntriesInv, RowsInv, Range
<1>2. s \in Seq(Range(rows)) /\ Len(s) = n /\ \A i \in 1..n : s[i] = rows[i]
  <2>1. n \in Int /\ \A i \in 1..n : rows[i] \in Range(rows)
    BY <1>1
  <2>2. /\ s \in Seq(Range(rows))
        /\ Len(s) = IF 1 <= n THEN n - 1 + 1 ELSE 0
        /\ \A i \in 1..(n - 1 + 1) : s[i] = rows[1 + i - 1]
    BY <2>1, SubSeqProperties
  <2> QED BY <1>1, <2>2
<1> HIDE DEF s
<1>3. IsPrefix(s, entries) <=>
        Len(s) <= Len(entries) /\ \A i \in 1..Len(s) : s[i] = entries[i]
  BY <1>1, <1>2, PrefixIs
<1>4. (\A i \in 1..n : s[i] = entries[i]) <=> (\A i \in 1..n : rows[i] = entries[i])
  BY <1>2
<1> QED BY <1>2, <1>3, <1>4 DEF s

(* Rows that verify and hold a kept head are, up to it, what was appended: *)
(* the kept hash fixes its row's link, which fixes the row before, and so  *)
(* down to the first, whoever computed the hashes of the others.           *)
THEOREM KeptHeadHolds == Spec => []KeptHeadProtects
<1>1. ASSUME LogInv PROVE KeptHeadProtects
  <2> SUFFICES ASSUME Verified(rows), NEW n \in DOMAIN rows, rows[n].hash \in kept
               PROVE  IsPrefix(SubSeq(rows, 1, n), entries)
    BY DEF KeptHeadProtects
  <2>1. /\ DOMAIN rows = 1..Len(rows) /\ Len(rows) \in Nat /\ Len(entries) \in Nat
        /\ n \in 1..Len(rows)
    BY <1>1, LenProperties DEF LogInv, RowsInv, EntriesInv
  <2>2. \A i \in 1..Len(rows) : row_error(rows, i) = "ok"
    BY <2>1 DEF Verified, verify
  <2> DEFINE Same(i) == i \in 1..Len(entries) /\ rows[i] = entries[i]
                          /\ PrevOf(rows, i) = PrevOf(entries, i)
  <2>3. Same(n)
    <3>1. rows[n].hash # NoHash
      <4>1. rows[n].hash = <<rows[n].seq, rows[n].prev, rows[n].receipt>>
        BY <2>1, <2>2 DEF row_error, entry_hash
      <4> QED BY ONLY <4>1 DEF NoHash
    <3>2. PICK k \in 1..Len(entries) : rows[n].hash = entries[k].hash
      BY <1>1, <3>1 DEF LogInv, KeptInv, Appended
    <3> QED BY <1>1, <2>1, <2>2, <3>2, HashFixesEntry
  <2>4. ASSUME NEW i \in 2..n, Same(i) PROVE Same(i - 1)
    <3>1. i - 1 \in 1..Len(rows) /\ i - 1 \in 1..Len(entries) /\ i # 1
      BY <2>1, <2>4
    <3>2. rows[i - 1].hash = entries[i - 1].hash
      BY <2>4, <3>1 DEF PrevOf
    <3> QED BY <1>1, <2>2, <3>1, <3>2, HashFixesEntry
  <2> DEFINE Unlike == {d \in 0..(n - 1) : ~Same(n - d)}
  <2> HIDE DEF Same
  <2>5. Unlike = {}
    <3> SUFFICES ASSUME Unlike # {} PROVE FALSE
      OBVIOUS
    <3>1. PICK d \in Unlike : \A e \in Unlike : d <= e
      <4>1. Unlike \in SUBSET Nat
        BY <2>1
      <4> HIDE DEF Unlike
      <4> QED BY <4>1, LeastNatural
    <3>2. d \in 0..(n - 1) /\ ~Same(n - d) /\ d # 0
      BY <2>1, <2>3
    <3>3. d - 1 \in 0..(n - 1) /\ ~(d <= d - 1)
      BY <2>1, <3>2
    <3>4. Same(n - (d - 1))
      BY <3>1, <3>3
    <3>5. n - (d - 1) \in 2..n /\ n - (d - 1) - 1 = n - d
      BY <2>1, <3>2
    <3> QED BY <2>4, <3>2, <3>4, <3>5
  <2>6. \A i \in 1..n : Same(i)
    <3>1. ASSUME NEW i \in 1..n PROVE n - i \in 0..(n - 1) /\ n - (n - i) = i
      BY <2>1
    <3> QED BY <2>5, <3>1
  <2> QED BY <1>1, <2>1, <2>6, RowsPrefix DEF Same
<1> QED BY <1>1, LogInvariant, PTL

(* As long as no hash is computed anew, verify finds the first row that is *)
(* not the entry appended at its place, however the rows were edited,      *)
(* removed, repeated, reordered and cut off.                               *)
THEOREM DamageIsLocatedHolds == Spec => []DamageIsLocated
<1>1. ASSUME LogInv PROVE DamageIsLocated
  <2> SUFFICES ASSUME ~rehashed
               PROVE  IF Verified(rows) THEN IsPrefix(rows, entries)
                      ELSE /\ IsPrefix(SubSeq(rows, 1, verify(rows).seq), entries)
                           /\ ~IsPrefix(SubSeq(rows, 1, verify(rows).seq + 1), entries)
    BY DEF DamageIsLocated
  <2>1. /\ rows \in Seq(Range(rows)) /\ entries \in Seq(Range(entries))
        /\ DOMAIN rows = 1..Len(rows) /\ Len(rows) \in Nat /\ Len(entries) \in Nat
    BY <1>1, LenProperties DEF LogInv, RowsInv, EntriesInv
  <2> DEFINE bad == {i \in DOMAIN rows : row_error(rows, i) # "ok"}
  <2>2. CASE bad = {}
    <3>1. \A i \in 1..Len(rows) : i \in 1..Len(entries) /\ rows[i] = entries[i]
      BY <1>1, <2>1, <2>2, FittingRowIsEntry
    <3>2. Len(rows) <= Len(entries)
      <4>1. CASE Len(rows) = 0
        BY <4>1, <2>1
      <4>2. CASE Len(rows) # 0
        <5>1. Len(rows) \in 1..Len(rows)
          BY <4>2, <2>1
        <5> QED BY <5>1, <3>1, <2>1
      <4> QED BY <4>1, <4>2
    <3>3. IsPrefix(rows, entries)
      BY <2>1, <3>1, <3>2, PrefixIs
    <3>4. Verified(rows)
      BY <2>2 DEF Verified, verify
    <3> QED BY <3>3, <3>4
  <2>3. CASE bad # {}
    <3> DEFINE m == Min(bad)
    <3>1. m \in bad /\ \A i \in bad : m <= i
      <4>1. bad \in SUBSET Nat
        BY <2>1
      <4> HIDE DEF bad
      <4>2. \E i \in bad : \A j \in bad : i <= j
        BY <2>3, <4>1, LeastNatural
      <4> QED BY <4>2 DEF Min
    <3>2. ~Verified(rows) /\ verify(rows).seq = m - 1
      BY <2>3 DEF Verified, verify
    <3> HIDE DEF m
    <3>3. m \in 1..Len(rows) /\ row_error(rows, m) # "ok" /\ m \in Nat
      BY <2>1, <3>1
    <3>4. ASSUME NEW i \in 1..(m - 1)
          PROVE  i \in 1..Len(entries) /\ rows[i] = entries[i]
      <4>1. i \in 1..Len(rows) /\ ~(m <= i)
        BY <2>1, <3>3
      <4>2. row_error(rows, i) = "ok"
        BY <2>1, <3>1, <4>1
      <4> QED BY <1>1, <4>1, <4>2, FittingRowIsEntry
    <3>5. m - 1 <= Len(entries)
      <4>1. CASE m = 1
        BY <4>1, <2>1
      <4>2. CASE m # 1
        <5>1. m - 1 \in 1..(m - 1)
          BY <4>2, <3>3
        <5> QED BY <5>1, <3>4, <2>1
      <4> QED BY <4>1, <4>2
    <3>6. IsPrefix(SubSeq(rows, 1, m - 1), entries)
      <4>1. m - 1 \in 0..Len(rows)
        BY <2>1, <3>3
      <4> QED BY <1>1, <3>4, <3>5, <4>1, RowsPrefix
    <3>7. ~IsPrefix(SubSeq(rows, 1, m), entries)
      <4> SUFFICES ASSUME IsPrefix(SubSeq(rows, 1, m), entries) PROVE FALSE
        OBVIOUS
      <4>1. m \in 0..Len(rows)
        BY <2>1, <3>3
      <4>2. m <= Len(entries) /\ \A i \in 1..m : rows[i] = entries[i]
        BY <1>1, <4>1, RowsPrefix
      <4>3. m \in 1..Len(entries) /\ m \in 1..m
        BY <2>1, <3>3, <4>2
      <4>4. PrevOf(rows, m) = PrevOf(entries, m)
        <5>1. m # 1 => m - 1 \in 1..m
          BY <3>3
        <5> QED BY <4>2, <5>1 DEF PrevOf
      <4>5. rows[m] = Sound(entries, m)
        BY <1>1, <4>2, <4>3 DEF LogInv, EntriesInv
      <4>6. row_error(rows, m) = "ok"
        BY <4>4, <4>5 DEF Sound, row_error
      <4> QED BY <3>3, <4>6
    <3>8. m - 1 + 1 = m
      BY <3>3
    <3> QED BY <3>2, <3>6, <3>7, <3>8
  <2> QED BY <2>2, <2>3
<1> QED BY <1>1, LogInvariant, PTL

---------------------------------------------------------------------------
(* Receipts *)

ReceiptMembers == Optional \cup {"iss", "iat", "reference", "released", "outcome"}

(* A receipt that loses nothing when it is written: no member is mistyped, *)
(* none is missing but optional ones, and an error says which.             *)
Readable(r) ==
  /\ r = [m \in ReceiptMembers |-> r[m]]
  /\ \A m \in Optional : r[m] # Bad
  /\ \A m \in {"iss", "iat", "reference"} : r[m] \notin {None, Bad}
  /\ r.released # None /\ r.released # Bad /\ \A i \in DOMAIN r.released : r.released[i] \in FieldPaths
  /\ \/ r.outcome = Success
     \/ \E x, y : x \notin {None, Bad} /\ y \notin {None, Bad} /\ r.outcome = Error(x, y)

(* What the verifier builds is readable and about its presentation.        *)
BuildInv ==
  /\ receipt # None => /\ about \in Chains /\ receipt \in Built
                       /\ receipt.reference = reference_for(about)
                       /\ receipt.presentation_id \in {None, presentation_id(about)}
  /\ receipt = None => about = None
  /\ wire # None /\ receipt # None => wire = to_payload(receipt)

---------------------------------------------------------------------------
(* The members of a payload. *)
LEMMA PayloadMembers ==
  ASSUME NEW r, r = [m \in ReceiptMembers |-> r[m]]
  PROVE  LET p == to_payload(r)
         IN  /\ \A m \in Optional \cup {"iss", "iat", "reference"} : p[m] = r[m]
             /\ p.released = IF r.released = <<>> THEN None ELSE r.released
             /\ p.status = r.outcome.status /\ p.result = None
             /\ p.error = r.outcome.code /\ p.error_description = r.outcome.description
<1> DEFINE f == [m \in DOMAIN r \ {"outcome"} |-> IF m = "released" /\ r.released = <<>> THEN None ELSE r[m]]
           g == OutcomeMembers(r.outcome)
<1>1. DOMAIN r = ReceiptMembers
  OBVIOUS
<1>2. DOMAIN f = Optional \cup {"iss", "iat", "reference", "released"}
  BY <1>1 DEF ReceiptMembers, Optional
<1>3. DOMAIN g = {"status", "result", "error", "error_description"}
  BY DEF OutcomeMembers
<1>4. /\ \A m \in DOMAIN f : Joined(f, g)[m] = f[m]
      /\ \A m \in DOMAIN g : m \notin DOMAIN f => Joined(f, g)[m] = g[m]
  BY DEF Joined
<1>5. /\ \A m \in Optional \cup {"iss", "iat", "reference"} : f[m] = r[m]
      /\ f["released"] = IF r.released = <<>> THEN None ELSE r.released
  BY <1>1 DEF ReceiptMembers, Optional
<1>6. /\ g["status"] = r.outcome.status /\ g["result"] = None
      /\ g["error"] = r.outcome.code /\ g["error_description"] = r.outcome.description
  BY DEF OutcomeMembers
<1>7. to_payload(r) = Joined(f, g)
  BY DEF to_payload
<1> HIDE DEF f, g
<1>8. "status" \notin DOMAIN f /\ "result" \notin DOMAIN f /\ "error" \notin DOMAIN f /\ "error_description" \notin DOMAIN f
  BY <1>2 DEF Optional
<1>q. QED BY <1>2, <1>3, <1>4, <1>5, <1>6, <1>7, <1>8

(* The receipt a payload is read as. *)
LEMMA ReadMembers ==
  ASSUME NEW p, from_payload(p).ok
  PROVE  LET r == from_payload(p).receipt
         IN  /\ from_payload(p) = [ok |-> TRUE, receipt |-> r]
             /\ r = [m \in ReceiptMembers |-> r[m]]
             /\ \A m \in Optional : r[m] = text(p, m)
             /\ r.iss = p.iss /\ r.iat = p.iat /\ r.reference = p.reference
             /\ r.released = IF p.released = None THEN <<>> ELSE p.released
             /\ r.outcome = IF is_success(p) THEN Success ELSE Error(p.error, p.error_description)
             /\ is_success(p) \/ is_error(p)
             /\ p.iat \notin {None, Bad} /\ is_released(p.released)
             /\ text(p, "iss") # None /\ text(p, "reference") # None
<1> DEFINE f == [m \in Optional |-> text(p, m)]
           g == [iss |-> p.iss, iat |-> p.iat, reference |-> p.reference,
                 released |-> IF p.released = None THEN <<>> ELSE p.released,
                 outcome |-> IF is_success(p) THEN Success ELSE Error(p.error, p.error_description)]
           Reads == /\ is_success(p) \/ is_error(p)
                    /\ p.iat \notin {None, Bad}
                    /\ is_released(p.released)
                    /\ text(p, "iss") # None /\ text(p, "reference") # None
<1>1. from_payload(p) = IF Reads THEN [ok |-> TRUE, receipt |-> Joined(f, g)] ELSE [ok |-> FALSE]
  BY DEF from_payload
<1>2. Reads /\ from_payload(p) = [ok |-> TRUE, receipt |-> Joined(f, g)]
  <2> HIDE DEF Reads, f, g
  <2>q. QED BY <1>1
<1>3. DOMAIN f = Optional /\ \A m \in Optional : f[m] = text(p, m)
  OBVIOUS
<1>4. /\ DOMAIN g = {"iss", "iat", "reference", "released", "outcome"}
      /\ g["iss"] = p.iss /\ g["iat"] = p.iat /\ g["reference"] = p.reference
      /\ g["released"] = IF p.released = None THEN <<>> ELSE p.released
      /\ g["outcome"] = IF is_success(p) THEN Success ELSE Error(p.error, p.error_description)
  OBVIOUS
<1> HIDE DEF f, g
<1>5. Joined(f, g) = [m \in ReceiptMembers |-> IF m \in DOMAIN f THEN f[m] ELSE g[m]]
  BY <1>3, <1>4 DEF Joined, ReceiptMembers
<1>6. \A m \in {"iss", "iat", "reference", "released", "outcome"} : m \notin DOMAIN f /\ m \in ReceiptMembers
  BY <1>3 DEF Optional, ReceiptMembers
<1>7. /\ \A m \in Optional : Joined(f, g)[m] = text(p, m)
      /\ \A m \in {"iss", "iat", "reference", "released", "outcome"} : Joined(f, g)[m] = g[m]
  BY <1>3, <1>5, <1>6 DEF ReceiptMembers
<1>8. Joined(f, g) = [m \in ReceiptMembers |-> Joined(f, g)[m]]
  BY <1>5
<1>q. QED BY <1>2, <1>4, <1>7, <1>8

(* What is readable is read back as it was written. *)
LEMMA ReadBack ==
  ASSUME None # Bad, NEW r, Readable(r)
  PROVE  from_payload(to_payload(r)) = [ok |-> TRUE, receipt |-> r]
<1> DEFINE p == to_payload(r)
<1>1. /\ \A m \in Optional \cup {"iss", "iat", "reference"} : p[m] = r[m]
      /\ p.released = IF r.released = <<>> THEN None ELSE r.released
      /\ p.status = r.outcome.status /\ p.result = None
      /\ p.error = r.outcome.code /\ p.error_description = r.outcome.description
  BY PayloadMembers DEF Readable
<1> HIDE DEF p
<1>2. \/ is_success(p) /\ r.outcome = Success
      \/ ~is_success(p) /\ is_error(p) /\ r.outcome = Error(p.error, p.error_description)
  <2>1. StatusWord(p) = r.outcome.status
    BY <1>1 DEF StatusWord
  <2>2. CASE r.outcome = Success
    BY <1>1, <2>1, <2>2 DEF is_success, Success
  <2>3. CASE r.outcome # Success
    <3>1. PICK x, y : x \notin {None, Bad} /\ y \notin {None, Bad} /\ r.outcome = Error(x, y)
      BY <2>3 DEF Readable
    <3>2. r.outcome.status = "Error" /\ r.outcome.code = x /\ r.outcome.description = y
      BY <3>1 DEF Error
    <3>q. QED BY <1>1, <2>1, <3>1, <3>2 DEF is_success, is_error, text
  <2>q. QED BY <2>2, <2>3
<1>3. /\ p.iss = r.iss /\ p.iat = r.iat /\ p.reference = r.reference
      /\ p.iss \notin {None, Bad} /\ p.iat \notin {None, Bad} /\ p.reference \notin {None, Bad}
  BY <1>1 DEF Readable
<1>4. is_released(p.released) /\ r.released = IF p.released = None THEN <<>> ELSE p.released
  BY <1>1 DEF Readable, is_released
<1>5. text(p, "iss") # None /\ text(p, "reference") # None
  BY <1>3 DEF text
<1>6. \A m \in Optional : text(p, m) = r[m]
  BY <1>1 DEF Readable, text
<1>7. from_payload(p).ok
  BY <1>2, <1>3, <1>4, <1>5 DEF from_payload
<1> DEFINE s == from_payload(p).receipt
<1>8. /\ from_payload(p) = [ok |-> TRUE, receipt |-> s]
      /\ s = [m \in ReceiptMembers |-> s[m]]
      /\ \A m \in Optional : s[m] = text(p, m)
      /\ s.iss = p.iss /\ s.iat = p.iat /\ s.reference = p.reference
      /\ s.released = IF p.released = None THEN <<>> ELSE p.released
      /\ s.outcome = IF is_success(p) THEN Success ELSE Error(p.error, p.error_description)
  BY <1>7, ReadMembers
<1> HIDE DEF s
<1>9. \A m \in ReceiptMembers : s[m] = r[m]
  BY <1>2, <1>3, <1>4, <1>6, <1>8 DEF ReceiptMembers
<1>10. s = r
  BY <1>8, <1>9 DEF Readable
<1>q. QED BY <1>8, <1>10 DEF p

(* What is read is readable, whoever wrote it. *)
LEMMA ReadIsReadable ==
  ASSUME None # Bad, \A x \in {None, Bad} : x \notin Seq(FieldPaths), NEW p, from_payload(p).ok
  PROVE  Readable(from_payload(p).receipt)
<1> DEFINE r == from_payload(p).receipt
<1>1. /\ r = [m \in ReceiptMembers |-> r[m]]
      /\ \A m \in Optional : r[m] = text(p, m)
      /\ r.iss = p.iss /\ r.iat = p.iat /\ r.reference = p.reference
      /\ r.released = IF p.released = None THEN <<>> ELSE p.released
      /\ r.outcome = IF is_success(p) THEN Success ELSE Error(p.error, p.error_description)
      /\ is_success(p) \/ is_error(p)
      /\ p.iat \notin {None, Bad} /\ is_released(p.released)
      /\ text(p, "iss") # None /\ text(p, "reference") # None
  BY ReadMembers
<1> HIDE DEF r
<1>2. \A m \in Optional : r[m] # Bad
  BY <1>1 DEF text
<1>3. \A m \in {"iss", "iat", "reference"} : r[m] \notin {None, Bad}
  BY <1>1 DEF text
<1>4. r.released # None /\ r.released # Bad /\ \A i \in DOMAIN r.released : r.released[i] \in FieldPaths
  <2>1. CASE p.released = None
    <3>1. r.released = <<>>
      BY <1>1, <2>1
    <3>2. <<>> \in Seq(FieldPaths)
      OBVIOUS
    <3>3. <<>> # None /\ <<>> # Bad
      BY <3>2
    <3>q. QED BY <3>1, <3>3
  <2>2. CASE p.released # None
    BY <1>1, <2>2 DEF is_released
  <2>q. QED BY <2>1, <2>2
<1>5. \/ r.outcome = Success
      \/ \E x, y : x \notin {None, Bad} /\ y \notin {None, Bad} /\ r.outcome = Error(x, y)
  BY <1>1 DEF is_error, text
<1>q. QED BY <1>1, <1>2, <1>3, <1>4, <1>5 DEF Readable, r

(* What the builder makes loses nothing when it is written. *)
LEMMA BuiltIsReadable == ASSUME NEW r \in Built PROVE Readable(r)
<1>1. r = [m \in ReceiptMembers |-> r[m]]
  BY DEF Built, ReceiptMembers, Optional
<1>2. \A m \in Optional : r[m] # Bad
  BY ReceiptsAssumption DEF Built, Optional
<1>3. \A m \in {"iss", "iat", "reference"} : r[m] \notin {None, Bad}
  BY ReceiptsAssumption DEF Built
<1>4. r.released \in Seq(FieldPaths)
  BY DEF Built
<1>5. r.released # None /\ r.released # Bad /\ \A i \in DOMAIN r.released : r.released[i] \in FieldPaths
  <2>1. r.released # None /\ r.released # Bad
    BY <1>4, ReceiptsAssumption
  <2>2. \A i \in DOMAIN r.released : r.released[i] \in FieldPaths
    BY <1>4
  <2>q. QED BY <2>1, <2>2
<1>6. \/ r.outcome = Success
      \/ \E x, y : x \notin {None, Bad} /\ y \notin {None, Bad} /\ r.outcome = Error(x, y)
  <2>1. r.outcome = Success \/ r.outcome = Error("invalid_mandate", "revoked")
    BY DEF Built
  <2>2. "invalid_mandate" \notin {None, Bad} /\ "revoked" \notin {None, Bad}
    BY ReceiptsAssumption
  <2>q. QED BY <2>1, <2>2
<1>q. QED BY <1>1, <1>2, <1>3, <1>5, <1>6 DEF Readable

(* Receipt::new and for_chain make a receipt about their chain. *)
LEMMA NewIsBuilt ==
  ASSUME NEW o \in {Success, Error("invalid_mandate", "revoked")}, NEW c \in Chains
  PROVE  /\ New(o, c) \in Built /\ New(o, c).reference = reference_for(c) /\ New(o, c).presentation_id = None
         /\ LET r == [New(o, c) EXCEPT !.mandate_id = [input |-> c.root], !.presentation_id = presentation_id(c)]
            IN  r \in Built /\ r.reference = reference_for(c) /\ r.presentation_id = presentation_id(c)
<1> DEFINE n == New(o, c)
           r == [New(o, c) EXCEPT !.mandate_id = [input |-> c.root], !.presentation_id = presentation_id(c)]
<1>1. /\ n = [m \in ReceiptMembers |-> n[m]]
      /\ n.mandate_id = None /\ n.presentation_id = None /\ n.method = None /\ n.task_id = None
      /\ n.purpose = None /\ n.prev = None
      /\ n.iss = "vault" /\ n.iat = 1 /\ n.reference = reference_for(c) /\ n.released = <<>> /\ n.outcome = o
  BY DEF New, Joined, ReceiptMembers, Optional
<1>2. r = [n EXCEPT !.mandate_id = [input |-> c.root], !.presentation_id = presentation_id(c)]
  OBVIOUS
<1> HIDE DEF n, r
<1>3. DOMAIN n = ReceiptMembers /\ <<>> \in Seq(FieldPaths)
  BY <1>1
<1>4. n \in Built
  BY <1>1, <1>3 DEF Built, ReceiptMembers, Optional
<1>5. /\ r = [m \in ReceiptMembers |-> r[m]] /\ r.mandate_id = [input |-> c.root]
      /\ r.presentation_id = presentation_id(c)
      /\ \A m \in ReceiptMembers \ {"mandate_id", "presentation_id"} : r[m] = n[m]
  BY <1>1, <1>2, <1>3 DEF ReceiptMembers, Optional
<1>6. r \in Built /\ r.reference = reference_for(c)
  <2>1. /\ r.iss = "vault" /\ r.iat = 1 /\ r.reference = reference_for(c) /\ r.released = <<>> /\ r.outcome = o
        /\ r.method = None /\ r.task_id = None /\ r.purpose = None /\ r.prev = None
    BY <1>1, <1>5 DEF ReceiptMembers, Optional
  <2>2. DOMAIN r = ReceiptMembers /\ r.mandate_id = [input |-> c.root] /\ r.presentation_id = presentation_id(c)
    BY <1>5
  <2>3. r = [iss |-> r.iss, iat |-> r.iat, reference |-> r.reference, mandate_id |-> r.mandate_id,
             presentation_id |-> r.presentation_id, method |-> r.method, task_id |-> r.task_id,
             purpose |-> r.purpose, prev |-> r.prev, released |-> r.released, outcome |-> r.outcome]
    BY <1>5 DEF ReceiptMembers, Optional
  <2>q. QED BY <1>3, <2>1, <2>2, <2>3 DEF Built
<1>q. QED BY <1>1, <1>4, <1>5, <1>6 DEF n, r

(* Every step of the builder keeps the receipt about its chain. *)
LEMMA BuildStep == ASSUME BuildInv, [BuildNext]_build_vars PROVE BuildInv'
<1>1. ASSUME NEW o \in {Success, Error("invalid_mandate", "revoked")}, NEW c \in Chains, new(o, c) \/ for_chain(o, c)
      PROVE  BuildInv'
  <2>1. /\ about' = c /\ wire' = None /\ receipt' \in Built
        /\ receipt'.reference = reference_for(c) /\ receipt'.presentation_id \in {None, presentation_id(c)}
    BY <1>1, NewIsBuilt DEF new, for_chain
  <2>2. receipt' # None
    BY <2>1, ReceiptsAssumption
  <2>q. QED BY <2>1, <2>2 DEF BuildInv
<1>2. ASSUME NEW m \in Optional \ {"mandate_id", "presentation_id"}, with(m, "v") PROVE BuildInv'
  <2>1. /\ receipt # None /\ wire = None /\ receipt' = [receipt EXCEPT ![m] = "v"]
        /\ about' = about /\ wire' = wire
    BY <1>2 DEF with
  <2>2. /\ receipt \in Built /\ about \in Chains /\ receipt.reference = reference_for(about)
        /\ receipt.presentation_id \in {None, presentation_id(about)}
    BY <2>1 DEF BuildInv
  <2>3. m \in {"method", "task_id", "purpose", "prev"}
    BY DEF Optional
  <2>4. receipt' \in Built /\ receipt'.reference = receipt.reference
        /\ receipt'.presentation_id = receipt.presentation_id
    BY <2>1, <2>2, <2>3 DEF Built
  <2>5. receipt' # None
    BY <2>4, ReceiptsAssumption
  <2>q. QED BY <2>1, <2>2, <2>4, <2>5 DEF BuildInv
<1>3. ASSUME NEW fields \in Seq(Names), with_released(fields) PROVE BuildInv'
  <2>1. /\ receipt # None /\ wire = None /\ wire' = wire
        /\ about' = IF receipt' = None THEN None ELSE about
    BY <1>3 DEF with_released
  <2>2. /\ receipt \in Built /\ about \in Chains /\ receipt.reference = reference_for(about)
        /\ receipt.presentation_id \in {None, presentation_id(about)}
    BY <2>1 DEF BuildInv
  <2>3. CASE \A i \in DOMAIN fields : fields[i] \in FieldPaths
    <3>1. receipt' = [receipt EXCEPT !.released = receipt.released \o fields]
      BY <1>3, <2>3 DEF with_released
    <3>2. receipt.released \o fields \in Seq(FieldPaths)
      <4>1. fields \in Seq(FieldPaths)
        BY <2>3
      <4>2. receipt.released \in Seq(FieldPaths)
        BY <2>2 DEF Built
      <4>q. QED BY <4>1, <4>2
    <3>3. receipt' \in Built /\ receipt'.reference = receipt.reference
          /\ receipt'.presentation_id = receipt.presentation_id
      BY <2>2, <3>1, <3>2 DEF Built
    <3>4. receipt' # None
      BY <3>3, ReceiptsAssumption
    <3>q. QED BY <2>1, <2>2, <3>3, <3>4 DEF BuildInv
  <2>4. CASE ~\A i \in DOMAIN fields : fields[i] \in FieldPaths
    <3>1. receipt' = None /\ about' = None
      BY <1>3, <2>1, <2>4 DEF with_released
    <3>q. QED BY <2>1, <3>1 DEF BuildInv
  <2>q. QED BY <2>3, <2>4
<1>4. CASE sign
  BY <1>4 DEF BuildInv, sign
<1>5. CASE Foreign
  BY <1>5 DEF BuildInv, Foreign
<1>6. CASE UNCHANGED build_vars
  BY <1>6 DEF BuildInv, build_vars
<1>7. ASSUME NEW f \in Names, NEW g \in Names, with_released(<<f>>) \/ with_released(<<f, g>>) PROVE BuildInv'
  <2>1. <<f>> \in Seq(Names) /\ <<f, g>> \in Seq(Names)
    OBVIOUS
  <2>q. QED BY <1>3, <1>7, <2>1
<1>q. QED BY <1>1, <1>2, <1>4, <1>5, <1>6, <1>7 DEF BuildNext

(* BuildInv is an invariant. *)
LEMMA BuildInvariant == BuildSpec => []BuildInv
<1>1. BuildInit => BuildInv
  BY DEF BuildInit, BuildInv
<1>2. BuildInv /\ [BuildNext]_build_vars => BuildInv'
  BY BuildStep
<1>q. QED BY <1>1, <1>2, PTL DEF BuildSpec

---------------------------------------------------------------------------
(* What a verifier signs, its holder reads back member by member, and what *)
(* is read of any other implementation's payload survives being signed     *)
(* again, whatever the payloads, names and presentations are               *)
(* (to_payload, from_payload).                                             *)
THEOREM RoundTripHolds == BuildSpec => []RoundTrip
<1>1. BuildInv => RoundTrip
  <2> SUFFICES ASSUME BuildInv, wire # None PROVE RoundTrip
    BY DEF RoundTrip
  <2>1. receipt # None => from_payload(wire) = [ok |-> TRUE, receipt |-> receipt]
    <3>1. ASSUME receipt # None PROVE from_payload(wire) = [ok |-> TRUE, receipt |-> receipt]
      <4>1. Readable(receipt) /\ wire = to_payload(receipt)
        BY <3>1, BuiltIsReadable DEF BuildInv
      <4>q. QED BY <4>1, ReadBack, ReceiptsAssumption
    <3>q. QED BY <3>1
  <2>2. ASSUME from_payload(wire).ok
        PROVE  from_payload(to_payload(from_payload(wire).receipt)) = from_payload(wire)
    <3> DEFINE r == from_payload(wire).receipt
    <3>1. None # Bad /\ \A x \in {None, Bad} : x \notin Seq(FieldPaths)
      BY ReceiptsAssumption
    <3>2. Readable(r)
      BY <2>2, <3>1, ReadIsReadable
    <3>3. from_payload(wire) = [ok |-> TRUE, receipt |-> r]
      BY <2>2, ReadMembers
    <3>4. from_payload(to_payload(r)) = [ok |-> TRUE, receipt |-> r]
      BY <3>1, <3>2, ReadBack
    <3>q. QED BY <3>3, <3>4
  <2>q. QED BY <2>1, <2>2 DEF RoundTrip
<1>q. QED BY <1>1, BuildInvariant, PTL

(* A receipt refers to the presentation it was made for, in either form of *)
(* its closing signature, and to no other of any set of presentations      *)
(* (presentation_id, matches).                                             *)
THEOREM MatchesItsPresentationHolds == BuildSpec => []MatchesItsPresentation
<1>1. BuildInv => MatchesItsPresentation
  <2> SUFFICES ASSUME BuildInv, wire # None, about # None, NEW c \in Chains
               PROVE  LET r == from_payload(wire).receipt
                          same == c.closing.id = about.closing.id /\ c.closing.shown = about.closing.shown
                      IN  matches(r, c) <=> IF r.presentation_id # None THEN same ELSE c.closing = about.closing
    BY DEF MatchesItsPresentation
  <2>1. receipt # None
    BY DEF BuildInv
  <2>2. /\ receipt \in Built /\ about \in Chains /\ receipt.reference = reference_for(about)
        /\ receipt.presentation_id \in {None, presentation_id(about)}
        /\ from_payload(wire) = [ok |-> TRUE, receipt |-> receipt]
    <3>1. Readable(receipt) /\ wire = to_payload(receipt)
      BY <2>1, BuiltIsReadable DEF BuildInv
    <3>2. from_payload(wire) = [ok |-> TRUE, receipt |-> receipt]
      BY <3>1, ReadBack, ReceiptsAssumption
    <3>q. QED BY <2>1, <3>2 DEF BuildInv
  <2>3. from_payload(wire).receipt = receipt
    BY <2>2
  <2>4. CASE receipt.presentation_id # None
    BY <2>2, <2>3, <2>4 DEF matches, presentation_id
  <2>5. CASE receipt.presentation_id = None
    <3>1. reference_for(about) = reference_for(c) <=> c.closing = about.closing
      BY DEF reference_for
    <3>2. reference_for(about) # jwt_only_reference(c)
      <4>1. "shown" \in DOMAIN about.closing
        BY <2>2, ReceiptsAssumption
      <4>2. "shown" \notin DOMAIN [id |-> c.closing.id, form |-> c.closing.form]
        OBVIOUS
      <4>q. QED BY <4>1, <4>2 DEF reference_for, jwt_only_reference
    <3>q. QED BY <2>2, <2>3, <2>5, <3>1, <3>2 DEF matches
  <2>q. QED BY <2>3, <2>4, <2>5
<1>q. QED BY <1>1, BuildInvariant, PTL
=============================================================================
