-------------------------- MODULE MemStorageProofs --------------------------
(***************************************************************************)
(* The slices that envelopes and mem.Storage keep of a builder's buffer    *)
(* are safe, whatever the capacities of the arrays and the growth of the   *)
(* buffer, but for the envelopes whose own builder was reset.              *)
(***************************************************************************)
EXTENDS MemStorage, SequenceTheorems, FiniteSetTheorems, TLAPS

Cells == Chunks \cup {Blank}

-----------------------------------------------------------------------------
(* Arrays and the slices of them.                                          *)

\* The next cell of an array extends the slice before it.
LEMMA SliceGrows ==
    ASSUME NEW S, NEW q \in Seq(S), NEW n \in Nat, n < Len(q)
    PROVE  SubSeq(q, 1, n + 1) = Append(SubSeq(q, 1, n), q[n + 1])
BY SubSeqProperties, AppendProperties, SeqEqual

\* A slice depends on its own cells only.
LEMMA SliceKept ==
    ASSUME NEW S, NEW q \in Seq(S), NEW r \in Seq(S), NEW n \in Nat,
           n <= Len(q), n <= Len(r), \A i \in 1..n : r[i] = q[i]
    PROVE  SubSeq(r, 1, n) = SubSeq(q, 1, n)
BY SubSeqProperties, SeqEqual

LEMMA SliceOf ==
    ASSUME NEW S, NEW q \in Seq(S), NEW n \in Nat, n <= Len(q)
    PROVE  /\ SubSeq(q, 1, n) \in Seq(S) /\ Len(SubSeq(q, 1, n)) = n
           /\ SubSeq(SubSeq(q, 1, n), 1, n) = SubSeq(q, 1, n)
BY SubSeqProperties, SeqEqual

\* Every slice in use shows a sequence of its length.
LEMMA ViewOf ==
    ASSUME TypeOK, NEW slice \in Slices, WithinArray(slice)
    PROVE  /\ View(slice) \in Seq(Cells) /\ Len(View(slice)) = slice.len
           /\ SubSeq(View(slice), 1, slice.len) = View(slice)
<1>1. heap \in Seq(Seq(Cells))
  BY DEF TypeOK, BuilderTypeOK, Cells
<1>2. slice.arr \in 0..Len(heap) /\ slice.len \in Nat
  BY BuilderAssumption DEF BuilderAssumption, Slices
<1>3. CASE slice.arr = 0
  <2>1. View(slice) = <<>> /\ slice.len = 0
    BY <1>3 DEF View, WithinArray
  <2>2. SubSeq(<<>>, 1, 0) = <<>>
    BY SubSeqEmpty
  <2> QED BY <2>1, <2>2
<1>4. CASE slice.arr # 0
  <2>1. heap[slice.arr] \in Seq(Cells) /\ slice.len <= Len(heap[slice.arr])
    BY <1>1, <1>2, <1>4 DEF WithinArray
  <2>2. View(slice) = SubSeq(heap[slice.arr], 1, slice.len)
    BY <1>4 DEF View
  <2> QED BY <1>2, <2>1, <2>2, SliceOf
<1> QED BY <1>3, <1>4

\* A write goes to the array of the buffer, or to a new one, and leaves the others.
LEMMA BufferWrites ==
    ASSUME Inv, NEW c \in Chunks, BufferWrite(c)
    PROVE  /\ heap' \in Seq(Seq(Cells)) /\ Len(heap') >= Len(heap)
           /\ \A k \in 1..Len(heap) : k # buf.arr => heap'[k] = heap[k]
           /\ \A k \in 1..Len(heap) : Len(heap'[k]) = Len(heap[k])
           /\ buf'.arr \in {buf.arr, Len(heap) + 1} \ {0}
           /\ buf' \in [arr : 1..Len(heap'), len : 0..DataBound]
           /\ buf'.len <= Len(heap'[buf'.arr])
           /\ SubSeq(heap'[buf'.arr], 1, buf'.len) = Append(View(buf), c)
<1>1. /\ heap \in Seq(Seq(Cells)) /\ Len(heap) \in Nat /\ c \in Cells
      /\ buf \in [arr : 0..Len(heap), len : 0..DataBound] /\ WithinArray(buf)
  BY DEF Inv, TypeOK, BuilderTypeOK, BuilderInv, Cells, Slices
<1>2. buf.len \in Nat /\ buf.len + 1 \in 0..DataBound /\ buf.arr \in Nat
  BY <1>1, BuilderAssumption DEF BuilderAssumption, BufferWrite
<1>3. CASE HasRoom
  <2> DEFINE old == heap[buf.arr]
             new == [old EXCEPT ![buf.len + 1] = c]
  <2>1. buf.arr \in 1..Len(heap) /\ old \in Seq(Cells) /\ buf.len + 1 \in 1..Len(old)
    BY <1>1, <1>2, <1>3 DEF HasRoom
  <2>2. heap' = [heap EXCEPT ![buf.arr] = new] /\ buf' = [arr |-> buf.arr, len |-> buf.len + 1]
    BY <1>3 DEF BufferWrite
  <2>3. /\ new \in Seq(Cells) /\ Len(new) = Len(old) /\ new[buf.len + 1] = c
        /\ \A i \in 1..buf.len : new[i] = old[i]
    BY <1>1, <1>2, <2>1, ExceptSeq
  <2> HIDE DEF new
  <2>4. /\ heap' \in Seq(Seq(Cells)) /\ Len(heap') = Len(heap)
        /\ \A k \in 1..Len(heap) : heap'[k] = IF k = buf.arr THEN new ELSE heap[k]
    BY <1>1, <2>1, <2>2, <2>3, ExceptSeq
  <2>5. buf'.arr = buf.arr /\ buf'.len = buf.len + 1
    BY <1>1, <2>2
  <2>6. SubSeq(new, 1, buf.len + 1) = Append(View(buf), c)
    <3>1. SubSeq(new, 1, buf.len + 1) = Append(SubSeq(new, 1, buf.len), c)
      BY <1>2, <2>1, <2>3, SliceGrows
    <3>2. SubSeq(new, 1, buf.len) = SubSeq(old, 1, buf.len)
      BY <1>2, <2>1, <2>3, SliceKept
    <3>3. View(buf) = SubSeq(old, 1, buf.len)
      BY <1>3 DEF View, HasRoom
    <3> QED BY <3>1, <3>2, <3>3
  <2>7. buf' \in [arr : 1..Len(heap'), len : 0..DataBound]
    BY <1>1, <1>2, <2>1, <2>2, <2>4
  <2>8. heap'[buf'.arr] = new /\ buf'.arr \in {buf.arr, Len(heap) + 1} \ {0}
    BY <1>1, <2>1, <2>4, <2>5
  <2>9. buf'.len <= Len(heap'[buf'.arr])
    BY <1>2, <2>1, <2>3, <2>5, <2>8
  <2>10. SubSeq(heap'[buf'.arr], 1, buf'.len) = Append(View(buf), c)
    BY <2>5, <2>6, <2>8
  <2>11. Len(heap') >= Len(heap) /\ \A k \in 1..Len(heap) : k # buf.arr => heap'[k] = heap[k]
    BY <1>1, <2>4
  <2>12. \A k \in 1..Len(heap) : Len(heap'[k]) = Len(heap[k])
    BY <2>3, <2>4
  <2> QED BY <2>4, <2>7, <2>8, <2>9, <2>10, <2>11, <2>12, Zenon
<1>4. CASE ~HasRoom
  <2> DEFINE new == [i \in 1..NewCap |-> IF i <= buf.len THEN heap[buf.arr][i]
                                         ELSE IF i = buf.len + 1 THEN c ELSE Blank]
  <2>1. heap' = Append(heap, new) /\ buf' = [arr |-> Len(heap) + 1, len |-> buf.len + 1]
    BY <1>4 DEF BufferWrite
  <2>2. /\ buf.arr # 0 => heap[buf.arr] \in Seq(Cells) /\ buf.len = Len(heap[buf.arr])
        /\ buf.arr = 0 => buf.len = 0
    BY <1>1, <1>2, <1>4 DEF HasRoom, WithinArray
  <2>3. NewCap \in Nat /\ buf.len + 1 <= NewCap
    BY <1>2, <2>2, BuilderAssumption DEF BuilderAssumption, NewCap
  <2>4. \A i \in 1..buf.len : heap[buf.arr][i] \in Cells
    BY <1>2, <2>2
  <2>5. new \in Seq(Cells) /\ Len(new) = NewCap
    <3>1. new \in [1..NewCap -> Cells]
      BY <1>1, <1>2, <2>3, <2>4 DEF Cells
    <3> QED BY <2>3, <3>1
  <2>6. new[buf.len + 1] = c /\ \A i \in 1..buf.len : new[i] = heap[buf.arr][i]
    BY <1>2, <2>3
  <2> HIDE DEF new
  <2>7. SubSeq(new, 1, buf.len + 1) = Append(View(buf), c)
    <3>1. SubSeq(new, 1, buf.len + 1) = Append(SubSeq(new, 1, buf.len), c)
      BY <1>2, <2>3, <2>5, <2>6, SliceGrows
    <3>2. CASE buf.arr = 0
      <4>1. SubSeq(new, 1, 0) = <<>> /\ View(buf) = <<>> /\ buf.len = 0
        BY <2>2, <3>2, SubSeqEmpty DEF View
      <4> QED BY <3>1, <4>1
    <3>3. CASE buf.arr # 0
      <4>1. SubSeq(new, 1, buf.len) = SubSeq(heap[buf.arr], 1, buf.len)
        BY <1>2, <2>2, <2>3, <2>5, <2>6, <3>3, SliceKept
      <4> QED BY <3>1, <3>3, <4>1 DEF View
    <3> QED BY <3>2, <3>3
  <2>8. /\ heap' \in Seq(Seq(Cells)) /\ Len(heap') = Len(heap) + 1 /\ heap'[Len(heap) + 1] = new
        /\ \A k \in 1..Len(heap) : heap'[k] = heap[k]
    BY <1>1, <2>1, <2>5, AppendProperties
  <2>9. buf'.arr = Len(heap) + 1 /\ buf'.len = buf.len + 1
    BY <2>1
  <2>10. buf' \in [arr : 1..Len(heap'), len : 0..DataBound]
    BY <1>1, <1>2, <2>1, <2>8
  <2>11. \A k \in 1..Len(heap) : Len(heap'[k]) = Len(heap[k])
    BY <2>8
  <2>12. Len(heap') >= Len(heap) /\ buf'.arr \in {buf.arr, Len(heap) + 1} \ {0}
    BY <1>1, <2>8, <2>9
  <2>13. buf'.len <= Len(heap'[buf'.arr])
    BY <1>2, <2>3, <2>5, <2>8, <2>9
  <2> QED BY <2>7, <2>8, <2>9, <2>10, <2>11, <2>12, <2>13, Zenon
<1> QED BY <1>3, <1>4

-----------------------------------------------------------------------------
(* Each action preserves Inv.                                              *)

\* The methods that leave the buffer, its arrays and the store alone.
LEMMA FieldsStep ==
    ASSUME Inv, SetMailFrom \/ AddRecipient \/ DataWriter \/ WriterClose, UNCHANGED storageVars
    PROVE  Inv'
<1>1. /\ UNCHANGED <<heap, buf, id, finalized, issued, recycled, messages, metrics, streams>>
      /\ ~finalized \/ writer' = "closed"
  BY DEF SetMailFrom, AddRecipient, DataWriter, WriterClose, storageVars
<1>2. /\ txn \in Txns /\ from \in Froms \cup {Nil} /\ rcpts \in Seq(Rcpts)
      /\ txn = [from |-> from, rcpts |-> rcpts, data |-> View(buf)]
  BY DEF Inv, TypeOK, BuilderTypeOK, BuilderInv
<1>3. /\ from' \in Froms \cup {Nil} /\ rcpts' \in Seq(Rcpts)
      /\ txn' = [from |-> from', rcpts |-> rcpts', data |-> View(buf)]
  <2>1. CASE SetMailFrom
    BY <1>2, <2>1 DEF SetMailFrom
  <2>2. CASE AddRecipient
    <3>1. PICK r \in Rcpts : rcpts' = Append(rcpts, r) /\ txn' = [txn EXCEPT !.rcpts = Append(@, r)]
      BY <2>2 DEF AddRecipient
    <3>2. from' = from /\ Append(rcpts, r) \in Seq(Rcpts)
      BY <1>2, <2>2, AppendProperties DEF AddRecipient
    <3> QED BY <1>2, <3>1, <3>2
  <2>3. CASE DataWriter \/ WriterClose
    BY <1>2, <2>3 DEF DataWriter, WriterClose
  <2> QED BY <2>1, <2>2, <2>3
<1>4. writer' \in {"none", "open", "closed"}
  BY DEF Inv, TypeOK, BuilderTypeOK, SetMailFrom, AddRecipient, DataWriter, WriterClose
<1>5. txn' \in Txns
  <2>1. View(buf) \in Seq(Chunks)
    BY <1>2 DEF Txns
  <2> QED BY <1>3, <2>1 DEF Txns
<1>6. TypeOK'
  BY <1>1, <1>3, <1>4, <1>5 DEF Inv, TypeOK, BuilderTypeOK, Slices
<1>7. View(buf)' = View(buf)
  BY <1>1 DEF View
<1>8. BuilderInv'
  <2>1. FinalizedUnchanged' /\ WithinArray(buf)'
    BY <1>1 DEF Inv, BuilderInv, FinalizedUnchanged, Contents, View, WithinArray
  <2>2. \A e \in issued : WithinArray(e.data)' /\ Unshared(e.data, e.id)'
    BY <1>1 DEF Inv, BuilderInv, WithinArray, Unshared
  <2> QED BY <1>1, <1>3, <1>7, <2>1, <2>2 DEF Inv, BuilderInv
<1>9. StorageInv'
  BY <1>1 DEF Inv, StorageInv, StoredIntact, View, WithinArray, Unshared
<1> QED BY <1>6, <1>8, <1>9 DEF Inv

\* A new builder, or a reset one, has an empty buffer nobody else refers to but the
\* envelope of a builder that was finalized before it was reset.
LEMMA AfreshStep ==
    ASSUME Inv, NewBuilder \/ ResetBuilder, UNCHANGED storageVars
    PROVE  Inv'
<1>1. /\ id' = id + 1 /\ from' = Nil /\ rcpts' = <<>> /\ writer' = "none" /\ finalized' = FALSE
      /\ txn' = NoTxn /\ UNCHANGED <<heap, issued, messages, metrics, streams>>
  BY DEF NewBuilder, ResetBuilder, storageVars
<1>2. /\ buf'.len = 0 /\ buf' \in Slices
      /\ buf'.arr = 0 \/ (buf'.arr = buf.arr /\ (finalized => id \in recycled'))
      /\ recycled \subseteq recycled' /\ recycled' \subseteq recycled \cup {id}
  BY BuilderAssumption DEF BuilderAssumption, NewBuilder, ResetBuilder, Recycle, NoSlice, Inv,
     TypeOK, BuilderTypeOK, Slices
<1>3. /\ heap \in Seq(Seq(Cells)) /\ Slices' = Slices
  BY <1>1 DEF Inv, TypeOK, BuilderTypeOK, Cells, Slices
<1>4. View(buf)' = <<>> /\ WithinArray(buf)'
  <2>1. CASE buf'.arr = 0
    BY <1>2, <2>1 DEF View, WithinArray
  <2>2. CASE buf'.arr # 0
    <3>1. buf'.arr \in 1..Len(heap)
      <4>1. Len(heap) \in Nat
        BY <1>3, LenProperties
      <4>2. buf'.arr \in 0..Len(heap)
        BY <1>2 DEF Slices
      <4> QED BY <2>2, <4>1, <4>2
    <3>2. heap[buf'.arr] \in Seq(Cells)
      BY <1>3, <3>1, ElementOfSeq
    <3>3. SubSeq(heap[buf'.arr], 1, 0) = <<>>
      BY SubSeqEmpty
    <3> QED BY <1>1, <1>2, <2>2, <3>2, <3>3 DEF View, WithinArray
  <2> QED BY <2>1, <2>2
<1>5. TypeOK'
  <2>1. txn' \in Txns
    BY <1>1 DEF Txns, NoTxn
  <2>2. issued \subseteq [id : 1..(id + 1), from : Froms, rcpts : Seq(Rcpts) \ {<<>>},
                          data : Slices, txn : Txns]
    BY DEF Inv, TypeOK, BuilderTypeOK
  <2>3. heap' \in Seq(Seq(Chunks \cup {Blank})) /\ rcpts' \in Seq(Rcpts)
    BY <1>1 DEF Inv, TypeOK, BuilderTypeOK
  <2>4. id' \in Nat \ {0}
    BY <1>1 DEF Inv, TypeOK, BuilderTypeOK
  <2>5. recycled' \subseteq 1..id'
    <3>1. recycled \subseteq 1..id /\ id \in Nat \ {0}
      BY DEF Inv, TypeOK, BuilderTypeOK
    <3>2. 1..id \subseteq 1..(id + 1) /\ id \in 1..(id + 1)
      BY <3>1
    <3>3. recycled' \subseteq recycled \cup {id} /\ id' = id + 1
      BY <1>1, <1>2
    <3> QED BY <3>1, <3>2, <3>3, Zenon
  <2>6. BuilderTypeOK'
    BY <1>1, <1>2, <1>3, <2>1, <2>2, <2>3, <2>4, <2>5 DEF BuilderTypeOK
  <2> QED BY <1>1, <1>3, <2>6 DEF Inv, TypeOK, BuilderTypeOK
<1>6. \A slice, i : Unshared(slice, i) => Unshared(slice, i)'
  BY <1>1, <1>2 DEF Unshared
<1>7. BuilderInv'
  <2>1. FinalizedUnchanged'
    BY <1>1, <1>2 DEF Inv, BuilderInv, FinalizedUnchanged, Contents, View
  <2>2. \A e \in issued' : WithinArray(e.data)' /\ Unshared(e.data, e.id)'
    BY <1>1, <1>6 DEF Inv, BuilderInv, WithinArray
  <2> QED BY <1>1, <1>4, <2>1, <2>2 DEF BuilderInv, NoTxn
<1>8. StorageInv'
  <2>1. \A slice : (WithinArray(slice) <=> WithinArray(slice)') /\ View(slice)' = View(slice)
    BY <1>1 DEF WithinArray, View
  <2>2. \A i \in DOMAIN messages' : WithinArray(messages[i])' /\ Unshared(messages[i], i)'
    BY <1>1, <1>2 DEF Inv, StorageInv, WithinArray, Unshared
  <2>3. \A c \in streams' :
          /\ WithinArray(c.slice)' /\ Unshared(c.slice, c.env.id)'
          /\ c.env.id \notin recycled' => View(c.slice)' = c.env.txn.data
    BY <1>1, <1>2, <1>6, <2>1 DEF Inv, StorageInv
  <2>4. StoredIntact'
    BY <1>1, <1>2 DEF Inv, StorageInv, StoredIntact, View
  <2> QED BY <2>2, <2>3, <2>4 DEF StorageInv
<1> QED BY <1>5, <1>7, <1>8 DEF Inv

\* The heap grows, and every array keeps its length.
LEMMA HeapKept ==
    ASSUME heap \in Seq(Seq(Cells)), heap' \in Seq(Seq(Cells)), Len(heap') >= Len(heap),
           \A k \in 1..Len(heap) : Len(heap'[k]) = Len(heap[k]),
           NEW slice \in Slices, WithinArray(slice)
    PROVE  /\ slice \in Slices' /\ WithinArray(slice)'
           /\ (slice.arr # 0 => heap'[slice.arr] = heap[slice.arr]) => View(slice)' = View(slice)
<1>1. Len(heap) \in Nat /\ Len(heap') \in Nat
  BY LenProperties
<1>2. slice.arr \in 0..Len(heap)
  BY DEF Slices
<1>3. slice \in Slices'
  BY <1>1 DEF Slices
<1>4. WithinArray(slice)'
  BY <1>1, <1>2 DEF WithinArray
<1>5. (slice.arr # 0 => heap'[slice.arr] = heap[slice.arr]) => View(slice)' = View(slice)
  BY DEF View
<1> QED BY <1>3, <1>4, <1>5

\* What HeapKept says of all the slices there are.
LEMMA SlicesKept ==
    ASSUME Inv, heap' \in Seq(Seq(Cells)), Len(heap') >= Len(heap),
           \A k \in 1..Len(heap) : Len(heap'[k]) = Len(heap[k]),
           UNCHANGED messages,
           \A slice \in Slices, i \in 1..id :
              Unshared(slice, i) /\ i \notin recycled /\ slice.arr # 0
              => heap'[slice.arr] = heap[slice.arr]
    PROVE  /\ \A e \in issued :
                /\ e.data \in Slices' /\ WithinArray(e.data)'
                /\ e.id \notin recycled => View(e.data)' = View(e.data)
           /\ \A i \in DOMAIN messages :
                /\ messages[i] \in Slices' /\ WithinArray(messages[i])'
                /\ i \notin recycled => View(messages[i])' = View(messages[i])
           /\ \A c \in streams :
                /\ c.slice \in Slices' /\ WithinArray(c.slice)'
                /\ c.env.id \notin recycled => View(c.slice)' = View(c.slice)
<1>1. heap \in Seq(Seq(Cells))
  BY DEF Inv, TypeOK, BuilderTypeOK, Cells
<1>2. ASSUME NEW slice \in Slices, NEW i \in 1..id, WithinArray(slice), Unshared(slice, i)
      PROVE  /\ slice \in Slices' /\ WithinArray(slice)'
             /\ i \notin recycled => View(slice)' = View(slice)
  <2>1. i \notin recycled => (slice.arr # 0 => heap'[slice.arr] = heap[slice.arr])
    BY <1>2
  <2> QED BY <1>1, <1>2, <2>1, HeapKept
<1>3. \A e \in issued :
         e.data \in Slices /\ e.id \in 1..id /\ WithinArray(e.data) /\ Unshared(e.data, e.id)
  BY DEF Inv, TypeOK, BuilderTypeOK, BuilderInv
<1>4. \A i \in DOMAIN messages :
         /\ messages[i] \in Slices /\ i \in 1..id
         /\ WithinArray(messages[i]) /\ Unshared(messages[i], i)
  BY DEF Inv, TypeOK, StorageInv
<1>5. \A c \in streams :
         /\ c.slice \in Slices /\ c.env.id \in 1..id
         /\ WithinArray(c.slice) /\ Unshared(c.slice, c.env.id)
  BY <1>3 DEF Inv, TypeOK, StorageInv
<1>6. \A i \in DOMAIN messages :
                /\ messages[i] \in Slices' /\ WithinArray(messages[i])'
                /\ i \notin recycled => View(messages[i])' = View(messages[i])
  BY <1>2, <1>4 DEF WithinArray, View
<1> QED BY <1>2, <1>3, <1>5, <1>6

\* A write reaches the builder's own message and no other.
LEMMA WriterWriteStep ==
    ASSUME Inv, WriterWrite, UNCHANGED storageVars
    PROVE  Inv'
<1>1. /\ UNCHANGED <<id, from, rcpts, writer, finalized, issued, recycled, messages, metrics,
                      streams>>
      /\ ~finalized
  BY DEF WriterWrite, storageVars, Inv, BuilderInv
<1>2. PICK c \in Chunks : BufferWrite(c) /\ txn' = [txn EXCEPT !.data = Append(@, c)]
  BY DEF WriterWrite
<1>3. /\ heap' \in Seq(Seq(Cells)) /\ Len(heap') >= Len(heap)
      /\ \A k \in 1..Len(heap) : k # buf.arr => heap'[k] = heap[k]
      /\ \A k \in 1..Len(heap) : Len(heap'[k]) = Len(heap[k])
      /\ buf'.arr \in {buf.arr, Len(heap) + 1} \ {0}
      /\ buf' \in [arr : 1..Len(heap'), len : 0..DataBound]
      /\ buf'.len <= Len(heap'[buf'.arr])
      /\ SubSeq(heap'[buf'.arr], 1, buf'.len) = Append(View(buf), c)
  BY <1>2, BufferWrites
<1>4. heap \in Seq(Seq(Cells)) /\ Len(heap) \in Nat /\ Len(heap') \in Nat
  BY <1>3, LenProperties DEF Inv, TypeOK, BuilderTypeOK, Cells
<1>5. \A slice \in Slices : slice.arr \in 0..Len(heap)
  BY DEF Slices
<1>6. \A slice \in Slices, i \in 1..id :
         Unshared(slice, i) /\ i \notin recycled /\ slice.arr # 0
         => heap'[slice.arr] = heap[slice.arr]
  <2> SUFFICES ASSUME NEW slice \in Slices, NEW i \in 1..id,
                      Unshared(slice, i), i \notin recycled, slice.arr # 0
               PROVE  heap'[slice.arr] = heap[slice.arr]
    OBVIOUS
  <2>1. slice.arr # buf.arr
    BY <1>1 DEF Unshared
  <2>2. slice.arr \in 1..Len(heap)
    BY <1>4, <1>5
  <2> QED BY <1>3, <2>1, <2>2
<1>7. /\ \A e \in issued :
           /\ e.data \in Slices' /\ WithinArray(e.data)'
           /\ e.id \notin recycled => View(e.data)' = View(e.data)
      /\ \A i \in DOMAIN messages :
           /\ messages[i] \in Slices' /\ WithinArray(messages[i])'
           /\ i \notin recycled => View(messages[i])' = View(messages[i])
      /\ \A x \in streams :
           /\ x.slice \in Slices' /\ WithinArray(x.slice)'
           /\ x.env.id \notin recycled => View(x.slice)' = View(x.slice)
  BY <1>1, <1>3, <1>6, SlicesKept
<1>8. \A slice \in Slices, i \in 1..id : Unshared(slice, i) =>
         i \in recycled \/ slice.arr = 0 \/ slice.arr # buf'.arr
  BY <1>1, <1>3, <1>4, <1>5 DEF Unshared
<1>9. buf' \in Slices'
  BY <1>3, <1>4 DEF Slices
<1>10. WithinArray(buf)' /\ View(buf)' = Append(View(buf), c)
  <2>1. buf'.arr # 0 /\ View(buf)' = SubSeq(heap'[buf'.arr], 1, buf'.len)
    BY <1>3 DEF View
  <2> QED BY <1>3, <2>1 DEF WithinArray
<1>11. txn = [from |-> from, rcpts |-> rcpts, data |-> View(buf)] /\ txn \in Txns
  BY DEF Inv, TypeOK, BuilderTypeOK, BuilderInv
<1>12. txn' = [from |-> from, rcpts |-> rcpts, data |-> Append(View(buf), c)]
  BY <1>2, <1>11
<1>13. txn' \in Txns
  <2>1. View(buf) \in Seq(Chunks)
    BY <1>11 DEF Txns
  <2>2. Append(View(buf), c) \in Seq(Chunks)
    BY <2>1, AppendProperties
  <2> QED BY <1>11, <1>12, <2>2 DEF Txns
<1>14. TypeOK'
  <2>1. issued \subseteq [id : 1..id, from : Froms, rcpts : Seq(Rcpts) \ {<<>>},
                          data : Slices', txn : Txns]
    BY <1>7 DEF Inv, TypeOK, BuilderTypeOK
  <2>2. BuilderTypeOK'
    BY <1>1, <1>3, <1>9, <1>13, <2>1 DEF Inv, TypeOK, BuilderTypeOK, Cells
  <2>3. messages \in [DOMAIN messages -> Slices']
    BY <1>7 DEF Inv, TypeOK
  <2>4. streams \subseteq [env : issued, slice : Slices']
    BY <1>7 DEF Inv, TypeOK
  <2> QED BY <1>1, <2>2, <2>3, <2>4 DEF Inv, TypeOK
<1>15. BuilderInv'
  <2>1. FinalizedUnchanged'
    BY <1>1, <1>7 DEF Inv, BuilderInv, FinalizedUnchanged, Contents
  <2>2. \A e \in issued' : WithinArray(e.data)' /\ Unshared(e.data, e.id)'
    BY <1>1, <1>7, <1>8 DEF Inv, TypeOK, BuilderTypeOK, BuilderInv, Unshared
  <2> QED BY <1>1, <1>10, <1>12, <2>1, <2>2 DEF BuilderInv
<1>16. StorageInv'
  <2>1. \A i \in DOMAIN messages' : WithinArray(messages[i])' /\ Unshared(messages[i], i)'
    BY <1>1, <1>7, <1>8 DEF Inv, TypeOK, StorageInv, Unshared
  <2>2. \A x \in streams' : x.slice \in Slices /\ x.env.id \in 1..id
    BY <1>1 DEF Inv, TypeOK, BuilderTypeOK
  <2>4. \A x \in streams' :
          /\ WithinArray(x.slice)' /\ Unshared(x.slice, x.env.id)'
          /\ x.env.id \notin recycled' => View(x.slice)' = x.env.txn.data
    BY <1>1, <1>7, <1>8, <2>2 DEF Inv, StorageInv, Unshared
  <2>3. StoredIntact'
    BY <1>1, <1>7 DEF Inv, StorageInv, StoredIntact
  <2> QED BY <2>1, <2>3, <2>4 DEF StorageInv
<1> QED BY <1>14, <1>15, <1>16 DEF Inv

\* The envelope that is issued shows the transaction, and its builder writes no more.
LEMMA FinalizeStep ==
    ASSUME Inv, Finalize, UNCHANGED storageVars
    PROVE  Inv'
<1> DEFINE new == [id |-> id, from |-> from, rcpts |-> rcpts, data |-> buf, txn |-> txn]
<1>1. /\ UNCHANGED <<heap, buf, id, from, rcpts, writer, txn, recycled, messages, metrics,
                      streams>>
      /\ ~finalized /\ finalized' = TRUE /\ issued' = issued \cup {new} /\ writer # "open"
      /\ from # Nil /\ rcpts # <<>>
  BY DEF Finalize, storageVars
<1>2. Slices' = Slices
  BY <1>1 DEF Slices
<1>3. new \in [id : 1..id, from : Froms, rcpts : Seq(Rcpts) \ {<<>>}, data : Slices, txn : Txns]
  BY <1>1 DEF Inv, TypeOK, BuilderTypeOK
<1>4. TypeOK'
  <2>1. BuilderTypeOK'
    BY <1>1, <1>2, <1>3 DEF Inv, TypeOK, BuilderTypeOK
  <2>2. streams \subseteq [env : issued', slice : Slices]
    BY <1>1 DEF Inv, TypeOK
  <2> QED BY <1>1, <1>2, <2>1, <2>2 DEF Inv, TypeOK
<1>5. \A slice, i : Unshared(slice, i) \/ i = id => Unshared(slice, i)'
  BY <1>1 DEF Unshared
<1>6. Contents(new)' = txn /\ WithinArray(buf)
  BY <1>1 DEF Contents, View, Inv, BuilderInv
<1>7. BuilderInv'
  <2>1. FinalizedUnchanged'
    <3>1. \A e \in issued : e.id \notin recycled => Contents(e)' = e.txn
      BY <1>1 DEF Inv, BuilderInv, FinalizedUnchanged, Contents, View
    <3> QED BY <1>1, <1>6, <3>1 DEF FinalizedUnchanged
  <2>2. \A e \in issued' : WithinArray(e.data)' /\ Unshared(e.data, e.id)'
    BY <1>1, <1>5, <1>6 DEF Inv, BuilderInv, WithinArray
  <2>3. txn' = [from |-> from', rcpts |-> rcpts', data |-> View(buf)'] /\ WithinArray(buf)'
    BY <1>1 DEF Inv, BuilderInv, View, WithinArray
  <2> QED BY <1>1, <2>1, <2>2, <2>3 DEF BuilderInv
<1>8. StorageInv'
  BY <1>1 DEF Inv, StorageInv, StoredIntact, View, WithinArray, Unshared
<1> QED BY <1>4, <1>7, <1>8 DEF Inv

\* Steps of the store alone keep the builder's part.
LEMMA BuilderKept ==
    ASSUME BuilderTypeOK, BuilderInv, UNCHANGED builderVars
    PROVE  BuilderTypeOK' /\ BuilderInv' /\ Slices' = Slices
<1>1. UNCHANGED <<heap, buf, id, from, rcpts, writer, finalized, txn, issued, recycled>>
  BY DEF builderVars
<1>2. BuilderTypeOK' /\ Slices' = Slices
  BY <1>1 DEF BuilderTypeOK, Slices
<1>3. BuilderInv'
  BY <1>1 DEF BuilderInv, FinalizedUnchanged, Contents, View, WithinArray, Unshared
<1> QED BY <1>2, <1>3

\* A slice is kept under the identifier of an envelope, whose data it shows unless the
\* builder of that envelope was reset.
LEMMA KeepStep ==
    ASSUME Inv, NEW e \in issued, NEW slice \in Slices, Keep(e, slice),
           WithinArray(slice), Unshared(slice, e.id),
           e.id \notin recycled => View(slice) = e.txn.data,
           UNCHANGED builderVars, streams' \subseteq streams
    PROVE  Inv'
<1>1. BuilderTypeOK' /\ BuilderInv' /\ Slices' = Slices
  BY BuilderKept DEF Inv, TypeOK
<1>2. UNCHANGED <<heap, buf, id, finalized, issued, recycled>>
  BY DEF builderVars
<1>3. e.id \in 1..id /\ slice.len \in Nat
  BY BuilderAssumption DEF BuilderAssumption, Inv, TypeOK, BuilderTypeOK, Slices
<1>4. messages' = [i \in DOMAIN messages \cup {e.id} |-> IF i = e.id THEN slice ELSE messages[i]]
  BY DEF Keep
<1>5. TypeOK'
  <2>1. messages' \in [DOMAIN messages' -> Slices] /\ DOMAIN messages' \subseteq 1..id
    BY <1>3, <1>4 DEF Inv, TypeOK
  <2>2. metrics' \in [stored : Nat, bytes : Nat, errors : Nat]
    BY <1>3 DEF Keep, Inv, TypeOK
  <2>3. streams' \subseteq [env : issued, slice : Slices]
    BY DEF Inv, TypeOK
  <2> QED BY <1>1, <1>2, <2>1, <2>2, <2>3 DEF TypeOK
<1>6. StorageInv'
  <2>1. \A x : WithinArray(x)' <=> WithinArray(x)
    BY <1>2 DEF WithinArray
  <2>2. \A x, i : (Unshared(x, i)' <=> Unshared(x, i)) /\ View(x)' = View(x)
    BY <1>2 DEF Unshared, View
  <2>3. \A i \in DOMAIN messages' :
          \/ i = e.id /\ messages'[i] = slice
          \/ i \in DOMAIN messages /\ messages'[i] = messages[i]
    BY <1>4
  <2>4. \A i \in DOMAIN messages' : WithinArray(messages'[i]) /\ Unshared(messages'[i], i)
    BY <2>3 DEF Inv, StorageInv
  <2>5. \A i \in DOMAIN messages' : i \notin recycled =>
          \E x \in issued : x.id = i /\ View(messages'[i]) = x.txn.data
    BY <2>3 DEF Inv, StorageInv, StoredIntact
  <2>6. \A c \in streams' :
          /\ WithinArray(c.slice)' /\ Unshared(c.slice, c.env.id)'
          /\ c.env.id \notin recycled' => View(c.slice)' = c.env.txn.data
    BY <1>2, <2>1, <2>2 DEF Inv, StorageInv
  <2>7. \A i \in DOMAIN messages' : WithinArray(messages[i])' /\ Unshared(messages[i], i)'
    BY <1>2, <2>4 DEF WithinArray, Unshared
  <2>8. StoredIntact'
    BY <1>2, <2>5 DEF StoredIntact, View
  <2> QED BY <2>6, <2>7, <2>8 DEF StorageInv
<1> QED BY <1>1, <1>5, <1>6 DEF Inv

LEMMA StoreStep ==
    ASSUME Inv, Store
    PROVE  Inv'
<1>1. PICK e \in issued : Keep(e, e.data)
  BY DEF Store
<1>2. e.data \in Slices /\ WithinArray(e.data) /\ Unshared(e.data, e.id)
  BY DEF Inv, TypeOK, BuilderTypeOK, BuilderInv
<1>3. e.id \notin recycled => View(e.data) = e.txn.data
  <2>1. e.id \notin recycled =>
          e.txn = [from |-> e.from, rcpts |-> e.rcpts, data |-> View(e.data)]
    BY DEF Inv, BuilderInv, FinalizedUnchanged, Contents
  <2> QED BY <2>1
<1>4. UNCHANGED builderVars /\ streams' \subseteq streams
  BY DEF Store
<1> QED BY <1>1, <1>2, <1>3, <1>4, KeepStep

LEMMA StreamKeepStep ==
    ASSUME Inv, StreamKeep
    PROVE  Inv'
<1>1. PICK c \in streams : Keep(c.env, c.slice) /\ streams' = streams \ {c}
  BY DEF StreamKeep
<1>2. c.env \in issued /\ c.slice \in Slices
  BY DEF Inv, TypeOK
<1>3. /\ WithinArray(c.slice) /\ Unshared(c.slice, c.env.id)
      /\ c.env.id \notin recycled => View(c.slice) = c.env.txn.data
  BY DEF Inv, StorageInv
<1>4. UNCHANGED builderVars /\ streams' \subseteq streams
  BY <1>1 DEF StreamKeep
<1> QED BY <1>1, <1>2, <1>3, <1>4, KeepStep

\* Messages go, and nothing else changes that they depend on.
LEMMA RemoveStep ==
    ASSUME Inv, Delete \/ Clear \/ StreamFails
    PROVE  Inv'
<1>1. UNCHANGED builderVars /\ streams' = streams
  BY DEF Delete, Clear, StreamFails
<1>2. BuilderTypeOK' /\ BuilderInv' /\ Slices' = Slices
  BY <1>1, BuilderKept DEF Inv, TypeOK
<1>3. UNCHANGED <<heap, buf, id, finalized, issued, recycled>>
  BY <1>1 DEF builderVars
<1>4. PICK D \in SUBSET DOMAIN messages : messages' = [i \in D |-> messages[i]]
  <2>1. CASE Delete
    <3>1. PICK i \in DOMAIN messages : messages' = Restrict(messages, DOMAIN messages \ {i})
      BY <2>1 DEF Delete
    <3> QED BY <3>1 DEF Restrict
  <2>2. CASE Clear
    <3>1. messages' = [i \in {} |-> messages[i]]
      BY <2>2 DEF Clear
    <3> QED BY <3>1
  <2>3. CASE StreamFails
    <3>1. messages' = [i \in DOMAIN messages |-> messages[i]]
      BY <2>3 DEF StreamFails, Inv, TypeOK
    <3> QED BY <3>1
  <2> QED BY <2>1, <2>2, <2>3
<1>5. DOMAIN messages' = D /\ \A i \in D : messages'[i] = messages[i] /\ i \in DOMAIN messages
  BY <1>4
<1>6. TypeOK'
  <2>1. messages' \in [DOMAIN messages' -> Slices] /\ DOMAIN messages' \subseteq 1..id
    BY <1>4, <1>5 DEF Inv, TypeOK
  <2>2. metrics' \in [stored : Nat, bytes : Nat, errors : Nat]
    BY DEF Inv, TypeOK, Delete, Clear, StreamFails
  <2> QED BY <1>1, <1>2, <1>3, <2>1, <2>2 DEF Inv, TypeOK
<1>7. StorageInv'
  BY <1>1, <1>3, <1>5 DEF Inv, StorageInv, StoredIntact, View, WithinArray, Unshared
<1> QED BY <1>2, <1>6, <1>7 DEF Inv

\* io.ReadAll copies the data into an array of its own.
LEMMA StreamReadStep ==
    ASSUME Inv, StreamRead
    PROVE  Inv'
<1>1. UNCHANGED <<buf, id, from, rcpts, writer, finalized, txn, issued, recycled, messages,
                  metrics>>
  BY DEF StreamRead
<1>2. PICK e \in issued :
        /\ heap' = Append(heap, View(e.data))
        /\ streams' = {[env |-> e, slice |-> [arr |-> Len(heap) + 1, len |-> e.data.len]]}
  BY DEF StreamRead
<1>3. PICK copy : copy = [arr |-> Len(heap) + 1, len |-> e.data.len]
  OBVIOUS
<1>4. /\ heap \in Seq(Seq(Cells)) /\ Len(heap) \in Nat
      /\ e.data \in Slices /\ WithinArray(e.data) /\ e.data.len \in 0..DataBound
  BY LenProperties DEF Inv, TypeOK, BuilderTypeOK, BuilderInv, Cells, Slices
<1>5. /\ View(e.data) \in Seq(Cells) /\ Len(View(e.data)) = e.data.len
      /\ SubSeq(View(e.data), 1, e.data.len) = View(e.data)
  BY <1>4, ViewOf DEF Inv
<1>6. /\ heap' \in Seq(Seq(Cells)) /\ Len(heap') = Len(heap) + 1
      /\ heap'[Len(heap) + 1] = View(e.data)
      /\ \A k \in 1..Len(heap) : heap'[k] = heap[k]
  BY <1>2, <1>4, <1>5, AppendProperties
<1>7. \A slice \in Slices : slice.arr # 0 => heap'[slice.arr] = heap[slice.arr]
  <2> SUFFICES ASSUME NEW slice \in Slices, slice.arr # 0
               PROVE  heap'[slice.arr] = heap[slice.arr]
    OBVIOUS
  <2>1. slice.arr \in 1..Len(heap)
    BY <1>4 DEF Slices
  <2> QED BY <1>6, <2>1
<1>8. /\ \A x \in issued :
           /\ x.data \in Slices' /\ WithinArray(x.data)'
           /\ x.id \notin recycled => View(x.data)' = View(x.data)
      /\ \A i \in DOMAIN messages :
           /\ messages[i] \in Slices' /\ WithinArray(messages[i])'
           /\ i \notin recycled => View(messages[i])' = View(messages[i])
  BY <1>1, <1>4, <1>6, <1>7, SlicesKept
<1>9. buf \in Slices' /\ WithinArray(buf)' /\ View(buf)' = View(buf)
  BY <1>1, <1>4, <1>6, <1>7, HeapKept DEF Inv, TypeOK, BuilderTypeOK, BuilderInv, WithinArray, View
<1>10. /\ copy \in Slices' /\ WithinArray(copy)' /\ View(copy)' = View(e.data)
       /\ Unshared(copy, e.id)'
  <2>1. copy \in Slices'
    BY <1>3, <1>4, <1>6 DEF Slices
  <2>2. copy.arr # 0 /\ heap'[copy.arr] = View(e.data) /\ copy.len = e.data.len
    BY <1>3, <1>4, <1>6
  <2>3. buf.arr # copy.arr
    BY <1>3, <1>4 DEF Inv, TypeOK, BuilderTypeOK, Slices
  <2>4. View(copy)' = SubSeq(heap'[copy.arr], 1, copy.len) /\ WithinArray(copy)'
    BY <1>5, <2>2, <1>4 DEF View, WithinArray
  <2>5. View(copy)' = View(e.data)
    BY <1>5, <2>2, <2>4
  <2> QED BY <1>1, <2>1, <2>3, <2>4, <2>5 DEF Unshared
<1>11. TypeOK'
  <2>1. issued \subseteq [id : 1..id, from : Froms, rcpts : Seq(Rcpts) \ {<<>>},
                          data : Slices', txn : Txns]
    BY <1>8 DEF Inv, TypeOK, BuilderTypeOK
  <2>2. BuilderTypeOK'
    BY <1>1, <1>6, <1>9, <2>1 DEF Inv, TypeOK, BuilderTypeOK, Cells
  <2>3. messages \in [DOMAIN messages -> Slices']
    BY <1>8 DEF Inv, TypeOK
  <2>4. streams' \subseteq [env : issued, slice : Slices']
    BY <1>2, <1>3, <1>10
  <2> QED BY <1>1, <2>2, <2>3, <2>4 DEF Inv, TypeOK
<1>12. BuilderInv'
  <2>1. FinalizedUnchanged'
    BY <1>1, <1>8 DEF Inv, BuilderInv, FinalizedUnchanged, Contents
  <2>2. \A x \in issued' : WithinArray(x.data)' /\ Unshared(x.data, x.id)'
    BY <1>1, <1>8 DEF Inv, BuilderInv, Unshared
  <2> QED BY <1>1, <1>9, <2>1, <2>2 DEF Inv, BuilderInv
<1>13. StorageInv'
  <2>1. \A i \in DOMAIN messages' : WithinArray(messages[i])' /\ Unshared(messages[i], i)'
    BY <1>1, <1>8 DEF Inv, StorageInv, Unshared
  <2>2. e.id \notin recycled => View(e.data) = e.txn.data
    <3>1. e.id \notin recycled => e.txn = [from |-> e.from, rcpts |-> e.rcpts, data |-> View(e.data)]
      BY DEF Inv, BuilderInv, FinalizedUnchanged, Contents
    <3> QED BY <3>1
  <2>3. \A x \in streams' : x.env = e /\ x.slice = copy
    BY <1>2, <1>3
  <2>4. \A x \in streams' :
          /\ WithinArray(x.slice)' /\ Unshared(x.slice, x.env.id)'
          /\ x.env.id \notin recycled' => View(x.slice)' = x.env.txn.data
    BY <1>1, <1>10, <2>2, <2>3
  <2>5. StoredIntact'
    BY <1>1, <1>8 DEF Inv, StorageInv, StoredIntact
  <2> QED BY <2>1, <2>4, <2>5 DEF StorageInv
<1> QED BY <1>11, <1>12, <1>13 DEF Inv

-----------------------------------------------------------------------------
(* The theorems.                                                           *)

LEMMA InitInv == Init => Inv
<1> SUFFICES ASSUME Init PROVE Inv
  OBVIOUS
<1>1. /\ heap = <<>> /\ buf = NoSlice /\ id = 1 /\ from = Nil /\ rcpts = <<>>
      /\ writer = "none" /\ finalized = FALSE /\ txn = NoTxn /\ issued = {} /\ recycled = {}
      /\ messages = [i \in {} |-> NoSlice] /\ streams = {}
      /\ metrics = [stored |-> 0, bytes |-> 0, errors |-> 0]
  BY DEF Init, BuilderInit
<1>2. buf \in Slices /\ WithinArray(buf) /\ View(buf) = <<>>
  BY <1>1, BuilderAssumption DEF BuilderAssumption, NoSlice, Slices, WithinArray, View
<1>3. BuilderTypeOK
  <2>1. heap \in Seq(Seq(Chunks \cup {Blank})) /\ rcpts \in Seq(Rcpts) /\ txn \in Txns
    BY <1>1 DEF NoTxn, Txns
  <2>2. /\ id \in Nat \ {0} /\ from \in Froms \cup {Nil}
        /\ writer \in {"none", "open", "closed"}
    BY <1>1
  <2>3. finalized \in BOOLEAN
    BY <1>1, Zenon
  <2>4. issued \subseteq [id : 1..id, from : Froms, rcpts : Seq(Rcpts) \ {<<>>},
                          data : Slices, txn : Txns]
        /\ recycled \subseteq 1..id
    BY <1>1
  <2> QED BY <1>2, <2>1, <2>2, <2>3, <2>4 DEF BuilderTypeOK
<1>4. DOMAIN messages = {} /\ messages \in [DOMAIN messages -> Slices]
  BY <1>1
<1>5. TypeOK
  BY <1>1, <1>3, <1>4 DEF TypeOK
<1>6. BuilderInv
  BY <1>1, <1>2 DEF BuilderInv, FinalizedUnchanged, NoTxn
<1>7. StorageInv
  BY <1>1, <1>4 DEF StorageInv, StoredIntact
<1> QED BY <1>5, <1>6, <1>7 DEF Inv

LEMMA NextInv ==
    ASSUME Inv, [Next]_vars
    PROVE  Inv'
<1>1. CASE BuilderNext /\ UNCHANGED storageVars
  BY <1>1, FieldsStep, AfreshStep, WriterWriteStep, FinalizeStep DEF BuilderNext
<1>2. CASE StorageNext
  BY <1>2, StoreStep, StreamReadStep, StreamKeepStep, RemoveStep DEF StorageNext
<1>3. CASE UNCHANGED vars
  <2>1. UNCHANGED builderVars /\ UNCHANGED <<messages, metrics, streams>>
    BY <1>3 DEF vars, storageVars
  <2>2. BuilderTypeOK' /\ BuilderInv' /\ Slices' = Slices
    BY <2>1, BuilderKept DEF Inv, TypeOK
  <2>3. UNCHANGED <<heap, buf, id, finalized, issued, recycled>>
    BY <2>1 DEF builderVars
  <2>4. TypeOK'
    BY <2>1, <2>2, <2>3 DEF Inv, TypeOK
  <2>5. StorageInv'
    BY <2>1, <2>3 DEF Inv, StorageInv, StoredIntact, View, WithinArray, Unshared
  <2> QED BY <2>2, <2>4, <2>5 DEF Inv
<1> QED BY <1>1, <1>2, <1>3 DEF Next

\* Inv holds of every builder and store, however the caller uses them.
THEOREM StorageInvariant == Spec => []Inv
BY InitInv, NextInv, PTL DEF Spec

\* Builder and store keep to their types.
THEOREM StorageTypeCorrect == Spec => []TypeOK
<1>1. Inv => TypeOK
  BY DEF Inv
<1> QED BY <1>1, StorageInvariant, PTL

\* Whatever a builder does after Finalize, short of a Reset, and whatever later builders
\* do, an envelope returns the sender, the recipients and the bytes of its own transaction.
THEOREM EnvelopesImmutable == Spec => []FinalizedUnchanged
<1>1. Inv => FinalizedUnchanged
  BY DEF Inv, BuilderInv
<1> QED BY <1>1, StorageInvariant, PTL

\* A stored message reads back as the bytes its sender transmitted, although Store keeps
\* a slice of the builder's buffer and StoreStream a copy read before the lock, unless the
\* builder of that very message was reset after Finalize.
THEOREM StoredMessagesIntact == Spec => []StoredIntact
<1>1. Inv => StoredIntact
  BY DEF Inv, StorageInv
<1> QED BY <1>1, StorageInvariant, PTL

-----------------------------------------------------------------------------
(* The metrics, for which the arrays do not matter: the theorem speaks of  *)
(* every message, also one whose builder was reset.                        *)

LEMMA KeepCounts ==
    ASSUME CountInv, NEW e, NEW slice, slice.len \in Nat, Keep(e, slice)
    PROVE  CountInv'
<1>0. /\ DOMAIN messages' = DOMAIN messages \cup {e.id}
      /\ \A i \in DOMAIN messages' : messages'[i] = IF i = e.id THEN slice ELSE messages[i]
      /\ metrics'.stored = metrics.stored + 1 /\ metrics'.bytes = metrics.bytes + slice.len
  BY DEF Keep
<1>1. /\ IsFiniteSet(DOMAIN messages') /\ Cardinality(DOMAIN messages') \in Nat
      /\ Cardinality(DOMAIN messages') <= metrics'.stored
      /\ metrics'.stored \in Nat /\ metrics'.bytes \in Nat
  <2>1. IsFiniteSet(DOMAIN messages) /\ Cardinality(DOMAIN messages) \in Nat
    BY FS_CardinalityType DEF CountInv
  <2>2. /\ IsFiniteSet(DOMAIN messages \cup {e.id})
        /\ Cardinality(DOMAIN messages \cup {e.id}) =
             IF e.id \in DOMAIN messages THEN Cardinality(DOMAIN messages)
                                         ELSE Cardinality(DOMAIN messages) + 1
    BY <2>1, FS_AddElement
  <2>3. Cardinality(DOMAIN messages') \in Nat
    BY <1>0, <2>2, FS_CardinalityType
  <2> QED BY <1>0, <2>1, <2>2, <2>3 DEF CountInv, MetricsCover
<1> DEFINE New == {e.id} \X (1..slice.len)
<1>2. Held' \in SUBSET (Held \cup New)
  <2> SUFFICES ASSUME NEW i \in DOMAIN messages', NEW p \in {i} \X (1..messages'[i].len)
               PROVE  p \in Held \cup New
    BY DEF Held
  <2>1. CASE i = e.id
    BY <1>0, <2>1
  <2>2. CASE i # e.id
    <3>1. i \in DOMAIN messages /\ messages'[i] = messages[i]
      BY <1>0, <2>2
    <3> QED BY <3>1 DEF Held
  <2> QED BY <2>1, <2>2
<1>3. IsFiniteSet(New) /\ Cardinality(New) = slice.len
  <2>1. IsFiniteSet({e.id}) /\ Cardinality({e.id}) = 1
    BY FS_Singleton
  <2>2. IsFiniteSet(1..slice.len) /\ Cardinality(1..slice.len) = slice.len
    BY FS_Interval
  <2>3. IsFiniteSet(New) /\ Cardinality(New) = 1 * slice.len
    BY <2>1, <2>2, FS_Product
  <2> QED BY <2>3
<1> HIDE DEF New
<1>4. /\ IsFiniteSet(Held \cup New) /\ Cardinality(Held) \in Nat
      /\ Cardinality(Held \cup New) <= Cardinality(Held) + slice.len
  <2>1. IsFiniteSet(Held) /\ Cardinality(Held) \in Nat
    BY FS_CardinalityType DEF CountInv
  <2>2. /\ IsFiniteSet(Held \cup New)
        /\ Cardinality(Held \cup New) =
             Cardinality(Held) + Cardinality(New) - Cardinality(Held \cap New)
    BY <1>3, <2>1, FS_Union
  <2>3. Cardinality(Held \cap New) \in Nat
    BY <2>1, FS_Intersection, FS_CardinalityType
  <2> QED BY <1>3, <2>1, <2>2, <2>3
<1>5. IsFiniteSet(Held') /\ Cardinality(Held') <= metrics'.bytes
  <2>1. IsFiniteSet(Held') /\ Cardinality(Held') <= Cardinality(Held \cup New)
    BY <1>2, <1>4, FS_Subset
  <2>2. Cardinality(Held') \in Nat /\ Cardinality(Held \cup New) \in Nat
    BY <1>4, <2>1, FS_CardinalityType
  <2> QED BY <1>0, <1>4, <2>1, <2>2 DEF CountInv, MetricsCover
<1> QED BY <1>1, <1>5 DEF CountInv, MetricsCover

\* Delete and Clear take messages out and leave the metrics.
LEMMA RemovalCounts ==
    ASSUME CountInv, DOMAIN messages' \subseteq DOMAIN messages,
           \A i \in DOMAIN messages' : messages'[i] = messages[i],
           metrics'.stored = metrics.stored, metrics'.bytes = metrics.bytes
    PROVE  CountInv'
<1>1. Held' \in SUBSET Held
  BY DEF Held
<1>2. /\ IsFiniteSet(DOMAIN messages') /\ IsFiniteSet(Held')
      /\ Cardinality(DOMAIN messages') <= Cardinality(DOMAIN messages)
      /\ Cardinality(Held') <= Cardinality(Held)
      /\ Cardinality(DOMAIN messages) \in Nat /\ Cardinality(Held) \in Nat
  BY <1>1, FS_Subset, FS_CardinalityType DEF CountInv
<1>3. Cardinality(DOMAIN messages') \in Nat /\ Cardinality(Held') \in Nat
  BY <1>2, FS_CardinalityType
<1> QED BY <1>2, <1>3 DEF CountInv, MetricsCover

LEMMA NextCountInv == ASSUME CountInv, LengthInv, [Next]_vars PROVE CountInv'
<1>1. CASE Store
  <2>1. PICK e \in issued : Keep(e, e.data)
    BY <1>1 DEF Store
  <2> QED BY <2>1, KeepCounts DEF LengthInv
<1>2. CASE StreamKeep
  <2>1. PICK c \in streams : Keep(c.env, c.slice)
    BY <1>2 DEF StreamKeep
  <2> QED BY <2>1, KeepCounts DEF LengthInv
<1>3. CASE Delete
  <2>1. PICK i \in DOMAIN messages : messages' = Restrict(messages, DOMAIN messages \ {i})
    BY <1>3 DEF Delete
  <2>2. /\ DOMAIN messages' \subseteq DOMAIN messages /\ metrics' = metrics
        /\ \A j \in DOMAIN messages' : messages'[j] = messages[j]
    BY <1>3, <2>1 DEF Delete, Restrict
  <2> QED BY <2>2, RemovalCounts
<1>4. CASE Clear
  <2>1. DOMAIN messages' = {} /\ metrics' = metrics
    BY <1>4 DEF Clear
  <2> QED BY <2>1, RemovalCounts
<1>5. CASE /\ UNCHANGED messages
           /\ metrics'.stored = metrics.stored /\ metrics'.bytes = metrics.bytes
  BY <1>5, RemovalCounts
<1>6. CASE StreamRead \/ StreamFails
  <2>1. UNCHANGED messages /\ metrics'.stored = metrics.stored /\ metrics'.bytes = metrics.bytes
    BY <1>6 DEF StreamRead, StreamFails
  <2> QED BY <2>1, <1>5
<1>7. CASE UNCHANGED storageVars \/ UNCHANGED vars
  <2>1. UNCHANGED messages /\ metrics'.stored = metrics.stored /\ metrics'.bytes = metrics.bytes
    BY <1>7 DEF storageVars, vars
  <2> QED BY <2>1, <1>5
<1> QED BY <1>1, <1>2, <1>3, <1>4, <1>6, <1>7 DEF Next, StorageNext

LEMMA NextLengthInv == ASSUME LengthInv, [Next]_vars PROVE LengthInv'
<1>1. CASE UNCHANGED <<buf, issued>> /\ streams' \subseteq streams
  BY <1>1 DEF LengthInv
<1>2. CASE UNCHANGED <<issued, streams>> /\ buf'.len \in Nat
  BY <1>2 DEF LengthInv
<1>3. CASE BuilderNext /\ UNCHANGED storageVars
  <2>1. CASE NewBuilder \/ ResetBuilder
    BY <1>2, <1>3, <2>1 DEF NewBuilder, ResetBuilder, NoSlice, storageVars
  <2>2. CASE WriterWrite
    <3>1. buf'.len = buf.len + 1 /\ UNCHANGED <<issued, streams>>
      BY <1>3, <2>2 DEF WriterWrite, BufferWrite, storageVars
    <3>2. buf.len + 1 \in Nat
      BY DEF LengthInv
    <3> QED BY <1>2, <3>1, <3>2
  <2>3. CASE Finalize
    <3>1. /\ UNCHANGED <<buf, streams>>
          /\ issued' = issued \cup {[id |-> id, from |-> from, rcpts |-> rcpts,
                                     data |-> buf, txn |-> txn]}
      BY <1>3, <2>3 DEF Finalize, storageVars
    <3> QED BY <3>1 DEF LengthInv
  <2>4. CASE SetMailFrom \/ AddRecipient \/ DataWriter \/ WriterClose
    BY <1>1, <1>3, <2>4 DEF SetMailFrom, AddRecipient, DataWriter, WriterClose, storageVars
  <2> QED BY <1>3, <2>1, <2>2, <2>3, <2>4 DEF BuilderNext
<1>4. CASE StreamRead
  <2>1. PICK e \in issued :
          streams' = {[env |-> e, slice |-> [arr |-> Len(heap) + 1, len |-> e.data.len]]}
    BY <1>4 DEF StreamRead
  <2>2. UNCHANGED <<buf, issued>>
    BY <1>4 DEF StreamRead
  <2> QED BY <2>1, <2>2 DEF LengthInv
<1>5. CASE Store \/ StreamFails \/ StreamKeep \/ Delete \/ Clear \/ UNCHANGED vars
  BY <1>1, <1>5 DEF Store, StreamFails, StreamKeep, Delete, Clear, vars, builderVars,
                    storageVars
<1> QED BY <1>3, <1>4, <1>5 DEF Next, StorageNext

\* The metrics never fall behind the messages and the bytes the store holds, although
\* deletions leave them alone and a message stored twice is counted twice and held once.
THEOREM MetricsNeverBehind == Spec => []MetricsCover
<1>1. Init => CountInv /\ LengthInv
  <2> SUFFICES ASSUME Init PROVE CountInv /\ LengthInv
    OBVIOUS
  <2>1. /\ DOMAIN messages = {} /\ metrics.stored = 0 /\ metrics.bytes = 0
        /\ buf.len = 0 /\ issued = {} /\ streams = {}
    BY DEF Init, BuilderInit, NoSlice
  <2>2. Held = {}
    BY <2>1 DEF Held
  <2> QED BY <2>1, <2>2, FS_EmptySet DEF CountInv, MetricsCover, LengthInv
<1>2. CountInv => MetricsCover
  BY DEF CountInv
<1> QED BY <1>1, <1>2, NextCountInv, NextLengthInv, PTL DEF Spec
=============================================================================
