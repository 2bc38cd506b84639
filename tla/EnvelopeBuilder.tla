-------------------------- MODULE EnvelopeBuilder --------------------------
(***************************************************************************)
(* StandardEnvelopeBuilder (envelope_builder.go) and the StandardEnvelopes *)
(* it issues.  An envelope does not copy the message: its data is a slice  *)
(* of the builder's bytes.Buffer, so the model keeps the backing arrays of *)
(* the buffer apart from the slices that refer to them.  A call that the   *)
(* code refuses with an error changes nothing and is no step.              *)
(***************************************************************************)
EXTENDS Naturals, Sequences

CONSTANTS
    Froms, Rcpts, Chunks,   \* reverse-paths, forward-paths, written pieces
    Nil, Blank,             \* no reverse-path; a cell that was never written
    InitialCap,             \* pieces the first array of a bytes.Buffer has room for
    IdBound, RcptsBound, DataBound  \* bounds on what the caller does, for TLC

ASSUME BuilderAssumption ==
    /\ Nil \notin Froms /\ Blank \notin Chunks
    /\ InitialCap \in Nat \ {0}
    /\ {IdBound, RcptsBound, DataBound} \subseteq Nat

VARIABLES
    heap,       \* the arrays behind the buffers, each a sequence as long as its capacity
    buf,        \* b.data: the array in use (0 for none) and how much of it is filled
    id,         \* b.id
    from,       \* b.mailFrom
    rcpts,      \* b.recipients
    writer,     \* b.dataWriter: "none", "open" or "closed"
    finalized,  \* b.finalized
    txn,        \* history: what was accepted since the builder was new or reset
    issued,     \* the envelopes Finalize returned, each with its txn
    recycled    \* history: identifiers of envelopes whose builder was reset afterwards

builderVars == <<heap, buf, id, from, rcpts, writer, finalized, txn, issued, recycled>>

NoSlice == [arr |-> 0, len |-> 0]

\* The bytes a slice shows now.
View(slice) == IF slice.arr = 0 THEN <<>> ELSE SubSeq(heap[slice.arr], 1, slice.len)

NoTxn == [from |-> Nil, rcpts |-> <<>>, data |-> <<>>]

-----------------------------------------------------------------------------
(* bytes.Buffer.                                                           *)

HasRoom == buf.arr # 0 /\ buf.len < Len(heap[buf.arr])

NewCap == IF buf.arr = 0 THEN InitialCap ELSE 2 * Len(heap[buf.arr]) + 1

\* A write lands in the array in use when there is room, else in a larger
\* one that starts with a copy of what the buffer holds.
BufferWrite(c) ==
    /\ buf.len < DataBound
    /\ IF HasRoom
       THEN /\ heap' = [heap EXCEPT ![buf.arr][buf.len + 1] = c]
            /\ buf' = [arr |-> buf.arr, len |-> buf.len + 1]
       ELSE /\ heap' = Append(heap,
                 [i \in 1..NewCap |-> IF i <= buf.len THEN heap[buf.arr][i]
                                      ELSE IF i = buf.len + 1 THEN c ELSE Blank])
            /\ buf' = [arr |-> Len(heap) + 1, len |-> buf.len + 1]

-----------------------------------------------------------------------------
(* The methods.                                                            *)

BuilderInit ==
    /\ heap = <<>> /\ buf = NoSlice /\ id = 1
    /\ from = Nil /\ rcpts = <<>> /\ writer = "none" /\ finalized = FALSE
    /\ txn = NoTxn /\ issued = {} /\ recycled = {}

\* NewStandardEnvelopeBuilder: the caller turns to a new builder, with a
\* fresh identifier and a buffer of its own.
NewBuilder ==
    /\ writer # "open"
    /\ id < IdBound
    /\ id' = id + 1
    /\ buf' = NoSlice
    /\ from' = Nil /\ rcpts' = <<>> /\ writer' = "none" /\ finalized' = FALSE
    /\ txn' = NoTxn
    /\ UNCHANGED <<heap, issued, recycled>>

SetMailFrom ==
    /\ ~finalized
    /\ \E s \in Froms : from' = s /\ txn' = [txn EXCEPT !.from = s]
    /\ UNCHANGED <<heap, buf, id, rcpts, writer, finalized, issued, recycled>>

AddRecipient ==
    /\ ~finalized
    /\ Len(rcpts) < RcptsBound
    /\ \E r \in Rcpts :
         rcpts' = Append(rcpts, r) /\ txn' = [txn EXCEPT !.rcpts = Append(@, r)]
    /\ UNCHANGED <<heap, buf, id, from, writer, finalized, issued, recycled>>

DataWriter ==
    /\ ~finalized /\ writer = "none"
    /\ writer' = "open"
    /\ UNCHANGED <<heap, buf, id, from, rcpts, finalized, txn, issued, recycled>>

\* Write and Close of the envelopeDataWriter.
WriterWrite ==
    /\ writer = "open"
    /\ \E c \in Chunks :
         BufferWrite(c) /\ txn' = [txn EXCEPT !.data = Append(@, c)]
    /\ UNCHANGED <<id, from, rcpts, writer, finalized, issued, recycled>>

WriterClose ==
    /\ writer = "open"
    /\ writer' = "closed"
    /\ UNCHANGED <<heap, buf, id, from, rcpts, finalized, txn, issued, recycled>>

\* Mutant: a message without recipients can be finalized.
FinalizeUndeliverable ==
    /\ ~finalized /\ from # Nil /\ writer # "open"
    /\ finalized' = TRUE
    /\ issued' = issued \cup {[id |-> id, from |-> from, rcpts |-> rcpts,
                               data |-> buf, txn |-> txn]}
    /\ UNCHANGED <<heap, buf, id, from, rcpts, writer, txn, recycled>>

\* The recipients may be shared safely: until Reset allocates a new slice
\* the builder refuses to add to them.
Finalize ==
    /\ ~finalized /\ from # Nil /\ rcpts # <<>> /\ writer # "open"
    /\ finalized' = TRUE
    /\ issued' = issued \cup {[id |-> id, from |-> from, rcpts |-> rcpts,
                               data |-> buf, txn |-> txn]}
    /\ UNCHANGED <<heap, buf, id, from, rcpts, writer, txn, recycled>>

\* The callers close their writer first, as DataWriter demands of them.
MayReset == writer # "open" /\ id < IdBound

\* Reset asks nothing: an envelope that was issued loses the array of its data.
Recycle == recycled' = IF finalized THEN recycled \cup {id} ELSE recycled

\* Mutant: the buffer keeps the data of the transaction given up.
ResetKeepsData ==
    /\ MayReset
    /\ id' = id + 1
    /\ from' = Nil /\ rcpts' = <<>> /\ writer' = "none" /\ finalized' = FALSE
    /\ txn' = NoTxn
    /\ Recycle
    /\ UNCHANGED <<heap, buf, issued>>

\* The buffer is emptied and keeps its array.
ResetBuilder ==
    /\ MayReset
    /\ id' = id + 1
    /\ buf' = [arr |-> buf.arr, len |-> 0]
    /\ from' = Nil /\ rcpts' = <<>> /\ writer' = "none" /\ finalized' = FALSE
    /\ txn' = NoTxn
    /\ Recycle
    /\ UNCHANGED <<heap, issued>>

BuilderNext ==
    \/ NewBuilder \/ SetMailFrom \/ AddRecipient \/ DataWriter \/ WriterWrite
    \/ WriterClose \/ Finalize \/ ResetBuilder

-----------------------------------------------------------------------------

Slices == [arr : 0..Len(heap), len : 0..DataBound]

Txns == [from : Froms \cup {Nil}, rcpts : Seq(Rcpts), data : Seq(Chunks)]

BuilderTypeOK ==
    /\ heap \in Seq(Seq(Chunks \cup {Blank}))
    /\ buf \in Slices /\ id \in Nat \ {0}
    /\ from \in Froms \cup {Nil} /\ rcpts \in Seq(Rcpts)
    /\ writer \in {"none", "open", "closed"} /\ finalized \in BOOLEAN
    /\ txn \in Txns
    /\ recycled \subseteq 1..id
    /\ issued \subseteq [id : 1..id, from : Froms, rcpts : Seq(Rcpts) \ {<<>>},
                         data : Slices, txn : Txns]

\* What an envelope returns of its transaction.
Contents(e) == [from |-> e.from, rcpts |-> e.rcpts, data |-> View(e.data)]

\* Nothing a builder does after Finalize, nor the next one, changes what an envelope
\* returns of its own transaction: sender, recipients and bytes. Reset is the exception:
\* it is not refused after Finalize and hands the array of the data to the next
\* transaction, although envelope.go:117 rules modifications out from then on. Of the
\* envelopes of a builder that is reset and used again, only the last is spoken of.
FinalizedUnchanged == \A e \in issued : e.id \notin recycled => Contents(e) = e.txn

-----------------------------------------------------------------------------
(* The inductive invariant behind it.                                      *)

WithinArray(slice) ==
    IF slice.arr = 0 THEN slice.len = 0 ELSE slice.len <= Len(heap[slice.arr])

\* The builder writes to no array that a slice kept for envelope i refers to, or it is
\* the builder of that envelope and writes no more.
Unshared(slice, i) ==
    \/ i \in recycled \/ slice.arr = 0 \/ slice.arr # buf.arr
    \/ finalized /\ i = id

BuilderInv ==
    /\ WithinArray(buf)
    /\ txn = [from |-> from, rcpts |-> rcpts, data |-> View(buf)]
    /\ finalized => writer # "open"
    /\ \A e \in issued : WithinArray(e.data) /\ Unshared(e.data, e.id)
    /\ FinalizedUnchanged
=============================================================================
