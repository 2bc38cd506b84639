----------------------------- MODULE MemStorage -----------------------------
(***************************************************************************)
(* mem.Storage (mem/storage.go) holding the envelopes a builder issued.    *)
(* Store keeps the envelope's slice, not a copy; StoreStream reads all of  *)
(* its input before it takes the lock, so other calls come in between.     *)
(***************************************************************************)
EXTENDS EnvelopeBuilder, FiniteSets, Functions

CONSTANTS StoreBound    \* bound on the calls that store a message or fail to, for TLC

ASSUME StorageAssumption == StoreBound \in Nat

VARIABLES
    messages,   \* s.messages: from identifiers to slices of the data
    metrics,    \* s.metrics
    streams     \* calls of StoreStream past ReadAll: envelope and slice read

storageVars == <<messages, metrics, streams>>
vars == <<builderVars, storageVars>>

Init ==
    /\ BuilderInit
    /\ messages = [i \in {} |-> NoSlice]
    /\ metrics = [stored |-> 0, bytes |-> 0, errors |-> 0]
    /\ streams = {}

\* Mutant: the bytes of a message are not counted.
KeepUncounted(e, slice) ==
    /\ messages' = [i \in DOMAIN messages \cup {e.id} |->
                      IF i = e.id THEN slice ELSE messages[i]]
    /\ metrics' = [metrics EXCEPT !.stored = @ + 1]

\* Mutant: the store keeps the builder's buffer, not the envelope's data.
KeepBuffer(e, slice) ==
    /\ messages' = [i \in DOMAIN messages \cup {e.id} |->
                      IF i = e.id THEN buf ELSE messages[i]]
    /\ metrics' = [stored |-> metrics.stored + 1, bytes |-> metrics.bytes + slice.len,
                   errors |-> metrics.errors]

\* The part under the lock that Store and StoreStream have in common.
Keep(e, slice) ==
    /\ messages' = [i \in DOMAIN messages \cup {e.id} |->
                      IF i = e.id THEN slice ELSE messages[i]]
    /\ metrics' = [stored |-> metrics.stored + 1, bytes |-> metrics.bytes + slice.len,
                   errors |-> metrics.errors]

MayStore == metrics.stored + metrics.errors < StoreBound

Store ==
    /\ MayStore
    /\ \E e \in issued : Keep(e, e.data)
    /\ UNCHANGED <<builderVars, streams>>

\* io.ReadAll copies the message, or fails.
StreamRead ==
    /\ streams = {} /\ MayStore
    /\ \E e \in issued :
         /\ heap' = Append(heap, View(e.data))
         /\ streams' = {[env |-> e, slice |-> [arr |-> Len(heap) + 1, len |-> e.data.len]]}
    /\ UNCHANGED <<buf, id, from, rcpts, writer, finalized, txn, issued, recycled, messages,
                   metrics>>

StreamFails ==
    /\ issued # {} /\ MayStore
    /\ metrics' = [stored |-> metrics.stored, bytes |-> metrics.bytes,
                   errors |-> metrics.errors + 1]
    /\ UNCHANGED <<builderVars, messages, streams>>

StreamKeep ==
    /\ \E c \in streams : Keep(c.env, c.slice) /\ streams' = streams \ {c}
    /\ UNCHANGED builderVars

Delete ==
    /\ \E i \in DOMAIN messages : messages' = Restrict(messages, DOMAIN messages \ {i})
    /\ UNCHANGED <<builderVars, metrics, streams>>

Clear ==
    /\ messages # [i \in {} |-> NoSlice]
    /\ messages' = [i \in {} |-> NoSlice]
    /\ UNCHANGED <<builderVars, metrics, streams>>

StorageNext == Store \/ StreamRead \/ StreamFails \/ StreamKeep \/ Delete \/ Clear

Next == (BuilderNext /\ UNCHANGED storageVars) \/ StorageNext

Spec == Init /\ [][Next]_vars

-----------------------------------------------------------------------------

\* Builder and store keep to their types.
TypeOK ==
    /\ BuilderTypeOK
    /\ DOMAIN messages \subseteq 1..id /\ messages \in [DOMAIN messages -> Slices]
    /\ metrics \in [stored : Nat, bytes : Nat, errors : Nat]
    /\ streams \subseteq [env : issued, slice : Slices]

\* A message reads back as the bytes its sender transmitted, whatever the sessions
\* that share the process do after it was stored (mem/storage.go:52 keeps the slice),
\* unless its own builder was reset for another message, as no session does.
StoredIntact ==
    \A i \in DOMAIN messages :
        i \notin recycled => \E e \in issued : e.id = i /\ View(messages[i]) = e.txn.data

\* The bytes of the messages held, each with the message it belongs to.
Held == UNION {{i} \X (1..messages[i].len) : i \in DOMAIN messages}

\* The metrics, which deletions leave alone and repeated stores inflate, never fall
\* behind what the store holds: its messages and their bytes.
MetricsCover ==
    /\ Cardinality(DOMAIN messages) <= metrics.stored
    /\ Cardinality(Held) <= metrics.bytes

\* The slices of the store and of the calls of StoreStream are as safe as the envelopes.
StorageInv ==
    /\ \A i \in DOMAIN messages : WithinArray(messages[i]) /\ Unshared(messages[i], i)
    /\ \A c \in streams :
         /\ WithinArray(c.slice) /\ Unshared(c.slice, c.env.id)
         /\ c.env.id \notin recycled => View(c.slice) = c.env.txn.data
    /\ StoredIntact

Inv == TypeOK /\ BuilderInv /\ StorageInv

\* What MetricsCover rests on; it says nothing of the arrays, so no caller can break it.
LengthInv ==
    /\ buf.len \in Nat /\ \A e \in issued : e.data.len \in Nat
    /\ \A c \in streams : c.slice.len \in Nat

CountInv ==
    /\ IsFiniteSet(DOMAIN messages) /\ IsFiniteSet(Held)
    /\ metrics.stored \in Nat /\ metrics.bytes \in Nat
    /\ MetricsCover
=============================================================================
