-------------------------- MODULE PipeBufferProofs --------------------------
(***************************************************************************)
(* The pipe of the test harness loses, repeats and reorders nothing, for   *)
(* any number of calls, bytes and deadlines.                               *)
(***************************************************************************)
EXTENDS PipeBuffer, SequenceTheorems, TLAPS

\* A call in progress has no result yet: what EOFIsFinal says of the last call
\* must outlive the bytes that the next one takes.
ResultInv == pc # "idle" => result = "none"

PipeInv == TypeOK /\ NothingLost /\ EOFIsFinal /\ ResultInv

-----------------------------------------------------------------------------

LEMMA WokenType ==
    ASSUME NEW p \in {"idle", "call", "check", "wait", "waiting", "woken",
                      "line", "linecheck", "linewaiting"}
    PROVE  /\ Woken(p) \in {"idle", "call", "check", "wait", "waiting", "woken",
                            "line", "linecheck", "linewaiting"}
           /\ Woken(p) \in {"check", "wait"} <=> p \in {"check", "wait"}
           /\ Woken(p) = "idle" <=> p = "idle"
BY DEF Woken

\* A byte that enters at the end of the buffer enters at the end of the stream.
LEMMA WriteKeepsOrder ==
    ASSUME NEW b \in Bytes, buf \in Seq(Bytes), got \in Seq(Bytes), NothingLost
    PROVE  got \o Append(buf, b) = Append(sent, b)
<1>1. Append(buf, b) = buf \o <<b>>
  BY AppendIsConcat
<1>2. <<b>> \in Seq(Bytes)
  OBVIOUS
<1>3. got \o Append(buf, b) = (got \o buf) \o <<b>>
  BY <1>1, <1>2, ConcatAssociative
<1>4. got \o buf \in Seq(Bytes)
  BY ConcatProperties
<1> QED BY <1>3, <1>4, AppendIsConcat DEF NothingLost

\* Take moves bytes from one side of the stream to the other.
LEMMA TakeKeepsOrder ==
    ASSUME NEW n \in 1..Len(buf), buf \in Seq(Bytes), got \in Seq(Bytes), Take(n)
    PROVE  /\ got' \o buf' = got \o buf
           /\ got' \in Seq(Bytes) /\ buf' \in Seq(Bytes)
<1> DEFINE first == SubSeq(buf, 1, n)
           rest  == SubSeq(buf, n + 1, Len(buf))
<1>1. Len(buf) \in Nat /\ \A i \in 1..Len(buf) : buf[i] \in Bytes
  BY LenProperties, ElementOfSeq
<1>2. first \in Seq(Bytes) /\ rest \in Seq(Bytes)
  BY <1>1, SubSeqProperties
<1>3. first \o rest = buf
  <2>1. first \o rest = SubSeq(buf, 1, Len(buf))
    BY <1>1, ConcatAdjacentSubSeq
  <2> QED BY <2>1, SubSeqFull
<1>4. (got \o first) \o rest = got \o (first \o rest)
  <2> HIDE DEF first, rest
  <2> QED BY <1>2, ConcatAssociative
<1>5. got \o first \in Seq(Bytes)
  BY <1>2, ConcatProperties
<1> QED BY <1>2, <1>3, <1>4, <1>5 DEF Take

-----------------------------------------------------------------------------
(* Each action preserves PipeInv.                                          *)

LEMMA InitPipe == Init => PipeInv
<1> SUFFICES ASSUME Init PROVE PipeInv
  OBVIOUS
<1>1. TypeOK
  <2>1. locked \in BOOLEAN /\ (locked <=> pc \in {"check", "wait"})
    BY DEF Init
  <2>2. 0 \in Times /\ timers \in [Times -> Nat]
    BY PipeAssumption DEF Init, Times, PipeAssumption
  <2> QED BY <2>1, <2>2 DEF Init, TypeOK
<1>2. NothingLost
  BY DEF Init, NothingLost
<1> QED BY <1>1, <1>2 DEF Init, PipeInv, EOFIsFinal, ResultInv

LEMMA WriteStep == ASSUME PipeInv, Write PROVE PipeInv'
<1> USE DEF PipeInv
<1>1. PICK b \in Bytes : buf' = Append(buf, b) /\ sent' = Append(sent, b)
  BY DEF Write
<1>2. pc' = Woken(pc) /\ UNCHANGED <<closed, readDeadline, locked, deadline, result, missed,
                                     calls, now, timers, ctxDone, got>>
  BY DEF Write, Broadcast
<1>3. TypeOK'
  BY <1>1, <1>2, WokenType DEF TypeOK
<1>4. NothingLost'
  BY <1>1, <1>2, WriteKeepsOrder DEF TypeOK, NothingLost
<1>5. EOFIsFinal'
  BY <1>2 DEF Write, EOFIsFinal
<1> QED BY <1>2, <1>3, <1>4, <1>5, WokenType DEF ResultInv, TypeOK

\* Steps that touch neither bytes nor results.
LEMMA QuietStep ==
    ASSUME PipeInv, Close \/ ReadEnter \/ ReadWait \/ Tick \/ TimerFires \/ Cancel
    PROVE  PipeInv'
<1> USE DEF PipeInv
<1>1. UNCHANGED <<buf, sent, got, result>>
  BY DEF Close, ReadEnter, ReadWait, Tick, TimerFires, Cancel, pipe, reader
<1>2. closed' = closed \/ closed'
  BY DEF Close, ReadEnter, ReadWait, Tick, TimerFires, Cancel, pipe
<1>3. pc' = "idle" <=> pc = "idle"
  BY WokenType DEF Close, ReadEnter, ReadWait, Tick, TimerFires, Cancel, reader, Broadcast, TypeOK
<1>4. TypeOK'
  <2>1. CASE Close
    BY <2>1, WokenType DEF Close, Broadcast, TypeOK
  <2>2. CASE ReadEnter
    BY <2>2 DEF ReadEnter, TypeOK, pipe
  <2>3. CASE ReadWait
    BY <2>3 DEF ReadWait, TypeOK, pipe
  <2>4. CASE Tick
    BY <2>4, PipeAssumption DEF Tick, TypeOK, pipe, reader, Times, PipeAssumption
  <2>5. CASE TimerFires
    BY <2>5, WokenType DEF TimerFires, Broadcast, TypeOK, pipe
  <2>6. CASE Cancel
    BY <2>6 DEF Cancel, TypeOK, pipe, reader
  <2> QED BY <2>1, <2>2, <2>3, <2>4, <2>5, <2>6
<1>5. NothingLost' /\ EOFIsFinal'
  BY <1>1, <1>2 DEF NothingLost, EOFIsFinal
<1> QED BY <1>1, <1>3, <1>4, <1>5 DEF ResultInv

LEMMA CallStarts == ASSUME PipeInv, SetReadDeadline \/ ReadLine PROVE PipeInv'
<1> USE DEF PipeInv
<1>1. UNCHANGED <<buf, sent, got, closed>> /\ result' = "none" /\ pc' \in {"call", "line"}
  BY DEF SetReadDeadline, ReadLine, pipe
<1>2. readDeadline' \in Times
  BY PipeAssumption DEF SetReadDeadline, ReadLine, pipe, TypeOK, Times, PipeAssumption
<1>3. TypeOK'
  <2>1. missed' \in BOOLEAN /\ locked' = locked
    BY DEF SetReadDeadline, ReadLine, TypeOK
  <2>2. calls' \in Nat /\ UNCHANGED <<deadline, now, timers, ctxDone>>
    BY DEF SetReadDeadline, ReadLine, TypeOK
  <2>3. ~locked
    BY DEF SetReadDeadline, ReadLine, TypeOK
  <2> QED BY <1>1, <1>2, <2>1, <2>2, <2>3 DEF TypeOK
<1> QED BY <1>1, <1>3 DEF NothingLost, EOFIsFinal, ResultInv

\* A call that returns without taking anything.
LEMMA ReturnStep ==
    ASSUME PipeInv, NEW r \in {"eof", "timeout", "cancelled"}, Return(r), r = "eof" => AtEnd,
           UNCHANGED <<pipe, timers, now, ctxDone, sent, got>>
    PROVE  PipeInv'
<1> USE DEF PipeInv
<1>1. TypeOK'
  BY DEF Return, TypeOK, pipe
<1>2. EOFIsFinal'
  <2>1. AtEnd => got = sent
    BY ConcatEmptySeq DEF AtEnd, NothingLost, TypeOK
  <2> QED BY <2>1 DEF Return, EOFIsFinal, AtEnd, pipe
<1> QED BY <1>1, <1>2 DEF Return, NothingLost, ResultInv, pipe

\* A call that takes bytes, and returns or goes on.
LEMMA TakeStep ==
    ASSUME PipeInv, pc # "idle", NEW n \in 1..Len(buf), Take(n),
           UNCHANGED <<closed, readDeadline, timers, now, ctxDone, sent>>,
           \/ Return("data")
           \/ /\ pc = "linecheck" /\ pc' = "line"
              /\ UNCHANGED <<locked, deadline, result, missed, calls>>
    PROVE  PipeInv'
<1> USE DEF PipeInv
<1>1. /\ got' \o buf' = got \o buf
      /\ got' \in Seq(Bytes) /\ buf' \in Seq(Bytes)
  BY TakeKeepsOrder DEF TypeOK
<1>2. result' # "eof" /\ (pc' = "idle" \/ result' = "none")
  BY DEF Return, ResultInv
<1>3. TypeOK'
  <2>1. /\ locked' = FALSE \/ (pc = "linecheck" /\ locked' = locked)
        /\ pc' \in {"idle", "line"}
        /\ result' \in {"data", result}
        /\ UNCHANGED <<deadline, missed, calls>>
    BY DEF Return
  <2>2. locked' = FALSE
    BY <2>1 DEF TypeOK
  <2> QED BY <1>1, <2>1, <2>2 DEF TypeOK
<1>4. NothingLost'
  BY <1>1 DEF NothingLost
<1> QED BY <1>2, <1>3, <1>4 DEF EOFIsFinal, ResultInv

\* A call that stays in progress and takes nothing.
LEMMA GoOnStep ==
    ASSUME PipeInv, pc # "idle",
           pc' \in {"check", "wait", "linecheck", "linewaiting"},
           locked' \in BOOLEAN /\ (locked' <=> pc' \in {"check", "wait"}),
           timers' \in [Times -> Nat],
           UNCHANGED <<pipe, deadline, result, missed, calls, now, ctxDone, sent, got>>
    PROVE  PipeInv'
<1> USE DEF PipeInv
<1>1. TypeOK'
  BY DEF TypeOK, pipe
<1> QED BY <1>1 DEF NothingLost, EOFIsFinal, ResultInv, pipe

LEMMA ReadCheckStep == ASSUME PipeInv, ReadCheck PROVE PipeInv'
<1>1. CASE AtEnd /\ Return("eof") /\ UNCHANGED <<pipe, timers, got>>
  BY <1>1, ReturnStep DEF ReadCheck
<1>2. CASE /\ ~AtEnd /\ buf # <<>>
           /\ \E n \in 1..Len(buf) : Take(n)
           /\ Return("data")
           /\ UNCHANGED <<closed, readDeadline, timers>>
  BY <1>2, TakeStep DEF ReadCheck
<1>3. CASE ~AtEnd /\ buf = <<>> /\ Return("timeout") /\ UNCHANGED <<pipe, timers, got>>
  BY <1>3, ReturnStep DEF ReadCheck
<1>4. CASE /\ StartTimer /\ pc' = "wait"
           /\ UNCHANGED <<pipe, locked, deadline, result, missed, calls, got>>
  <2>1. timers' \in [Times -> Nat]
    BY <1>4 DEF StartTimer, PipeInv, TypeOK
  <2>2. locked' \in BOOLEAN /\ (locked' <=> pc' \in {"check", "wait"})
    BY <1>4 DEF ReadCheck, PipeInv, TypeOK
  <2> QED BY <1>4, <2>1, <2>2, GoOnStep DEF ReadCheck
<1> QED BY <1>1, <1>2, <1>3, <1>4 DEF ReadCheck

LEMMA ReadWokenStep == ASSUME PipeInv, ReadWoken PROVE PipeInv'
<1>1. CASE Return("timeout")
  BY <1>1, ReturnStep DEF ReadWoken
<1>2. CASE pc' = "check" /\ locked' = TRUE /\ UNCHANGED <<deadline, result, missed, calls>>
  <2>1. locked' \in BOOLEAN /\ (locked' <=> pc' \in {"check", "wait"}) /\ timers' \in [Times -> Nat]
    BY <1>2 DEF ReadWoken, PipeInv, TypeOK
  <2> QED BY <1>2, <2>1, GoOnStep DEF ReadWoken
<1> QED BY <1>1, <1>2 DEF ReadWoken

LEMMA LineContextStep == ASSUME PipeInv, LineContext PROVE PipeInv'
<1>1. CASE Return("cancelled")
  BY <1>1, ReturnStep DEF LineContext
<1>2. CASE pc' = "linecheck" /\ UNCHANGED <<locked, deadline, result, missed, calls>>
  <2>1. locked' \in BOOLEAN /\ (locked' <=> pc' \in {"check", "wait"}) /\ timers' \in [Times -> Nat]
    BY <1>2 DEF LineContext, PipeInv, TypeOK
  <2> QED BY <1>2, <2>1, GoOnStep DEF LineContext
<1> QED BY <1>1, <1>2 DEF LineContext

LEMMA LineByteStep == ASSUME PipeInv, LineByte PROVE PipeInv'
<1>1. CASE AtEnd /\ Return("eof") /\ UNCHANGED <<pipe, got>>
  BY <1>1, ReturnStep DEF LineByte
<1>2. CASE /\ ~AtEnd /\ buf # <<>>
           /\ Take(1)
           /\ IF Head(buf) = "nl" THEN Return("data")
              ELSE pc' = "line" /\ UNCHANGED <<locked, deadline, result, missed, calls>>
           /\ UNCHANGED <<closed, readDeadline>>
  <2>1. 1 \in 1..Len(buf)
    BY <1>2, EmptySeq DEF PipeInv, TypeOK
  <2> QED BY <1>2, <2>1, TakeStep DEF LineByte
<1>3. CASE /\ pc' = "linewaiting"
           /\ UNCHANGED <<pipe, locked, deadline, result, missed, calls, got>>
  <2>1. locked' \in BOOLEAN /\ (locked' <=> pc' \in {"check", "wait"}) /\ timers' \in [Times -> Nat]
    BY <1>3 DEF LineByte, PipeInv, TypeOK
  <2> QED BY <1>3, <2>1, GoOnStep DEF LineByte
<1> QED BY <1>1, <1>2, <1>3 DEF LineByte

\* Every behaviour of the pipe keeps the invariant, whatever the reader, the writers, the
\* timers and the context do.
THEOREM PipeInvariant == Spec => []PipeInv
<1>1. PipeInv /\ [Next]_vars => PipeInv'
  <2> SUFFICES ASSUME PipeInv, [Next]_vars PROVE PipeInv'
    OBVIOUS
  <2>1. CASE UNCHANGED vars
    BY <2>1 DEF vars, pipe, reader, PipeInv, TypeOK, NothingLost, EOFIsFinal, ResultInv
  <2>2. CASE Next
    BY <2>2, WriteStep, QuietStep, CallStarts, ReadCheckStep, ReadWokenStep, LineContextStep,
       LineByteStep DEF Next, CallStep
  <2> QED BY <2>1, <2>2
<1> QED BY <1>1, InitPipe, PTL DEF Spec

\* The fields and the reader's locals keep their types, and the reader holds the mutex
\* exactly between the entry of Read and its wait or return.
THEOREM PipeTypeCorrect == Spec => []TypeOK
<1>1. PipeInv => TypeOK
  BY DEF PipeInv
<1> QED BY <1>1, PipeInvariant, PTL

\* Every byte written is read once and in order (harness.go:351-456), however reads, lines,
\* time-outs and cancelled calls follow one another.
THEOREM PipeLosesNothing == Spec => []NothingLost
<1>1. PipeInv => NothingLost
  BY DEF PipeInv
<1> QED BY <1>1, PipeInvariant, PTL

\* EOF is returned only by a closed pipe whose bytes have all been read.
THEOREM PipeEndsOnce == Spec => []EOFIsFinal
<1>1. PipeInv => EOFIsFinal
  BY DEF PipeInv
<1> QED BY <1>1, PipeInvariant, PTL
=============================================================================
