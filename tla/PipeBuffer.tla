----------------------------- MODULE PipeBuffer -----------------------------
(***************************************************************************)
(* harness.PipeBuffer: the buffer between the harness and a session, with  *)
(* its mutex, its condition variable and the goroutines that broadcast     *)
(* when a deadline passes.  One goroutine reads, by Read under a deadline  *)
(* (the session) or by ReadLine under a context (the harness); others      *)
(* write and close.  Write, Close and SetReadDeadline hold the mutex from  *)
(* their first line to their last and are one step each; the reader holds  *)
(* it (locked) across several.                                             *)
(***************************************************************************)
EXTENDS Naturals, Sequences

CONSTANTS
    WriteBound, TimeBound, CallBound    \* bounds for TLC

ASSUME PipeAssumption == {WriteBound, TimeBound, CallBound} \subseteq Nat

VARIABLES
    buf, closed, readDeadline,  \* the fields of PipeBuffer; deadline 0 means none
    pc,         \* where the reader is
    locked,     \* the reader holds p.mu
    deadline,   \* the local copy in Read
    result,     \* how the last call ended
    now,        \* the clock
    timers,     \* for each deadline, the goroutines asleep until it
    ctxDone,    \* the context of ReadLine is cancelled
    sent, got,  \* history: bytes accepted by Write, bytes handed to the reader
    missed,     \* history: the timer of this Read fired before it waited
    calls       \* calls made so far

pipe   == <<buf, closed, readDeadline>>
reader == <<pc, locked, deadline, result, missed, calls>>
vars   == <<pipe, reader, now, timers, ctxDone, sent, got>>

Bytes == {"x", "nl"}
Times == 0..TimeBound

Init ==
    /\ buf = <<>> /\ closed = FALSE /\ readDeadline = 0
    /\ pc = "idle" /\ locked = FALSE /\ deadline = 0 /\ result = "none" /\ missed = FALSE
    /\ now = 0 /\ timers = [t \in Times |-> 0] /\ ctxDone = FALSE
    /\ sent = <<>> /\ got = <<>> /\ calls = 0

\* Who waits on the condition variable is woken and wants the mutex back.
Woken(p) ==
    CASE p = "waiting"     -> "woken"
      [] p = "linewaiting" -> "linecheck"
      [] OTHER             -> p

Broadcast == pc' = Woken(pc)

Passed(d) == d # 0 /\ now >= d

-----------------------------------------------------------------------------
(* The writers.                                                            *)

Write ==
    /\ ~locked /\ ~closed /\ Len(sent) < WriteBound
    /\ \E b \in Bytes : buf' = Append(buf, b) /\ sent' = Append(sent, b)
    /\ Broadcast
    /\ UNCHANGED <<closed, readDeadline, locked, deadline, result, missed, calls, now, timers,
                   ctxDone, got>>

\* Mutant: the waiters are not told.
CloseSilently ==
    /\ ~locked /\ ~closed
    /\ closed' = TRUE
    /\ UNCHANGED <<buf, readDeadline, reader, now, timers, ctxDone, sent, got>>

Close ==
    /\ ~locked /\ ~closed
    /\ closed' = TRUE
    /\ Broadcast
    /\ UNCHANGED <<buf, readDeadline, locked, deadline, result, missed, calls, now, timers, ctxDone,
                   sent, got>>

-----------------------------------------------------------------------------
(* Read.                                                                   *)

\* The session sets a deadline, or clears it, before it reads.
SetReadDeadline ==
    /\ pc = "idle" /\ calls < CallBound
    /\ \E d \in {0} \cup (now + 1)..TimeBound : readDeadline' = d
    /\ pc' = "call" /\ result' = "none" /\ missed' = FALSE /\ calls' = calls + 1
    /\ UNCHANGED <<buf, closed, locked, deadline, now, timers, ctxDone, sent, got>>

ReadEnter ==
    /\ pc = "call"
    /\ locked' = TRUE
    /\ deadline' = readDeadline
    /\ pc' = "check"
    /\ UNCHANGED <<pipe, result, missed, calls, now, timers, ctxDone, sent, got>>

\* Mutant: one of the returns forgets the mutex.
ReturnLocked(r) ==
    pc' = "idle" /\ locked' = (r = "eof") /\ result' = r /\ UNCHANGED <<deadline, missed, calls>>

\* The call returns and the mutex is released.
Return(r) == pc' = "idle" /\ locked' = FALSE /\ result' = r /\ UNCHANGED <<deadline, missed, calls>>

\* Mutant: a short read loses the rest of the buffer.
TakeAndDrop(n) ==
    /\ got' = got \o SubSeq(buf, 1, n)
    /\ buf' = <<>>

\* The first n bytes leave the buffer.
Take(n) ==
    /\ got' = got \o SubSeq(buf, 1, n)
    /\ buf' = SubSeq(buf, n + 1, Len(buf))

\* Mutant: the reader waits without a timer.
StartNoTimer == UNCHANGED timers

\* go func() { time.Sleep(timeout); p.cond.Broadcast() }
StartTimer ==
    timers' = IF deadline = 0 THEN timers ELSE [timers EXCEPT ![deadline] = @ + 1]

\* Mutant: a closed pipe is reported before it is drained.
AtEndUndrained == closed

AtEnd == buf = <<>> /\ closed

\* The loop of Read: its condition, and the deadline before each wait.
ReadCheck ==
    /\ pc = "check"
    /\ \/ AtEnd /\ Return("eof") /\ UNCHANGED <<pipe, timers, got>>
       \/ /\ ~AtEnd /\ buf # <<>>
          /\ \E n \in 1..Len(buf) : Take(n)
          /\ Return("data")
          /\ UNCHANGED <<closed, readDeadline, timers>>
       \/ /\ ~AtEnd /\ buf = <<>> /\ Passed(deadline)
          /\ Return("timeout")
          /\ UNCHANGED <<pipe, timers, got>>
       \/ /\ ~AtEnd /\ buf = <<>> /\ ~Passed(deadline)
          /\ StartTimer
          /\ pc' = "wait"
          /\ UNCHANGED <<pipe, locked, deadline, result, missed, calls, got>>
    /\ UNCHANGED <<now, ctxDone, sent>>

\* cond.Wait joins the list of waiters and releases the mutex.
ReadWait ==
    /\ pc = "wait"
    /\ pc' = "waiting" /\ locked' = FALSE
    /\ UNCHANGED <<pipe, deadline, result, missed, calls, now, timers, ctxDone, sent, got>>

\* After the wait the deadline comes before the buffer.
ReadWoken ==
    /\ pc = "woken"
    /\ \/ /\ deadline # 0 /\ now > deadline
          /\ Return("timeout")
       \/ /\ ~(deadline # 0 /\ now > deadline)
          /\ pc' = "check" /\ locked' = TRUE
          /\ UNCHANGED <<deadline, result, missed, calls>>
    /\ UNCHANGED <<pipe, now, timers, ctxDone, sent, got>>

-----------------------------------------------------------------------------
(* ReadLine.                                                               *)

ReadLine ==
    /\ pc = "idle" /\ calls < CallBound
    /\ pc' = "line" /\ result' = "none" /\ calls' = calls + 1
    /\ UNCHANGED <<pipe, locked, deadline, missed, now, timers, ctxDone, sent, got>>

\* The context is looked at before each byte.
LineContext ==
    /\ pc = "line"
    /\ \/ ctxDone /\ Return("cancelled")
       \/ ~ctxDone /\ pc' = "linecheck" /\ UNCHANGED <<locked, deadline, result, missed, calls>>
    /\ UNCHANGED <<pipe, now, timers, ctxDone, sent, got>>

\* One byte under the mutex, or a wait for one.  Checking and joining the waiters
\* are one step: all whose broadcast matters here hold the mutex.
LineByte ==
    /\ pc = "linecheck"
    /\ \/ AtEnd /\ Return("eof") /\ UNCHANGED <<pipe, got>>
       \/ /\ ~AtEnd /\ buf # <<>>
          /\ Take(1)
          /\ IF Head(buf) = "nl" THEN Return("data")
             ELSE pc' = "line" /\ UNCHANGED <<locked, deadline, result, missed, calls>>
          /\ UNCHANGED <<closed, readDeadline>>
       \/ /\ ~AtEnd /\ buf = <<>>
          /\ pc' = "linewaiting"
          /\ UNCHANGED <<pipe, locked, deadline, result, missed, calls, got>>
    /\ UNCHANGED <<now, timers, ctxDone, sent>>

-----------------------------------------------------------------------------
(* Time and the context.                                                   *)

Tick ==
    /\ now < TimeBound
    /\ now' = now + 1
    /\ UNCHANGED <<pipe, reader, timers, ctxDone, sent, got>>

\* A timer broadcasts without the mutex: also while the reader is on its way
\* to Wait, when nobody hears it.
TimerFires ==
    /\ \E t \in Times :
         /\ timers[t] > 0 /\ now >= t
         /\ timers' = [timers EXCEPT ![t] = @ - 1]
         /\ missed' = (missed \/ (pc = "wait" /\ t = deadline))
    /\ Broadcast
    /\ UNCHANGED <<pipe, locked, deadline, result, calls, now, ctxDone, sent, got>>

Cancel ==
    /\ ~ctxDone /\ ctxDone' = TRUE
    /\ UNCHANGED <<pipe, reader, now, timers, sent, got>>

\* Steps of a call in progress.
CallStep ==
    ReadEnter \/ ReadCheck \/ ReadWait \/ ReadWoken \/ LineContext \/ LineByte

Next ==
    \/ CallStep \/ SetReadDeadline \/ ReadLine \/ Write \/ Close \/ Tick
    \/ TimerFires \/ Cancel

\* Goroutines run, time passes, timers fire; nobody has to write or close.
Spec == Init /\ [][Next]_vars /\ WF_vars(CallStep) /\ WF_vars(Tick) /\ WF_vars(TimerFires)

-----------------------------------------------------------------------------

\* The fields and the reader's locals keep their types.
TypeOK ==
    /\ buf \in Seq(Bytes) /\ closed \in BOOLEAN /\ readDeadline \in Times
    /\ pc \in {"idle", "call", "check", "wait", "waiting", "woken",
               "line", "linecheck", "linewaiting"}
    /\ locked \in BOOLEAN /\ (locked <=> pc \in {"check", "wait"})
    /\ deadline \in Times
    /\ result \in {"none", "data", "eof", "timeout", "cancelled"}
    /\ now \in Times /\ timers \in [Times -> Nat] /\ ctxDone \in BOOLEAN
    /\ sent \in Seq(Bytes) /\ got \in Seq(Bytes) /\ missed \in BOOLEAN /\ calls \in Nat

\* Whatever mix of Read and ReadLine, time-outs, cancelled lines and spurious wake-ups
\* a reader goes through, every byte written is read once, in order.
NothingLost == got \o buf = sent

\* EOF (harness.go:411, 444) means that the pipe is closed and all of it was read.
EOFIsFinal == result = "eof" => closed /\ got = sent

\* The broadcasts of Write and Close reach a reader wherever it is in its call: once
\* there is a byte, or the end, a Read returns, and after Close a ReadLine as well, with
\* its line or with EOF.
CallsReturn ==
    /\ (buf # <<>> \/ closed) /\ pc \in {"call", "check", "wait", "waiting", "woken"}
         ~> pc = "idle"
    /\ closed /\ pc \in {"line", "linecheck", "linewaiting"} ~> pc = "idle"

\* "It supports deadline-based reads for timeout testing" (harness.go:346): with
\* nobody writing or closing, whatever old timers wake it, a Read with a deadline
\* returns, unless its timer's broadcast came between the start of the timer
\* (harness.go:397) and cond.Wait (402): only that one can be missed.
DeadlineEnds ==
    pc \in {"check", "wait", "waiting", "woken"} /\ deadline # 0
        ~> pc = "idle" \/ missed
=============================================================================
