------------------------ MODULE CommandSupervisorProofs ------------------------
(***************************************************************************)
(* Proofs about CommandSupervisor, for every set of descendants and files, *)
(* every capture limit and every largest total.                            *)
(***************************************************************************)
EXTENDS CommandSupervisor, TLAPS

\* Where the leader is while runCommand is somewhere: it is reaped only by
\* cmd.Wait, after all signals, and its number is not reused before.
LeaderPlaced ==
    /\ place \in {"begin", "bind", "start"} => leader = "none"
    /\ place \in {"select", "term", "grace", "kill", "reap", "reapTerminated"} =>
          leader \in {"running", "zombie"}
    /\ place \in {"drain", "drainTerminated"} => leader = "reaped"
    /\ observed => leader \in {"zombie", "reaped"}
    /\ leader \in {"zombie", "reaped"} => status # "none"
    /\ reused => leader = "reaped"

\* The copying goroutine exists from the start to the end of cmd.Wait; without
\* WaitDelay it ends with the last writer, after which nobody gets the pipe.
CopierPlaced ==
    /\ copier = "idle" <=> leader = "none"
    /\ place = "returned" => copier # "copying"
    /\ copier = "ended" /\ ~delayed => pipe = {}

\* After SIGKILL nobody is left who could fork.
GroupGone ==
    place \in {"reapTerminated", "drainTerminated"} /\ ~refused =>
        leader # "running" /\ InGroup = {}

\* What is executed was checked.
PinnedChecked ==
    /\ place = "start" => pinned \in Executable
    /\ image # NoFile => image \in Executable

\* Nothing is written before the start.
OutputPlaced ==
    copier = "idle" => total = 0 /\ captured = 0 /\ truncated = FALSE

\* A result is there when runCommand has returned.
ResultPlaced ==
    /\ result # "none" => place = "returned"
    /\ result = "ok" => leader = "reaped"

IInv ==
    /\ TypeOK
    /\ LeaderPlaced /\ CopierPlaced /\ GroupGone /\ PinnedChecked
    /\ OutputPlaced /\ OutputReported
    /\ ResultPlaced /\ SuccessIsComplete

-----------------------------------------------------------------------------
\* One Write keeps the counters in their ranges and exact, whatever the number
\* of bytes: boundedOutput neither captures beyond the limit nor overflows.
LEMMA WriteExact ==
    ASSUME NEW n \in Nat, OutputTypeOK, OutputExact, Write(n)
    PROVE  OutputTypeOK' /\ OutputExact'
<1>1. /\ total \in 0..MaxTotal /\ captured \in 0..Limit /\ written \in Nat
      /\ Limit \in Nat /\ MaxTotal \in Nat /\ Limit < MaxTotal
      /\ captured = AtMost(written, Limit) /\ total = AtMost(written, MaxTotal)
  BY OutputAssumption DEF OutputTypeOK, OutputExact
<1>2. written' = written + n /\ written' \in Nat
  BY <1>1 DEF Write
<1>3. total' \in 0..MaxTotal /\ total' = AtMost(written', MaxTotal)
  BY <1>1, <1>2 DEF Write, Saturated, AtMost
<1>4. captured' \in 0..Limit /\ captured' = AtMost(written', Limit)
  BY <1>1, <1>2 DEF Write, Kept, AtMost
<1>5. (written > Limit \/ MaxTotal - total < n \/ n > Limit - captured) <=> written' > Limit
  BY <1>1, <1>2 DEF AtMost
<1>6. truncated \in BOOLEAN /\ (truncated <=> written > Limit)
  BY DEF OutputTypeOK, OutputExact
<1>7. truncated' = (truncated \/ MaxTotal - total < n \/ n > Limit - captured)
  BY DEF Write
<1>8. truncated' \in BOOLEAN /\ (truncated' <=> written' > Limit)
  BY <1>5, <1>6, <1>7, Zenon
<1> QED
  BY <1>2, <1>3, <1>4, <1>8 DEF OutputTypeOK, OutputExact

\* A step that leaves the output alone keeps what is said of it.
LEMMA OutputKept ==
    ASSUME UNCHANGED output
    PROVE  /\ OutputTypeOK => OutputTypeOK'
           /\ OutputExact => OutputExact'
           /\ Stats' = Stats
BY DEF output, OutputTypeOK, OutputExact, Stats, AtMost

LEMMA InitIInv == Init => IInv
<1> SUFFICES ASSUME Init PROVE IInv
  OBVIOUS
<1>a. ~(0 > Limit) /\ 0 = AtMost(0, Limit) /\ 0 = AtMost(0, MaxTotal)
  BY OutputAssumption DEF AtMost
<1>b. OutputTypeOK
  <2>1. 0 \in 0..MaxTotal /\ 0 \in 0..Limit /\ 0 \in Nat
    BY OutputAssumption
  <2> QED
    BY <2>1, Zenon DEF Init, InitOutput, OutputTypeOK
<1>c. OutputExact
  BY <1>a, Zenon DEF Init, InitOutput, OutputExact
<1>d. Stats = NoStats
  BY DEF Init, InitOutput, Stats, NoStats
<1>1. OutputTypeOK /\ OutputExact /\ Stats = NoStats
  BY <1>b, <1>c, <1>d
<1>2. NoStats \in [total : 0..MaxTotal, captured : 0..Limit, truncated : BOOLEAN]
  BY OutputAssumption DEF NoStats
<1>3. TypeOK
  BY <1>1, <1>2 DEF Init, TypeOK, Process
<1> QED
  BY <1>1, <1>3 DEF Init, InitOutput, IInv, LeaderPlaced, CopierPlaced, GroupGone, PinnedChecked,
     OutputPlaced, OutputReported, ResultPlaced, SuccessIsComplete

-----------------------------------------------------------------------------
(* Type correctness *)

\* Stats are in the range of TypeOK.
LEMMA StatsType ==
    ASSUME OutputTypeOK
    PROVE  Stats \in [total : 0..MaxTotal, captured : 0..Limit, truncated : BOOLEAN]
BY DEF Stats, OutputTypeOK

LEMMA NextTypeOK == TypeOK /\ OutputExact /\ [Next]_vars => TypeOK'
<1> SUFFICES ASSUME TypeOK, OutputExact, [Next]_vars PROVE TypeOK'
  OBVIOUS
<1>1. Stats \in [total : 0..MaxTotal, captured : 0..Limit, truncated : BOOLEAN]
  BY StatsType DEF TypeOK
<1>2. NoStats \in [total : 0..MaxTotal, captured : 0..Limit, truncated : BOOLEAN]
  BY OutputAssumption DEF NoStats
<1>3. UNCHANGED output => OutputTypeOK'
  BY OutputKept DEF TypeOK
<1>4. CASE UNCHANGED vars
  BY <1>3, <1>4 DEF TypeOK, vars, supervisor, processes
<1>5. CASE Begin \/ BindFails \/ StartFails \/ Done \/ DoneTerminated
  <2>1. CASE Begin
    BY <1>2, <1>3, <2>1 DEF Begin, Return, ContextError, TypeOK, processes
  <2>2. CASE BindFails
    BY <1>2, <1>3, <2>2 DEF BindFails, Return, TypeOK, processes
  <2>3. CASE StartFails
    BY <1>1, <1>3, <2>3 DEF StartFails, Return, TypeOK, processes
  <2>4. CASE Done
    BY <1>1, <1>3, <2>4 DEF Done, Return, Outcome, ContextError, TypeOK, processes
  <2>5. CASE DoneTerminated
    BY <1>1, <1>3, <2>5 DEF DoneTerminated, Return, ContextError, TypeOK, processes
  <2> QED
    BY <1>5, <2>1, <2>2, <2>3, <2>4, <2>5
<1>6. CASE Bind \/ Start
  <2>1. CASE Bind
    BY <1>3, <2>1, FilesAssumption DEF Bind, TypeOK, processes
  <2>2. CASE Start
    BY <1>3, <2>2 DEF Start, Executed, TypeOK, Process
  <2> QED
    BY <1>6, <2>1, <2>2
<1>7. CASE SelectDone \/ SelectContext \/ Term \/ Grace \/ Reap \/ WaitDelay \/ Observe
  <2>1. CASE SelectDone \/ SelectContext \/ Grace
    BY <1>3, <2>1 DEF SelectDone, SelectContext, Grace, TypeOK, processes
  <2>2. CASE Term
    BY <1>3, <2>2 DEF Term, TypeOK, processes
  <2>3. CASE Reap
    BY <1>3, <2>3 DEF Reap, TypeOK
  <2>4. CASE WaitDelay
    BY <1>3, <2>4 DEF WaitDelay, TypeOK, processes
  <2>5. CASE Observe
    BY <1>3, <2>5 DEF Observe, Seen, TypeOK, supervisor
  <2> QED
    BY <1>7, <2>1, <2>2, <2>3, <2>4, <2>5
<1>8. CASE Kill
  BY <1>3, <1>8 DEF Kill, Killed, TypeOK
<1>9. CASE Cancel \/ Deadline \/ Replace \/ LeaderExit \/ Reuse \/ EndOfFile
  <2>1. CASE Cancel \/ Deadline
    BY <1>3, <2>1 DEF Cancel, Deadline, TypeOK, processes, supervisor
  <2>2. CASE Replace
    BY <1>3, <2>2 DEF Replace, TypeOK, processes, supervisor
  <2>3. CASE LeaderExit
    BY <1>3, <2>3 DEF LeaderExit, TypeOK, supervisor
  <2>4. CASE Reuse
    BY <1>3, <2>4 DEF Reuse, TypeOK, supervisor
  <2>5. CASE EndOfFile
    BY <1>3, <2>5 DEF EndOfFile, TypeOK, processes, supervisor
  <2> QED
    BY <1>9, <2>1, <2>2, <2>3, <2>4, <2>5
<1>10. ASSUME NEW n \in Chunk, Copy(n) PROVE TypeOK'
  <2>1. OutputTypeOK'
    BY <1>10, WriteExact, ChunkAssumption DEF Copy, TypeOK
  <2> QED
    BY <1>10, <2>1 DEF Copy, TypeOK, processes, supervisor
<1>11. ASSUME NEW c \in Child, Escape(c) \/ ChildExit(c) PROVE TypeOK'
  BY <1>3, <1>11 DEF Escape, ChildExit, TypeOK, supervisor
<1>12. ASSUME NEW c \in Child, NEW p \in Process, Fork(p, c) PROVE TypeOK'
  BY <1>3, <1>12 DEF Fork, TypeOK, supervisor, Process
<1>13. ASSUME NEW p \in Process, ClosePipe(p) PROVE TypeOK'
  BY <1>3, <1>13 DEF ClosePipe, TypeOK, supervisor
<1> QED
  BY <1>4, <1>5, <1>6, <1>7, <1>8, <1>9, <1>10, <1>11, <1>12, <1>13 DEF Next, Run

-----------------------------------------------------------------------------
(* The parts of the inductive invariant *)

\* The leader is reaped by cmd.Wait only, and its number reused only then.
LEMMA LeaderStep == IInv /\ [Next]_vars => LeaderPlaced'
<1> SUFFICES ASSUME IInv, [Next]_vars PROVE LeaderPlaced'
  OBVIOUS
<1> USE DEF LeaderPlaced
<1>1. CASE UNCHANGED vars
  BY <1>1 DEF IInv, supervisor, processes, vars
<1>2. CASE Begin
  BY <1>2 DEF IInv, processes, Begin, Return
<1>3. CASE Bind \/ BindFails
  BY <1>3 DEF IInv, processes, Bind, BindFails, Return
<1>4. CASE Start \/ StartFails
  BY <1>4 DEF IInv, processes, Start, StartFails, Return
<1>5. CASE SelectDone \/ SelectContext \/ Grace
  BY <1>5 DEF IInv, processes, SelectDone, SelectContext, Grace
<1>6. CASE Term
  BY <1>6 DEF IInv, processes, Term
<1>7. CASE Kill
  BY <1>7 DEF IInv, Kill
<1>8. CASE Reap
  BY <1>8 DEF IInv, Reap
<1>9. CASE WaitDelay
  BY <1>9 DEF IInv, processes, WaitDelay
<1>10. CASE Done \/ DoneTerminated
  BY <1>10 DEF IInv, processes, Done, DoneTerminated, Return
<1>11. CASE Observe
  BY <1>11 DEF IInv, supervisor, Observe, Seen
<1>12. CASE Cancel \/ Deadline \/ Replace
  BY <1>12 DEF IInv, supervisor, processes, Cancel, Deadline, Replace
<1>13. CASE LeaderExit \/ Reuse
  BY <1>13 DEF IInv, supervisor, LeaderExit, Reuse
<1>14. CASE EndOfFile
  BY <1>14 DEF IInv, supervisor, processes, EndOfFile
<1>15. ASSUME NEW n \in Chunk, Copy(n) PROVE LeaderPlaced'
  BY <1>15 DEF IInv, supervisor, processes, Copy
<1>16. ASSUME NEW c \in Child, Escape(c) \/ ChildExit(c) PROVE LeaderPlaced'
  BY <1>16 DEF IInv, supervisor, Escape, ChildExit
<1>17. ASSUME NEW c \in Child, NEW p \in Process, Fork(p, c) PROVE LeaderPlaced'
  BY <1>17 DEF IInv, supervisor, Fork
<1>18. ASSUME NEW p \in Process, ClosePipe(p) PROVE LeaderPlaced'
  BY <1>18 DEF IInv, supervisor, ClosePipe
<1> QED
  BY <1>1, <1>2, <1>3, <1>4, <1>5, <1>6, <1>7, <1>8, <1>9, <1>10, <1>11, <1>12,
     <1>13, <1>14, <1>15, <1>16, <1>17, <1>18 DEF Next, Run

\* The copying goroutine follows the leader and the last writer.
LEMMA CopierStep == IInv /\ [Next]_vars => CopierPlaced'
<1> SUFFICES ASSUME IInv, [Next]_vars PROVE CopierPlaced'
  OBVIOUS
<1> USE DEF CopierPlaced
<1>1. CASE UNCHANGED vars
  BY <1>1 DEF IInv, supervisor, processes, vars
<1>2. CASE Begin
  BY <1>2 DEF IInv, processes, Begin, LeaderPlaced
<1>3. CASE Bind \/ BindFails
  BY <1>3 DEF IInv, processes, Bind, BindFails, LeaderPlaced
<1>4. CASE Start \/ StartFails
  BY <1>4 DEF IInv, processes, Start, StartFails, LeaderPlaced
<1>5. CASE SelectDone \/ SelectContext \/ Grace
  BY <1>5 DEF IInv, processes, SelectDone, SelectContext, Grace
<1>6. CASE Term
  BY <1>6 DEF IInv, processes, Term
<1>7. CASE Kill
  BY <1>7 DEF IInv, Kill
<1>8. CASE Reap
  BY <1>8 DEF IInv, Reap, LeaderPlaced
<1>9. CASE WaitDelay
  BY <1>9 DEF IInv, processes, WaitDelay, PipeTimer
<1>10. CASE Done \/ DoneTerminated
  BY <1>10 DEF IInv, processes, Done, DoneTerminated, Return
<1>11. CASE Observe
  BY <1>11 DEF IInv, supervisor, Observe, Seen
<1>12. CASE Cancel \/ Deadline \/ Replace
  BY <1>12 DEF IInv, supervisor, processes, Cancel, Deadline, Replace
<1>13. CASE LeaderExit \/ Reuse
  BY <1>13 DEF IInv, supervisor, LeaderExit, Reuse
<1>14. CASE EndOfFile
  BY <1>14 DEF IInv, processes, EndOfFile
<1>15. ASSUME NEW n \in Chunk, Copy(n) PROVE CopierPlaced'
  BY <1>15 DEF IInv, supervisor, processes, Copy
<1>16. ASSUME NEW c \in Child, Escape(c) \/ ChildExit(c) PROVE CopierPlaced'
  BY <1>16 DEF IInv, supervisor, Escape, ChildExit
<1>17. ASSUME NEW c \in Child, NEW p \in Process, Fork(p, c) PROVE CopierPlaced'
  BY <1>17 DEF IInv, supervisor, Fork
<1>18. ASSUME NEW p \in Process, ClosePipe(p) PROVE CopierPlaced'
  BY <1>18 DEF IInv, supervisor, ClosePipe
<1> QED
  BY <1>1, <1>2, <1>3, <1>4, <1>5, <1>6, <1>7, <1>8, <1>9, <1>10, <1>11, <1>12,
     <1>13, <1>14, <1>15, <1>16, <1>17, <1>18 DEF Next, Run

\* Nothing comes back into the group after SIGKILL.
LEMMA GroupStep == IInv /\ [Next]_vars => GroupGone'
<1> SUFFICES ASSUME IInv, [Next]_vars PROVE GroupGone'
  OBVIOUS
<1> USE DEF GroupGone
<1>1. CASE UNCHANGED vars
  BY <1>1 DEF IInv, supervisor, processes, vars, InGroup
<1>2. CASE Begin
  BY <1>2 DEF Begin, Return
<1>3. CASE Bind \/ BindFails
  BY <1>3 DEF Bind, BindFails, Return
<1>4. CASE Start \/ StartFails
  BY <1>4 DEF Start, StartFails, Return
<1>5. CASE SelectDone \/ SelectContext \/ Grace
  BY <1>5 DEF SelectDone, SelectContext, Grace
<1>6. CASE Term
  BY <1>6 DEF Term
<1>7. CASE Kill
  BY <1>7 DEF Kill, Killed, InGroup
<1>8. CASE Reap
  BY <1>8 DEF IInv, Reap, InGroup
<1>9. CASE WaitDelay
  BY <1>9 DEF IInv, processes, WaitDelay, InGroup
<1>10. CASE Done \/ DoneTerminated
  BY <1>10 DEF Done, DoneTerminated, Return
<1>11. CASE Observe
  BY <1>11 DEF IInv, supervisor, Observe, Seen, InGroup
<1>12. CASE Cancel \/ Deadline \/ Replace
  BY <1>12 DEF IInv, supervisor, processes, Cancel, Deadline, Replace, InGroup
<1>13. CASE LeaderExit \/ Reuse
  BY <1>13 DEF IInv, supervisor, LeaderExit, Reuse, InGroup
<1>14. CASE EndOfFile
  BY <1>14 DEF IInv, supervisor, processes, EndOfFile, InGroup
<1>15. ASSUME NEW n \in Chunk, Copy(n) PROVE GroupGone'
  BY <1>15 DEF IInv, supervisor, processes, Copy, InGroup
<1>16. ASSUME NEW c \in Child, Escape(c) \/ ChildExit(c) PROVE GroupGone'
  BY <1>16 DEF IInv, TypeOK, supervisor, Escape, ChildExit, InGroup
<1>17. ASSUME NEW c \in Child, NEW p \in Process, Fork(p, c) PROVE GroupGone'
  BY <1>17 DEF IInv, supervisor, Fork
<1>18. ASSUME NEW p \in Process, ClosePipe(p) PROVE GroupGone'
  BY <1>18 DEF IInv, supervisor, ClosePipe, InGroup
<1> QED
  BY <1>1, <1>2, <1>3, <1>4, <1>5, <1>6, <1>7, <1>8, <1>9, <1>10, <1>11, <1>12,
     <1>13, <1>14, <1>15, <1>16, <1>17, <1>18 DEF Next, Run

\* The file that is executed is the one that was examined.
LEMMA PinnedStep == IInv /\ [Next]_vars => PinnedChecked'
<1> SUFFICES ASSUME IInv, [Next]_vars PROVE PinnedChecked'
  OBVIOUS
<1> USE DEF PinnedChecked
<1>1. CASE UNCHANGED vars
  BY <1>1 DEF IInv, supervisor, vars
<1>2. CASE Begin
  BY <1>2 DEF IInv, Begin, Return
<1>3. CASE Bind \/ BindFails
  BY <1>3 DEF IInv, Bind, BindFails, Return
<1>4. CASE Start \/ StartFails
  BY <1>4 DEF IInv, Start, StartFails, Return, Executed
<1>5. CASE SelectDone \/ SelectContext \/ Grace
  BY <1>5 DEF IInv, SelectDone, SelectContext, Grace
<1>6. CASE Term
  BY <1>6 DEF IInv, Term
<1>7. CASE Kill
  BY <1>7 DEF IInv, Kill
<1>8. CASE Reap
  BY <1>8 DEF IInv, Reap
<1>9. CASE WaitDelay
  BY <1>9 DEF IInv, WaitDelay
<1>10. CASE Done \/ DoneTerminated
  BY <1>10 DEF IInv, Done, DoneTerminated, Return
<1>11. CASE Observe
  BY <1>11 DEF IInv, supervisor, Observe
<1>12. CASE Cancel \/ Deadline \/ Replace
  BY <1>12 DEF IInv, supervisor, Cancel, Deadline, Replace
<1>13. CASE LeaderExit \/ Reuse
  BY <1>13 DEF IInv, supervisor, LeaderExit, Reuse
<1>14. CASE EndOfFile
  BY <1>14 DEF IInv, supervisor, EndOfFile
<1>15. ASSUME NEW n \in Chunk, Copy(n) PROVE PinnedChecked'
  BY <1>15 DEF IInv, supervisor, Copy
<1>16. ASSUME NEW c \in Child, Escape(c) \/ ChildExit(c) PROVE PinnedChecked'
  BY <1>16 DEF IInv, supervisor, Escape, ChildExit
<1>17. ASSUME NEW c \in Child, NEW p \in Process, Fork(p, c) PROVE PinnedChecked'
  BY <1>17 DEF IInv, supervisor, Fork
<1>18. ASSUME NEW p \in Process, ClosePipe(p) PROVE PinnedChecked'
  BY <1>18 DEF IInv, supervisor, ClosePipe
<1> QED
  BY <1>1, <1>2, <1>3, <1>4, <1>5, <1>6, <1>7, <1>8, <1>9, <1>10, <1>11, <1>12,
     <1>13, <1>14, <1>15, <1>16, <1>17, <1>18 DEF Next, Run

\* A result is final, and success has reaped the leader.
LEMMA ResultStep == IInv /\ [Next]_vars => ResultPlaced'
<1> SUFFICES ASSUME IInv, [Next]_vars PROVE ResultPlaced'
  OBVIOUS
<1> USE DEF ResultPlaced
<1>1. CASE UNCHANGED vars
  BY <1>1 DEF IInv, supervisor, processes, vars
<1>2. CASE Begin
  BY <1>2 DEF IInv, Begin, Return, ContextError
<1>3. CASE Bind \/ BindFails
  BY <1>3 DEF IInv, Bind, BindFails, Return
<1>4. CASE Start \/ StartFails
  BY <1>4 DEF IInv, Start, StartFails, Return
<1>5. CASE SelectDone \/ SelectContext \/ Grace
  BY <1>5 DEF IInv, SelectDone, SelectContext, Grace
<1>6. CASE Term
  BY <1>6 DEF IInv, Term
<1>7. CASE Kill
  BY <1>7 DEF IInv, Kill
<1>8. CASE Reap
  BY <1>8 DEF IInv, Reap
<1>9. CASE WaitDelay
  BY <1>9 DEF IInv, WaitDelay, PipeTimer
<1>10. CASE Done \/ DoneTerminated
  BY <1>10 DEF IInv, processes, Done, DoneTerminated, Return, LeaderPlaced
<1>11. CASE Observe
  BY <1>11 DEF IInv, supervisor, Observe
<1>12. CASE Cancel \/ Deadline \/ Replace
  BY <1>12 DEF IInv, supervisor, Cancel, Deadline, Replace
<1>13. CASE LeaderExit \/ Reuse
  BY <1>13 DEF IInv, supervisor, LeaderExit, Reuse
<1>14. CASE EndOfFile
  BY <1>14 DEF IInv, supervisor, processes, EndOfFile
<1>15. ASSUME NEW n \in Chunk, Copy(n) PROVE ResultPlaced'
  BY <1>15 DEF IInv, supervisor, processes, Copy
<1>16. ASSUME NEW c \in Child, Escape(c) \/ ChildExit(c) PROVE ResultPlaced'
  BY <1>16 DEF IInv, supervisor, Escape, ChildExit
<1>17. ASSUME NEW c \in Child, NEW p \in Process, Fork(p, c) PROVE ResultPlaced'
  BY <1>17 DEF IInv, supervisor, Fork
<1>18. ASSUME NEW p \in Process, ClosePipe(p) PROVE ResultPlaced'
  BY <1>18 DEF IInv, supervisor, ClosePipe
<1> QED
  BY <1>1, <1>2, <1>3, <1>4, <1>5, <1>6, <1>7, <1>8, <1>9, <1>10, <1>11, <1>12,
     <1>13, <1>14, <1>15, <1>16, <1>17, <1>18 DEF Next, Run

\* Success is complete, and stays so.
LEMMA SuccessStep == IInv /\ [Next]_vars => SuccessIsComplete'
<1> SUFFICES ASSUME IInv, [Next]_vars PROVE SuccessIsComplete'
  OBVIOUS
<1> USE DEF SuccessIsComplete
<1>1. CASE UNCHANGED vars
  BY <1>1 DEF IInv, supervisor, processes, vars
<1>2. CASE Begin
  BY <1>2 DEF IInv, processes, Begin, Return, ContextError
<1>3. CASE Bind \/ BindFails
  BY <1>3 DEF IInv, processes, Bind, BindFails, Return
<1>4. CASE Start \/ StartFails
  BY <1>4 DEF IInv, Start, StartFails, Return, ResultPlaced
<1>5. CASE SelectDone \/ SelectContext \/ Grace
  BY <1>5 DEF IInv, processes, SelectDone, SelectContext, Grace
<1>6. CASE Term
  BY <1>6 DEF IInv, processes, Term
<1>7. CASE Kill
  BY <1>7 DEF IInv, Kill, ResultPlaced
<1>8. CASE Reap
  BY <1>8 DEF IInv, Reap
<1>9. CASE WaitDelay
  BY <1>9 DEF IInv, processes, WaitDelay
<1>10. CASE Done \/ DoneTerminated
  BY <1>10 DEF IInv, TypeOK, processes, Done, DoneTerminated, Return, LeaderPlaced, CopierPlaced, Outcome, ContextError
<1>11. CASE Observe
  BY <1>11 DEF IInv, supervisor, Observe
<1>12. CASE Cancel \/ Deadline \/ Replace
  BY <1>12 DEF IInv, supervisor, Cancel, Deadline, Replace, ResultPlaced
<1>13. CASE LeaderExit \/ Reuse
  BY <1>13 DEF IInv, supervisor, LeaderExit, Reuse, ResultPlaced
<1>14. CASE EndOfFile
  BY <1>14 DEF IInv, supervisor, processes, EndOfFile
<1>15. ASSUME NEW n \in Chunk, Copy(n) PROVE SuccessIsComplete'
  BY <1>15 DEF IInv, supervisor, processes, Copy
<1>16. ASSUME NEW c \in Child, Escape(c) \/ ChildExit(c) PROVE SuccessIsComplete'
  BY <1>16 DEF IInv, supervisor, Escape, ChildExit
<1>17. ASSUME NEW c \in Child, NEW p \in Process, Fork(p, c) PROVE SuccessIsComplete'
  BY <1>17 DEF IInv, supervisor, Fork
<1>18. ASSUME NEW p \in Process, ClosePipe(p) PROVE SuccessIsComplete'
  BY <1>18 DEF IInv, supervisor, ClosePipe
<1> QED
  BY <1>1, <1>2, <1>3, <1>4, <1>5, <1>6, <1>7, <1>8, <1>9, <1>10, <1>11, <1>12,
     <1>13, <1>14, <1>15, <1>16, <1>17, <1>18 DEF Next, Run

-----------------------------------------------------------------------------
(* The output *)

\* Bytes arrive only through the copying goroutine, and no goroutine is new
\* but the one that cmd.Start creates.
LEMMA OutputSteps ==
    ASSUME [Next]_vars
    PROVE  /\ UNCHANGED output \/ \E n \in Chunk : Copy(n)
           /\ copier' = "idle" => copier = "idle"
<1>1. CASE UNCHANGED vars
  BY <1>1 DEF vars, output
<1>2. CASE Begin \/ Bind \/ BindFails \/ StartFails \/ Done \/ DoneTerminated
  BY <1>2 DEF Begin, Bind, BindFails, StartFails, Done, DoneTerminated
<1>3. CASE Start \/ WaitDelay \/ EndOfFile
  BY <1>3 DEF Start, WaitDelay, EndOfFile
<1>4. CASE SelectDone \/ SelectContext \/ Term \/ Grace \/ Kill \/ Reap \/ Observe
  BY <1>4 DEF SelectDone, SelectContext, Term, Grace, Kill, Reap, Observe
<1>5. CASE Cancel \/ Deadline \/ Replace \/ LeaderExit \/ Reuse
  BY <1>5 DEF Cancel, Deadline, Replace, LeaderExit, Reuse
<1>6. CASE \E n \in Chunk : Copy(n)
  BY <1>6 DEF Copy
<1>7. ASSUME NEW c \in Child, Escape(c) \/ ChildExit(c) \/ \E p \in Process : Fork(p, c)
      PROVE  UNCHANGED output /\ UNCHANGED copier
  BY <1>7 DEF Escape, ChildExit, Fork
<1>8. ASSUME NEW p \in Process, ClosePipe(p)
      PROVE  UNCHANGED output /\ UNCHANGED copier
  BY <1>8 DEF ClosePipe
<1> QED
  BY <1>1, <1>2, <1>3, <1>4, <1>5, <1>6, <1>7, <1>8 DEF Next, Run

LEMMA OutputPlacedStep == IInv /\ [Next]_vars => OutputPlaced'
<1> SUFFICES ASSUME IInv, [Next]_vars, copier' = "idle"
             PROVE  (total = 0 /\ captured = 0 /\ truncated = FALSE)'
  BY DEF OutputPlaced
<1>1. copier = "idle"
  BY OutputSteps
<1>2. ~\E n \in Chunk : Copy(n)
  BY <1>1 DEF Copy
<1>3. UNCHANGED output
  BY <1>2, OutputSteps
<1> QED
  BY <1>1, <1>3 DEF IInv, OutputPlaced, output

LEMMA ExactStep == IInv /\ [Next]_vars => OutputExact'
<1> SUFFICES ASSUME IInv, [Next]_vars PROVE OutputExact'
  OBVIOUS
<1>1. OutputTypeOK /\ OutputExact
  BY DEF IInv, TypeOK, OutputReported
<1>2. CASE UNCHANGED output
  BY <1>1, <1>2, OutputKept
<1>3. ASSUME NEW n \in Chunk, Copy(n) PROVE OutputExact'
  BY <1>1, <1>3, WriteExact, ChunkAssumption DEF Copy
<1> QED
  BY <1>2, <1>3, OutputSteps

\* The numbers are read when nobody copies any more.
LEMMA ReportedStep == IInv /\ [Next]_vars => (place = "returned" => stats = Stats)'
<1> SUFFICES ASSUME IInv, [Next]_vars, place' = "returned" PROVE stats' = Stats'
  OBVIOUS
<1>1. LeaderPlaced /\ CopierPlaced /\ OutputPlaced
  BY DEF IInv
<1>2. CASE place = "returned"
  <2>1. stats = Stats /\ copier # "copying"
    BY <1>1, <1>2 DEF IInv, OutputReported, CopierPlaced
  <2>2. UNCHANGED output
    BY <2>1, OutputSteps DEF Copy
  <2>3. stats' = stats
    BY <1>2 DEF Next, Run, Begin, Bind, BindFails, Start, StartFails, SelectDone, SelectContext,
       Term, Grace, Kill, Reap, WaitDelay, PipeTimer, Done, DoneTerminated, Observe, Cancel,
       Deadline, Replace, LeaderExit, Reuse, EndOfFile, Copy, Escape, ChildExit, Fork, ClosePipe,
       vars, supervisor
  <2> QED
    BY <2>1, <2>2, <2>3, OutputKept
<1>3. CASE Begin \/ BindFails
  <2>1. place \in {"begin", "bind"}
    BY <1>3 DEF Begin, BindFails
  <2>2. copier = "idle"
    BY <1>1, <2>1 DEF LeaderPlaced, CopierPlaced
  <2>3. Stats = NoStats
    BY <1>1, <2>2 DEF OutputPlaced, Stats, NoStats
  <2>4. stats' = NoStats /\ UNCHANGED output
    BY <1>3 DEF Begin, BindFails, Return
  <2> QED
    BY <2>3, <2>4, OutputKept
<1>4. CASE StartFails \/ Done \/ DoneTerminated
  <2>1. stats' = Stats /\ UNCHANGED output
    BY <1>4 DEF StartFails, Done, DoneTerminated, Return
  <2> QED
    BY <2>1, OutputKept
<1>5. ASSUME place # "returned" PROVE Begin \/ BindFails \/ StartFails \/ Done \/ DoneTerminated
  BY <1>5 DEF Next, Run, Bind, Start, SelectDone, SelectContext, Term, Grace, Kill, Reap,
     WaitDelay, Observe, Cancel, Deadline, Replace, LeaderExit, Reuse, EndOfFile, Copy, Escape,
     ChildExit, Fork, ClosePipe, vars, supervisor
<1> QED
  BY <1>2, <1>3, <1>4, <1>5

-----------------------------------------------------------------------------
LEMMA NextIInv == IInv /\ [Next]_vars => IInv'
<1> SUFFICES ASSUME IInv, [Next]_vars PROVE IInv'
  OBVIOUS
<1>1. TypeOK'
  BY NextTypeOK DEF IInv, OutputReported
<1>2. LeaderPlaced' /\ CopierPlaced' /\ GroupGone' /\ PinnedChecked'
  BY LeaderStep, CopierStep, GroupStep, PinnedStep
<1>3. OutputPlaced' /\ OutputReported'
  BY OutputPlacedStep, ExactStep, ReportedStep DEF OutputReported
<1>4. ResultPlaced' /\ SuccessIsComplete'
  BY ResultStep, SuccessStep
<1> QED
  BY <1>1, <1>2, <1>3, <1>4 DEF IInv

\* The inductive invariant holds in every state of every behaviour.
THEOREM Invariant == Spec => []IInv
<1>1. Init => IInv
  BY InitIInv
<1>2. IInv /\ [Next]_vars => IInv'
  BY NextIInv
<1> QED
  BY <1>1, <1>2, PTL DEF Spec

\* Every variable keeps its type; the captured bytes never exceed the limit and
\* the total never passes the largest 64-bit number.
THEOREM TypeCorrect == Spec => []TypeOK
<1>1. IInv => TypeOK
  BY DEF IInv
<1> QED
  BY <1>1, Invariant, PTL

\* terminateCommandGroup never signals a process that is not the command's:
\* the leader stays a zombie, and keeps its number, until all signals are sent.
THEOREM SignalsOwn == Spec => []SignalsOwnGroup
<1>1. IInv => SignalsOwnGroup
  BY DEF IInv, LeaderPlaced, SignalsOwnGroup
<1> QED
  BY <1>1, Invariant, PTL

\* runCommand reports success only for a command that ended by itself with
\* success, with all of its output read and its context live.
THEOREM SuccessComplete == Spec => []SuccessIsComplete
<1>1. IInv => SuccessIsComplete
  BY DEF IInv
<1> QED
  BY <1>1, Invariant, PTL

\* After a termination that was not refused the process group is empty,
\* however many descendants were forked before or during the grace period.
THEOREM GroupTerminated == Spec => []GroupEnded
<1>1. IInv => GroupEnded
  BY DEF IInv, GroupGone, GroupEnded
<1> QED
  BY <1>1, Invariant, PTL

\* boundedOutput counts exactly, and what runCommand reports is final.
THEOREM OutputCorrect == Spec => []OutputReported
<1>1. IInv => OutputReported
  BY DEF IInv
<1> QED
  BY <1>1, Invariant, PTL

\* The file that runs is one that bindCommandExecutable has checked.
THEOREM ChecksExecuted == Spec => []ExecutesChecked
<1>1. IInv => ExecutesChecked
  BY DEF IInv, PinnedChecked, ExecutesChecked
<1> QED
  BY <1>1, Invariant, PTL
=============================================================================
