--------------------------- MODULE CommandSupervisor ---------------------------
(***************************************************************************)
(* runCommand (action/executor.go) and process_linux.go: one external      *)
(* command from the check of its context to its result, against the        *)
(* processes of the command, the kernel, the timeout and cancellation.     *)
(*                                                                         *)
(* External: the kernel and os/exec.  A descendant may leave the process   *)
(* group (setsid) and may keep the output pipe open.  cmd.Wait reaps the   *)
(* leader and then waits for the goroutine that copies the pipe until the  *)
(* end of file, at most for WaitDelay.  A number is given to another       *)
(* process when its process is reaped and its group is empty.              *)
(* The path is absolute: configuration validation refuses any other.       *)
(***************************************************************************)
EXTENDS BoundedOutput

CONSTANTS
    Child,         \* descendants of the command
    File,          \* files that may be found at the path of the command
    Executable,    \* those that are regular and executable
    NoFile,        \* nothing is open, or was executed
    Chunk,         \* sizes of writes
    MaxWritten     \* bound: bytes the command writes

ASSUME FilesAssumption == Executable \subseteq File /\ NoFile \notin File
ASSUME ChunkAssumption == Chunk \subseteq Nat /\ MaxWritten \in Nat

VARIABLES
    place,       \* where runCommand is
    ctx,         \* ctx.Err(): "live", "deadline" or "canceled"
    observed,    \* observeCommand has closed done
    refused,     \* terminateCommandGroup returned an error
    delayed,     \* cmd.Wait gave up the pipe after WaitDelay
    result,      \* what runCommand returned
    stats,       \* the outputStats it returned
    file,        \* the file at the path
    pinned,      \* the file bindCommandExecutable holds open
    image,       \* the file that was executed
    leader,      \* "none", "running", "zombie" or "reaped"
    status,      \* how the leader ended
    child,       \* child[c]: "none", in the "group", "loose" or "dead"
    pipe,        \* processes that hold the write end of the output pipe
    copier,      \* the goroutine of os/exec: "idle", "copying" or "ended"
    protected,   \* the kernel refuses signals to the group (EPERM)
    reused       \* the number of the leader belongs to another process

supervisor == <<place, refused, delayed, result, stats>>
processes == <<leader, status, child, pipe, reused>>
vars == <<supervisor, ctx, observed, file, pinned, image, processes, copier, protected, output>>

Leader == "leader"
Process == Child \cup {Leader}
NoStats == [total |-> 0, captured |-> 0, truncated |-> FALSE]
InGroup == {c \in Child : child[c] = "group"}

Init ==
    /\ place = "begin" /\ ctx \in {"live", "canceled"}
    /\ observed = FALSE /\ refused = FALSE /\ delayed = FALSE
    /\ result = "none" /\ stats = NoStats
    /\ file \in File /\ pinned = NoFile /\ image = NoFile
    /\ leader = "none" /\ status = "none"
    /\ child = [c \in Child |-> "none"]
    /\ pipe = {} /\ copier = "idle"
    /\ protected \in BOOLEAN /\ reused = FALSE
    /\ InitOutput

-----------------------------------------------------------------------------
(* The context, the file system, the processes of the command, the kernel *)

\* The shutdown cancels the parent context.
Cancel ==
    /\ place # "returned" /\ ctx = "live"
    /\ ctx' = "canceled"
    /\ UNCHANGED <<supervisor, observed, file, pinned, image, processes, copier, protected, output>>

\* The timeout of the action passes.
Deadline ==
    /\ place \notin {"begin", "returned"} /\ ctx = "live"
    /\ ctx' = "deadline"
    /\ UNCHANGED <<supervisor, observed, file, pinned, image, processes, copier, protected, output>>

\* Another file is put at the path.
Replace ==
    /\ place # "returned"
    /\ file' \in File \ {file}
    /\ UNCHANGED <<supervisor, ctx, observed, pinned, image, processes, copier, protected, output>>

\* A process p of the group starts c, which inherits the pipe.
Fork(p, c) ==
    /\ child[c] = "none"
    /\ (p = Leader /\ leader = "running") \/ p \in InGroup
    /\ child' = [child EXCEPT ![c] = "group"]
    /\ pipe' = IF p \in pipe THEN pipe \cup {c} ELSE pipe
    /\ UNCHANGED <<supervisor, ctx, observed, file, pinned, image, leader, status, reused,
                   copier, protected, output>>

\* setsid(2)
Escape(c) ==
    /\ child[c] = "group"
    /\ child' = [child EXCEPT ![c] = "loose"]
    /\ UNCHANGED <<supervisor, ctx, observed, file, pinned, image, leader, status, pipe, reused,
                   copier, protected, output>>

\* A process closes its output.
ClosePipe(p) ==
    /\ p \in pipe
    /\ pipe' = pipe \ {p}
    /\ UNCHANGED <<supervisor, ctx, observed, file, pinned, image, leader, status, child, reused,
                   copier, protected, output>>

ChildExit(c) ==
    /\ child[c] \in {"group", "loose"}
    /\ child' = [child EXCEPT ![c] = "dead"]
    /\ pipe' = pipe \ {c}
    /\ UNCHANGED <<supervisor, ctx, observed, file, pinned, image, leader, status, reused,
                   copier, protected, output>>

LeaderExit ==
    /\ leader = "running"
    /\ leader' = "zombie"
    /\ status' \in {"success", "failure"}
    /\ pipe' = pipe \ {Leader}
    /\ UNCHANGED <<supervisor, ctx, observed, file, pinned, image, child, reused,
                   copier, protected, output>>

\* The kernel gives the number of the leader to another process.
Reuse ==
    /\ leader = "reaped" /\ InGroup = {} /\ ~reused
    /\ reused' = TRUE
    /\ UNCHANGED <<supervisor, ctx, observed, file, pinned, image, leader, status, child, pipe,
                   copier, protected, output>>

\* The goroutine of os/exec passes bytes on; some may still be in the pipe when
\* its last writer has gone.
Copy(n) ==
    /\ copier = "copying" /\ written + n <= MaxWritten
    /\ Write(n)
    /\ UNCHANGED <<supervisor, ctx, observed, file, pinned, image, processes, copier, protected>>

EndOfFile ==
    /\ copier = "copying" /\ pipe = {}
    /\ copier' = "ended"
    /\ UNCHANGED <<supervisor, ctx, observed, file, pinned, image, processes, protected, output>>

-----------------------------------------------------------------------------
(* runCommand *)

\* Every return: the deferred closeExecutable.
Return(r, s) ==
    /\ place' = "returned"
    /\ result' = r
    /\ stats' = s
    /\ pinned' = NoFile
    /\ UNCHANGED <<refused, delayed>>

\* commandContextError
ContextError == IF ctx = "deadline" THEN "timeout" ELSE "canceled"

\* The context is checked before anything is opened.
Begin ==
    /\ place = "begin"
    /\ IF ctx = "live"
       THEN place' = "bind" /\ UNCHANGED <<refused, delayed, result, stats, pinned>>
       ELSE Return(ContextError, NoStats)
    /\ UNCHANGED <<ctx, observed, file, image, processes, copier, protected, output>>

\* bindCommandExecutable opens the file and checks what it opened.
Bind ==
    /\ place = "bind" /\ file \in Executable
    /\ pinned' = file
    /\ place' = "start"
    /\ UNCHANGED <<refused, delayed, result, stats, ctx, observed, file, image, processes,
                   copier, protected, output>>

\* The file cannot be opened or examined, or is no regular executable.
BindFails ==
    /\ place = "bind"
    /\ Return("start", NoStats)
    /\ UNCHANGED <<ctx, observed, file, image, processes, copier, protected, output>>

\* Mutant of Executed: cmd.Path stays the path of the configuration.
ExecutedByPath == file

\* cmd.Path is /proc/self/fd/N of the descriptor that was checked.
Executed == pinned

\* cmd.Start; the leader has a new process group (Setpgid).
Start ==
    /\ place = "start"
    /\ image' = Executed
    /\ leader' = "running" /\ pipe' = {Leader} /\ copier' = "copying"
    /\ place' = "select"
    /\ UNCHANGED <<refused, delayed, result, stats, ctx, observed, file, pinned, status, child,
                   reused, protected, output>>

StartFails ==
    /\ place = "start"
    /\ Return("start", Stats)
    /\ UNCHANGED <<ctx, observed, file, image, processes, copier, protected, output>>

\* Mutant of Seen: the observer reaps the leader (no WNOWAIT).
SeenAndReaped == "reaped"

\* waitid(WEXITED|WNOWAIT) leaves the leader a zombie, which keeps its number.
Seen == leader

\* observeCommand; an interrupted waitid is repeated, and it has no other error
\* for a child that only cmd.Wait reaps.
Observe ==
    /\ leader = "zombie" /\ ~observed
    /\ observed' = TRUE
    /\ leader' = Seen
    /\ UNCHANGED <<supervisor, ctx, file, pinned, image, status, child, pipe, reused,
                   copier, protected, output>>

\* The select: either ready case may be taken.
SelectDone ==
    /\ place = "select" /\ observed
    /\ place' = "reap"
    /\ UNCHANGED <<refused, delayed, result, stats, ctx, observed, file, pinned, image, processes,
                   copier, protected, output>>

SelectContext ==
    /\ place = "select" /\ ctx # "live"
    /\ place' = "term"
    /\ UNCHANGED <<refused, delayed, result, stats, ctx, observed, file, pinned, image, processes,
                   copier, protected, output>>

\* SIGTERM to the group: its processes may end, or not.  ESRCH is no error;
\* after any other error there is no SIGKILL.
Term ==
    /\ place = "term"
    /\ refused' = protected
    /\ place' = IF protected THEN "reapTerminated" ELSE "grace"
    /\ UNCHANGED <<delayed, result, stats, ctx, observed, file, pinned, image, processes,
                   copier, protected, output>>

\* The timer of commandTerminateGrace.
Grace ==
    /\ place = "grace"
    /\ place' = "kill"
    /\ UNCHANGED <<refused, delayed, result, stats, ctx, observed, file, pinned, image, processes,
                   copier, protected, output>>

\* Mutant of Killed: SIGKILL is sent to the leader alone.
KilledLeader == {}

\* kill(-pid): the descendants that receive SIGKILL.
Killed == InGroup

Kill ==
    /\ place = "kill"
    /\ leader' = IF leader = "running" THEN "zombie" ELSE leader
    /\ status' = IF leader = "running" THEN "failure" ELSE status
    /\ child' = [c \in Child |-> IF c \in Killed THEN "dead" ELSE child[c]]
    /\ pipe' = pipe \ (Killed \cup {Leader})
    /\ place' = "reapTerminated"
    /\ UNCHANGED <<refused, delayed, result, stats, ctx, observed, file, pinned, image, reused,
                   copier, protected, output>>

\* waiter.wait(): done is closed, and cmd.Wait reaps the leader.
Reap ==
    /\ place \in {"reap", "reapTerminated"} /\ observed
    /\ leader' = "reaped"
    /\ place' = IF place = "reap" THEN "drain" ELSE "drainTerminated"
    /\ UNCHANGED <<refused, delayed, result, stats, ctx, observed, file, pinned, image, status,
                   child, pipe, reused, copier, protected, output>>

\* Mutant of PipeTimer: WaitDelay is not set, and cmd.Wait waits for the end of file.
NoPipeTimer == FALSE

\* The timer of WaitDelay is running.
PipeTimer == place \in {"drain", "drainTerminated"} /\ copier = "copying"

\* It fires: os/exec closes its end of the pipe, which ends the copying.
WaitDelay ==
    /\ PipeTimer
    /\ copier' = "ended" /\ delayed' = TRUE
    /\ UNCHANGED <<place, refused, result, stats, ctx, observed, file, pinned, image, processes,
                   protected, output>>

\* Mutant of Outcome: the context is not checked again after Wait.
OutcomeOfWait == IF status = "failure" \/ delayed THEN "failed" ELSE "ok"

\* The context decides after Wait, then the exit status and ErrWaitDelay.
Outcome ==
    IF ctx # "live" THEN ContextError
    ELSE IF status = "failure" \/ delayed THEN "failed" ELSE "ok"

\* cmd.Wait returns; the output is read and the result determined.
Done ==
    /\ place = "drain" /\ copier = "ended"
    /\ Return(Outcome, Stats)
    /\ UNCHANGED <<ctx, observed, file, image, processes, copier, protected, output>>

\* The same after the termination, whose context error is the result.
DoneTerminated ==
    /\ place = "drainTerminated" /\ copier = "ended"
    /\ Return(ContextError, Stats)
    /\ UNCHANGED <<ctx, observed, file, image, processes, copier, protected, output>>

-----------------------------------------------------------------------------
Run ==
    \/ Begin \/ Bind \/ BindFails \/ Start \/ StartFails
    \/ SelectDone \/ SelectContext
    \/ Term \/ Grace \/ Kill \/ Reap \/ WaitDelay \/ Done \/ DoneTerminated

Next ==
    \/ Run \/ Observe
    \/ Cancel \/ Deadline \/ Replace \/ LeaderExit \/ Reuse \/ EndOfFile
    \/ \E n \in Chunk : Copy(n)
    \/ \E c \in Child : Escape(c) \/ ChildExit(c) \/ \E p \in Process : Fork(p, c)
    \/ \E p \in Process : ClosePipe(p)

Spec == Init /\ [][Next]_vars

\* Timers fire, and goroutines that can run go on.  Nothing is assumed of the
\* command and its descendants: they may run and keep the pipe for ever.
Fairness == WF_vars(Run) /\ WF_vars(Observe) /\ WF_vars(Deadline)

FairSpec == Spec /\ Fairness

-----------------------------------------------------------------------------
(* Properties *)

TypeOK ==
    /\ place \in {"begin", "bind", "start", "select", "term", "grace", "kill", "reap",
                  "reapTerminated", "drain", "drainTerminated", "returned"}
    /\ ctx \in {"live", "deadline", "canceled"}
    /\ observed \in BOOLEAN /\ refused \in BOOLEAN /\ delayed \in BOOLEAN
    /\ protected \in BOOLEAN /\ reused \in BOOLEAN
    /\ result \in {"none", "start", "timeout", "canceled", "failed", "ok"}
    /\ stats \in [total : 0..MaxTotal, captured : 0..Limit, truncated : BOOLEAN]
    /\ file \in File /\ pinned \in File \cup {NoFile} /\ image \in File \cup {NoFile}
    /\ leader \in {"none", "running", "zombie", "reaped"}
    /\ status \in {"none", "success", "failure"}
    /\ child \in [Child -> {"none", "group", "loose", "dead"}]
    /\ pipe \subseteq Process
    /\ copier \in {"idle", "copying", "ended"}
    /\ OutputTypeOK

\* SIGTERM and SIGKILL never reach another process: whenever the supervisor is
\* about to signal, the number still belongs to the command, although its
\* leader may have exited, and be observed, at any moment before.
SignalsOwnGroup == place \in {"term", "kill"} => ~reused

\* runCommand reports success only for a command that ended by itself with
\* success, whose whole output was read, and whose context was live to the end:
\* neither a race of exit with timeout or cancellation nor a descendant that
\* keeps the pipe is reported as success.
SuccessIsComplete ==
    result = "ok" => status = "success" /\ pipe = {} /\ ctx = "live"

\* The output is counted exactly, and the numbers that are reported are final:
\* nothing is written any more when they are read, also when the pipe was given
\* up with bytes in it.
OutputReported == OutputExact /\ (place = "returned" => stats = Stats)

\* After a termination that the kernel did not refuse nothing of the process
\* group is left, whatever was forked before or during the grace period.
GroupEnded == place \in {"reapTerminated", "drainTerminated"} /\ ~refused => InGroup = {}

\* What runs is a file that bindCommandExecutable found to be a regular
\* executable, although the path may name another file by then.
ExecutesChecked == image # NoFile => image \in Executable

\* runCommand returns, although the command may ignore SIGTERM, descendants may
\* escape and hold the pipe, and nobody cancels, unless signals are refused.
Returns == ~protected ~> place = "returned"
=============================================================================
