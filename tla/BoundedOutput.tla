----------------------------- MODULE BoundedOutput -----------------------------
(***************************************************************************)
(* boundedOutput of action/executor.go: the shared standard output and     *)
(* error of a command.  At most Limit bytes are captured, the number of    *)
(* bytes saturates at MaxTotal.  One Write is one critical section of mu.  *)
(***************************************************************************)
EXTENDS Naturals

CONSTANTS
    Limit,       \* commandOutputLimit
    MaxTotal     \* math.MaxUint64

ASSUME OutputAssumption == Limit \in Nat /\ MaxTotal \in Nat /\ Limit < MaxTotal

VARIABLES
    total,       \* uint64: bytes written, saturated
    captured,    \* len(data)
    truncated,
    written      \* history: bytes written

output == <<total, captured, truncated, written>>

InitOutput == total = 0 /\ captured = 0 /\ truncated = FALSE /\ written = 0

AtMost(n, bound) == IF n > bound THEN bound ELSE n

\* Mutant of Saturated: the total wraps around as uint64 addition does.
Wrapped(n) == (total + n) % (MaxTotal + 1)

\* The total after n more bytes; nothing is added that could overflow.
Saturated(n) == IF MaxTotal - total < n THEN MaxTotal ELSE total + n

\* Mutant of Kept: the rest of the buffer is not considered.
KeptAll(n) == n

\* Bytes of a write of n that are captured.
Kept(n) == AtMost(n, Limit - captured)

\* Write of n bytes, which always reports that all of them were written.
Write(n) ==
    /\ total' = Saturated(n)
    /\ captured' = captured + Kept(n)
    /\ truncated' = (truncated \/ MaxTotal - total < n \/ n > Limit - captured)
    /\ written' = written + n

\* snapshot()
Stats == [total |-> total, captured |-> captured, truncated |-> truncated]

-----------------------------------------------------------------------------
OutputTypeOK ==
    /\ total \in 0..MaxTotal
    /\ captured \in 0..Limit
    /\ truncated \in BOOLEAN
    /\ written \in Nat

\* However the output is cut into writes, and although the number of bytes may
\* pass the largest 64-bit number, exactly the first Limit bytes are captured,
\* the total is right or saturated, and the flag says whether bytes are missing.
OutputExact ==
    /\ captured = AtMost(written, Limit)
    /\ total = AtMost(written, MaxTotal)
    /\ truncated <=> written > Limit
=============================================================================
