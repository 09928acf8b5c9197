--------------------------- MODULE DuplicateWindow ---------------------------
(***************************************************************************)
(* What the duplicate filter of the controller promises: within one MQTT   *)
(* session a DUP packet is refused exactly when its key is among the keys  *)
(* of the last Size packets that were admitted.  Nothing is said about how *)
(* the keys are stored.                                                    *)
(***************************************************************************)
EXTENDS Naturals, Sequences

CONSTANTS
    Key,    \* topic ":" packet identifier
    Size    \* DuplicateCacheSize

VARIABLES
    window,   \* keys of the last Size admitted packets, oldest first
    verdict   \* the last packet and whether it was admitted, << >> before

vars == <<window, verdict>>

Init == window = << >> /\ verdict = << >>

InWindow(k) == \E i \in DOMAIN window : window[i] = k

\* The last Size elements of a sequence that is at most one longer than that.
Latest(s) == IF Len(s) > Size THEN Tail(s) ELSE s

Admit(k, dup) ==
    /\ ~(dup /\ InWindow(k))
    /\ window' = Latest(Append(window, k))
    /\ verdict' = <<k, dup, TRUE>>

Refuse(k, dup) ==
    /\ dup /\ InWindow(k)
    /\ verdict' = <<k, dup, FALSE>>
    /\ UNCHANGED window

\* A new clean session: packet identifiers start afresh.
Reset == window' = << >> /\ verdict' = << >>

Next ==
    \/ \E k \in Key, dup \in BOOLEAN : Admit(k, dup) \/ Refuse(k, dup)
    \/ Reset

Spec == Init /\ [][Next]_vars
=============================================================================
