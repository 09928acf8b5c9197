---------------------------- MODULE DuplicateCache ----------------------------
(***************************************************************************)
(* The duplicate filter inside Controller.acceptMessage: a map from key to *)
(* the generation of its last admission, and a list of all admissions in   *)
(* order.  The list is cut to Size entries after every admission, and a    *)
(* key leaves the map only with the entry that carries its own generation. *)
(* Every action is one critical section of dedupeMu.                       *)
(***************************************************************************)
EXTENDS Integers, Sequences

CONSTANTS
    Key,      \* topic ":" packet identifier
    Size,     \* DuplicateCacheSize
    MaxSeq    \* bound: largest value of the uint64 dedupeSeq

ASSUME SizeAssumption == Size \in Nat \ {0}
ASSUME MaxSeqAssumption == MaxSeq \in Nat

VARIABLES
    dedupe,        \* key -> generation, a partial function on Key
    dedupeOrder,   \* admissions still listed, oldest first
    dedupeSeq,     \* generation of the last admission
    verdict        \* the last packet and whether it was admitted

vars == <<dedupe, dedupeOrder, dedupeSeq, verdict>>

Entry == [key : Key, generation : 1..MaxSeq]

Init ==
    /\ dedupe = << >>
    /\ dedupeOrder = << >>
    /\ dedupeSeq = 0
    /\ verdict = << >>

Seen(k) == k \in DOMAIN dedupe

\* Mutant of Excess: the bound of the loop is off by one.
ExcessOffByOne(order) == IF Len(order) > Size + 1 THEN Len(order) - Size ELSE 0

\* How many entries the loop "for len(dedupeOrder) > DuplicateCacheSize" drops.
Excess(order) == IF Len(order) > Size THEN Len(order) - Size ELSE 0

\* Mutant of Evict: the generation is ignored, a refreshed key is forgotten.
EvictIgnoringGeneration(map, order) ==
    LET stale == {k \in DOMAIN map : \E i \in 1..Excess(order) : order[i].key = k}
    IN  [k \in DOMAIN map \ stale |-> map[k]]

\* The map without the keys whose current generation is being dropped.
Evict(map, order) ==
    LET stale == {k \in DOMAIN map : \E i \in 1..Excess(order) :
                      order[i].key = k /\ order[i].generation = map[k]}
    IN  [k \in DOMAIN map \ stale |-> map[k]]

Trim(order) == SubSeq(order, Excess(order) + 1, Len(order))

\* The map with the generation of k set or refreshed.
Store(map, k, generation) ==
    [j \in DOMAIN map \cup {k} |-> IF j = k THEN generation ELSE map[j]]

\* Mutant of Repeated: the DUP flag is ignored, a reused identifier is refused.
RepeatedIgnoringFlag(k, dup) == Seen(k)

\* A retransmission of a known packet.
Repeated(k, dup) == dup /\ Seen(k)

\* A packet that is no retransmission, or one whose key is not known.
Admit(k, dup) ==
    /\ ~Repeated(k, dup)
    /\ dedupeSeq < MaxSeq
    /\ LET generation == dedupeSeq + 1
           order == Append(dedupeOrder, [key |-> k, generation |-> generation])
       IN  /\ dedupeSeq' = generation
           /\ dedupe' = Evict(Store(dedupe, k, generation), order)
           /\ dedupeOrder' = Trim(order)
    /\ verdict' = <<k, dup, TRUE>>

\* A retransmission of a known packet is refused and changes nothing.
Refuse(k, dup) ==
    /\ Repeated(k, dup)
    /\ verdict' = <<k, dup, FALSE>>
    /\ UNCHANGED <<dedupe, dedupeOrder, dedupeSeq>>

\* resetDedupe, the session handler of a new MQTT connection.
Reset ==
    /\ dedupe' = << >>
    /\ dedupeOrder' = << >>
    /\ dedupeSeq' = 0
    /\ verdict' = << >>

Next ==
    \/ \E k \in Key, dup \in BOOLEAN : Admit(k, dup) \/ Refuse(k, dup)
    \/ Reset

Spec == Init /\ [][Next]_vars

-----------------------------------------------------------------------------
(* Properties *)

\* Types, and the bound of the cache: acceptMessage never leaves more than
\* DuplicateCacheSize entries in dedupeOrder.
TypeOK ==
    /\ DOMAIN dedupe \subseteq Key
    /\ dedupe \in [DOMAIN dedupe -> 1..MaxSeq]
    /\ dedupeOrder \in Seq(Entry)
    /\ Len(dedupeOrder) <= Size
    /\ dedupeSeq \in 0..MaxSeq

\* Generations are handed out without gaps, so the list is sorted by age.
Dense ==
    \A i \in DOMAIN dedupeOrder :
        dedupeOrder[i].generation = dedupeSeq - Len(dedupeOrder) + i

\* Every listed key is in the map, with a generation at least as new.
ListedIsMapped ==
    \A i \in DOMAIN dedupeOrder :
        /\ dedupeOrder[i].key \in DOMAIN dedupe
        /\ dedupe[dedupeOrder[i].key] >= dedupeOrder[i].generation

\* Every key of the map is listed with its current generation: the eviction
\* loop that forgets list entries neither leaks a key of the map nor drops a
\* key that was refreshed by a reused packet identifier.
MappedIsListed ==
    \A k \in DOMAIN dedupe : \E i \in DOMAIN dedupeOrder :
        dedupeOrder[i].key = k /\ dedupeOrder[i].generation = dedupe[k]

\* The map and the list describe the same set of recent admissions, although
\* acceptMessage updates and evicts them separately.
CacheConsistent == Dense /\ ListedIsMapped /\ MappedIsListed

Window == INSTANCE DuplicateWindow
    WITH window <- [i \in DOMAIN dedupeOrder |-> dedupeOrder[i].key]

\* The map with generations decides as a sliding window over the last Size
\* admissions of the session does: acceptMessage refuses a DUP packet exactly
\* when one of those had its key.
ImplementsWindow == Window!Spec

=============================================================================
