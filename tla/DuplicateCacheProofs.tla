------------------------- MODULE DuplicateCacheProofs -------------------------
(***************************************************************************)
(* The duplicate filter for every set of keys, every cache size and every  *)
(* session length: type correctness, the consistency of map and list, and  *)
(* the implementation of the sliding window.                               *)
(***************************************************************************)
EXTENDS DuplicateCache, TLAPS

IInv == TypeOK /\ CacheConsistent

\* Appending an entry and trimming shifts the list by the number of entries
\* dropped, which is at most one.
LEMMA TrimShape ==
    ASSUME NEW order \in Seq(Entry), Len(order) <= Size + 1
    PROVE  /\ Excess(order) \in {0, 1}
           /\ Excess(order) <= Len(order)
           /\ Trim(order) \in Seq(Entry)
           /\ Len(Trim(order)) = Len(order) - Excess(order)
           /\ Len(Trim(order)) <= Size
           /\ DOMAIN Trim(order) = 1..(Len(order) - Excess(order))
           /\ \A i \in 1..(Len(order) - Excess(order)) :
                  Trim(order)[i] = order[i + Excess(order)]
<1>1. /\ Size \in Nat \ {0}
      /\ Len(order) \in Nat
      /\ Excess(order) \in {0, 1}
      /\ Excess(order) <= Len(order)
      /\ Len(order) - Excess(order) <= Size
  BY SizeAssumption DEF Excess
<1>2. /\ Trim(order) \in Seq(Entry)
      /\ Len(Trim(order)) = Len(order) - Excess(order)
      /\ \A i \in 1..(Len(order) - Excess(order)) :
             Trim(order)[i] = order[i + Excess(order)]
  BY <1>1 DEF Trim
<1> QED BY <1>1, <1>2

\* The generation an admission of k leaves with key j.
Renewed(k, j) == IF j = k THEN dedupeSeq + 1 ELSE dedupe[j]

\* What an admission does to list and map: the new entry comes last; if the
\* list was full (x = 1) the oldest entry leaves it, and its key leaves the
\* map when the map still holds the generation of that entry.
Shifted(k, x) ==
    /\ x <= Len(dedupeOrder)
    /\ dedupeSeq' = dedupeSeq + 1
    /\ dedupeSeq' \in 1..MaxSeq
    /\ dedupeOrder' \in Seq(Entry)
    /\ Len(dedupeOrder') = Len(dedupeOrder) + 1 - x
    /\ Len(dedupeOrder') <= Size
    /\ x = 1 <=> Len(dedupeOrder) = Size
    /\ \A i \in 1..(Len(dedupeOrder) - x) : dedupeOrder'[i] = dedupeOrder[i + x]
    /\ dedupeOrder'[Len(dedupeOrder) + 1 - x] = [key |-> k, generation |-> dedupeSeq']
    /\ DOMAIN dedupe' = {j \in DOMAIN dedupe \cup {k} :
                            ~ /\ x = 1
                              /\ dedupeOrder[1].key = j
                              /\ dedupeOrder[1].generation = Renewed(k, j)}
    /\ dedupe' = [j \in DOMAIN dedupe' |-> Renewed(k, j)]

\* An admission has that effect, with x the number of entries dropped.
LEMMA AdmitShape ==
    ASSUME TypeOK, NEW k \in Key, NEW dup \in BOOLEAN, Admit(k, dup)
    PROVE  \E x \in {0, 1} : Shifted(k, x)
<1> DEFINE n == Len(dedupeOrder)
           new == [key |-> k, generation |-> dedupeSeq + 1]
           order == Append(dedupeOrder, new)
           x == Excess(order)
           map == Store(dedupe, k, dedupeSeq + 1)
<1>1. /\ n \in Nat /\ n <= Size
      /\ dedupeSeq' = dedupeSeq + 1
      /\ dedupeSeq' \in 1..MaxSeq
      /\ new \in Entry
  BY SizeAssumption, MaxSeqAssumption DEF TypeOK, Admit, Entry
<1>2. /\ order \in Seq(Entry)
      /\ Len(order) = n + 1
      /\ \A i \in 1..n : order[i] = dedupeOrder[i]
      /\ order[n + 1] = new
  BY <1>1 DEF TypeOK
<1>3. dedupeOrder' = Trim(order) /\ dedupe' = Evict(map, order)
  BY DEF Admit
<1>4. /\ x \in {0, 1}
      /\ x <= n
      /\ x = 1 <=> n = Size
  BY <1>1, <1>2, SizeAssumption DEF Excess
<1> HIDE DEF order, new, n
<1>5. /\ Trim(order) \in Seq(Entry)
      /\ Len(Trim(order)) = Len(order) - x
      /\ Len(Trim(order)) <= Size
      /\ \A i \in 1..(Len(order) - x) : Trim(order)[i] = order[i + x]
  BY <1>1, <1>2, TrimShape, SizeAssumption
<1> HIDE DEF x, map
<1>6. /\ Len(dedupeOrder') = n + 1 - x
      /\ Len(dedupeOrder') <= Size
      /\ dedupeOrder' \in Seq(Entry)
  BY <1>1, <1>2, <1>3, <1>4, <1>5
<1>7. \A i \in 1..(n - x) : dedupeOrder'[i] = dedupeOrder[i + x]
  BY <1>1, <1>2, <1>3, <1>4, <1>5
<1>8. dedupeOrder'[n + 1 - x] = [key |-> k, generation |-> dedupeSeq']
  <2>1. n + 1 - x \in 1..(Len(order) - x) /\ (n + 1 - x) + x = n + 1
    BY <1>1, <1>2, <1>4
  <2>2. dedupeOrder'[n + 1 - x] = order[n + 1]
    BY <2>1, <1>3, <1>5
  <2> QED BY <2>2, <1>2, <1>1 DEF new
<1>9. /\ DOMAIN map = DOMAIN dedupe \cup {k}
      /\ \A j \in DOMAIN map : map[j] = Renewed(k, j)
  BY DEF map, Store, Renewed
<1>10. \A j : (\E i \in 1..x : order[i].key = j /\ order[i].generation = Renewed(k, j))
              <=> /\ x = 1
                  /\ dedupeOrder[1].key = j
                  /\ dedupeOrder[1].generation = Renewed(k, j)
  <2>1. CASE x = 0
    BY <2>1
  <2>2. CASE x = 1
    <3>1. order[1] = dedupeOrder[1] /\ 1..x = {1}
      BY <1>1, <1>2, <1>4, <2>2
    <3> QED BY <3>1, <2>2
  <2> QED BY <1>4, <2>1, <2>2
<1>11. /\ DOMAIN dedupe' = {j \in DOMAIN map :
                               ~\E i \in 1..x : order[i].key = j /\ order[i].generation = map[j]}
       /\ dedupe' = [j \in DOMAIN dedupe' |-> map[j]]
  BY <1>3 DEF Evict, x
<1>12. DOMAIN dedupe' = {j \in DOMAIN dedupe \cup {k} :
                            ~ /\ x = 1
                              /\ dedupeOrder[1].key = j
                              /\ dedupeOrder[1].generation = Renewed(k, j)}
  BY <1>9, <1>10, <1>11
<1>13. dedupe' = [j \in DOMAIN dedupe' |-> Renewed(k, j)]
  BY <1>9, <1>11
<1> QED BY <1>1, <1>4, <1>6, <1>7, <1>8, <1>12, <1>13 DEF n, Shifted

\* An admission keeps types, bounds and the agreement of map and list.
LEMMA AdmitPreserves ==
    ASSUME IInv, NEW k \in Key, NEW dup \in BOOLEAN, Admit(k, dup)
    PROVE  IInv'
<1> USE SizeAssumption, MaxSeqAssumption
<1> DEFINE n == Len(dedupeOrder)
<1>0. PICK x \in {0, 1} : Shifted(k, x)
  BY AdmitShape DEF IInv
<1>1. /\ x <= n
      /\ dedupeSeq' = dedupeSeq + 1
      /\ dedupeSeq' \in 1..MaxSeq
      /\ dedupeOrder' \in Seq(Entry)
      /\ Len(dedupeOrder') = n + 1 - x
      /\ Len(dedupeOrder') <= Size
      /\ x = 1 <=> n = Size
      /\ \A i \in 1..(n - x) : dedupeOrder'[i] = dedupeOrder[i + x]
      /\ dedupeOrder'[n + 1 - x] = [key |-> k, generation |-> dedupeSeq']
      /\ DOMAIN dedupe' = {j \in DOMAIN dedupe \cup {k} :
                              ~ /\ x = 1
                                /\ dedupeOrder[1].key = j
                                /\ dedupeOrder[1].generation = Renewed(k, j)}
      /\ dedupe' = [j \in DOMAIN dedupe' |-> Renewed(k, j)]
  BY <1>0 DEF Shifted
<1>2. /\ n \in Nat
      /\ dedupeSeq \in Nat
      /\ DOMAIN dedupeOrder = 1..n
      /\ DOMAIN dedupeOrder' = 1..(n + 1 - x)
      /\ \A i \in 1..n : dedupeOrder[i] \in Entry
      /\ \A i \in 1..n : dedupeOrder[i].generation \in 1..dedupeSeq
      /\ \A j \in DOMAIN dedupe : dedupe[j] \in 1..dedupeSeq
  <2>1. /\ n \in Nat
        /\ dedupeSeq \in Nat
        /\ DOMAIN dedupeOrder = 1..n
        /\ DOMAIN dedupeOrder' = 1..(n + 1 - x)
        /\ \A i \in 1..n : dedupeOrder[i] \in Entry
    BY <1>1 DEF IInv, TypeOK
  <2>2. \A i \in 1..n : dedupeOrder[i].generation \in 1..dedupeSeq
    BY <2>1 DEF IInv, CacheConsistent, Dense, Entry
  <2> QED BY <2>1, <2>2 DEF IInv, CacheConsistent, MappedIsListed
<1> HIDE DEF n
<1>3. TypeOK'
  <2>1. DOMAIN dedupe' \subseteq Key
    BY <1>1 DEF IInv, TypeOK
  <2>2. \A j \in DOMAIN dedupe' : dedupe'[j] \in 1..MaxSeq
    BY <1>1, <1>2 DEF Renewed
  <2> QED BY <1>1, <2>1, <2>2 DEF TypeOK
<1>4. Dense'
  <2> SUFFICES ASSUME NEW i \in 1..(n + 1 - x)
               PROVE  dedupeOrder'[i].generation = dedupeSeq' - (n + 1 - x) + i
    BY <1>1, <1>2 DEF Dense
  <2>1. CASE i = n + 1 - x
    BY <1>1, <1>2, <2>1
  <2>2. CASE i \in 1..(n - x)
    <3>1. i + x \in 1..n /\ dedupeOrder'[i] = dedupeOrder[i + x]
      BY <1>1, <1>2, <2>2
    <3>2. dedupeOrder[i + x].generation = dedupeSeq - n + (i + x)
      BY <3>1, <1>2 DEF IInv, CacheConsistent, Dense, n
    <3> QED BY <1>1, <1>2, <3>1, <3>2
  <2> QED BY <1>1, <1>2, <2>1, <2>2
<1>5. ListedIsMapped'
  <2> SUFFICES ASSUME NEW i \in 1..(n + 1 - x)
               PROVE  /\ dedupeOrder'[i].key \in DOMAIN dedupe'
                      /\ dedupe'[dedupeOrder'[i].key] >= dedupeOrder'[i].generation
    BY <1>1, <1>2 DEF ListedIsMapped
  <2>1. CASE i = n + 1 - x
    <3>1. Renewed(k, k) = dedupeSeq'
      BY <1>1 DEF Renewed
    <3>2. k \in DOMAIN dedupe'
      <4>1. x = 1 => dedupeOrder[1].generation <= dedupeSeq
        BY <1>1, <1>2
      <4> QED BY <1>1, <1>2, <3>1, <4>1
    <3> QED BY <1>1, <1>2, <2>1, <3>1, <3>2
  <2>2. CASE i \in 1..(n - x)
    <3> DEFINE j == dedupeOrder[i + x].key
    <3>1. i + x \in 1..n /\ dedupeOrder'[i] = dedupeOrder[i + x]
      BY <1>1, <1>2, <2>2
    <3>2. /\ j \in DOMAIN dedupe
          /\ dedupe[j] >= dedupeOrder[i + x].generation
      BY <3>1, <1>2 DEF IInv, CacheConsistent, ListedIsMapped
    <3>3. dedupeOrder[i + x].generation = dedupeSeq - n + (i + x)
      BY <3>1, <1>2 DEF IInv, CacheConsistent, Dense, n
    <3>4. Renewed(k, j) >= dedupeOrder[i + x].generation /\ Renewed(k, j) \in Nat
      BY <1>2, <3>1, <3>2, <3>3 DEF Renewed
    <3>5. x = 1 => dedupeOrder[1].generation < Renewed(k, j)
      <4> SUFFICES ASSUME x = 1 PROVE dedupeOrder[1].generation < Renewed(k, j)
        OBVIOUS
      <4>1. 1 \in 1..n
        BY <1>1, <1>2
      <4>2. dedupeOrder[1].generation = dedupeSeq - n + 1
        BY <4>1, <1>2 DEF IInv, CacheConsistent, Dense, n
      <4> QED BY <1>2, <3>1, <3>3, <3>4, <4>1, <4>2
    <3>6. j \in DOMAIN dedupe'
      BY <1>1, <1>2, <3>2, <3>4, <3>5
    <3> QED BY <1>1, <3>1, <3>4, <3>6
  <2> QED BY <1>1, <1>2, <2>1, <2>2
<1>6. MappedIsListed'
  <2> SUFFICES ASSUME NEW j \in DOMAIN dedupe'
               PROVE  \E i \in 1..(n + 1 - x) :
                          /\ dedupeOrder'[i].key = j
                          /\ dedupeOrder'[i].generation = Renewed(k, j)
    BY <1>1, <1>2 DEF MappedIsListed
  <2>1. CASE j = k
    <3>1. n + 1 - x \in 1..(n + 1 - x)
      BY <1>1, <1>2
    <3> QED BY <1>1, <2>1, <3>1 DEF Renewed
  <2>2. CASE j # k
    <3>1. j \in DOMAIN dedupe /\ Renewed(k, j) = dedupe[j]
      BY <1>1, <2>2 DEF Renewed
    <3>2. PICK i \in 1..n : dedupeOrder[i].key = j /\ dedupeOrder[i].generation = dedupe[j]
      BY <3>1, <1>2 DEF IInv, CacheConsistent, MappedIsListed
    <3>3. x = 1 => i # 1
      BY <1>1, <3>1, <3>2
    <3>4. i - x \in 1..(n - x) /\ (i - x) + x = i
      BY <1>1, <1>2, <3>2, <3>3
    <3>5. dedupeOrder'[i - x] = dedupeOrder[i]
      BY <1>1, <3>4
    <3>6. i - x \in 1..(n + 1 - x)
      BY <1>1, <1>2, <3>4
    <3> QED BY <3>1, <3>2, <3>5, <3>6
  <2> QED BY <2>1, <2>2
<1> QED BY <1>3, <1>4, <1>5, <1>6 DEF IInv, CacheConsistent

-----------------------------------------------------------------------------
\* The inductive invariant: types, the bound of the list, and the agreement of
\* map and list, after any sequence of packets and session resets.
LEMMA Invariance == Spec => []IInv
<1>1. Init => IInv
  BY SizeAssumption, MaxSeqAssumption
  DEF Init, IInv, TypeOK, CacheConsistent, Dense, ListedIsMapped, MappedIsListed
<1>2. IInv /\ [Next]_vars => IInv'
  <2> SUFFICES ASSUME IInv, [Next]_vars PROVE IInv'
    OBVIOUS
  <2>1. ASSUME NEW k \in Key, NEW dup \in BOOLEAN, Admit(k, dup) PROVE IInv'
    BY <2>1, AdmitPreserves
  <2>2. ASSUME NEW k \in Key, NEW dup \in BOOLEAN, Refuse(k, dup) PROVE IInv'
    BY <2>2
    DEF Refuse, IInv, TypeOK, CacheConsistent, Dense, ListedIsMapped, MappedIsListed
  <2>3. CASE Reset
    BY <2>3, SizeAssumption, MaxSeqAssumption
    DEF Reset, IInv, TypeOK, CacheConsistent, Dense, ListedIsMapped, MappedIsListed
  <2>4. CASE UNCHANGED vars
    BY <2>4
    DEF vars, IInv, TypeOK, CacheConsistent, Dense, ListedIsMapped, MappedIsListed
  <2> QED BY <2>1, <2>2, <2>3, <2>4 DEF Next
<1> QED BY <1>1, <1>2, PTL DEF Spec

\* acceptMessage keeps the cache well typed and never above its size.
THEOREM TypeCorrect == Spec => []TypeOK
<1>1. IInv => TypeOK
  BY DEF IInv
<1> QED BY <1>1, Invariance, PTL

\* The map and the list of admissions never disagree: the eviction loop of
\* acceptMessage neither leaks nor loses a key.
THEOREM Consistent == Spec => []CacheConsistent
<1>1. IInv => CacheConsistent
  BY DEF IInv
<1> QED BY <1>1, Invariance, PTL

\* A key is in the map exactly when it is in the window of listed keys.
LEMMA SeenIsInWindow ==
    ASSUME IInv, NEW k \in Key
    PROVE  Seen(k) <=> Window!InWindow(k)
BY DEF IInv, CacheConsistent, ListedIsMapped, MappedIsListed, Seen, Window!InWindow

\* The window the list stands for.
Keys == [i \in DOMAIN dedupeOrder |-> dedupeOrder[i].key]

\* A function on 1..m is a sequence of length m.
LEMMA FunctionIsSeq ==
    ASSUME NEW S, NEW m \in Nat, NEW f \in [1..m -> S]
    PROVE  f \in Seq(S) /\ Len(f) = m
OBVIOUS

\* An admission slides the window by one key.
LEMMA AdmitSlides ==
    ASSUME IInv, NEW k \in Key, NEW dup \in BOOLEAN, Admit(k, dup)
    PROVE  Keys' = Window!Latest(Append(Keys, k))
<1> USE SizeAssumption
<1> DEFINE n == Len(dedupeOrder)
<1>1. PICK x \in {0, 1} : Shifted(k, x)
  BY AdmitShape DEF IInv
<1>2. /\ n \in Nat /\ n <= Size /\ x <= n
      /\ DOMAIN dedupeOrder = 1..n
      /\ DOMAIN dedupeOrder' = 1..(n + 1 - x)
      /\ x = 1 <=> n = Size
      /\ \A i \in 1..n : dedupeOrder[i].key \in Key
      /\ \A i \in 1..(n - x) : dedupeOrder'[i].key = dedupeOrder[i + x].key
      /\ dedupeOrder'[n + 1 - x].key = k
  <2>1. /\ n \in Nat /\ n <= Size /\ x <= n
        /\ DOMAIN dedupeOrder = 1..n
        /\ DOMAIN dedupeOrder' = 1..(n + 1 - x)
        /\ x = 1 <=> n = Size
    BY <1>1 DEF Shifted, IInv, TypeOK
  <2>2. \A i \in 1..n : dedupeOrder[i] \in Entry
    BY <2>1 DEF IInv, TypeOK
  <2>3. /\ \A i \in 1..(n - x) : dedupeOrder'[i].key = dedupeOrder[i + x].key
        /\ dedupeOrder'[n + 1 - x].key = k
    BY <1>1 DEF Shifted
  <2> QED BY <2>1, <2>2, <2>3 DEF Entry
<1> HIDE DEF n
<1> DEFINE longer == Append(Keys, k)
<1>3. /\ Keys \in Seq(Key)
      /\ Len(Keys) = n
      /\ \A i \in 1..n : Keys[i] = dedupeOrder[i].key
  <2>1. Keys \in [1..n -> Key]
    BY <1>2 DEF Keys
  <2> QED BY <1>2, <2>1, FunctionIsSeq DEF Keys
<1>4. /\ Keys' \in Seq(Key)
      /\ Len(Keys') = n + 1 - x
      /\ \A i \in 1..(n + 1 - x) : Keys'[i] = dedupeOrder'[i].key
  <2>1. \A i \in 1..(n + 1 - x) : dedupeOrder'[i].key \in Key
    BY <1>2
  <2>2. Keys' \in [1..(n + 1 - x) -> Key] /\ n + 1 - x \in Nat
    BY <1>2, <2>1 DEF Keys
  <2> QED BY <1>2, <2>2, FunctionIsSeq DEF Keys
<1>5. /\ longer \in Seq(Key)
      /\ Len(longer) = n + 1
      /\ \A i \in 1..n : longer[i] = dedupeOrder[i].key
      /\ longer[n + 1] = k
  BY <1>2, <1>3
<1> HIDE DEF longer
<1>6. CASE x = 0
  <2>1. Window!Latest(longer) = longer
    BY <1>2, <1>5, <1>6 DEF Window!Latest
  <2> QED BY <1>2, <1>4, <1>5, <1>6, <2>1 DEF longer
<1>7. CASE x = 1
  <2>1. Window!Latest(longer) = Tail(longer)
    BY <1>2, <1>5, <1>7 DEF Window!Latest
  <2>2. /\ Tail(longer) \in Seq(Key)
        /\ Len(Tail(longer)) = n
        /\ \A i \in 1..n : Tail(longer)[i] = longer[i + 1]
    BY <1>2, <1>5
  <2>3. \A i \in 1..n : Tail(longer)[i] = Keys'[i]
    BY <1>2, <1>4, <1>5, <1>7, <2>2
  <2> QED BY <1>2, <1>4, <1>7, <2>1, <2>2, <2>3 DEF longer
<1> QED BY <1>6, <1>7

\* The filter of acceptMessage implements the sliding window: for every cache
\* size a DUP packet is refused exactly when its key is among the keys of the
\* last Size admissions of the session.
THEOREM Implements == Spec => ImplementsWindow
<1>1. Init => Window!Init
  BY DEF Init, Window!Init
<1>2. IInv /\ [Next]_vars => [Window!Next]_Window!vars
  <2> SUFFICES ASSUME IInv, [Next]_vars PROVE [Window!Next]_Window!vars
    OBVIOUS
  <2>1. ASSUME NEW k \in Key, NEW dup \in BOOLEAN, Admit(k, dup)
        PROVE  Window!Admit(k, dup)
    BY <2>1, SeenIsInWindow, AdmitSlides DEF Admit, Repeated, Window!Admit, Keys
  <2>2. ASSUME NEW k \in Key, NEW dup \in BOOLEAN, Refuse(k, dup)
        PROVE  Window!Refuse(k, dup)
    BY <2>2, SeenIsInWindow DEF Refuse, Repeated, Window!Refuse
  <2>3. CASE Reset
    BY <2>3 DEF Reset, Window!Next, Window!Reset
  <2>4. CASE UNCHANGED vars
    BY <2>4 DEF vars, Window!vars
  <2> QED BY <2>1, <2>2, <2>3, <2>4 DEF Next, Window!Next
<1> QED BY <1>1, <1>2, Invariance, PTL DEF Spec, ImplementsWindow, Window!Spec
=============================================================================
