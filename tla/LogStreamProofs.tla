--------------------------- MODULE LogStreamProofs --------------------------
(* Proofs about the ring of the log stream, for any number of threads, any  *)
(* capacity and any bound on the lines: every variable keeps its type, and  *)
(* the ring is a bounded log.                                               *)
EXTENDS LogTools, DataLemmas

------------------------------------------------------------------------------
(* Index arithmetic modulo Capacity, for arguments below twice Capacity.    *)

\* Below Capacity the remainder is the number itself; past it, one turn less.
LEMMA ModOnce ==
  ASSUME NEW k \in Nat, k < 2 * Capacity
  PROVE  k % Capacity = IF k < Capacity THEN k ELSE k - Capacity
  <1>1. Capacity \in Nat /\ Capacity > 0
    BY CapacityAssumption
  <1>2. CASE k < Capacity
    BY <1>1, <1>2, SMT
  <1>3. CASE k >= Capacity
    <2>1. (k - Capacity) \in 0 .. Capacity - 1
      BY <1>1, <1>3, SMT
    <2>2. k = 1 * Capacity + (k - Capacity)
      BY <1>1, SMT
    <2> QED BY <1>1, <2>1, <2>2, <1>3, SMT
  <1> QED BY <1>1, <1>2, <1>3, SMT

\* The next slot is a slot.
LEMMA NextHeadIsSlot ==
  ASSUME head \in Slots
  PROVE  /\ NextHead \in Slots
         /\ NextHead = IF head + 1 < Capacity THEN head + 1 ELSE 0
  <1>1. Capacity \in Nat /\ Capacity > 0 /\ head \in 0 .. Capacity - 1
    BY CapacityAssumption DEF Slots
  <1>2. (head + 1) % Capacity = IF head + 1 < Capacity THEN head + 1 ELSE head + 1 - Capacity
    BY <1>1, ModOnce
  <1> QED BY <1>1, <1>2 DEF NextHead, Slots

------------------------------------------------------------------------------
(* Every variable keeps its type, the indices their relation.               *)

\* The ring after an append: what is valid was written, and a ring that is
\* not full was filled from slot 0.
LEMMA AppendKeepsRing ==
  ASSUME TypeOK, NEW t \in Threads, AppendEntry(t)
  PROVE  /\ entries' \in [Slots -> Entry \cup {Blank}]
         /\ head' \in Slots /\ count' \in 0 .. Capacity
         /\ count' < Capacity => head' = count'
         /\ \A i \in Slots : i < count' => entries'[i] \in Entry
  <1> DEFINE e == newEntry[t]
  <1>1. /\ Capacity \in Nat /\ Capacity > 0
        /\ head \in Slots /\ head \in 0 .. Capacity - 1 /\ count \in 0 .. Capacity
        /\ count < Capacity => head = count
        /\ entries \in [Slots -> Entry \cup {Blank}]
        /\ \A i \in Slots : i < count => entries[i] \in Entry
        /\ e \in Entry
    BY CapacityAssumption DEF TypeOK, Slots, AppendEntry
  <1>2. /\ entries' = [entries EXCEPT ![head] = e]
        /\ head' = NextHead
        /\ count' = IF count < Capacity THEN count + 1 ELSE count
    BY DEF AppendEntry
  <1>3. /\ head' \in Slots
        /\ head' = IF head + 1 < Capacity THEN head + 1 ELSE 0
    BY <1>1, <1>2, NextHeadIsSlot
  <1>4. entries' \in [Slots -> Entry \cup {Blank}]
    BY <1>1, <1>2
  <1>5. count' \in 0 .. Capacity /\ (count' < Capacity => head' = count')
    BY <1>1, <1>2, <1>3
  <1>6. ASSUME NEW i \in Slots, i < count'
        PROVE  entries'[i] \in Entry
    <2>1. CASE i = head
      BY <2>1, <1>1, <1>2
    <2>2. CASE i # head
      <3>1. i < count
        BY <2>2, <1>1, <1>2, <1>6 DEF Slots
      <3> QED BY <3>1, <2>2, <1>1, <1>2
    <2> QED BY <2>1, <2>2
  <1> QED BY <1>3, <1>4, <1>5, <1>6

\* TypeOK is inductive.
THEOREM TypeCorrect == Spec => []TypeOK
  <1>1. Init => TypeOK
    <2> SUFFICES ASSUME Init PROVE TypeOK
      OBVIOUS
    <2>1. Capacity \in Nat /\ Capacity > 0 /\ MaxEntries \in Nat
      BY CapacityAssumption, MaxEntriesAssumption
    <2>2. /\ entries \in [Slots -> Entry \cup {Blank}]
          /\ observed \in [Categories -> Nat]
          /\ step \in [Threads -> {"idle", "stamp", "append"}]
          /\ newEntry \in [Threads -> Entry \cup {Blank}]
      BY DEF Init
    <2>5. \A t \in Threads : step[t] # "append"
      BY DEF Init
    <2>3. /\ head \in Slots /\ count \in 0 .. Capacity /\ head = count
          /\ totalObserved \in 0 .. MaxEntries /\ clock \in 0 .. MaxEntries
      BY <2>1 DEF Init, Slots
    <2>6. attached \in BOOLEAN
      BY DEF Init
    <2>4. \A i \in Slots : ~(i < count)
      BY <2>1 DEF Init, Slots
    <2> QED BY <2>2, <2>3, <2>4, <2>5, <2>6 DEF TypeOK
  <1>2. TypeOK /\ [Next]_vars => TypeOK'
    <2> SUFFICES ASSUME TypeOK, [Next]_vars PROVE TypeOK'
      OBVIOUS
    <2> USE DEF vars, ring, devVars, thrVars
    <2>1. CASE Attach
      BY <2>1 DEF Attach, TypeOK
    <2>2. CASE Detach
      BY <2>2 DEF Detach, TypeOK
    <2>3. CASE Clear
      <3>1. Capacity \in Nat /\ Capacity > 0
        BY CapacityAssumption
      <3>2. /\ head' = 0 /\ count' = 0
            /\ UNCHANGED <<entries, totalObserved, observed, devVars, thrVars>>
        BY <2>3 DEF Clear, ResetRing
      <3>3. head' \in Slots /\ count' \in 0 .. Capacity
        BY <3>1, <3>2 DEF Slots
      <3>4. \A i \in Slots : ~(i < count')
        BY <3>1, <3>2 DEF Slots
      <3> QED BY <3>2, <3>3, <3>4 DEF TypeOK
    <2>4. ASSUME NEW t \in Threads, CountLine(t) PROVE TypeOK'
      <3>1. totalObserved' \in 0 .. MaxEntries
        BY <2>4, MaxEntriesAssumption DEF CountLine, TypeOK
      <3>2. step' \in [Threads -> {"idle", "stamp", "append"}]
        BY <2>4 DEF CountLine, TypeOK
      <3>3. \A u \in Threads : step'[u] = "append" => newEntry'[u] \in Entry
        BY <2>4 DEF CountLine, TypeOK
      <3> QED BY <2>4, <3>1, <3>2, <3>3 DEF CountLine, TypeOK
    <2>5. ASSUME NEW t \in Threads, BuildEntry(t) PROVE TypeOK'
      <3>1. PICK c \in Categories :
              newEntry' = [newEntry EXCEPT ![t] =
                             [by |-> t, stamp |-> clock', category |-> c]]
        BY <2>5 DEF BuildEntry
      <3>2. clock' \in 0 .. MaxEntries /\ clock' \in 1 .. MaxEntries
        BY <2>5, MaxEntriesAssumption DEF BuildEntry, TypeOK
      <3>3. [by |-> t, stamp |-> clock', category |-> c] \in Entry
        BY <3>2 DEF Entry
      <3>4. newEntry' \in [Threads -> Entry \cup {Blank}]
        BY <3>1, <3>3 DEF TypeOK
      <3>5. /\ step' = [step EXCEPT ![t] = "append"]
            /\ UNCHANGED <<ring, totalObserved, observed, attached>>
        BY <2>5 DEF BuildEntry
      <3>6. step' \in [Threads -> {"idle", "stamp", "append"}]
        BY <3>5 DEF TypeOK
      <3>7. ASSUME NEW u \in Threads, step'[u] = "append"
            PROVE  newEntry'[u] \in Entry
        <4>1. CASE u = t
          BY <4>1, <3>1, <3>3 DEF TypeOK
        <4>2. CASE u # t
          BY <4>2, <3>1, <3>5, <3>7 DEF TypeOK
        <4> QED BY <4>1, <4>2
      <3> QED BY <3>2, <3>4, <3>5, <3>6, <3>7 DEF TypeOK
    <2>6. ASSUME NEW t \in Threads, AppendEntry(t) PROVE TypeOK'
      <3>1. /\ entries' \in [Slots -> Entry \cup {Blank}]
            /\ head' \in Slots /\ count' \in 0 .. Capacity
            /\ count' < Capacity => head' = count'
            /\ \A i \in Slots : i < count' => entries'[i] \in Entry
        BY <2>6, AppendKeepsRing
      <3>2. observed' \in [Categories -> Nat]
        <4>1. newEntry[t] \in Entry /\ observed \in [Categories -> Nat]
          BY <2>6 DEF AppendEntry, TypeOK
        <4>2. newEntry[t].category \in Categories
          BY <4>1 DEF Entry
        <4>3. observed' = [observed EXCEPT ![newEntry[t].category] = @ + 1]
          BY <2>6 DEF AppendEntry
        <4> QED BY <4>1, <4>2, <4>3
      <3>3. /\ step' = [step EXCEPT ![t] = "idle"]
            /\ UNCHANGED <<totalObserved, attached, clock, newEntry>>
        BY <2>6 DEF AppendEntry
      <3>4. step' \in [Threads -> {"idle", "stamp", "append"}]
        BY <3>3 DEF TypeOK
      <3>5. \A u \in Threads : step'[u] = "append" => newEntry'[u] \in Entry
        BY <3>3 DEF TypeOK
      <3> QED BY <3>1, <3>2, <3>3, <3>4, <3>5 DEF TypeOK
    <2>7. CASE UNCHANGED vars
      BY <2>7 DEF TypeOK
    <2> QED BY <2>1, <2>2, <2>3, <2>4, <2>5, <2>6, <2>7 DEF Next, Serialize
  <1> QED BY <1>1, <1>2, PTL DEF Spec

------------------------------------------------------------------------------
(* The ring is a log that remembers the last Capacity entries.              *)

\* Where the i-th entry of the ring is.
Place(first, i) ==
  IF first + i - 1 < Capacity THEN first + i - 1 ELSE first + i - 1 - Capacity

\* Reading the ring needs no remainder.
LEMMA ReadRingAt ==
  ASSUME NEW slots, NEW first \in Slots, NEW n \in 0 .. Capacity, NEW i \in 1 .. n
  PROVE  /\ ReadRing(slots, first, n)[i] = slots[Place(first, i)]
         /\ Place(first, i) \in Slots
  <1>1. Capacity \in Nat /\ Capacity > 0 /\ first \in 0 .. Capacity - 1
    BY CapacityAssumption DEF Slots
  <1>2. first + i - 1 \in Nat /\ first + i - 1 < 2 * Capacity
    BY <1>1
  <1>3. \A k \in Nat : k < 2 * Capacity =>
          k % Capacity = IF k < Capacity THEN k ELSE k - Capacity
    BY ModOnce
  <1>4. (first + i - 1) % Capacity = Place(first, i)
    BY <1>1, <1>2, <1>3, SMT DEF Place
  <1>5. Place(first, i) \in Slots
    BY <1>1, <1>2 DEF Place, Slots
  <1> QED BY <1>1, <1>4, <1>5 DEF ReadRing

\* A ring whose valid slots were written, read from its oldest entry, is a
\* sequence of entries.
LEMMA RingIsLog ==
  ASSUME NEW slots, NEW first \in Slots, NEW n \in 0 .. Capacity,
         n = Capacity \/ first = 0,
         \A i \in Slots : i < n => slots[i] \in Entry
  PROVE  /\ ReadRing(slots, first, n) \in Seq(Entry)
         /\ Len(ReadRing(slots, first, n)) = n
  <1>1. Capacity \in Nat /\ Capacity > 0
    BY CapacityAssumption
  <1>2. ASSUME NEW i \in 1 .. n
        PROVE  ReadRing(slots, first, n)[i] \in Entry
    <2>1. /\ ReadRing(slots, first, n)[i] = slots[Place(first, i)]
          /\ Place(first, i) \in Slots
      BY ReadRingAt
    <2>2. Place(first, i) < n
      BY <1>1, <2>1 DEF Place, Slots
    <2> QED BY <2>1, <2>2
  <1>3. ReadRing(slots, first, n) \in [1 .. n -> Entry]
    BY <1>2 DEF ReadRing
  <1> QED BY <1>1, <1>3

\* The ring of a typed state is a sequence of entries.
LEMMA WindowIsLog ==
  ASSUME TypeOK
  PROVE  /\ Window \in Seq(Entry) /\ Len(Window) = count
         /\ Oldest \in Slots /\ (count = Capacity \/ Oldest = 0)
  <1>1. /\ Capacity \in Nat /\ Capacity > 0 /\ head \in Slots /\ count \in 0 .. Capacity
        /\ \A i \in Slots : i < count => entries[i] \in Entry
    BY CapacityAssumption DEF TypeOK
  <1>2. Oldest \in Slots /\ (count = Capacity \/ Oldest = 0)
    BY <1>1 DEF Oldest, Slots
  <1> QED BY <1>1, <1>2, RingIsLog DEF Window

\* An append adds the entry at the end and, if the ring was full, drops the
\* first one.
LEMMA AppendRemembers ==
  ASSUME TypeOK, NEW t \in Threads, AppendEntry(t)
  PROVE  Bounded!Remember(newEntry[t])
  <1> DEFINE e == newEntry[t]
             n == count'
             first == IF count' = Capacity THEN head' ELSE 0
             W == ReadRing(entries', first, n)
  <1>1. /\ Capacity \in Nat /\ Capacity > 0
        /\ head \in 0 .. Capacity - 1 /\ count \in 0 .. Capacity
        /\ count < Capacity => head = count
        /\ entries \in [Slots -> Entry \cup {Blank}]
        /\ e \in Entry
    BY CapacityAssumption DEF TypeOK, Slots, AppendEntry
  <1>2. /\ entries' = [entries EXCEPT ![head] = e]
        /\ head' = IF head + 1 < Capacity THEN head + 1 ELSE 0
        /\ n = IF count < Capacity THEN count + 1 ELSE count
    BY NextHeadIsSlot DEF AppendEntry, TypeOK
  <1>3. /\ n \in 0 .. Capacity /\ head' \in Slots
        /\ \A i \in Slots : i < n => entries'[i] \in Entry
    BY AppendKeepsRing
  <1>4. first \in Slots /\ (n = Capacity \/ first = 0)
    BY <1>1, <1>3 DEF Slots
  <1>5. W \in Seq(Entry) /\ Len(W) = n
    BY <1>3, <1>4, RingIsLog
  <1>6. Window' = W
    BY DEF Window, Oldest
  <1>7. Window \in Seq(Entry) /\ Len(Window) = count
    BY WindowIsLog
  <1>8. ASSUME NEW i \in 1 .. n
        PROVE  W[i] = entries'[Place(first, i)] /\ Place(first, i) \in Slots
    BY <1>3, <1>4, ReadRingAt
  <1>9. ASSUME NEW i \in 1 .. count
        PROVE  /\ Window[i] = entries[Place(Oldest, i)]
               /\ Place(Oldest, i) \in Slots
    BY <1>1, WindowIsLog, ReadRingAt DEF Window
  <1>10. CASE count < Capacity
    <2>1. Append(Window, e) \in Seq(Entry) /\ Len(Append(Window, e)) = count + 1
      BY <1>1, <1>7, AppendProperties
    <2>2. Oldest = 0 /\ head = count /\ n = count + 1 /\ first = 0
      BY <1>1, <1>2, <1>10 DEF Oldest
    <2>3. ASSUME NEW i \in 1 .. n
          PROVE  W[i] = Append(Window, e)[i]
      <3>1. Place(0, i) = i - 1
        BY <1>1, <1>3 DEF Place
      <3>2. W[i] = entries'[i - 1] /\ i - 1 \in Slots
        BY <1>8, <2>2, <3>1
      <3>3. CASE i = n
        <4>1. W[i] = e
          BY <1>1, <1>2, <2>2, <3>2, <3>3
        <4>2. Append(Window, e)[i] = e
          BY <1>1, <1>7, <2>2, <3>3, AppendProperties
        <4> QED BY <4>1, <4>2
      <3>4. CASE i # n
        <4>1. i \in 1 .. count
          BY <1>1, <2>2, <3>4
        <4>2. W[i] = entries[i - 1]
          BY <1>1, <1>2, <2>2, <3>2, <4>1
        <4>3. Window[i] = entries[i - 1]
          BY <1>9, <2>2, <3>1, <4>1
        <4>4. Append(Window, e)[i] = Window[i]
          BY <1>1, <1>7, <4>1, AppendProperties
        <4> QED BY <4>2, <4>3, <4>4
      <3> QED BY <3>3, <3>4
    <2>4. W = Append(Window, e)
      BY <1>5, <2>1, <2>2, <2>3, SeqEqual
    <2> QED BY <1>6, <1>7, <1>10, <2>4 DEF Bounded!Remember
  <1>11. CASE count = Capacity
    <2>1. /\ Tail(Window) \in Seq(Entry) /\ Len(Tail(Window)) = Capacity - 1
          /\ \A i \in 1 .. Capacity - 1 : Tail(Window)[i] = Window[i + 1]
      BY <1>1, <1>7, <1>11, HeadTailProperties
    <2>2. /\ Append(Tail(Window), e) \in Seq(Entry)
          /\ Len(Append(Tail(Window), e)) = Capacity
          /\ \A i \in 1 .. Capacity - 1 : Append(Tail(Window), e)[i] = Window[i + 1]
          /\ Append(Tail(Window), e)[Capacity] = e
      BY <1>1, <2>1, AppendProperties
    <2>3. Oldest = head /\ n = Capacity /\ first = head'
      BY <1>1, <1>2, <1>11 DEF Oldest
    <2>4. ASSUME NEW i \in 1 .. n
          PROVE  W[i] = Append(Tail(Window), e)[i]
      <3>1. W[i] = entries'[Place(head', i)] /\ Place(head', i) \in Slots
        BY <1>8, <2>3
      <3>2. CASE i = n
        <4>1. Place(head', i) = head
          BY <1>1, <1>2, <2>3, <3>2 DEF Place
        <4>2. W[i] = e
          BY <1>1, <1>2, <3>1, <4>1
        <4> QED BY <2>2, <2>3, <3>2, <4>2
      <3>3. CASE i # n
        <4>1. i \in 1 .. Capacity - 1 /\ i + 1 \in 1 .. count
          BY <1>1, <1>11, <2>3, <3>3
        <4>2. Place(head', i) = Place(head, i + 1) /\ Place(head', i) # head
          BY <1>1, <1>2, <4>1 DEF Place
        <4>3. W[i] = entries[Place(head, i + 1)]
          BY <1>1, <1>2, <3>1, <4>2
        <4>4. Window[i + 1] = entries[Place(head, i + 1)]
          BY <1>9, <2>3, <4>1
        <4> QED BY <2>2, <4>1, <4>3, <4>4
      <3> QED BY <3>2, <3>3
    <2>5. W = Append(Tail(Window), e)
      BY <1>5, <2>2, <2>3, <2>4, SeqEqual
    <2>6. ~(Len(Window) < Capacity)
      BY <1>1, <1>7, <1>11
    <2>7. Window' = Append(Tail(Window), e)
      BY <1>6, <2>5
    <2> QED BY <2>6, <2>7 DEF Bounded!Remember
  <1> QED BY <1>1, <1>10, <1>11

\* The stream implements BoundedLog: its initial ring is the empty log, and a
\* step appends an entry, wipes the log or leaves it as it is.
THEOREM ImplementsBounded == Spec => ImplementsBoundedLog
  <1>1. Init => Bounded!Init
    <2> SUFFICES ASSUME Init PROVE Window = <<>>
      BY DEF Bounded!Init
    <2> QED BY DEF Init, Window, ReadRing
  <1>2. TypeOK /\ [Next]_vars => [Bounded!Next]_Window
    <2> SUFFICES ASSUME TypeOK, [Next]_vars
                 PROVE  Bounded!Next \/ Window' = Window
      OBVIOUS
    <2>1. ASSUME UNCHANGED ring PROVE Window' = Window
      BY <2>1 DEF ring, Window, Oldest, ReadRing
    <2>2. CASE Clear
      <3>1. count' = 0
        BY <2>2 DEF Clear, ResetRing
      <3>2. Window' = <<>>
        BY <3>1 DEF Window, ReadRing
      <3> QED BY <3>2 DEF Bounded!Next, Bounded!Clear
    <2>3. ASSUME NEW t \in Threads, AppendEntry(t) PROVE Bounded!Next
      <3>1. newEntry[t] \in Entry
        BY <2>3 DEF TypeOK, AppendEntry
      <3>2. Bounded!Remember(newEntry[t])
        BY <2>3, AppendRemembers
      <3> QED BY <3>1, <3>2 DEF Bounded!Next
    <2>4. CASE Attach \/ Detach
      BY <2>4, <2>1 DEF Attach, Detach
    <2>5. ASSUME NEW t \in Threads, CountLine(t) \/ BuildEntry(t)
          PROVE  Window' = Window
      BY <2>5, <2>1 DEF CountLine, BuildEntry
    <2>6. CASE UNCHANGED vars
      BY <2>6, <2>1 DEF vars
    <2> QED BY <2>2, <2>3, <2>4, <2>5, <2>6 DEF Next, Serialize
  <1> QED BY <1>1, <1>2, TypeCorrect, PTL
          DEF Spec, ImplementsBoundedLog, Bounded!Spec

------------------------------------------------------------------------------
(* The lines of one thread stay in the order in which it wrote them.        *)

\* The lines of one thread stand in a log in the order of their times.
InThreadOrder(log) ==
  \A i, k \in 1 .. Len(log) :
    i < k /\ log[i].by = log[k].by => log[i].stamp < log[k].stamp

\* No line of the log is later than time.
NotAfter(log, time) == \A i \in 1 .. Len(log) : log[i].stamp <= time

\* Every line of e's thread is earlier than e.
Before(log, e) == \A i \in 1 .. Len(log) : log[i].by = e.by => log[i].stamp < e.stamp

\* The entry that a thread is about to append is its own, was built no later
\* than now and after every line of that thread in the ring: although another
\* thread may take the lock in between, this one is inside one Serialize only.
ThreadInv ==
  /\ InThreadOrder(Window)
  /\ NotAfter(Window, clock)
  /\ \A t \in Threads : step[t] = "append" =>
       /\ newEntry[t].by = t
       /\ newEntry[t].stamp <= clock
       /\ Before(Window, newEntry[t])

\* The three facts hold of a log without its first entry.
LEMMA TailKeepsOrder ==
  ASSUME NEW log \in Seq(Entry), log # <<>>, InThreadOrder(log)
  PROVE  /\ InThreadOrder(Tail(log))
         /\ \A time \in Nat : NotAfter(log, time) => NotAfter(Tail(log), time)
         /\ \A e \in Entry : Before(log, e) => Before(Tail(log), e)
  <1>1. /\ Len(log) \in Nat /\ Len(Tail(log)) = Len(log) - 1
        /\ \A i \in 1 .. Len(log) - 1 : Tail(log)[i] = log[i + 1]
    BY HeadTailProperties, LenProperties
  <1>2. \A i \in 1 .. Len(Tail(log)) : i + 1 \in 1 .. Len(log) /\ Tail(log)[i] = log[i + 1]
    BY <1>1
  <1>3. InThreadOrder(Tail(log))
    BY <1>1, <1>2 DEF InThreadOrder
  <1>4. \A time \in Nat : NotAfter(log, time) => NotAfter(Tail(log), time)
    BY <1>2 DEF NotAfter
  <1>5. \A e \in Entry : Before(log, e) => Before(Tail(log), e)
    BY <1>2 DEF Before
  <1> QED BY <1>3, <1>4, <1>5

\* A line that is later than those of its thread can be appended; what comes
\* after it in another thread is not touched.
LEMMA AppendKeepsOrder ==
  ASSUME NEW log \in Seq(Entry), NEW e \in Entry, InThreadOrder(log), Before(log, e)
  PROVE  /\ InThreadOrder(Append(log, e))
         /\ \A time \in Nat : NotAfter(log, time) /\ e.stamp <= time =>
                                NotAfter(Append(log, e), time)
         /\ \A f \in Entry : Before(log, f) /\ f.by # e.by => Before(Append(log, e), f)
  <1>1. /\ Len(log) \in Nat /\ Len(Append(log, e)) = Len(log) + 1
        /\ \A i \in 1 .. Len(log) : Append(log, e)[i] = log[i]
        /\ Append(log, e)[Len(log) + 1] = e
    BY AppendProperties, LenProperties
  <1>2. \A i \in 1 .. Len(Append(log, e)) :
          \/ i \in 1 .. Len(log) /\ Append(log, e)[i] = log[i]
          \/ i = Len(log) + 1 /\ Append(log, e)[i] = e
    BY <1>1
  <1>3. InThreadOrder(Append(log, e))
    <2> SUFFICES ASSUME NEW i \in 1 .. Len(Append(log, e)), NEW k \in 1 .. Len(Append(log, e)),
                        i < k, Append(log, e)[i].by = Append(log, e)[k].by
                 PROVE  Append(log, e)[i].stamp < Append(log, e)[k].stamp
      BY DEF InThreadOrder
    <2>1. i \in 1 .. Len(log) /\ Append(log, e)[i] = log[i]
      BY <1>1
    <2>2. CASE k \in 1 .. Len(log)
      BY <2>1, <2>2, <1>1 DEF InThreadOrder
    <2>3. CASE k = Len(log) + 1
      BY <2>1, <2>3, <1>1 DEF Before
    <2> QED BY <1>2, <2>2, <2>3
  <1>4. \A time \in Nat : NotAfter(log, time) /\ e.stamp <= time =>
                            NotAfter(Append(log, e), time)
    BY <1>2 DEF NotAfter
  <1>5. \A f \in Entry : Before(log, f) /\ f.by # e.by => Before(Append(log, e), f)
    BY <1>2 DEF Before
  <1> QED BY <1>3, <1>4, <1>5

\* The ring after an append, as a sequence.
LEMMA AppendKeepsThreadInv ==
  ASSUME TypeOK, ThreadInv, NEW t \in Threads, AppendEntry(t)
  PROVE  ThreadInv'
  <1> DEFINE e == newEntry[t]
             kept == IF Len(Window) < Capacity THEN Window ELSE Tail(Window)
  <1>1. /\ step[t] = "append" /\ e \in Entry
        /\ e.by = t /\ e.stamp <= clock /\ Before(Window, e)
    BY DEF AppendEntry, TypeOK, ThreadInv
  <1>2. /\ Window \in Seq(Entry) /\ Len(Window) = count
        /\ InThreadOrder(Window) /\ NotAfter(Window, clock)
        /\ clock \in Nat
    BY WindowIsLog, MaxEntriesAssumption DEF ThreadInv, TypeOK
  <1>3. Window' = Append(kept, e)
    BY AppendRemembers DEF Bounded!Remember
  <1>4. /\ kept \in Seq(Entry)
        /\ InThreadOrder(kept)
        /\ NotAfter(kept, clock)
        /\ \A f \in Entry : Before(Window, f) => Before(kept, f)
    <2>1. CASE Len(Window) < Capacity
      BY <1>2, <2>1
    <2>2. CASE ~(Len(Window) < Capacity)
      <3>1. Window # <<>>
        BY <2>2, <1>2, CapacityAssumption
      <3>2. Tail(Window) \in Seq(Entry)
        BY <3>1, <1>2, HeadTailProperties
      <3> QED BY <2>2, <3>1, <3>2, <1>2, TailKeepsOrder
    <2> QED BY <2>1, <2>2
  <1>5. Before(kept, e)
    BY <1>1, <1>4
  <1> HIDE DEF kept, e
  <1>6. /\ InThreadOrder(Append(kept, e))
        /\ NotAfter(Append(kept, e), clock)
        /\ \A f \in Entry : Before(kept, f) /\ f.by # e.by => Before(Append(kept, e), f)
    BY <1>1, <1>2, <1>4, <1>5, AppendKeepsOrder
  <1>7. clock' = clock /\ newEntry' = newEntry /\ step' = [step EXCEPT ![t] = "idle"]
    BY DEF AppendEntry, devVars
  <1>8. InThreadOrder(Window') /\ NotAfter(Window', clock')
    BY <1>3, <1>6, <1>7
  <1>9. ASSUME NEW u \in Threads, step'[u] = "append"
        PROVE  /\ newEntry'[u].by = u
               /\ newEntry'[u].stamp <= clock'
               /\ Before(Window', newEntry'[u])
    <2>1. u # t /\ step[u] = "append"
      BY <1>7, <1>9 DEF TypeOK
    <2>2. /\ newEntry[u] \in Entry /\ newEntry[u].by = u /\ newEntry[u].stamp <= clock
          /\ Before(Window, newEntry[u])
      BY <2>1 DEF TypeOK, ThreadInv
    <2>3. Before(Append(kept, e), newEntry[u])
      BY <2>1, <2>2, <1>1, <1>4, <1>6
    <2> QED BY <2>2, <2>3, <1>3, <1>7
  <1> QED BY <1>8, <1>9 DEF ThreadInv, InThreadOrder, NotAfter, Before

\* ThreadInv is inductive.
LEMMA ThreadInvariant == Spec => []ThreadInv
  <1>1. Init => ThreadInv
    <2> SUFFICES ASSUME Init PROVE ThreadInv
      OBVIOUS
    <2>1. Window = <<>>
      BY DEF Init, Window, ReadRing
    <2>2. \A t \in Threads : step[t] # "append"
      BY DEF Init
    <2> QED BY <2>1, <2>2 DEF ThreadInv, InThreadOrder, NotAfter, Before
  <1>2. TypeOK /\ TypeOK' /\ ThreadInv /\ [Next]_vars => ThreadInv'
    <2> SUFFICES ASSUME TypeOK, TypeOK', ThreadInv, [Next]_vars PROVE ThreadInv'
      OBVIOUS
    <2>1. ASSUME UNCHANGED ring PROVE Window' = Window
      BY <2>1 DEF ring, Window, Oldest, ReadRing
    <2>2. ASSUME UNCHANGED <<ring, clock, thrVars>> PROVE ThreadInv'
      BY <2>1, <2>2 DEF ThreadInv, thrVars, InThreadOrder, NotAfter, Before
    <2>3. CASE Attach \/ Detach
      BY <2>2, <2>3 DEF Attach, Detach
    <2>4. CASE Clear
      <3>1. Window' = <<>>
        BY <2>4 DEF Clear, ResetRing, Window, ReadRing
      <3>2. UNCHANGED <<clock, step, newEntry>>
        BY <2>4 DEF Clear, devVars, thrVars
      <3> QED BY <3>1, <3>2 DEF ThreadInv, InThreadOrder, NotAfter, Before
    <2>5. ASSUME NEW t \in Threads, CountLine(t) PROVE ThreadInv'
      <3>1. Window' = Window
        BY <2>1, <2>5 DEF CountLine
      <3>2. /\ step' = [step EXCEPT ![t] = "stamp"]
            /\ UNCHANGED <<clock, newEntry>>
        BY <2>5 DEF CountLine, devVars
      <3>3. \A u \in Threads : step'[u] = "append" => step[u] = "append"
        BY <3>2 DEF TypeOK
      <3> QED BY <3>1, <3>2, <3>3 DEF ThreadInv, InThreadOrder, NotAfter, Before
    <2>6. ASSUME NEW t \in Threads, BuildEntry(t) PROVE ThreadInv'
      <3>1. Window' = Window
        BY <2>1, <2>6 DEF BuildEntry
      <3>2. PICK c \in Categories :
              newEntry' = [newEntry EXCEPT ![t] =
                             [by |-> t, stamp |-> clock', category |-> c]]
        BY <2>6 DEF BuildEntry
      <3>3. /\ clock' = clock + 1 /\ clock \in Nat
            /\ step' = [step EXCEPT ![t] = "append"]
        BY <2>6, MaxEntriesAssumption DEF BuildEntry, TypeOK
      <3>4. Window \in Seq(Entry) /\ Len(Window) \in Nat
        BY WindowIsLog, LenProperties
      <3>5. \A i \in 1 .. Len(Window) : Window[i].stamp \in Nat /\ Window[i].stamp <= clock
        <4>1. \A i \in 1 .. Len(Window) : Window[i] \in Entry
          BY <3>4, ElementOfSeq
        <4>2. \A i \in 1 .. Len(Window) : Window[i].stamp \in Nat
          BY <4>1, MaxEntriesAssumption DEF Entry
        <4> QED BY <4>2 DEF ThreadInv, NotAfter
      <3>6. /\ InThreadOrder(Window) /\ NotAfter(Window, clock')
        BY <3>3, <3>5 DEF ThreadInv, NotAfter
      <3>7. ASSUME NEW u \in Threads, step'[u] = "append"
            PROVE  /\ newEntry'[u].by = u
                   /\ newEntry'[u].stamp <= clock'
                   /\ Before(Window, newEntry'[u])
        <4>1. CASE u = t
          <5>1. newEntry'[u] = [by |-> t, stamp |-> clock', category |-> c]
            BY <4>1, <3>2 DEF TypeOK
          <5> QED BY <5>1, <4>1, <3>3, <3>5 DEF Before
        <4>2. CASE u # t
          <5>1. newEntry'[u] = newEntry[u] /\ step[u] = "append"
            BY <4>2, <3>2, <3>3, <3>7 DEF TypeOK
          <5>2. newEntry[u] \in Entry /\ newEntry[u].stamp \in Nat
            BY <5>1, MaxEntriesAssumption DEF TypeOK, Entry
          <5> QED BY <5>1, <5>2, <3>3 DEF ThreadInv
        <4> QED BY <4>1, <4>2
      <3> QED BY <3>1, <3>6, <3>7 DEF ThreadInv, InThreadOrder, NotAfter, Before
    <2>7. ASSUME NEW t \in Threads, AppendEntry(t) PROVE ThreadInv'
      BY <2>7, AppendKeepsThreadInv
    <2>8. CASE UNCHANGED vars
      BY <2>2, <2>8 DEF vars, devVars
    <2> QED BY <2>3, <2>4, <2>5, <2>6, <2>7, <2>8 DEF Next, Serialize
  <1> QED BY <1>1, <1>2, TypeCorrect, PTL DEF Spec

\* Two lines of one thread are never shown in the wrong order, although their
\* times are taken before the lock is and the ring wraps and is cleared.
THEOREM ThreadsStayInOrder == Spec => []ThreadOrderKept
  <1>1. TypeOK /\ ThreadInv => ThreadOrderKept
    <2> SUFFICES ASSUME TypeOK, ThreadInv PROVE ThreadOrderKept
      OBVIOUS
    <2>1. Len(Window) = count
      BY WindowIsLog
    <2> QED BY <2>1 DEF ThreadInv, InThreadOrder, ThreadOrderKept
  <1> QED BY <1>1, TypeCorrect, ThreadInvariant, PTL
------------------------------------------------------------------------------
(* What GetLastN and Search return.                                         *)

\* The walk of the readers meets the window from its end.
LEMMA WalksBackwards ==
  ASSUME TypeOK, NEW s \in 0 .. count - 1
  PROVE  count - s \in 1 .. count /\ Newest(s) = Window[count - s]
  <1>1. /\ Capacity \in Nat /\ Capacity > 0 /\ head \in 0 .. Capacity - 1 /\ count \in 0 .. Capacity
        /\ (count < Capacity => head = count)
        /\ s \in Nat /\ s < count
    BY CapacityAssumption DEF TypeOK, Slots
  <1>2. count - s \in 1 .. count
    BY <1>1
  <1>3. Window[count - s] = entries[Place(Oldest, count - s)]
    BY <1>1, <1>2, WindowIsLog, ReadRingAt DEF Window
  <1> DEFINE k == head + 2 * Capacity - 1 - s
             at == Place(Oldest, count - s)
  <1>4. at = IF s < head THEN head - 1 - s ELSE head + Capacity - 1 - s
    BY <1>1 DEF Place, Oldest
  <1>5. at \in 0 .. Capacity - 1
    BY <1>1, <1>4
  <1>6. k = (IF s < head THEN 2 ELSE 1) * Capacity + at
    BY <1>1, <1>4
  <1> HIDE DEF k, at
  <1>7. k % Capacity = at
    <2>1. CASE s < head
      <3>1. k = 2 * Capacity + at
        BY <1>6, <2>1
      <3> QED BY <1>1, <1>5, <3>1, SMT
    <2>2. CASE ~(s < head)
      <3>1. k = 1 * Capacity + at
        BY <1>6, <2>2
      <3> QED BY <1>1, <1>5, <3>1, SMT
    <2> QED BY <2>1, <2>2
  <1> QED BY <1>2, <1>3, <1>7 DEF Newest, k, at

\* What was kept after k entries: the end of what matches among the last k.
EndAmong(kept, k, n, matching) ==
  /\ Len(kept) <= n
  /\ \E at \in [1 .. Len(kept) -> count - k + 1 .. count] :
       /\ \A i, j \in 1 .. Len(kept) : i < j => at[i] < at[j]
       /\ \A i \in 1 .. Len(kept) : kept[i] = Window[at[i]] /\ kept[i] \in matching
       /\ \A m \in count - k + 1 .. count : Window[m] \in matching =>
            \/ \E i \in 1 .. Len(kept) : at[i] = m
            \/ Len(kept) = n /\ m < at[1]

\* The function of the walk that LastMatching takes.
IsWalk(kept, n, matching) ==
  kept = [k \in 0 .. count |->
            IF k = 0 THEN <<>>
            ELSE IF Len(kept[k - 1]) < n /\ Newest(k - 1) \in matching
                 THEN <<Newest(k - 1)>> \o kept[k - 1]
                 ELSE kept[k - 1]]

\* There is such a function.
LEMMA SomeWalk ==
  ASSUME TypeOK, NEW n \in Nat, NEW matching
  PROVE  \E kept : IsWalk(kept, n, matching)
  <1> DEFINE Turn(k, x) == IF Len(x) < n /\ Newest(k - 1) \in matching
                           THEN <<Newest(k - 1)>> \o x ELSE x
             turn == [k \in 1 .. count |-> [x \in Seq(Entry) |-> Turn(k, x)]]
  <1>1. count \in Nat
    BY CapacityAssumption DEF TypeOK
  <1>2. ASSUME NEW k \in 1 .. count PROVE Newest(k - 1) \in Entry
    <2>1. k - 1 \in 0 .. count - 1
      BY <1>1
    <2>2. count - (k - 1) \in 1 .. count /\ Newest(k - 1) = Window[count - (k - 1)]
      BY <2>1, WalksBackwards
    <2>3. Window \in Seq(Entry) /\ Len(Window) = count
      BY WindowIsLog
    <2> QED BY <2>2, <2>3, ElementOfSeq
  <1>3. ASSUME NEW k \in 1 .. count, NEW x \in Seq(Entry) PROVE Turn(k, x) \in Seq(Entry)
    <2>1. <<Newest(k - 1)>> \in Seq(Entry)
      BY <1>2
    <2>2. <<Newest(k - 1)>> \o x \in Seq(Entry)
      BY <2>1, ConcatProperties
    <2> QED BY <2>2
  <1> HIDE DEF Turn
  <1>4. /\ turn \in [1 .. count -> [Seq(Entry) -> Seq(Entry)]]
        /\ \A k \in 1 .. count : \A x \in Seq(Entry) : turn[k][x] = Turn(k, x)
    BY <1>3
  <1>5. <<>> \in Seq(Entry)
    OBVIOUS
  <1> HIDE DEF turn
  <1> DEFINE X == Seq(Entry)  start == <<>>
  <1>6. PICK f \in [0 .. count -> X] :
          f[0] = start /\ \A k \in 1 .. count : f[k] = turn[k][f[k - 1]]
    <2>1. start \in X /\ count \in Nat /\ turn \in [1 .. count -> [X -> X]]
      BY <1>1, <1>4, <1>5
    <2> HIDE DEF X, start
    <2>2. \E f : Iterates(f, X, start, count, turn)
      BY <2>1, Iterated
    <2> QED BY <2>2 DEF Iterates
  <1>7. ASSUME NEW k \in 0 .. count, k # 0 PROVE f[k] = Turn(k, f[k - 1])
    <2>1. k \in 1 .. count /\ k - 1 \in 0 .. count
      BY <1>1, <1>7
    <2> QED BY <2>1, <1>4, <1>6
  <1>8. f = [k \in 0 .. count |-> IF k = 0 THEN <<>> ELSE Turn(k, f[k - 1])]
    BY <1>6, <1>7
  <1> USE DEF Turn
  <1>9. IsWalk(f, n, matching)
    BY <1>8 DEF IsWalk
  <1> QED BY <1>9

\* A step of the walk that keeps an entry.
LEMMA KeptInFront ==
  ASSUME TypeOK, NEW n \in Nat, NEW matching, NEW old \in Seq(Entry),
         NEW k \in 1 .. count, EndAmong(old, k - 1, n, matching),
         Len(old) < n, Newest(k - 1) \in matching
  PROVE  /\ <<Newest(k - 1)>> \o old \in Seq(Entry)
         /\ EndAmong(<<Newest(k - 1)>> \o old, k, n, matching)
  <1> DEFINE at0 == count - k + 1
             e == Newest(k - 1)
             new == <<e>> \o old
  <1>1. count \in Nat /\ k \in Nat /\ k >= 1 /\ k <= count /\ Len(old) \in Nat
    BY CapacityAssumption, LenProperties DEF TypeOK
  <1>2. at0 \in 1 .. count /\ e = Window[at0] /\ e \in Entry
    <2>1. k - 1 \in 0 .. count - 1 /\ count - (k - 1) = count - k + 1
      BY <1>1
    <2>2. count - (k - 1) \in 1 .. count /\ e = Window[count - (k - 1)]
      BY <2>1, WalksBackwards
    <2>3. Window \in Seq(Entry) /\ Len(Window) = count
      BY WindowIsLog
    <2> QED BY <2>1, <2>2, <2>3, ElementOfSeq
  <1>3. PICK at \in [1 .. Len(old) -> count - (k - 1) + 1 .. count] :
          /\ \A i, j \in 1 .. Len(old) : i < j => at[i] < at[j]
          /\ \A i \in 1 .. Len(old) : old[i] = Window[at[i]] /\ old[i] \in matching
          /\ \A m \in count - (k - 1) + 1 .. count : Window[m] \in matching =>
               \/ \E i \in 1 .. Len(old) : at[i] = m
               \/ Len(old) = n /\ m < at[1]
    BY DEF EndAmong
  <1> HIDE DEF e
  <1>4. /\ new \in Seq(Entry) /\ Len(new) = Len(old) + 1
        /\ new[1] = e
        /\ \A i \in 2 .. Len(old) + 1 : new[i] = old[i - 1]
    <2>1. <<e>> \in Seq(Entry) /\ Len(<<e>>) = 1 /\ <<e>>[1] = e
      BY <1>2
    <2>2. /\ new \in Seq(Entry) /\ Len(new) = Len(<<e>>) + Len(old)
          /\ \A i \in 1 .. Len(<<e>>) + Len(old) :
               new[i] = IF i <= Len(<<e>>) THEN <<e>>[i] ELSE old[i - Len(<<e>>)]
      BY <2>1, ConcatProperties
    <2> QED BY <1>1, <2>1, <2>2
  <1> HIDE DEF new
  <1> DEFINE newAt == [i \in 1 .. Len(new) |-> IF i = 1 THEN at0 ELSE at[i - 1]]
  <1>5. \A i \in 2 .. Len(new) : i - 1 \in 1 .. Len(old) /\ newAt[i] = at[i - 1] /\ at[i - 1] \in at0 + 1 .. count
    BY <1>1, <1>3, <1>4
  <1>6. newAt[1] = at0 /\ 1 \in 1 .. Len(new)
    BY <1>1, <1>4
  <1>7. newAt \in [1 .. Len(new) -> at0 .. count]
    BY <1>1, <1>2, <1>3, <1>4
  <1> HIDE DEF newAt
  <1>8. \A i, j \in 1 .. Len(new) : i < j => newAt[i] < newAt[j]
    <2> SUFFICES ASSUME NEW i \in 1 .. Len(new), NEW j \in 1 .. Len(new), i < j
                 PROVE  newAt[i] < newAt[j]
      OBVIOUS
    <2>1. j \in 2 .. Len(new) /\ j - 1 \in 1 .. Len(old) /\ newAt[j] = at[j - 1] /\ at[j - 1] \in at0 + 1 .. count
      BY <1>1, <1>4, <1>5
    <2>2. CASE i = 1
      BY <2>1, <2>2, <1>2, <1>6
    <2>3. CASE i # 1
      <3>1. i \in 2 .. Len(new) /\ i - 1 < j - 1
        BY <2>1, <2>3, <1>1, <1>4
      <3>2. i - 1 \in 1 .. Len(old) /\ newAt[i] = at[i - 1]
        BY <3>1, <1>5
      <3> QED BY <2>1, <3>1, <3>2, <1>3
    <2> QED BY <2>2, <2>3
  <1>9. \A i \in 1 .. Len(new) : new[i] = Window[newAt[i]] /\ new[i] \in matching
    <2> SUFFICES ASSUME NEW i \in 1 .. Len(new)
                 PROVE  new[i] = Window[newAt[i]] /\ new[i] \in matching
      OBVIOUS
    <2>1. CASE i = 1
      BY <2>1, <1>2, <1>4, <1>6 DEF e
    <2>2. CASE i # 1
      <3>1. i \in 2 .. Len(new) /\ i \in 2 .. Len(old) + 1
        BY <2>2, <1>1, <1>4
      <3> QED BY <3>1, <1>3, <1>4, <1>5
    <2> QED BY <2>1, <2>2
  <1>10. \A m \in at0 .. count : Window[m] \in matching => \E i \in 1 .. Len(new) : newAt[i] = m
    <2> SUFFICES ASSUME NEW m \in at0 .. count, Window[m] \in matching
                 PROVE  \E i \in 1 .. Len(new) : newAt[i] = m
      OBVIOUS
    <2>1. CASE m = at0
      BY <2>1, <1>6
    <2>2. CASE m # at0
      <3>1. m \in count - (k - 1) + 1 .. count
        BY <2>2, <1>1
      <3>2. PICK i \in 1 .. Len(old) : at[i] = m
        BY <3>1, <1>1, <1>3
      <3>3. i + 1 \in 2 .. Len(new) /\ i + 1 \in 1 .. Len(new) /\ (i + 1) - 1 = i
        BY <1>1, <1>4
      <3>4. newAt[i + 1] = m
        BY <3>2, <3>3, <1>5
      <3> QED BY <3>3, <3>4
    <2> QED BY <2>1, <2>2
  <1>11. Len(new) <= n
    BY <1>1, <1>4
  <1>12. EndAmong(new, k, n, matching)
    BY <1>7, <1>8, <1>9, <1>10, <1>11 DEF EndAmong
  <1> QED BY <1>4, <1>12 DEF new, e

\* A step of the walk that does not keep the entry it meets: it has enough, or
\* the entry does not match.
LEMMA KeptAsItWas ==
  ASSUME TypeOK, NEW n \in Nat \ {0}, NEW matching, NEW old \in Seq(Entry),
         NEW k \in 1 .. count, EndAmong(old, k - 1, n, matching),
         ~(Len(old) < n /\ Newest(k - 1) \in matching)
  PROVE  EndAmong(old, k, n, matching)
  <1> DEFINE at0 == count - k + 1
  <1>1. count \in Nat /\ k \in Nat /\ k >= 1 /\ k <= count /\ Len(old) \in Nat
    BY CapacityAssumption, LenProperties DEF TypeOK
  <1>2. at0 \in 1 .. count /\ Newest(k - 1) = Window[at0]
    <2>1. k - 1 \in 0 .. count - 1 /\ count - (k - 1) = count - k + 1
      BY <1>1
    <2> QED BY <2>1, WalksBackwards
  <1>3. PICK at \in [1 .. Len(old) -> count - (k - 1) + 1 .. count] :
          /\ \A i, j \in 1 .. Len(old) : i < j => at[i] < at[j]
          /\ \A i \in 1 .. Len(old) : old[i] = Window[at[i]] /\ old[i] \in matching
          /\ \A m \in count - (k - 1) + 1 .. count : Window[m] \in matching =>
               \/ \E i \in 1 .. Len(old) : at[i] = m
               \/ Len(old) = n /\ m < at[1]
    BY DEF EndAmong
  <1>4. Len(old) <= n
    BY DEF EndAmong
  <1>5. \A i \in 1 .. Len(old) : at[i] \in at0 + 1 .. count
    BY <1>1, <1>3
  <1>6. at \in [1 .. Len(old) -> at0 .. count]
    BY <1>1, <1>3, <1>5
  <1>7. ASSUME NEW m \in at0 .. count, Window[m] \in matching
        PROVE  \/ \E i \in 1 .. Len(old) : at[i] = m
               \/ Len(old) = n /\ m < at[1]
    <2>1. CASE m = at0
      <3>1. Len(old) = n
        BY <2>1, <1>1, <1>2, <1>4, <1>7
      <3>2. at[1] \in at0 + 1 .. count
        BY <3>1, <1>1, <1>5
      <3> QED BY <2>1, <3>1, <3>2, <1>1
    <2>2. CASE m # at0
      <3>1. m \in count - (k - 1) + 1 .. count
        BY <2>2, <1>1
      <3> QED BY <3>1, <1>3, <1>7
    <2> QED BY <2>1, <2>2
  <1> QED BY <1>3, <1>4, <1>6, <1>7 DEF EndAmong

\* What the walk has kept after k entries, for every k.
LEMMA WalkKeeps ==
  ASSUME TypeOK, NEW n \in Nat \ {0}, NEW matching, NEW kept, IsWalk(kept, n, matching)
  PROVE  \A k \in 0 .. count : kept[k] \in Seq(Entry) /\ EndAmong(kept[k], k, n, matching)
  <1> DEFINE S == {k \in Nat : k <= count => /\ kept[k] \in Seq(Entry)
                                             /\ EndAmong(kept[k], k, n, matching)}
  <1>1. count \in Nat
    BY CapacityAssumption DEF TypeOK
  <1>2. /\ kept[0] = <<>>
        /\ \A k \in 1 .. count :
             kept[k] = IF Len(kept[k - 1]) < n /\ Newest(k - 1) \in matching
                       THEN <<Newest(k - 1)>> \o kept[k - 1] ELSE kept[k - 1]
    <2> DEFINE Next1(k) == IF Len(kept[k - 1]) < n /\ Newest(k - 1) \in matching
                           THEN <<Newest(k - 1)>> \o kept[k - 1] ELSE kept[k - 1]
    <2>1. kept = [k \in 0 .. count |-> IF k = 0 THEN <<>> ELSE Next1(k)]
      BY DEF IsWalk
    <2> HIDE DEF Next1
    <2>2. kept[0] = <<>> /\ \A k \in 1 .. count : kept[k] = Next1(k)
      BY <1>1, <2>1
    <2> QED BY <2>2 DEF Next1
  <1>3. 0 \in S
    <2> DEFINE none == <<>>
    <2>1. EndAmong(none, 0, n, matching)
      <3>1. Len(none) = 0 /\ Len(none) <= n
        OBVIOUS
      <3>2. none \in [1 .. Len(none) -> count - 0 + 1 .. count]
        OBVIOUS
      <3>3. \A m \in count - 0 + 1 .. count : FALSE
        BY <1>1
      <3> HIDE DEF none
      <3>4. \A i \in 1 .. Len(none) : FALSE
        BY <3>1
      <3> QED BY <3>1, <3>2, <3>3, <3>4 DEF EndAmong
    <2>2. none \in Seq(Entry) /\ kept[0] = none
      BY <1>2
    <2> HIDE DEF none
    <2>3. kept[0] \in Seq(Entry) /\ EndAmong(kept[0], 0, n, matching)
      BY <2>1, <2>2
    <2> QED BY <2>3
  <1>4. ASSUME NEW k \in Nat, k \in S PROVE k + 1 \in S
    <2> SUFFICES ASSUME k + 1 <= count
                 PROVE  kept[k + 1] \in Seq(Entry) /\ EndAmong(kept[k + 1], k + 1, n, matching)
      OBVIOUS
    <2>1. kept[k] \in Seq(Entry) /\ EndAmong(kept[k], k, n, matching)
      BY <1>1, <1>4
    <2>2. k + 1 \in 1 .. count /\ (k + 1) - 1 = k
      BY <1>1
    <2>3. kept[k + 1] = IF Len(kept[k]) < n /\ Newest(k) \in matching
                        THEN <<Newest(k)>> \o kept[k] ELSE kept[k]
      BY <1>2, <2>2
    <2> DEFINE old == kept[k]  here == k + 1
    <2>4. old \in Seq(Entry) /\ EndAmong(old, here - 1, n, matching) /\ here \in 1 .. count
          /\ here - 1 = k
      BY <2>1, <2>2
    <2> HIDE DEF old, here
    <2>5. CASE Len(old) < n /\ Newest(here - 1) \in matching
      <3>1. /\ <<Newest(here - 1)>> \o old \in Seq(Entry)
            /\ EndAmong(<<Newest(here - 1)>> \o old, here, n, matching)
        BY <2>4, <2>5, KeptInFront
      <3> QED BY <2>3, <2>4, <2>5, <3>1 DEF old, here
    <2>6. CASE ~(Len(old) < n /\ Newest(here - 1) \in matching)
      <3>1. EndAmong(old, here, n, matching)
        BY <2>4, <2>6, KeptAsItWas
      <3> QED BY <2>1, <2>3, <2>4, <2>6, <3>1 DEF old, here
    <2> QED BY <2>5, <2>6
  <1> HIDE DEF S
  <1>5. \A k \in Nat : k \in S
    BY <1>3, <1>4, SetInduction
  <1> USE DEF S
  <1> QED BY <1>1, <1>5

\* So LastMatching returns the end of what matches.
LEMMA LastMatchingIsEnd ==
  ASSUME TypeOK, NEW n \in 1 .. Capacity, NEW matching
  PROVE  IsEndOf(LastMatching(n, matching), n, matching)
  <1>1. count \in Nat /\ n \in Nat \ {0}
    BY CapacityAssumption DEF TypeOK
  <1> DEFINE kept == CHOOSE f : IsWalk(f, n, matching)
  <1>2. IsWalk(kept, n, matching)
    <2>1. \E f : IsWalk(f, n, matching)
      BY <1>1, SomeWalk
    <2> QED BY <2>1
  <1>3. LastMatching(n, matching) = kept[count]
    BY DEF LastMatching, IsWalk
  <1> HIDE DEF kept
  <1>4. EndAmong(kept[count], count, n, matching)
    BY <1>1, <1>2, WalkKeeps
  <1>5. count - count + 1 = 1
    BY <1>1
  <1>6. IsEndOf(kept[count], n, matching)
    BY <1>4, <1>5 DEF EndAmong, IsEndOf
  <1> QED BY <1>3, <1>6

\* What GetLastN and Search return is the end of what matches, and a thread's
\* lines stand in it in the order in which the thread wrote them.
THEOREM ReadersSeeTheEnd == Spec => []ReadsFaithful
  <1>1. TypeOK => ReadsLastMatching
    BY LastMatchingIsEnd DEF ReadsLastMatching, GetLastN, Search
  <1>2. TypeOK /\ ThreadOrderKept => ReadsFaithful
    BY <1>1 DEF ReadsFaithful
  <1> QED BY <1>2, TypeCorrect, ThreadsStayInOrder, PTL

------------------------------------------------------------------------------
(* The counter, the catalogue and the ring agree.                           *)

Busy == {t \in Threads : step[t] # "idle"}

\* What ObservedAddsUp says, and that the catalogue has counted every line in
\* the ring.
CatalogueInv ==
  /\ ObservedAddsUp
  /\ count <= SumFunctionOnSet(observed, Categories)

\* The sum of the catalogue is a number.
LEMMA CatalogueSum ==
  ASSUME TypeOK
  PROVE  /\ SumFunctionOnSet(observed, Categories) \in Int
         /\ IsFiniteSet(Busy) /\ Cardinality(Busy) \in Nat
  <1>1. \A c \in Categories : observed[c] \in Int
    BY DEF TypeOK
  <1>2. SumFunctionOnSet(observed, Categories) \in Int
    BY <1>1, NamesAndThreads, SumIsInt
  <1>3. Busy \subseteq Threads
    BY DEF Busy
  <1>4. IsFiniteSet(Busy)
    BY <1>3, NamesAndThreads, FS_Subset
  <1> QED BY <1>2, <1>4, FS_CardinalityType

\* A thread that begins is counted once more, and one that ends once less.
LEMMA BusyChanges ==
  ASSUME TypeOK, NEW t \in Threads
  PROVE  /\ CountLine(t) => Cardinality(Busy') = Cardinality(Busy) + 1
         /\ BuildEntry(t) => Busy' = Busy
         /\ AppendEntry(t) => Cardinality(Busy') = Cardinality(Busy) - 1
  <1>1. IsFiniteSet(Busy) /\ step \in [Threads -> {"idle", "stamp", "append"}]
    BY CatalogueSum DEF TypeOK
  <1>2. ASSUME CountLine(t) PROVE Cardinality(Busy') = Cardinality(Busy) + 1
    <2>1. t \notin Busy /\ Busy' = Busy \cup {t}
      BY <1>1, <1>2 DEF CountLine, Busy
    <2> QED BY <1>1, <2>1, FS_AddElement
  <1>3. BuildEntry(t) => Busy' = Busy
    BY <1>1 DEF BuildEntry, Busy
  <1>4. ASSUME AppendEntry(t) PROVE Cardinality(Busy') = Cardinality(Busy) - 1
    <2>1. t \in Busy /\ Busy' = Busy \ {t}
      BY <1>1, <1>4 DEF AppendEntry, Busy
    <2> QED BY <1>1, <2>1, FS_RemoveElement
  <1> QED BY <1>2, <1>3, <1>4

\* CatalogueInv is inductive.
LEMMA CatalogueInvariant == Spec => []CatalogueInv
  <1> DEFINE sum == SumFunctionOnSet(observed, Categories)
  <1>1. Init => CatalogueInv
    <2> SUFFICES ASSUME Init PROVE CatalogueInv
      OBVIOUS
    <2>1. \A c \in Categories : observed[c] = 0
      BY DEF Init
    <2>2. SumFunctionOnSet(observed, Categories) = 0
      BY <2>1, NamesAndThreads, SumOfZeros
    <2>3. Busy = {}
      BY DEF Init, Busy
    <2>4. Cardinality(Busy) = 0
      BY <2>3, FS_EmptySet
    <2>5. totalObserved = 0 /\ count = 0
      BY DEF Init
    <2> QED BY <2>2, <2>4, <2>5 DEF CatalogueInv, ObservedAddsUp, Busy
  <1>2. TypeOK /\ TypeOK' /\ CatalogueInv /\ [Next]_vars => CatalogueInv'
    <2> SUFFICES ASSUME TypeOK, TypeOK', CatalogueInv, [Next]_vars PROVE CatalogueInv'
      OBVIOUS
    <2>1. /\ sum \in Int /\ Cardinality(Busy) \in Nat
          /\ totalObserved = sum + Cardinality(Busy) /\ count <= sum
          /\ count \in Nat /\ Capacity \in Nat
      BY CatalogueSum, CapacityAssumption DEF CatalogueInv, ObservedAddsUp, Busy, TypeOK
    <2>2. ASSUME totalObserved' = sum' + Cardinality(Busy'), count' <= sum'
          PROVE  CatalogueInv'
      BY <2>2 DEF CatalogueInv, ObservedAddsUp, Busy
    <2>3. CASE Attach \/ Detach
      <3>1. observed' = observed /\ step' = step /\ totalObserved' = totalObserved /\ count' = count
        BY <2>3 DEF Attach, Detach, ring, thrVars
      <3>2. sum' = sum /\ Busy' = Busy
        BY <3>1 DEF Busy
      <3> QED BY <3>1, <3>2, <2>1, <2>2
    <2>4. CASE Clear
      <3>1. observed' = observed /\ step' = step /\ totalObserved' = totalObserved /\ count' = 0
        BY <2>4 DEF Clear, ResetRing, thrVars
      <3>2. sum' = sum /\ Busy' = Busy
        BY <3>1 DEF Busy
      <3>3. count' <= sum
        <4> HIDE DEF sum
        <4> QED BY <2>1, <3>1
      <3> QED BY <3>1, <3>2, <3>3, <2>1, <2>2
    <2>5. ASSUME NEW t \in Threads, CountLine(t) PROVE CatalogueInv'
      <3>1. observed' = observed /\ count' = count /\ totalObserved' = totalObserved + 1
        BY <2>5 DEF CountLine, ring
      <3>2. sum' = sum /\ Cardinality(Busy') = Cardinality(Busy) + 1
        BY <2>5, <3>1, BusyChanges
      <3>3. totalObserved' = sum' + Cardinality(Busy') /\ count' <= sum'
        <4> HIDE DEF sum
        <4> QED BY <2>1, <3>1, <3>2
      <3> QED BY <3>3, <2>2
    <2>6. ASSUME NEW t \in Threads, BuildEntry(t) PROVE CatalogueInv'
      <3>1. observed' = observed /\ count' = count /\ totalObserved' = totalObserved
        BY <2>6 DEF BuildEntry, ring
      <3>2. sum' = sum /\ Busy' = Busy
        BY <2>6, <3>1, BusyChanges
      <3> QED BY <3>1, <3>2, <2>1, <2>2
    <2>7. ASSUME NEW t \in Threads, AppendEntry(t) PROVE CatalogueInv'
      <3>1. /\ newEntry[t] \in Entry
            /\ observed' = [observed EXCEPT ![newEntry[t].category] = @ + 1]
            /\ count' = IF count < Capacity THEN count + 1 ELSE count
            /\ totalObserved' = totalObserved
            /\ Cardinality(Busy') = Cardinality(Busy) - 1
        BY <2>7, BusyChanges DEF AppendEntry, TypeOK
      <3> DEFINE c == newEntry[t].category
      <3>2. c \in Categories
        BY <3>1 DEF Entry
      <3>3. \A d \in Categories : /\ observed[d] \in Int
                                  /\ observed'[d] = IF d = c THEN observed[d] + 1 ELSE observed[d]
        BY <3>1, <3>2 DEF TypeOK
      <3> HIDE DEF c
      <3>4. SumFunctionOnSet(observed', Categories) = SumFunctionOnSet(observed, Categories) + 1
        <4> DEFINE new == observed'  one == 1
        <4>1. \A d \in Categories : /\ observed[d] \in Int
                                    /\ new[d] = IF d = c THEN observed[d] + one ELSE observed[d]
          BY <3>3
        <4>2. one \in Int
          OBVIOUS
        <4> HIDE DEF new, one
        <4>3. SumFunctionOnSet(new, Categories) = SumFunctionOnSet(observed, Categories) + one
          BY <4>1, <4>2, <3>2, NamesAndThreads, SumWithChange
        <4> QED BY <4>3 DEF new, one
      <3>5. sum' = sum + 1
        BY <3>4
      <3>6. totalObserved' = sum' + Cardinality(Busy') /\ count' <= sum'
        <4> HIDE DEF sum
        <4> QED BY <2>1, <3>1, <3>5
      <3> QED BY <3>6, <2>2
    <2>8. CASE UNCHANGED vars
      <3>1. observed' = observed /\ step' = step /\ totalObserved' = totalObserved /\ count' = count
        BY <2>8 DEF vars, ring, thrVars
      <3>2. sum' = sum /\ Busy' = Busy
        BY <3>1 DEF Busy
      <3> QED BY <3>1, <3>2, <2>1, <2>2
    <2> QED BY <2>3, <2>4, <2>5, <2>6, <2>7, <2>8 DEF Next, Serialize
  <1> QED BY <1>1, <1>2, TypeCorrect, PTL DEF Spec

------------------------------------------------------------------------------
(* The requests on top of the stream: what is proved of the stream holds     *)
(* beside them.                                                              *)

LEMMA ToolsAreClients == ToolsSpec => Spec
  <1>1. ToolsInit => Init
    BY DEF ToolsInit
  <1>2. [ToolsNext]_<<vars, toolVars>> => [Next]_vars
    <2> SUFFICES ASSUME [ToolsNext]_<<vars, toolVars>> PROVE [Next]_vars
      OBVIOUS
    <2>1. CASE Stream
      BY <2>1 DEF Stream, Next
    <2>2. CASE GameThread
      BY <2>2 DEF GameThread
    <2>3. ASSUME NEW l \in Listeners, Lane(l) PROVE [Next]_vars
      BY <2>3 DEF Lane, LogClear, ClearReadsTotal, ListCategories, Next
    <2>4. CASE UNCHANGED <<vars, toolVars>>
      BY <2>4
    <2> QED BY <2>1, <2>2, <2>3, <2>4 DEF ToolsNext
  <1> QED BY <1>1, <1>2, PTL DEF ToolsSpec, Spec

\* The invariants of the stream, in one.
StreamInv == TypeOK /\ CatalogueInv

LEMMA StreamInvariant == ToolsSpec => []StreamInv
  BY ToolsAreClients, TypeCorrect, CatalogueInvariant, PTL DEF StreamInv

\* A reader shows no more lines than there are in the ring.
LEMMA ReplyFits ==
  ASSUME TypeOK, NEW n \in 1 .. Capacity, NEW matching
  PROVE  /\ Len(LastMatching(n, matching)) \in Nat
         /\ Len(LastMatching(n, matching)) <= count
  <1> DEFINE reply == LastMatching(n, matching)
             m == Len(reply)
  <1>1. count \in Nat /\ n \in Nat \ {0}
    BY CapacityAssumption DEF TypeOK
  <1>2. reply \in Seq(Entry)
    <2> DEFINE kept == CHOOSE f : IsWalk(f, n, matching)
    <2>1. IsWalk(kept, n, matching)
      <3>1. \E f : IsWalk(f, n, matching)
        BY <1>1, SomeWalk
      <3> QED BY <3>1
    <2>2. reply = kept[count]
      BY DEF LastMatching, IsWalk
    <2> HIDE DEF kept, reply
    <2>3. kept[count] \in Seq(Entry)
      BY <1>1, <2>1, WalkKeeps
    <2> QED BY <2>2, <2>3
  <1>3. m \in Nat
    BY <1>2, LenProperties
  <1>4. PICK at \in [1 .. m -> 1 .. count] : \A i, k \in 1 .. m : i < k => at[i] < at[k]
    BY LastMatchingIsEnd DEF IsEndOf
  <1> HIDE DEF reply, m
  <1>5. \A i \in 1 .. m : at[i] \in Nat
    BY <1>1, <1>4
  <1>6. \A i, k \in 1 .. m : at[i] = at[k] => i = k
    BY <1>3, <1>4, <1>5
  <1>7. at \in Injection(1 .. m, 1 .. count)
    BY <1>4, <1>6 DEF Injection, IsInjective
  <1>8. /\ IsFiniteSet(1 .. count) /\ Cardinality(1 .. count) = count
        /\ Cardinality(1 .. m) = m
    BY <1>1, <1>3, FS_Interval
  <1>9. m <= count
    BY <1>7, <1>8, FS_Injection
  <1> QED BY <1>3, <1>9 DEF m, reply

\* Lines are counted before they can be seen, and the count only grows.
LEMMA CountedFirst ==
  ASSUME StreamInv
  PROVE  /\ totalObserved \in Nat /\ count \in Nat /\ count <= totalObserved
         /\ [Next]_vars => totalObserved' \in Nat /\ totalObserved <= totalObserved'
  <1>1. /\ totalObserved \in Nat /\ count \in Nat
        /\ SumFunctionOnSet(observed, Categories) \in Int /\ Cardinality(Busy) \in Nat
    BY CatalogueSum, CapacityAssumption, MaxEntriesAssumption DEF StreamInv, TypeOK
  <1> DEFINE sum == SumFunctionOnSet(observed, Categories)
  <1>2. totalObserved = sum + Cardinality(Busy) /\ count <= sum
    BY DEF StreamInv, CatalogueInv, ObservedAddsUp, Busy
  <1>3. count <= totalObserved
    <2> HIDE DEF sum
    <2>1. sum \in Int
      BY <1>1 DEF sum
    <2> QED BY <1>1, <1>2, <2>1
  <1>4. ASSUME [Next]_vars PROVE totalObserved' \in {totalObserved, totalObserved + 1}
    <2>1. CASE \E t \in Threads : CountLine(t)
      BY <2>1 DEF CountLine
    <2>2. CASE ~\E t \in Threads : CountLine(t)
      BY <2>2, <1>4 DEF Next, Serialize, Attach, Detach, Clear, BuildEntry, AppendEntry, vars
    <2> QED BY <2>1, <2>2
  <1> QED BY <1>1, <1>3, <1>4

\* Between its two reads a handler has seen no more lines than are counted.
CountedInv ==
  /\ tail \in [at : {"idle", "total", "tailed", "searched"}, shown : Nat, total : Nat]
  /\ tail.at = "total" => tail.shown <= totalObserved
  /\ tail.at = "tailed" => tail.shown <= tail.total
  /\ wipe \in [Listeners -> [at : {"idle", "total", "done"}, before : Nat, total : Nat]]
  /\ \A l \in Listeners :
       /\ wipe[l].at = "total" => wipe[l].before <= totalObserved
       /\ wipe[l].at = "done" => wipe[l].before <= wipe[l].total

LEMMA CountedInvariant == ToolsSpec => []CountedInv
  <1> DEFINE Tail1 == [at : {"idle", "total", "tailed", "searched"}, shown : Nat, total : Nat]
             Wipe1 == [at : {"idle", "total", "done"}, before : Nat, total : Nat]
  <1>1. ToolsInit => CountedInv
    <2> SUFFICES ASSUME ToolsInit PROVE CountedInv
      OBVIOUS
    <2>1. NoTail \in Tail1 /\ NoTail.at = "idle" /\ NoWipe \in Wipe1 /\ NoWipe.at = "idle"
      BY DEF NoTail, NoWipe
    <2>2. tail = NoTail /\ wipe = [l \in Listeners |-> NoWipe]
      BY DEF ToolsInit
    <2> QED BY <2>1, <2>2 DEF CountedInv
  <1>2. StreamInv /\ StreamInv' /\ CountedInv /\ [ToolsNext]_<<vars, toolVars>> /\ [Next]_vars
        => CountedInv'
    <2> SUFFICES ASSUME StreamInv, StreamInv', CountedInv,
                        [ToolsNext]_<<vars, toolVars>>, [Next]_vars
                 PROVE  CountedInv'
      OBVIOUS
    <2>1. /\ totalObserved \in Nat /\ count \in Nat /\ count <= totalObserved
          /\ totalObserved' \in Nat /\ totalObserved <= totalObserved'
      BY CountedFirst
    <2>2. /\ tail \in Tail1 /\ tail.shown \in Nat
          /\ wipe \in [Listeners -> Wipe1]
          /\ \A l \in Listeners : wipe[l].before \in Nat
      BY DEF CountedInv
    <2>3. ASSUME tail' = tail
          PROVE  /\ tail' \in Tail1
                 /\ tail'.at = "total" => tail'.shown <= totalObserved'
                 /\ tail'.at = "tailed" => tail'.shown <= tail'.total
      BY <2>1, <2>2, <2>3 DEF CountedInv
    <2>4. ASSUME wipe' = wipe
          PROVE  /\ wipe' \in [Listeners -> Wipe1]
                 /\ \A l \in Listeners :
                      /\ wipe'[l].at = "total" => wipe'[l].before <= totalObserved'
                      /\ wipe'[l].at = "done" => wipe'[l].before <= wipe'[l].total
      BY <2>1, <2>2, <2>4 DEF CountedInv
    <2>5. ASSUME NEW n \in Int PROVE Clamped(n) \in 1 .. Capacity
      BY <2>5, CapacityAssumption DEF Clamped
    <2>6. CASE GameThread
      <3>1. wipe' = wipe /\ totalObserved' = totalObserved
        BY <2>6 DEF GameThread, vars
      <3>2. /\ tail' \in Tail1
            /\ tail'.at = "total" => tail'.shown <= totalObserved'
            /\ tail'.at = "tailed" => tail'.shown <= tail'.total
        <4>1. ASSUME NEW n \in Lines, NEW cs \in Filters,
                     tail' = [NoTail EXCEPT !.at = "total", !.shown = Len(GetLastN(Clamped(n), cs))]
              PROVE  tail' \in Tail1 /\ tail'.at = "total" /\ tail'.shown <= totalObserved'
          <5> DEFINE m == Len(GetLastN(Clamped(n), cs))
          <5>1. m \in Nat /\ m <= count
            <6>1. Clamped(n) \in 1 .. Capacity
              BY <2>5, LinesAreNumbers
            <6> QED BY <6>1, ReplyFits DEF StreamInv, GetLastN
          <5> HIDE DEF m
          <5>2. tail' = [at |-> "total", shown |-> m, total |-> 0]
            BY <4>1 DEF m, NoTail
          <5> QED BY <5>1, <5>2, <3>1, <2>1
        <4>2. ASSUME NEW n \in Lines, NEW ts \in SUBSET Threads,
                     tail' = [NoTail EXCEPT !.at = "searched", !.shown = Len(Search(Clamped(n), ts))]
              PROVE  tail' \in Tail1 /\ tail'.at = "searched"
          <5> DEFINE m == Len(Search(Clamped(n), ts))
          <5>1. m \in Nat
            <6>1. Clamped(n) \in 1 .. Capacity
              BY <2>5, LinesAreNumbers
            <6> QED BY <6>1, ReplyFits DEF StreamInv, Search
          <5> HIDE DEF m
          <5>2. tail' = [at |-> "searched", shown |-> m, total |-> 0]
            BY <4>2 DEF m, NoTail
          <5> QED BY <5>1, <5>2
        <4>3. ASSUME tail.at = "total", tail' = [tail EXCEPT !.at = "tailed", !.total = totalObserved]
              PROVE  tail' \in Tail1 /\ tail'.at = "tailed" /\ tail'.shown <= tail'.total
          BY <4>3, <2>1, <2>2 DEF CountedInv
        <4>4. CASE TailReadsEntries
          BY <4>4, <4>1 DEF TailReadsEntries
        <4>5. CASE TailReadsTotal
          BY <4>5, <4>3 DEF TailReadsTotal
        <4>6. CASE SearchReadsEntries
          BY <4>6, <4>2 DEF SearchReadsEntries
        <4> QED BY <4>4, <4>5, <4>6, <2>6 DEF GameThread
      <3> QED BY <3>1, <3>2, <2>4 DEF CountedInv
    <2>7. CASE Stream
      BY <2>7, <2>3, <2>4 DEF Stream, toolVars, CountedInv
    <2>8. ASSUME NEW l \in Listeners, Lane(l) PROVE CountedInv'
      <3>1. tail' = tail
        BY <2>8 DEF Lane, LogClear, ClearReadsTotal, ListCategories
      <3>2. /\ wipe' \in [Listeners -> Wipe1]
            /\ \A k \in Listeners :
                 /\ wipe'[k].at = "total" => wipe'[k].before <= totalObserved'
                 /\ wipe'[k].at = "done" => wipe'[k].before <= wipe'[k].total
        <4>1. CASE LogClear(l)
          <5> DEFINE w == [NoWipe EXCEPT !.at = "total", !.before = count]
          <5>1. wipe' = [wipe EXCEPT ![l] = w]
            BY <4>1 DEF LogClear
          <5>3. w = [NoWipe EXCEPT !.at = "total", !.before = count]
            OBVIOUS
          <5> HIDE DEF w
          <5>4. w = [at |-> "total", before |-> count, total |-> 0]
            BY <5>3 DEF NoWipe
          <5>2. w \in Wipe1 /\ w.at = "total" /\ w.before <= totalObserved'
            BY <5>4, <2>1
          <5> QED BY <5>1, <5>2, <2>1, <2>2 DEF CountedInv
        <4>2. CASE ClearReadsTotal(l)
          <5> DEFINE v == wipe[l]  w == [v EXCEPT !.at = "done", !.total = totalObserved]
          <5>1. wipe' = [wipe EXCEPT ![l] = w]
            BY <4>2 DEF ClearReadsTotal
          <5>3. /\ v \in Wipe1 /\ v.before <= totalObserved
                /\ w = [v EXCEPT !.at = "done", !.total = totalObserved]
            BY <4>2, <2>2 DEF ClearReadsTotal, CountedInv
          <5> HIDE DEF v, w
          <5>4. w = [at |-> "done", before |-> v.before, total |-> totalObserved]
            BY <5>3
          <5>2. w \in Wipe1 /\ w.at = "done" /\ w.before <= w.total
            BY <5>3, <5>4, <2>1
          <5> QED BY <5>1, <5>2, <2>1, <2>2 DEF CountedInv
        <4>3. CASE ListCategories(l)
          BY <4>3, <2>4 DEF ListCategories
        <4> QED BY <4>1, <4>2, <4>3, <2>8 DEF Lane
      <3> QED BY <3>1, <3>2, <2>3 DEF CountedInv
    <2>9. CASE UNCHANGED <<vars, toolVars>>
      BY <2>9, <2>3, <2>4 DEF toolVars, CountedInv
    <2> QED BY <2>6, <2>7, <2>8, <2>9 DEF ToolsNext
  <1> QED BY <1>1, <1>2, StreamInvariant, ToolsAreClients, PTL DEF ToolsSpec, Spec

------------------------------------------------------------------------------
(* The pages of log.list_categories.                                        *)

WalkRecord ==
  [at : {"idle", "paging", "done", "stale"}, filter : SUBSET Categories, last : Nat,
   known : SUBSET Categories, seen : Seq(Nat)]

\* A client has seen the names up to the cursor: those it knew when it began,
\* which still match, are among them or past the cursor.
WalkOK(w) ==
  /\ Ascending(w.seen)
  /\ Range(w.seen) \subseteq w.filter
  /\ w.at = "paging" =>
       /\ \A x \in Range(w.seen) : x <= w.last
       /\ \A c \in w.known : c <= w.last => c \in Range(w.seen)
       /\ w.known \subseteq Matching(w.filter)
  /\ w.at = "done" => w.known \subseteq Range(w.seen)

\* A page of names that come after those already seen.
LEMMA WithPageKeeps ==
  ASSUME NEW w \in WalkRecord, NEW rest \in SUBSET w.filter,
         Ascending(w.seen), Range(w.seen) \subseteq w.filter,
         \A x \in Range(w.seen) : \A y \in rest : x < y,
         w.known \subseteq Range(w.seen) \cup rest,
         w.known \subseteq Matching(w.filter)
  PROVE  WithPage(w, rest) \in WalkRecord /\ WalkOK(WithPage(w, rest))
  <1> DEFINE page == Page(rest)
             new == WithPage(w, rest)
             n == Cardinality(rest)
  <1>1. /\ w.filter \in SUBSET Categories /\ w.known \in SUBSET Categories
        /\ w.last \in Nat /\ w.seen \in Seq(Nat)
        /\ rest \in SUBSET Nat /\ IsFiniteSet(rest) /\ PageSize \in Nat /\ PageSize # 0
    <2>1. w.filter \in SUBSET Categories /\ w.known \in SUBSET Categories
          /\ w.last \in Nat /\ w.seen \in Seq(Nat)
      BY DEF WalkRecord
    <2>2. rest \in SUBSET Categories
      BY <2>1
    <2> QED BY <2>1, <2>2, NamesAndThreads, PageSizeAssumption, FS_Subset
  <1>2. /\ page \in Seq(rest) /\ page \in Seq(Nat) /\ Len(page) \in Nat
        /\ Ascending(page)
        /\ Range(page) \subseteq rest
        /\ n <= PageSize => Range(page) = rest
        /\ rest # {} => Len(page) > 0
        /\ n > PageSize => rest # {} /\ \A x \in rest \ Range(page) : page[Len(page)] < x
    <2>1. Orders(LessPairs, rest) /\ IsListing(Sorted(rest), rest, LessPairs)
      BY <1>1, ListingOfNumbers DEF Sorted
    <2>2. IsPage(page, rest, LessPairs, PageSize)
      BY <1>1, <2>1, PageOfListing DEF Page
    <2> HIDE DEF page
    <2> QED BY <1>1, <2>2, PageOfNumbers
  <1>3. /\ w.seen \o page \in Seq(Nat)
        /\ Ascending(w.seen \o page)
        /\ Range(w.seen \o page) = Range(w.seen) \cup Range(page)
        /\ Len(page) > 0 => \A x \in Range(w.seen \o page) : x <= page[Len(page)]
    <2>1. \A x \in Range(w.seen) : \A y \in Range(page) : x < y
      BY <1>2
    <2> HIDE DEF page
    <2> QED BY <1>1, <1>2, <2>1, PageAppended
  <1> DEFINE last == IF rest = {} THEN w.last ELSE Last(page)
             at == IF n > PageSize THEN "paging" ELSE "done"
             seen == w.seen \o page
  <1>4. rest # {} => Last(page) = page[Len(page)] /\ page[Len(page)] \in rest /\ page[Len(page)] \in Nat
    <2>1. rest # {} => Len(page) \in 1 .. Len(page)
      BY <1>2
    <2>2. rest # {} => page[Len(page)] \in rest
      <3> HIDE DEF page
      <3> QED BY <2>1, <1>2, ElementOfSeq
    <2> QED BY <2>2, <1>1 DEF Last
  <1>5. last \in Nat
    BY <1>1, <1>4
  <1>6. new = [w EXCEPT !.seen = seen, !.at = at, !.last = last]
    BY DEF WithPage
  <1>7. seen \in Seq(Nat) /\ at \in {"paging", "done"}
    BY <1>3
  <1> HIDE DEF new, seen, at, last
  <1>8. new = [at |-> at, filter |-> w.filter, last |-> last, known |-> w.known, seen |-> seen]
    BY <1>6 DEF WalkRecord
  <1>9. new \in WalkRecord
    BY <1>1, <1>5, <1>7, <1>8 DEF WalkRecord
  <1>10. /\ new.at = at /\ new.filter = w.filter /\ new.last = last
         /\ new.known = w.known /\ new.seen = seen
    BY <1>8
  <1>11. /\ Ascending(seen) /\ Range(seen) = Range(w.seen) \cup Range(page)
         /\ Range(seen) \subseteq w.filter
    BY <1>2, <1>3 DEF seen
  <1>12. n \in Nat
    BY <1>1, FS_CardinalityType
  <1>13. ASSUME at = "paging"
         PROVE  /\ \A x \in Range(seen) : x <= last
                /\ \A c \in w.known : c <= last => c \in Range(seen)
    <2>1. n > PageSize
      BY <1>13 DEF at
    <2>2. rest # {} /\ last = page[Len(page)] /\ Len(page) > 0
      BY <2>1, <1>2, <1>4 DEF last
    <2>3. \A x \in Range(seen) : x <= last
      BY <2>2, <1>3 DEF seen
    <2>4. ASSUME NEW c \in w.known, c <= last, c \notin Range(seen) PROVE FALSE
      <3>1. c \in rest \ Range(page)
        BY <2>4, <1>11
      <3>2. last < c
        BY <3>1, <2>1, <2>2, <1>2
      <3>3. c \in Nat /\ last \in Nat
        BY <3>1, <1>1, <1>5
      <3> QED BY <2>4, <3>2, <3>3
    <2> QED BY <2>3, <2>4
  <1>14. ASSUME at = "done" PROVE w.known \subseteq Range(seen)
    <2>1. n <= PageSize
      BY <1>14, <1>1, <1>12 DEF at
    <2> QED BY <2>1, <1>2, <1>11
  <1>15. WalkOK(new)
    BY <1>10, <1>11, <1>13, <1>14 DEF WalkOK
  <1> QED BY <1>9, <1>15 DEF new

PagesInv == walk \in [Listeners -> WalkRecord] /\ \A l \in Listeners : WalkOK(walk[l])

\* The catalogue only grows, so what matched goes on matching.
LEMMA MatchingGrows ==
  ASSUME TypeOK, [Next]_vars, NEW filter \in SUBSET Categories
  PROVE  Matching(filter) \subseteq Matching(filter)'
  <1> SUFFICES ASSUME NEW c \in filter, observed[c] > 0 PROVE observed'[c] > 0
    BY DEF Matching
  <1>1. observed \in [Categories -> Nat] /\ c \in Categories /\ observed[c] \in Nat
    BY DEF TypeOK
  <1>2. ASSUME NEW t \in Threads, AppendEntry(t) PROVE observed'[c] > 0
    <2>1. /\ newEntry[t] \in Entry
          /\ observed' = [observed EXCEPT ![newEntry[t].category] = @ + 1]
      BY <1>2 DEF AppendEntry, TypeOK
    <2>2. newEntry[t].category \in Categories
      BY <2>1 DEF Entry
    <2> QED BY <1>1, <2>1, <2>2
  <1>3. CASE observed' = observed
    BY <1>3
  <1> QED BY <1>2, <1>3 DEF Next, Serialize, Attach, Detach, Clear, CountLine, BuildEntry, vars

LEMMA PagesInvariant == ToolsSpec => []PagesInv
  <1>1. ToolsInit => PagesInv
    <2> SUFFICES ASSUME ToolsInit PROVE PagesInv
      OBVIOUS
    <2> DEFINE none == <<>>
    <2>1. none \in Seq(Nat) /\ Len(none) = 0 /\ Range(none) = {}
      BY DEF Range
    <2>2. NoWalk = [at |-> "idle", filter |-> {}, last |-> 0, known |-> {}, seen |-> none]
      BY DEF NoWalk
    <2> HIDE DEF none
    <2>3. NoWalk \in WalkRecord /\ NoWalk.at = "idle" /\ NoWalk.seen = none /\ NoWalk.filter = {}
      BY <2>1, <2>2 DEF WalkRecord
    <2>4. Ascending(none)
      BY <2>1 DEF Ascending
    <2>5. WalkOK(NoWalk)
      BY <2>1, <2>3, <2>4 DEF WalkOK
    <2> QED BY <2>3, <2>5 DEF ToolsInit, PagesInv
  <1>2. StreamInv /\ PagesInv /\ [ToolsNext]_<<vars, toolVars>> /\ [Next]_vars => PagesInv'
    <2> SUFFICES ASSUME StreamInv, PagesInv, [ToolsNext]_<<vars, toolVars>>, [Next]_vars
                 PROVE  PagesInv'
      OBVIOUS
    <2>1. \A l \in Listeners : walk[l] \in WalkRecord /\ walk[l].filter \in SUBSET Categories /\ WalkOK(walk[l])
      BY DEF PagesInv, WalkRecord
    <2>2. ASSUME NEW w \in WalkRecord, WalkOK(w)
          PROVE  WalkOK(w)'
      <3>1. w.filter \in SUBSET Categories
        BY DEF WalkRecord
      <3>2. Matching(w.filter) \subseteq Matching(w.filter)'
        BY <3>1, MatchingGrows DEF StreamInv
      <3> QED BY <2>2, <3>2 DEF WalkOK
    <2>3. ASSUME walk' = walk PROVE PagesInv'
      BY <2>1, <2>2, <2>3 DEF PagesInv
    <2>4. ASSUME NEW l \in Listeners, NEW filter \in Filters, UNCHANGED vars,
                 FirstPage(l, filter) \/ NextPage(l, filter)
          PROVE  PagesInv'
      <3> DEFINE w == walk[l]
      <3>1. w \in WalkRecord /\ WalkOK(w) /\ w.filter \in SUBSET Categories
        BY <2>1
      <3>2. filter \in SUBSET Categories /\ Matching(filter) \in SUBSET filter
        BY FiltersAssumption DEF Matching
      <3>3. ASSUME NEW v \in WalkRecord, WalkOK(v), walk' = [walk EXCEPT ![l] = v] PROVE PagesInv'
        <4>1. observed' = observed
          BY <2>4 DEF vars
        <4>2. WalkOK(v)'
          BY <3>3, <4>1 DEF WalkOK, Matching
        <4>3. walk' \in [Listeners -> WalkRecord]
          BY <3>3 DEF PagesInv
        <4>4. (\A k \in Listeners : WalkOK(walk[k]))'
          <5> SUFFICES ASSUME NEW k \in Listeners PROVE WalkOK(walk[k])'
            OBVIOUS
          <5>1. CASE k = l
            <6>1. walk'[k] = v
              BY <5>1, <3>3 DEF PagesInv
            <6> QED BY <6>1, <4>2 DEF WalkOK
          <5>2. CASE k # l
            <6>1. walk'[k] = walk[k] /\ WalkOK(walk[k])
              BY <5>2, <3>3, <2>1 DEF PagesInv
            <6> QED BY <6>1, <4>1 DEF WalkOK, Matching
          <5> QED BY <5>1, <5>2
        <4> QED BY <4>3, <4>4 DEF PagesInv
      <3> HIDE DEF w
      <3>4. CASE FirstPage(l, filter)
        <4> DEFINE v == [NoWalk EXCEPT !.filter = filter, !.known = Matching(filter)]
                   none == <<>>
        <4>1. none \in Seq(Nat) /\ Len(none) = 0 /\ Range(none) = {}
          BY DEF Range
        <4>2. NoWalk = [at |-> "idle", filter |-> {}, last |-> 0, known |-> {}, seen |-> none]
          BY DEF NoWalk
        <4>3. v = [NoWalk EXCEPT !.filter = filter, !.known = Matching(filter)]
          OBVIOUS
        <4>4. walk' = [walk EXCEPT ![l] = WithPage(v, Matching(filter))]
          BY <3>4 DEF FirstPage
        <4> HIDE DEF v, none
        <4>5. v = [at |-> "idle", filter |-> filter, last |-> 0, known |-> Matching(filter), seen |-> none]
          BY <4>2, <4>3
        <4>6. v \in WalkRecord /\ v.seen = none /\ v.filter = filter /\ v.known = Matching(filter)
          BY <4>1, <4>5, <3>2 DEF WalkRecord
        <4>7. Ascending(none)
          BY <4>1 DEF Ascending
        <4>8. WithPage(v, Matching(filter)) \in WalkRecord /\ WalkOK(WithPage(v, Matching(filter)))
          BY <4>1, <4>6, <4>7, <3>2, WithPageKeeps
        <4> QED BY <4>4, <4>8, <3>3
      <3>5. CASE NextPage(l, filter) /\ SameFilter(w, filter)
        <4> DEFINE rest == PastCursor(Matching(filter), w.last)
        <4>1. w.at = "paging" /\ w.filter = filter
          BY <3>5 DEF NextPage, SameFilter, w
        <4>2. walk' = [walk EXCEPT ![l] = WithPage(w, rest)]
          BY <3>5 DEF NextPage, w
        <4>3. w.last \in Nat /\ w.seen \in Seq(Nat) /\ w.known \in SUBSET Categories
          BY <3>1 DEF WalkRecord
        <4>4. /\ Ascending(w.seen) /\ Range(w.seen) \subseteq w.filter
              /\ \A x \in Range(w.seen) : x <= w.last
              /\ \A c \in w.known : c <= w.last => c \in Range(w.seen)
              /\ w.known \subseteq Matching(w.filter)
          BY <3>1, <4>1 DEF WalkOK
        <4>5. rest \in SUBSET w.filter /\ \A c \in Matching(filter) : c \in rest <=> c > w.last
          BY <3>2, <4>1 DEF PastCursor
        <4>6. Range(w.seen) \subseteq Nat /\ rest \subseteq Nat /\ w.known \subseteq Nat
          BY <4>3, <4>4, <4>5, <3>1, NamesAndThreads
        <4>7. \A x \in Range(w.seen) : \A y \in rest : x < y
          <5>1. \A y \in rest : y > w.last
            BY DEF PastCursor
          <5> QED BY <5>1, <4>3, <4>4, <4>6
        <4>8. w.known \subseteq Range(w.seen) \cup rest
          <5> SUFFICES ASSUME NEW c \in w.known, c \notin rest PROVE c \in Range(w.seen)
            OBVIOUS
          <5>1. c \in Nat /\ c \in Matching(filter)
            BY <4>1, <4>4, <4>6
          <5>2. c <= w.last
            BY <5>1, <4>3, <4>5
          <5> QED BY <5>2, <4>4
        <4> HIDE DEF rest
        <4>9. WithPage(w, rest) \in WalkRecord /\ WalkOK(WithPage(w, rest))
          BY <3>1, <4>4, <4>5, <4>7, <4>8, WithPageKeeps
        <4> QED BY <4>2, <4>9, <3>3
      <3>6. CASE NextPage(l, filter) /\ ~SameFilter(w, filter)
        <4> DEFINE v == [w EXCEPT !.at = "stale"]
        <4>1. walk' = [walk EXCEPT ![l] = v] /\ v = [w EXCEPT !.at = "stale"]
          BY <3>6 DEF NextPage, w
        <4> HIDE DEF v
        <4>2. v = [at |-> "stale", filter |-> w.filter, last |-> w.last, known |-> w.known, seen |-> w.seen]
          BY <4>1, <3>1 DEF WalkRecord
        <4>3. v \in WalkRecord
          BY <4>2, <3>1 DEF WalkRecord
        <4>4. WalkOK(v)
          BY <4>2, <3>1 DEF WalkOK
        <4> QED BY <4>1, <4>3, <4>4, <3>3
      <3> QED BY <2>4, <3>4, <3>5, <3>6
    <2>5. CASE Stream \/ GameThread
      BY <2>5, <2>3 DEF Stream, GameThread, toolVars
    <2>6. ASSUME NEW l \in Listeners, Lane(l) PROVE PagesInv'
      <3>1. CASE LogClear(l) \/ ClearReadsTotal(l)
        BY <3>1, <2>3 DEF LogClear, ClearReadsTotal
      <3>2. CASE ListCategories(l)
        BY <3>2, <2>4 DEF ListCategories
      <3> QED BY <2>6, <3>1, <3>2 DEF Lane
    <2>7. CASE UNCHANGED <<vars, toolVars>>
      BY <2>7, <2>3 DEF toolVars
    <2> QED BY <2>5, <2>6, <2>7 DEF ToolsNext
  <1> QED BY <1>1, <1>2, StreamInvariant, ToolsAreClients, PTL DEF ToolsSpec, Spec

\* What the replies of the log.* requests say adds up, although each takes the
\* lock several times: the counters, the pages of log.list_categories and the
\* catalogue.
THEOREM RepliesAddUp == ToolsSpec => []RepliesTrue
  <1>1. CountedInv => RepliesCounted
    BY DEF CountedInv, RepliesCounted
  <1>2. PagesInv => PagesExact
    BY DEF PagesInv, WalkOK, PagesExact, Ascending, ToSet, Range
  <1>3. StreamInv => ObservedAddsUp
    BY DEF StreamInv, CatalogueInv
  <1>4. CountedInv /\ PagesInv /\ StreamInv => RepliesTrue
    BY <1>1, <1>2, <1>3 DEF RepliesTrue
  <1> QED BY <1>4, CountedInvariant, PagesInvariant, StreamInvariant, PTL
=============================================================================
