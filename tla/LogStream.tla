----------------------------- MODULE LogStream ------------------------------
(* FMCPLogStream, the output device GLog calls from every thread that logs: *)
(* a ring of Capacity entries under EntriesLock, a counter beside it that   *)
(* is not under the lock, and the catalogue of the categories seen.         *)
(*                                                                          *)
(* Everything the code does under EntriesLock is one step.  Serialize is    *)
(* three: it counts the line, takes the time and builds the entry, and only *)
(* then asks for the lock.  The threads of Threads are those that log; a    *)
(* request handler that logs between two requests is one of them.           *)
EXTENDS Naturals, FiniteSets, SequencesExt

CONSTANTS
  Threads,      \* the threads that write to GLog
  Categories,   \* log categories, numbered in the order of their names
  Capacity,     \* kMaxEntries
  MaxEntries    \* bound on the lines the threads log, and so on the clock

ASSUME CapacityAssumption == Capacity \in Nat \ {0}
ASSUME MaxEntriesAssumption == MaxEntries \in Nat
ASSUME NamesAndThreads == /\ Categories \subseteq Nat
                          /\ IsFiniteSet(Categories) /\ IsFiniteSet(Threads)

\* The default entry, with which the constructor fills the ring.
Blank == [by |-> "nobody", stamp |-> 0, category |-> 0]

Slots == 0 .. Capacity - 1
Entry == [by : Threads, stamp : 1 .. MaxEntries, category : Categories]

VARIABLES
  entries,        \* Entries, with indices from 0
  head,           \* Head: the next slot to write
  count,          \* Count: the valid slots
  totalObserved,  \* TotalObserved
  observed,       \* ObservedCategories: how often each category was seen
  attached,       \* bAttached, and the redirector's list of devices
  step,           \* where each thread is in Serialize
  newEntry,       \* NewEntry on each thread's stack
  clock           \* FDateTime::UtcNow, which tells any two entries apart

ring    == <<entries, head, count>>
devVars == <<attached, clock>>
thrVars == <<step, newEntry>>
vars    == <<ring, totalObserved, observed, devVars, thrVars>>

Init ==
  /\ entries = [i \in Slots |-> Blank]
  /\ head = 0 /\ count = 0
  /\ totalObserved = 0
  /\ observed = [c \in Categories |-> 0]
  /\ attached = FALSE
  /\ step = [t \in Threads |-> "idle"]
  /\ newEntry = [t \in Threads |-> Blank]
  /\ clock = 0

------------------------------------------------------------------------------
(* Attach and Detach add the device to GLog and remove it; a thread that    *)
(* is inside Serialize goes on.                                             *)

Attach ==
  /\ ~attached
  /\ attached' = TRUE
  /\ UNCHANGED <<ring, totalObserved, observed, thrVars, clock>>

Detach ==
  /\ attached
  /\ attached' = FALSE
  /\ UNCHANGED <<ring, totalObserved, observed, thrVars, clock>>

------------------------------------------------------------------------------
(* Serialize.                                                               *)

CountLine(t) ==
  /\ step[t] = "idle" /\ attached
  /\ totalObserved < MaxEntries
  /\ totalObserved' = totalObserved + 1
  /\ step' = [step EXCEPT ![t] = "stamp"]
  /\ UNCHANGED <<ring, observed, devVars, newEntry>>

BuildEntry(t) ==
  /\ step[t] = "stamp"
  /\ clock < MaxEntries
  /\ clock' = clock + 1
  /\ \E c \in Categories :
       newEntry' = [newEntry EXCEPT ![t] =
                      [by |-> t, stamp |-> clock', category |-> c]]
  /\ step' = [step EXCEPT ![t] = "append"]
  /\ UNCHANGED <<ring, totalObserved, observed, attached>>

\* Mutants: the write index wraps one slot late; it stays when the ring is full.
NextHeadLate == (head + 1) % (Capacity + 1)
NextHeadIfRoom == IF count < Capacity THEN (head + 1) % Capacity ELSE head

NextHead == (head + 1) % Capacity

AppendEntry(t) ==
  /\ step[t] = "append"
  /\ entries' = [entries EXCEPT ![head] = newEntry[t]]
  /\ head' = NextHead
  /\ count' = IF count < Capacity THEN count + 1 ELSE count
  /\ observed' = [observed EXCEPT ![newEntry[t].category] = @ + 1]
  /\ step' = [step EXCEPT ![t] = "idle"]
  /\ UNCHANGED <<totalObserved, devVars, newEntry>>

Serialize(t) == CountLine(t) \/ BuildEntry(t) \/ AppendEntry(t)

------------------------------------------------------------------------------
(* The calls of the request handlers.                                       *)

ResetRing == head' = 0 /\ count' = 0 /\ UNCHANGED entries

Clear ==
  /\ ResetRing
  /\ UNCHANGED <<totalObserved, observed, devVars, thrVars>>

\* Mutant: the walk starts at the next slot to write.
NewestAtHead(s) == entries[(head + 2 * Capacity - s) % Capacity]

\* The entry written s entries before the newest one.
Newest(s) == entries[(head + 2 * Capacity - 1 - s) % Capacity]

\* GetLastN and Search walk from the newest entry to the oldest until they have
\* n that match.  What they keep is turned round at the end, so each entry they
\* keep comes before those kept so far.
LastMatching(n, matching) ==
  LET kept[k \in 0 .. count] ==
        IF k = 0 THEN <<>>
        ELSE IF Len(kept[k - 1]) < n /\ Newest(k - 1) \in matching
             THEN <<Newest(k - 1)>> \o kept[k - 1]
             ELSE kept[k - 1]
  IN  kept[count]

InCategories(categories) == {e \in Entry : e.category \in categories}

GetLastN(n, categories) == LastMatching(n, InCategories(categories))

\* A regular expression matches the lines of some threads.
WrittenBy(authors) == {e \in Entry : e.by \in authors}

Search(n, authors) == LastMatching(n, WrittenBy(authors))

------------------------------------------------------------------------------
Next == Attach \/ Detach \/ Clear \/ \E t \in Threads : Serialize(t)

Spec == Init /\ [][Next]_vars

------------------------------------------------------------------------------
(* Properties.                                                              *)

\* Every variable has its type.  Among the indices, a ring that is not full
\* was filled from slot 0 (FMCPLogStream.h: the oldest entry is at
\* (Count == kMaxEntries) ? Head : 0), and what is valid was written.
TypeOK ==
  /\ entries \in [Slots -> Entry \cup {Blank}]
  /\ head \in Slots
  /\ count \in 0 .. Capacity
  /\ totalObserved \in 0 .. MaxEntries /\ clock \in 0 .. MaxEntries
  /\ observed \in [Categories -> Nat]
  /\ attached \in BOOLEAN
  /\ step \in [Threads -> {"idle", "stamp", "append"}]
  /\ newEntry \in [Threads -> Entry \cup {Blank}]
  /\ \A t \in Threads : step[t] = "append" => newEntry[t] \in Entry
  /\ count < Capacity => head = count
  /\ \A i \in Slots : i < count => entries[i] \in Entry

\* The ring read from its oldest entry to its newest.
Oldest == IF count = Capacity THEN head ELSE 0
ReadRing(slots, first, n) ==
  [i \in 1 .. n |-> slots[(first + i - 1) % Capacity]]
Window == ReadRing(entries, Oldest, count)

Bounded == INSTANCE BoundedLog WITH window <- Window

\* The ring, its wrap-around and Clear are a log that keeps the last Capacity
\* entries in the order of their appends.
ImplementsBoundedLog == Bounded!Spec

\* The reply is the end of what matches in the log: it shows lines of the log in
\* their order, all of them match, there are n at most, and a line that matches
\* and is not shown is older than n lines that are.
IsEndOf(reply, n, matching) ==
  /\ Len(reply) <= n
  /\ \E at \in [1 .. Len(reply) -> 1 .. count] :
       /\ \A i, k \in 1 .. Len(reply) : i < k => at[i] < at[k]
       /\ \A i \in 1 .. Len(reply) : reply[i] = Window[at[i]] /\ reply[i] \in matching
       /\ \A k \in 1 .. count : Window[k] \in matching =>
            \/ \E i \in 1 .. Len(reply) : at[i] = k
            \/ Len(reply) = n /\ k < at[1]

\* GetLastN and Search, walking backwards by index arithmetic, return the
\* last n matching entries of that log, oldest first.
ReadsLastMatching ==
  \A n \in 1 .. Capacity :
    /\ \A cs \in SUBSET Categories : IsEndOf(GetLastN(n, cs), n, InCategories(cs))
    /\ \A ts \in SUBSET Threads : IsEndOf(Search(n, ts), n, WrittenBy(ts))

\* Two lines of one thread are never shown in the wrong order, although their
\* times are taken before the lock is.
ThreadOrderKept ==
  \A i, k \in 1 .. count :
    i < k /\ Window[i].by = Window[k].by => Window[i].stamp < Window[k].stamp

\* Every line counted is in the catalogue or on its way there, whatever was
\* cleared or overwritten in between: the counter is not under the lock, the
\* catalogue is.
ObservedAddsUp ==
  totalObserved = SumFunctionOnSet(observed, Categories)
                  + Cardinality({t \in Threads : step[t] # "idle"})

\* What a reader is given is the end of the log, with every thread's lines in
\* the order in which it wrote them.
ReadsFaithful == ReadsLastMatching /\ ThreadOrderKept
=============================================================================
