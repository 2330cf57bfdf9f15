------------------------------- MODULE RingBuffer ------------------------------
(***************************************************************************)
(* The ring buffer of src/src/ring_buffer.h as operators on the sequence   *)
(* of its items, oldest first.  An item takes the units at .. at + size - 1*)
(* of the ring's memory: the FreeRTOS buffer is one that does not split    *)
(* items, so an item that does not fit before the end goes to the start,   *)
(* and the longest item is half of the memory.  An item is acquired first, *)
(* and full once its producer has completed it; the consumer gets the      *)
(* oldest item if it is full, uses it where it lies and returns it.        *)
(***************************************************************************)
EXTENDS Naturals, Sequences

Longest(room) == room \div 2

End(item) == item.at + item.size

Units(item) == item.at .. End(item) - 1

\* The new items start at the head of the memory again.
Wrapped(items) == items[Len(items)].at < items[1].at

\* Where an item of that size may go (nowhere: {}).  In an empty ring the
\* place depends on what was there before.
Places(items, size, room) ==
  IF items = <<>> THEN 0 .. room - size
  ELSE LET first == items[1]
           end   == End(items[Len(items)])
           limit == IF Wrapped(items) THEN first.at ELSE room
       IN  {p \in {end} : p + size <= limit}
             \cup {p \in {0} : ~Wrapped(items) /\ end + size > room /\ size <= first.at}

\* deviation (a wrong version, see Transport): readers find it at once.
AcquireFull(items, at, size) ==
  Append(items, [at |-> at, size |-> size, full |-> TRUE])

\* RingBuffer::allocate: the item is the producer's to fill.
Acquire(items, at, size) == Append(items, [at |-> at, size |-> size, full |-> FALSE])

\* ~RingData of an item that allocate returned.
Complete(items) == [items EXCEPT ![Len(items)].full = TRUE]

\* RingBuffer::read finds an item.
Readable(items) == items # <<>> /\ items[1].full

\* ~RingData of an item that read returned.
Return(items) == Tail(items)
================================================================================
