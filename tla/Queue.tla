-------------------------------- MODULE Queue --------------------------------
(***************************************************************************)
(* The circular buffer behind the event queues of the processing loop and  *)
(* of the retroactive processor (packages/data-flow, class Queue).         *)
(*                                                                         *)
(* The buffer is a function on 0..capacity-1.  It grows when a push does   *)
(* not fit and shrinks when it is nearly empty; both move the items to the *)
(* start of a new buffer.                                                  *)
(***************************************************************************)
EXTENDS Naturals, Sequences

CONSTANTS
    Items,
    Undefined,         \* the value of a slot nothing is stored in
    InitialCapacity,
    ShrinkAbove,       \* 16384 in the code: no buffer up to this size shrinks
    MaxPush,           \* most items of one call of push
    MaxSize            \* bound: items in the queue

ASSUME QueueAssumption ==
    /\ Undefined \notin Items
    /\ InitialCapacity \in Nat \ {0} /\ ShrinkAbove \in Nat
    /\ MaxPush \in Nat /\ MaxSize \in Nat

VARIABLES buffer, capacity, head, tail, size, returned

queueVars == <<buffer, capacity, head, tail, size, returned>>

-----------------------------------------------------------------------------
(* Arithmetic of push and resize. *)

CeilHalf(n) == (n + 1) \div 2

Larger(m, n) == IF m > n THEN m ELSE n

\* Math.ceil(Math.max(length * 2, required * 1.5))
Grown(required) == Larger(capacity * 2, CeilHalf(required * 3))

\* Mutant: the items are copied from the start of the old buffer.
MutantResized(h, k, n) == [i \in 0..(n - 1) |-> IF i < k THEN buffer[i] ELSE Undefined]

\* resize to n slots: the k items from slot h on move to the start
Resized(h, k, n) ==
    [i \in 0..(n - 1) |-> IF i < k THEN buffer[(h + i) % capacity] ELSE Undefined]

\* The buffer b of n slots with the items written from slot t on.
Written(b, n, t, items) ==
    [i \in 0..(n - 1) |->
        LET k == IF i < t THEN i + n - t ELSE i - t
        IN  IF k < Len(items) THEN items[k + 1] ELSE b[i]]

QueueInit ==
    /\ buffer = [i \in 0..(InitialCapacity - 1) |-> Undefined]
    /\ capacity = InitialCapacity
    /\ head = 0 /\ tail = 0 /\ size = 0
    /\ returned = Undefined

Fits(required) == required <= capacity

Push(items) ==
    /\ LET required == size + Len(items)
       IN IF Fits(required)
          THEN /\ buffer' = Written(buffer, capacity, tail, items)
               /\ tail' = (tail + Len(items)) % capacity
               /\ UNCHANGED <<capacity, head>>
          ELSE /\ capacity' = Grown(required)
               /\ buffer' = Written(Resized(head, size, capacity'), capacity', size, items)
               /\ head' = 0
               /\ tail' = (size + Len(items)) % capacity'
    /\ size' = size + Len(items)
    /\ returned' = Undefined

\* Mutant: the slot keeps the item that was taken out.
MutantCleared == buffer

Cleared == [buffer EXCEPT ![head] = Undefined]

ShouldShrink == 8 * (size - 1) < capacity /\ capacity > ShrinkAbove

PopEmpty ==
    /\ size = 0
    /\ returned' = Undefined
    /\ UNCHANGED <<buffer, capacity, head, tail, size>>

Pop ==
    /\ size > 0 /\ ~ShouldShrink
    /\ returned' = buffer[head]
    /\ buffer' = Cleared
    /\ head' = (head + 1) % capacity
    /\ size' = size - 1
    /\ UNCHANGED <<capacity, tail>>

PopAndShrink ==
    /\ size > 0 /\ ShouldShrink
    /\ returned' = buffer[head]
    /\ capacity' = CeilHalf(capacity)
    /\ buffer' = Resized(head + 1, size - 1, CeilHalf(capacity))
    /\ head' = 0
    /\ tail' = size - 1
    /\ size' = size - 1

\* peek reads the slot at head without looking at the size.
Peek ==
    /\ returned' = buffer[head]
    /\ UNCHANGED <<buffer, capacity, head, tail, size>>

QueueNext ==
    \/ \E n \in 1..MaxPush : \E items \in [1..n -> Items] :
          size + n <= MaxSize /\ Push(items)
    \/ PopEmpty \/ Pop \/ PopAndShrink \/ Peek

QueueSpec == QueueInit /\ [][QueueNext]_queueVars
-----------------------------------------------------------------------------
(* Properties. *)

\* The item i places behind the first, i < size
Slot(i) == (head + i) % capacity

\* Exactly the slots between head and tail hold items: an event that has been
\* taken out is released, and peek, which does not look at the size, finds
\* nothing in an empty queue.
WindowHolds ==
    \A k \in 0..(capacity - 1) :
        buffer[k] # Undefined <=> \E i \in 0..(size - 1) : k = Slot(i)

\* Whatever it grows and shrinks, the buffer is a first-in first-out queue.
AsFifo == INSTANCE Fifo WITH contents <- [i \in 1..size |-> buffer[Slot(i - 1)]]

ImplementsFifo == AsFifo!FifoSpec
=============================================================================
