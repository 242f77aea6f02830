--------------------------- MODULE TwoLevelQueue ---------------------------
(***************************************************************************)
(* The frontier of a traversal.  A kernel reads the items of the input     *)
(* buffer, all of them in parallel, while its threads append to the output *)
(* buffer; then the host swaps the two.  Because every item is read by a   *)
(* thread of its own, the order of a buffer means nothing, and a buffer is *)
(* a bag: how often each item is in it.  The device counters are the       *)
(* numbers of items in the buffers, and size is the host's copy of the     *)
(* input counter, which is what size() returns.                            *)
(***************************************************************************)
EXTENDS Integers, FiniteSets

CONSTANTS Items,       \* what can be enqueued
          MaxItems     \* _max_allocated_items

VARIABLES input,       \* the buffer _d_queue_ptrs.first
          output,      \* the buffer _d_queue_ptrs.second
          size         \* _h_counters.x

Empty == [i \in Items |-> 0]

\* The positions that a buffer fills, and their number: a device counter.
Slots(buffer) == UNION {{i} \X (1 .. buffer[i]) : i \in Items}
Count(buffer) == Cardinality(Slots(buffer))

With(buffer, i) == [buffer EXCEPT ![i] = @ + 1]

Init == /\ input = Empty
        /\ output = Empty
        /\ size = 0

\* insert() called by the host appends to the input buffer.
HostInsert(i) == /\ input' = With(input, i)
                 /\ size' = Count(input) + 1
                 /\ UNCHANGED output

\* insert() called by a thread: the atomic gives it a position of its own.
DeviceInsert(i) == /\ output' = With(output, i)
                   /\ UNCHANGED <<input, size>>

\* swap(), with the sync() that refreshes the counters of the host.
Swap == /\ input' = output
        /\ output' = Empty
        /\ size' = Count(output)

\* A kernel whose threads append items.
Append(items) == /\ output' = [i \in Items |-> output[i] + items[i]]
                 /\ UNCHANGED <<input, size>>

\* A kernel whose threads append items, and the swap after it.
AppendAndSwap(items) == /\ input' = [i \in Items |-> output[i] + items[i]]
                        /\ output' = Empty
                        /\ size' = Count(input')

Clear == /\ input' = Empty
         /\ output' = Empty
         /\ size' = 0

\* What sync() asserts of the counters.
Fits == Count(input) <= MaxItems /\ Count(output) <= MaxItems
============================================================================
