------------------------------ MODULE MCKernel ------------------------------
(***************************************************************************)
(* The parts of the kernel that are checked apart from one another, in one  *)
(* TLC run.  part says which of them a behaviour is about; v1 to v11 are    *)
(* the variables of that part, and hold 0 where it has fewer.              *)
(***************************************************************************)
EXTENDS Integers, Sequences

VARIABLES part, v1, v2, v3, v4, v5, v6, v7, v8, v9, v10, v11
all == <<part, v1, v2, v3, v4, v5, v6, v7, v8, v9, v10, v11>>

Malloc == INSTANCE MallocTable
    WITH Addr <- 1 .. 4, Sizes <- {8}, SIZEOF_PTR <- 4, NoBlock <- 0,
         allocation_ptrs <- v1, allocation_ptrs_count <- v2, size <- v3, data <- v4, off <- v5

Search == INSTANCE FindFreeZone
    WITH LAST <- 6, MAX_BLOCKS <- 4,
         allocated <- v1, num_blocks_needed <- v2, noted <- v3, current_node <- v4,
         start_node <- v5, consecutive_free_blocks <- v6, at <- v7

\* One task; sizes 1 and 3 take one block and two, and size 8 is refused.
Heap == INSTANCE KHeap
    WITH LAST <- 6, BLOCK_SIZE <- 2, total_region_size_g <- 8, Sizes <- {1, 3, 8}, Tasks <- {1},
         allocated <- v1, first_block <- v2, num_block_used <- v3,
         total_requested_memory <- v4, mem_lock_free <- v5, pc <- v6, live <- v7, hung <- v8

\* Tasks terminate also while the butler is awake; only the butler creates them.
Careless == INSTANCE Scheduler
    WITH MAX_TASKS <- 4, Creators <- {0}, Sleepers <- 1 .. 3, Terminators <- 1 .. 3,
         Patient <- FALSE, MAX_SLEEP <- 2, k <- v1, pc <- v2

\* Two memory maps; frames of pages that calls ask for by number lie in and out of them.
Area(base, len) == [base |-> base, len |-> len]
Pages == INSTANCE PageMemory
    WITH N <- 12, Pages <- 40, KernelEnd <- 1, PAGE <- 2, Ranges <- {<<40, 42>>, <<41, 44>>, <<34, 37>>},
         Maps <- {<<Area(0, 5), Area(6, 12), Area(18, 12), Area(30, 10)>>, <<Area(10, 5), Area(17, 9)>>},
         Sizes <- {1, 2}, MaxDirs <- 2, MaxCalls <- 4,
         pm <- v1, dirs <- v2, lapses <- v3, ram <- v4, calls <- v5

Keys == INSTANCE Keyboard
    WITH Keys <- {"a", "1", "0", "caps", "shift", "up", "released"}, IO_STREAM_SIZE <- 2, MaxEvents <- 3,
         Owners <- {127},
         events <- v1, kb <- v2, io <- v3, poller <- v4, taker <- v5, aside <- v6

\* The timer, the keyboard, a line without a handler and the network card; two tasks.
Irqs == INSTANCE Interrupts
    WITH Lines <- {0, 1, 9, 11}, Card <- 11, Tasks <- {1, 2}, MAX_EXCEPTIONS <- 1, MaxFrames <- 3,
         g_interrupt_handlers <- v1, service <- v2, frames <- v3, running <- v4, ifl <- v5,
         irqDisableCounter <- v6, exception_count <- v7

\* Five packets on a ring of three: the card can lap the driver and wait for it.
Net == INSTANCE Net
    WITH RX_SIZE <- 3, TX_SIZE <- 2, Kind <- <<"offer", "oversized", "dhcp", "ack", "other">>, MaxSend <- 3,
         rx <- v1, tx <- v2, arrived <- v3, irq <- v4, poll <- v5, info <- v6, log <- v7

\* A threshold of 1 lets seven elements go through all that Divide does.
Sort == INSTANCE Quicksort
    WITH total_elems <- 7, MAX_THRESH <- 1, Hashes <- 0 .. 2,
         hash <- v1, a <- v2, pc <- v3, lo <- v4, hi <- v5, mid <- v6, left_ptr <- v7, right_ptr <- v8,
         stack <- v9, run_ptr <- v10, tmp_ptr <- v11

InitKernel ==
    \/ part = "malloc"  /\ Malloc!InitTable        /\ v6 = 0 /\ v7 = 0 /\ v8 = 0 /\ v9 = 0 /\ v10 = 0 /\ v11 = 0
    \/ part = "search"  /\ Search!InitSearch       /\ v8 = 0 /\ v9 = 0 /\ v10 = 0 /\ v11 = 0
    \/ part = "heap"    /\ Heap!init_memory_region /\ v9 = 0 /\ v10 = 0 /\ v11 = 0
    \/ part = "tasks"   /\ Careless!InitScheduler  /\ v3 = 0 /\ v4 = 0 /\ v5 = 0 /\ v6 = 0 /\ v7 = 0 /\ v8 = 0 /\ v9 = 0 /\ v10 = 0 /\ v11 = 0
    \/ part = "pages"   /\ Pages!InitPages         /\ v6 = 0 /\ v7 = 0 /\ v8 = 0 /\ v9 = 0 /\ v10 = 0 /\ v11 = 0
    \/ part = "keys"    /\ Keys!InitKeyboard       /\ v7 = 0 /\ v8 = 0 /\ v9 = 0 /\ v10 = 0 /\ v11 = 0
    \/ part = "irqs"    /\ Irqs!InitInterrupts     /\ v8 = 0 /\ v9 = 0 /\ v10 = 0 /\ v11 = 0
    \/ part = "net"     /\ Net!InitNet             /\ v8 = 0 /\ v9 = 0 /\ v10 = 0 /\ v11 = 0
    \/ part = "sort"    /\ Sort!InitSort

NextKernel ==
    /\ \/ part = "malloc"  /\ Malloc!Next             /\ UNCHANGED <<v6, v7, v8, v9, v10, v11>>
       \/ part = "search"  /\ Search!Next             /\ UNCHANGED <<v8, v9, v10, v11>>
       \/ part = "heap"    /\ Heap!Next               /\ UNCHANGED <<v9, v10, v11>>
       \/ part = "tasks"   /\ Careless!Next           /\ UNCHANGED <<v3, v4, v5, v6, v7, v8, v9, v10, v11>>
       \/ part = "pages"   /\ Pages!NextPages         /\ UNCHANGED <<v6, v7, v8, v9, v10, v11>>
       \/ part = "keys"    /\ Keys!NextKeyboard       /\ UNCHANGED <<v7, v8, v9, v10, v11>>
       \/ part = "irqs"    /\ Irqs!Next               /\ UNCHANGED <<v8, v9, v10, v11>>
       \/ part = "net"     /\ Net!Next                /\ UNCHANGED <<v8, v9, v10, v11>>
       \/ part = "sort"    /\ Sort!Next
    /\ UNCHANGED part

SpecKernel == InitKernel /\ [][NextKernel]_all /\ WF_all(part = "search" /\ NextKernel)
-----------------------------------------------------------------------------
\* Below the count, malloc's table holds live blocks only, and none twice.
TableIsLive == part = "malloc" => Malloc!TableIsLive

\* The loops that rely on what they find in memory to end where they should do so:
\* find_free_zone finds the zone that module KHeap chooses, and _quicksort sorts.
LoopsAreExact ==
    /\ part = "search" => Search!FindsFirstZone
    /\ part = "sort" => Sort!SortsInBounds

\* find_free_zone returns, unless no zone is free and the last node is taken.
ReturnsOrHangs ==
    /\ (part = "search" /\ Search!CanReturn) ~> (part = "search" /\ Search!Returned)
    /\ [](part = "search" /\ ~Search!CanReturn => ~Search!Returned)

\* With one task every node of the kernel heap is free or belongs to a region, whose
\* size its first node remembers.
HeapAccounts == part = "heap" => Heap!HeapAccounts



\* Whenever tasks terminate, the scheduler's locks balance and no list or task reaches
\* a PCB that the butler has freed.
CarelessIsSafe ==
    part = "tasks" => Careless!TypeOK /\ Careless!LocksBalanced /\ Careless!FreedIsUnreachable
=============================================================================
