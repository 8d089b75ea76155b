------------------------------- MODULE Frames -------------------------------
(***************************************************************************)
(* The physical frame allocator (kernel/src/frame.rs): first fit from a    *)
(* sorted, coalesced list of returned ranges, then a bump through the      *)
(* regions of usable memory.  Addresses are counted in frames, ranges are  *)
(* <<base, end>> with the end excluded.  Every call holds the lock from    *)
(* beginning to end.                                                       *)
(***************************************************************************)
EXTENDS Integers, Sequences, SequencesExt, FiniteSetsExt

CONSTANTS Regions,    \* what init keeps of the memory map
          Counts      \* the sizes the kernel asks for

ASSUME FramesAssumption ==
    /\ Regions # <<>> /\ Counts \subseteq Nat \ {0} /\ Counts # {}
    /\ \A r \in DOMAIN Regions : Regions[r] \in Nat \X Nat /\ Regions[r][1] < Regions[r][2]
    /\ \A r \in 1..Len(Regions) - 1 : Regions[r][2] <= Regions[r + 1][1]

VARIABLES free,        \* the list of returned ranges
          cur, next,   \* region and address of the bump allocator
          allocated,   \* the count of frames handed out
          held,        \* the frames the kernel holds (history)
          lost,        \* frames a bump has skipped (history)
          panicked     \* an assertion of free_frames has failed

frameVars == <<free, cur, next, allocated, held, lost, panicked>>

Range2Set(r) == r[1]..r[2] - 1
Usable == UNION {Range2Set(Regions[r]) : r \in DOMAIN Regions}

Room(r) == r[2] - r[1]

Fits(count) == {i \in DOMAIN free : Room(free[i]) >= count}

Hands(base, count) == /\ allocated' = allocated + count
                      /\ held' = held \cup Range2Set(<<base, base + count>>)

RestNotShrunk(i, count) ==
    IF Room(free[i]) = count THEN RemoveAt(free, i) ELSE free

(* The list once range i has given its first frames. *)
Rest(i, count) == IF Room(free[i]) = count THEN RemoveAt(free, i)
                  ELSE [free EXCEPT ![i] = <<@[1] + count, @[2]>>]

(* alloc_frames, from the first range with room. *)
AllocFree(count) ==
    /\ ~panicked /\ Fits(count) # {}
    /\ LET i == Min(Fits(count))
       IN  Hands(free[i][1], count) /\ free' = Rest(i, count)
    /\ UNCHANGED <<cur, next, lost, panicked>>

(* What is left of region r for the bump allocator. *)
Virgin(r) == IF r = cur THEN <<next, Regions[r][2]>> ELSE Regions[r]

Roomy(count) == {r \in cur..Len(Regions) : Room(Virgin(r)) >= count}

Skipped(upto) == UNION {Range2Set(Virgin(r)) : r \in cur..upto}

(* alloc_frames, from the first region left with room; the ones before it   *)
(* are never looked at again.                                               *)
AllocBump(count) ==
    /\ ~panicked /\ Fits(count) = {} /\ Roomy(count) # {}
    /\ LET r == Min(Roomy(count))
       IN  /\ Hands(Virgin(r)[1], count)
           /\ cur' = r /\ next' = Virgin(r)[1] + count
           /\ lost' = lost \cup Skipped(r - 1)
    /\ UNCHANGED <<free, panicked>>

(* alloc_frames finds nothing and returns None, having skipped every region. *)
AllocFails(count) ==
    /\ ~panicked /\ Fits(count) = {} /\ Roomy(count) = {}
    /\ cur' = Len(Regions) + 1
    /\ next' = IF cur < Len(Regions) THEN Regions[Len(Regions)][1] ELSE next
    /\ lost' = lost \cup Skipped(Len(Regions))
    /\ UNCHANGED <<free, allocated, held, panicked>>

-----------------------------------------------------------------------------
(* Where the list takes a range from start on. *)
At(start) == LET after == {i \in DOMAIN free : free[i][1] > start}
             IN  IF after = {} THEN Len(free) + 1 ELSE Min(after)

(* The assertions of free_frames. *)
Asserted(start, end) ==
    /\ \E r \in DOMAIN Regions : start >= Regions[r][1] /\ end <= Regions[r][2]
    /\ allocated >= end - start
    /\ At(start) > 1 => free[At(start) - 1][2] <= start
    /\ At(start) <= Len(free) => end <= free[At(start)][1]

MergedLeftOnly(start, end) ==
    LET at == At(start)
    IN  IF at > 1 /\ free[at - 1][2] = start THEN [free EXCEPT ![at - 1] = <<@[1], end>>]
        ELSE IF at <= Len(free) /\ free[at][1] = end THEN [free EXCEPT ![at] = <<start, @[2]>>]
        ELSE InsertAt(free, at, <<start, end>>)

(* The list with the range put in and joined to the neighbours it touches.  *)
Merged(start, end) ==
    LET at == At(start)
        left == at > 1 /\ free[at - 1][2] = start
        right == at <= Len(free) /\ free[at][1] = end
    IN  IF left /\ right
        THEN [RemoveAt(free, at) EXCEPT ![at - 1] = <<@[1], free[at][2]>>]
        ELSE IF left THEN [free EXCEPT ![at - 1] = <<@[1], end>>]
        ELSE IF right THEN [free EXCEPT ![at] = <<start, @[2]>>]
        ELSE InsertAt(free, at, <<start, end>>)

(* free_frames.  An assertion that fails panics the kernel; what was         *)
(* allocated in one call may be returned in several.                         *)
FreeFrames(start, count) ==
    /\ ~panicked
    /\ IF Asserted(start, start + count)
       THEN /\ free' = Merged(start, start + count)
            /\ allocated' = allocated - count
            /\ held' = held \ Range2Set(<<start, start + count>>)
            /\ UNCHANGED panicked
       ELSE panicked' = TRUE /\ UNCHANGED <<free, allocated, held>>
    /\ UNCHANGED <<cur, next, lost>>

-----------------------------------------------------------------------------
FreePages == UNION {Range2Set(free[i]) : i \in DOMAIN free}
VirginPages == UNION {Range2Set(Virgin(r)) : r \in cur..Len(Regions)}

(* Every usable frame is in exactly one place: held, on the free list, not  *)
(* yet used, or skipped; the count of held frames is right; and free_frames *)
(* fails no assertion.  So no frame is handed to two tasks, and none is     *)
(* forgotten by a merge.                                                    *)
EachFrameOnce ==
    /\ ~panicked
    /\ Usable = held \cup FreePages \cup VirginPages \cup lost
    /\ allocated = Cardinality(held)
    /\ Cardinality(Usable) = Cardinality(held) + Cardinality(FreePages)
                                + Cardinality(VirginPages) + Cardinality(lost)

(* "repeated spawn/exit cycles reach a fixed point": after any mix of       *)
(* splits by first fit and merges on either side the list is "sorted by     *)
(* base, pairwise non-adjacent", so what is returned is whole again; and a  *)
(* region has lost less to skipping than the largest request.               *)
FixedPoint ==
    /\ \A i \in 1..Len(free) - 1 : free[i][2] < free[i + 1][1]
    /\ \A i \in DOMAIN free : free[i][1] < free[i][2]
    /\ \A r \in DOMAIN Regions : Cardinality(lost \cap Range2Set(Regions[r])) < Max(Counts)
=============================================================================
