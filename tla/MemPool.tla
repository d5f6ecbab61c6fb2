------------------------------ MODULE MemPool ------------------------------
(* The memory the drivers of the simulation give to the device: a Pool       *)
(* (sim/common/address_space.py) whose regions come from a BuddyAllocator    *)
(* (buddy_allocator.py).  A driver allocates and frees regions, injects      *)
(* faults into them, and the device reads and writes ranges of addresses.    *)
EXTENDS Integers, Sequences, SequencesExt, FiniteSets, FiniteSetsExt, Functions

CONSTANTS Log,       \* the pool has 2^Log bytes
          MaxLive,   \* bound: regions at a time
          MaxFaults  \* bound: injected faults at a time

VARIABLES memFree,  \* free_lists: per bucket the free blocks, oldest first
          memAlloc, \* allocations: address -> bucket
          memReg,   \* regions of the pool, each with its defect_injections in order
          memGot    \* the last access: range, result, bytes done before it raised
vars == <<memFree, memAlloc, memReg, memGot>>

Size == 2^Log
Buckets == 0..Log
NoAccess == [op |-> "none", addr |-> 0, len |-> 0, res |-> "none", done |-> 0]
Init ==
  /\ memFree = [b \in Buckets |-> IF b = Log THEN <<0>> ELSE <<>>]
  /\ memAlloc = <<>> /\ memReg = {} /\ memGot = NoAccess

-----------------------------------------------------------------------------
(* BuddyAllocator.                                                           *)

BucketOf(size) == Min({b \in Buckets : size <= 2^b})

\* Halving the oldest block of bucket b until one of bucket goal is there.
Split(lists, bucket, goal) ==
  LET halve[free \in [Buckets -> Seq(0..Size)], b \in Buckets] ==
        IF b = goal THEN free
        ELSE LET block == Head(free[b])
             IN halve[[free EXCEPT ![b] = Tail(@), ![b-1] = @ \o <<block, block + 2^(b-1)>>], b - 1]
  IN halve[lists, bucket]

\* Giving a block back, with its buddy as long as that is free too.
Buddy(addr, b) == IF (addr \div 2^b) % 2 = 1 THEN addr - 2^b ELSE addr + 2^b
Merge(lists, block, bucket) ==
  LET give[free \in [Buckets -> Seq(0..Size)], addr \in 0..Size, b \in Buckets] ==
        IF Buddy(addr, b) \in Range(free[b])
        THEN give[[free EXCEPT ![b] = SelectSeq(@, LAMBDA x : x # Buddy(addr, b))],
                  Min({addr, Buddy(addr, b)}), b + 1]
        ELSE [free EXCEPT ![b] = Append(@, addr)]
  IN give[lists, block, bucket]

-----------------------------------------------------------------------------
(* Pool.                                                                     *)

Extent(r) == r.base .. (r.base + r.size - 1)
Touched(addr, len) == addr .. (addr + len - 1)
FindRegions(addr, len) == {r \in memReg : addr < r.base + r.size /\ r.base < addr + len}

AllocRegion(size) ==
  LET room == {b \in BucketOf(size)..Log : memFree[b] # <<>>}
  IN /\ Cardinality(memReg) < MaxLive /\ room # {}
     /\ LET goal == BucketOf(size)
            free == Split(memFree, Min(room), goal)
            base == Head(free[goal])
        IN /\ memFree' = [free EXCEPT ![goal] = Tail(@)]
           /\ memAlloc' = [a \in {base} \cup DOMAIN memAlloc |-> IF a = base THEN goal ELSE memAlloc[a]]
           /\ IF FindRegions(base, size) = {}
              THEN memReg' = memReg \cup {[base |-> base, size |-> size, faults |-> <<>>]} /\ memGot' = NoAccess
              ELSE UNCHANGED memReg /\ memGot' = [NoAccess EXCEPT !.res = "overlap"]
\* out of memory: nothing changes but what the caller is told
AllocFails(size) ==
  /\ \A b \in BucketOf(size)..Log : memFree[b] = <<>>
  /\ memGot' = [NoAccess EXCEPT !.op = "alloc", !.len = size, !.res = "full"]
  /\ UNCHANGED <<memFree, memAlloc, memReg>>
FreeRegion(r) ==
  /\ memFree' = Merge(memFree, r.base, memAlloc[r.base])
  /\ memAlloc' = Restrict(memAlloc, DOMAIN memAlloc \ {r.base})
  /\ memReg' = memReg \ {r} /\ memGot' = NoAccess

NumFaults(regs) == FoldSet(LAMBDA x, n : n + Len(x.faults), 0, regs)

\* A fault covers [saddr, eaddr] of its region; one that begins inside another
\* (its last byte excepted) is refused, one at the same address replaces it.
Inject(r, addr, len) ==
  /\ \A f \in Range(r.faults) : ~(f.saddr <= addr /\ addr < f.eaddr)
  /\ LET fault == [saddr |-> addr, eaddr |-> addr + len - 1]
         same == {i \in DOMAIN r.faults : r.faults[i].saddr = addr}
     IN /\ same # {} \/ NumFaults(memReg) < MaxFaults
        /\ memReg' = (memReg \ {r}) \cup {[r EXCEPT !.faults =
             IF same = {} THEN Append(@, fault) ELSE [@ EXCEPT ![CHOOSE i \in same : TRUE] = fault]]}
  /\ memGot' = NoAccess /\ UNCHANGED <<memFree, memAlloc>>

\* Reading goes from region to region in the order of their addresses.  The
\* outcome: what it raised if anything, how far it had come, the regions after.
Hit(r, addr, len) ==
  {i \in DOMAIN r.faults : r.base + r.faults[i].saddr < addr + len /\ addr <= r.base + r.faults[i].eaddr}
Walk[rest \in Seq(memReg), addr \in 0..(2 * Size), len \in 0..Size, op \in {"read", "write"}] ==
  IF rest = <<>> THEN [res |-> IF len > 0 THEN "invalid" ELSE "ok", done |-> addr, regs |-> memReg]
  ELSE LET r == Head(rest)
           seg == Min({r.base + r.size - addr, len})
           hit == Hit(r, addr, seg)
       IN IF r.base > addr THEN [res |-> "invalid", done |-> addr, regs |-> memReg]
          ELSE IF op = "read" /\ hit # {}
          THEN [res |-> "fault", done |-> addr,
                regs |-> (memReg \ {r}) \cup {[r EXCEPT !.faults = RemoveAt(@, Min(hit))]}]
          ELSE Walk[Tail(rest), addr + seg, len - seg, op]
Access(op, addr, len) ==
  LET found == FindRegions(addr, len)
      out == Walk[SetToSortSeq(found, LAMBDA x, y : x.base < y.base), addr, len, op]
  IN /\ memGot' = [op |-> op, addr |-> addr, len |-> len, res |-> IF found = {} THEN "invalid" ELSE out.res,
                   done |-> IF found = {} THEN 0 ELSE out.done - addr]
     /\ memReg' = IF found = {} THEN memReg ELSE out.regs
     /\ UNCHANGED <<memFree, memAlloc>>

Next == \/ \E size \in 1..Size : AllocRegion(size) \/ AllocFails(size)
        \/ \E r \in memReg : FreeRegion(r) \/ \E a \in 0..(r.size-1) : \E n \in 1..(r.size-a) : Inject(r, a, n)
        \/ \E op \in {"read", "write"}, a \in 0..(Size-1) : \E n \in 1..Min({Size, Size + 1 - a}) : Access(op, a, n)
Spec == Init /\ [][Next]_vars

-----------------------------------------------------------------------------
Blocks == {<<memFree[p[1]][p[2]], p[1]>> : p \in {r \in Buckets \X (1..Size) : r[2] \in DOMAIN memFree[r[1]]}}
          \cup {<<a, memAlloc[a]>> : a \in DOMAIN memAlloc}

\* However regions come and go, the free blocks and the allocations tile the
\* pool, no block is listed twice, no two buddies stay apart, and every region
\* lies in a block of its own.
MemConserved ==
  /\ \A x \in 0..(Size-1) : Cardinality({p \in Blocks : p[1] <= x /\ x < p[1] + 2^p[2]}) = 1
  /\ \A b \in Buckets : /\ IsInjective(memFree[b])
                         /\ \A i \in DOMAIN memFree[b] : Buddy(memFree[b][i], b) \notin Range(memFree[b])
  /\ {r.base : r \in memReg} = DOMAIN memAlloc
  /\ \A r \in memReg : r.size <= 2^memAlloc[r.base]

\* An allocation fails only when no aligned range of its size is free, and
\* never because the regions overlap.
MemFailsWhenFull ==
  /\ memGot.res # "overlap"
  /\ memGot.res = "full" =>
       LET n == 2^BucketOf(memGot.len)
       IN \A k \in 0..(Size \div n - 1) :
            \E a \in DOMAIN memAlloc : Touched(k * n, n) \cap Touched(a, 2^memAlloc[a]) # {}

\* An access succeeds exactly when every byte lies in a region, a read only if
\* no fault is in its way; one that raises has done the part that comes first.
Covered(addr, len) == Touched(addr, len) \subseteq UNION {Extent(r) : r \in memReg}
MemAccessRight ==
  memGot.op \in {"read", "write"} =>
    /\ memGot.res = "ok" => Covered(memGot.addr, memGot.len) /\ memGot.done = memGot.len
    /\ memGot.res = "invalid" => ~Covered(memGot.addr, memGot.len)
    /\ memGot.done > 0 => Covered(memGot.addr, memGot.done)
    /\ memGot.res = "ok" /\ memGot.op = "read" => \A r \in memReg : Hit(r, memGot.addr, memGot.len) = {}

\* A fault is lost only to the one read that it fails, to a fault put in its
\* place, or with its region.
MemFaultsKept ==
  memGot'.op = "read" =>
    NumFaults(memReg') = NumFaults(memReg) - (IF memGot'.res = "fault" THEN 1 ELSE 0)
=============================================================================
