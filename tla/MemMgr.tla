-------------------------------- MODULE MemMgr --------------------------------
(***************************************************************************)
(* CMemMgr<Type> of common/memory/MemMgr.h: a pool of objects with a list  *)
(* of free ones, the map of those in use, and two limits.  Each operation  *)
(* holds m_cs from beginning to end.  An object is its address; new always *)
(* succeeds, and may return an address that was deleted before.            *)
(***************************************************************************)
EXTENDS Integers, Sequences, FiniteSets, Functions

CONSTANTS
  Address,      \* where new may put an object
  FreeMem,      \* m_szFreeMem, the number of free objects kept
  MaxMem        \* m_szMaxMemCnt, the limit on objects in use

ASSUME PoolAssumption ==
  /\ FreeMem \in Nat /\ MaxMem \in Nat \ {0} /\ FreeMem <= MaxMem
  /\ IsFiniteSet(Address) /\ Cardinality(Address) >= MaxMem

VARIABLES
  lstFree,   \* m_lstFreeMem
  inUse,     \* m_mapMemMgr
  useCnt     \* m_szUseMemCnt

pool == <<lstFree, inUse, useCnt>>

\* Type invariant: the lists hold objects and the counter, a size_t, never passes below 0.
PoolTyped ==
  /\ lstFree \in Seq(Address) /\ inUse \in SUBSET Address /\ useCnt \in Nat

Lesser(a, b) == IF a <= b THEN a ELSE b
Greater(a, b) == IF a >= b THEN a ELSE b

\* CreateMemBlock, of an empty free list: m_szFreeMem objects or 1, fewer when
\* the limit is reached before.
BlockLen(used) == Greater(1, Lesser(FreeMem, MaxMem - used))
Blocks(busy, used) == {b \in [1 .. BlockLen(used) -> Address \ busy] : IsInjective(b)}

PoolInit ==
  /\ lstFree \in Blocks({}, 0)
  /\ inUse = {} /\ useCnt = 0

MyNew(p) ==
  /\ useCnt < MaxMem
  /\ \/ lstFree # <<>> /\ p = Head(lstFree) /\ lstFree' = Tail(lstFree)
     \/ /\ lstFree = <<>>
        /\ \E b \in Blocks(inUse, useCnt) : p = Head(b) /\ lstFree' = Tail(b)
  /\ inUse' = inUse \cup {p} /\ useCnt' = useCnt + 1

\* MyNew returns NULL.
Exhausted == useCnt >= MaxMem

MyDel(p) ==
  /\ p \in inUse
  /\ inUse' = inUse \ {p} /\ useCnt' = useCnt - 1
  /\ lstFree' = IF Len(lstFree) < FreeMem THEN Append(lstFree, p) ELSE lstFree

\* MyDel of an address that is not in use returns FALSE.
MyDelUnknown(p) == p \notin inUse /\ UNCHANGED pool

PoolNext == \E p \in Address : MyNew(p) \/ MyDel(p) \/ MyDelUnknown(p)

PoolSpec == PoolInit /\ [][PoolNext]_pool

-----------------------------------------------------------------------------

\* An object is free or in use and never both or twice, so MyNew cannot hand
\* out an object somebody has; the counter that limits the pool agrees with
\* the map; and the memory held, free objects included, stays under the limit.
PoolSound ==
  /\ IsInjective(lstFree) /\ Range(lstFree) \cap inUse = {}
  /\ IsFiniteSet(inUse) /\ useCnt = Cardinality(inUse)
  /\ Len(lstFree) + useCnt <= MaxMem
  /\ Len(lstFree) <= Greater(1, FreeMem)
=============================================================================
