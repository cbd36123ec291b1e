-------------------------- MODULE TrampolineProofs --------------------------
(***************************************************************************)
(* Proofs about the trampoline allocator, for all memory layouts, chunk    *)
(* sizes, jump ranges and failures.                                        *)
(***************************************************************************)
EXTENDS Trampoline, FiniteSetTheorems, TLAPS

WellFormed(p) == p \in Prologue /\ p.lo <= p.address /\ p.address <= p.hi

(* The inductive invariant.  The safety invariants need each other: a      *)
(* region is freed on a count, so that the chunks of a freed region have   *)
(* no owner only because the count is right (UnusedCountsLive), and the    *)
(* count of a new region is right only because nobody owns a chunk of      *)
(* memory that was not allocated (LiveChunksIntact).                       *)
TrampolineInv ==
    /\ TrampolineTypeOK
    /\ IsFiniteSet(live)
    /\ LiveChunksIntact
    /\ UnusedCountsLive
    /\ LiveChunksReach
    /\ RegionsInUse

-----------------------------------------------------------------------------
LEMMA ChunkParts ==
    ASSUME NEW c \in Chunks
    PROVE  /\ c[1] \in Bases /\ c[1] \in Nat
           /\ c[2] \in 1 .. ChunksPerRegion - 1
           /\ c = <<c[1], c[2]>>
<1>1. c \in Bases \X (1 .. ChunksPerRegion - 1)
  BY DEF Chunks
<1>2. c[1] \in Bases /\ c[2] \in 1 .. ChunksPerRegion - 1 /\ c = <<c[1], c[2]>>
  BY <1>1
<1>3. Bases \subseteq Nat
  BY TrampolineAssumption
<1> QED
  BY <1>2, <1>3

LEMMA AddressType ==
    ASSUME NEW c \in Chunks
    PROVE  Address(c) \in Nat
<1>1. c[1] \in Nat /\ c[2] \in Nat
  BY ChunkParts, TrampolineAssumption
<1>2. SizeofChunk \in Nat
  BY TrampolineAssumption
<1> QED
  BY <1>1, <1>2 DEF Address

(* The distance test keeps every instruction in the chunk in jump distance *)
(* of everything between the two bounds.                                   *)
LEMMA InReachReaches ==
    ASSUME NEW c \in Chunks, NEW p, WellFormed(p),
           RegionInRange, InReach(c, p.lo), InReach(c, p.hi)
    PROVE  Reaches(c, p)
<1> DEFINE A == Address(c)
           R == RangeofRelativeJump
           S == SizeofChunk
<1>1. A \in Nat /\ R \in Nat /\ S \in Nat /\ S >= 1
  BY AddressType, TrampolineAssumption
<1>2. p.lo \in Nat /\ p.hi \in Nat /\ p.address \in Nat
      /\ p.lo <= p.address /\ p.address <= p.hi
  BY DEF WellFormed, Prologue
<1>3. S <= R
  <2>1. ChunksPerRegion - 1 \in Nat /\ ChunksPerRegion - 1 >= 1
    BY TrampolineAssumption
  <2>2. \A m \in Nat : m >= 1 => S * m >= S
    BY <1>1, SMT
  <2>3. S * (ChunksPerRegion - 1) >= S /\ S * (ChunksPerRegion - 1) \in Nat
    BY <2>1, <2>2, <1>1
  <2> QED
    BY <2>3, <1>1 DEF RegionInRange
<1>4. /\ p.lo < A => A - p.lo + S <= R
      /\ ~(p.lo < A) => p.lo - A <= R
  BY <1>1, <1>2 DEF InReach, Abs
<1>5. /\ p.hi < A => A - p.hi + S <= R
      /\ ~(p.hi < A) => p.hi - A <= R
  BY <1>1, <1>2 DEF InReach, Abs
<1> HIDE DEF A, R, S
<1>6. \A n \in 1 .. S, a \in p.lo .. p.hi : -R - 1 <= a - (A + n) /\ a - (A + n) <= R
  BY <1>1, <1>2, <1>3, <1>4, <1>5
<1>7. CallbackJumpOffset \in 0 .. S /\ SizeofRelativeJump \in 0 .. CallbackJumpOffset
  BY TrampolineAssumption DEF S
<1>8. /\ -R - 1 <= (A + CallbackJumpOffset) - (p.address + SizeofRelativeJump)
      /\ (A + CallbackJumpOffset) - (p.address + SizeofRelativeJump) <= R
  BY <1>1, <1>2, <1>3, <1>4, <1>5, <1>7
<1> QED
  BY <1>6, <1>8 DEF Reaches, Encodable, A, R, S

-----------------------------------------------------------------------------
(* Type correctness, for whatever prologue and chunk the caller passes. *)
LEMMA CreateType ==
    ASSUME TrampolineTypeOK, NEW p \in Prologue, Create(p)
    PROVE  TrampolineTypeOK'
<1>1. CASE CreateFails(p)
  <2>1. is_initialized' \in BOOLEAN /\ regions' = regions /\ unused' = unused /\ live' = live
    BY <1>1 DEF CreateFails, TrampolineTypeOK
  <2>2. mapped' = mapped \/ \E c \in Chunks : mapped' = mapped \cup {c[1]}
    BY <1>1 DEF CreateFails, ChunkInitFails
  <2>3. chunk' = chunk \/ \E c \in Chunks : chunk' = [chunk EXCEPT ![c].is_used = TRUE]
    BY <1>1 DEF CreateFails, ChunkInitFails
  <2>4. chunk' \in [Chunks -> Content]
    BY <2>3 DEF TrampolineTypeOK, Content
  <2> QED
    BY <2>1, <2>2, <2>4, ChunkParts DEF TrampolineTypeOK
<1>2. CASE CreateFaults(p)
  BY <1>2 DEF CreateFaults, TrampolineTypeOK
<1>3. ASSUME NEW c \in Chunks, CreateReturns(p, c)
      PROVE  TrampolineTypeOK'
  <2>1. c[1] \in Bases
    BY ChunkParts
  <2>2. Used(p) \in Content
    BY DEF Used, Content
  <2>3. is_initialized' \in BOOLEAN /\ live' \subseteq Chunks
    BY <1>3 DEF CreateReturns, TrampolineTypeOK
  <2>4. CASE CreateInListed(p, c)
    <3>1. unused[c[1]] \in Nat /\ unused[c[1]] # 0
      BY <2>1, <2>4 DEF CreateInListed, FindsChunk, Fits, TrampolineTypeOK
    <3>2. unused[c[1]] - 1 \in Nat
      BY <3>1
    <3> QED
      BY <2>2, <2>3, <2>4, <3>2 DEF CreateInListed, TrampolineTypeOK
  <2>5. CASE CreateInNew(p, c)
    <3>1. ChunksPerRegion - 2 \in Nat
      BY TrampolineAssumption
    <3> QED
      BY <2>1, <2>2, <2>3, <2>5, <3>1 DEF CreateInNew, TrampolineTypeOK
  <2> QED
    BY <1>3, <2>4, <2>5 DEF CreateReturns
<1> QED
  BY <1>1, <1>2, <1>3 DEF Create

LEMMA FreeType ==
    ASSUME TrampolineTypeOK, NEW c \in Chunks, Free(c)
    PROVE  TrampolineTypeOK'
<1>1. c[1] \in Bases
  BY ChunkParts
<1>2. live' \subseteq Chunks
  BY DEF Free, FreeReturns, FreeFails, TrampolineTypeOK
<1>3. Zeroed \in Content
  BY DEF Zeroed, Content
<1>4. CASE FreeRegion(c)
  BY <1>2, <1>3, <1>4 DEF FreeRegion, TrampolineTypeOK
<1>5. CASE FreeChunk(c)
  <2>1. unused' \in [Bases -> Nat]
    BY <1>1, <1>5 DEF FreeChunk, TrampolineTypeOK
  <2>2. chunk' \in [Chunks -> Content]
    BY <1>5 DEF FreeChunk, TrampolineTypeOK, Content
  <2> QED
    BY <1>2, <1>5, <2>1, <2>2 DEF FreeChunk, TrampolineTypeOK
<1>6. CASE LoseRegion(c)
  BY <1>2, <1>6 DEF LoseRegion, TrampolineTypeOK
<1>7. CASE UNCHANGED <<is_initialized, regions, mapped, unused, chunk, live>>
  BY <1>7 DEF TrampolineTypeOK
<1> QED
  BY <1>4, <1>5, <1>6, <1>7 DEF Free, FreeReturns, FreeFails

-----------------------------------------------------------------------------
LEMMA LiveInFinite ==
    ASSUME IsFiniteSet(live), NEW r
    PROVE  IsFiniteSet(LiveIn(r)) /\ Cardinality(LiveIn(r)) \in Nat
<1>1. LiveIn(r) \in SUBSET live
  BY DEF LiveIn
<1> QED
  BY <1>1, FS_Subset, FS_CardinalityType

(* What Create does when it returns a chunk: it was nobody's, and it is in *)
(* reach; the counts of the other regions and the other chunks are left    *)
(* alone.                                                                  *)
LEMMA CreateEffect ==
    ASSUME TrampolineInv, NEW p, WellFormed(p), NEW c \in Chunks, CreateReturns(p, c)
    PROVE  /\ c \notin live /\ live' = live \cup {c}
           /\ Reaches(c, p)
           /\ chunk' = [chunk EXCEPT ![c] = Used(p)]
           /\ mapped \subseteq mapped' /\ c[1] \in mapped'
           /\ regions' \subseteq regions \cup {c[1]}
           /\ \A r \in Bases : r # c[1] => unused'[r] = unused[r]
           /\ unused'[c[1]] + Cardinality(LiveIn(c[1])) = ChunksPerRegion - 2
           /\ is_initialized'
<1>1. c[1] \in Bases
  BY ChunkParts
<1>2. TrampolineTypeOK /\ LiveChunksIntact /\ UnusedCountsLive /\ IsFiniteSet(live)
  BY DEF TrampolineInv
<1>3. ChunksPerRegion \in Nat
  BY TrampolineAssumption
<1>4. live' = live \cup {c} /\ is_initialized'
  BY DEF CreateReturns
<1>5. CASE CreateInListed(p, c)
  <2>1. c[1] \in regions /\ Fits(c, p)
    BY <1>5 DEF CreateInListed, FindsChunk
  <2>2. c \notin live
    BY <1>2, <2>1 DEF Fits, LiveChunksIntact
  <2>3. Reaches(c, p)
    BY <2>1, InReachReaches DEF Fits
  <2>4. unused[c[1]] + Cardinality(LiveIn(c[1])) = ChunksPerRegion - 1
    BY <1>2, <2>1 DEF UnusedCountsLive
  <2>5. unused[c[1]] \in Nat /\ Cardinality(LiveIn(c[1])) \in Nat
    BY <1>1, <1>2, LiveInFinite DEF TrampolineTypeOK
  <2>6. unused' = [unused EXCEPT ![c[1]] = @ - 1]
    BY <1>5 DEF CreateInListed
  <2>7. unused'[c[1]] = unused[c[1]] - 1 /\ \A r \in Bases : r # c[1] => unused'[r] = unused[r]
    BY <1>1, <1>2, <2>6 DEF TrampolineTypeOK
  <2>8. unused'[c[1]] + Cardinality(LiveIn(c[1])) = ChunksPerRegion - 2
    BY <1>3, <2>4, <2>5, <2>7
  <2>9. mapped' = mapped /\ regions' = regions /\ c[1] \in mapped
        /\ chunk' = [chunk EXCEPT ![c] = Used(p)]
    BY <1>2, <1>5, <2>1 DEF CreateInListed, TrampolineTypeOK
  <2> QED
    BY <1>4, <2>2, <2>3, <2>7, <2>8, <2>9
<1>6. CASE CreateInNew(p, c)
  <2>1. c[1] \notin mapped /\ FitsNew(p, c[1], c)
    BY <1>6 DEF CreateInNew, Allocates
  <2>2. LiveIn(c[1]) = {}
    BY <1>2, <2>1 DEF LiveChunksIntact, LiveIn
  <2>3. c \notin live
    BY <1>2, <2>1 DEF LiveChunksIntact
  <2>4. Reaches(c, p)
    BY <2>1, InReachReaches DEF FitsNew
  <2>5. unused' = [unused EXCEPT ![c[1]] = ChunksPerRegion - 2]
    BY <1>6 DEF CreateInNew
  <2>6. /\ unused'[c[1]] = ChunksPerRegion - 2
        /\ \A r \in Bases : r # c[1] => unused'[r] = unused[r]
    BY <1>1, <1>2, <2>5 DEF TrampolineTypeOK
  <2>7. Cardinality(LiveIn(c[1])) = 0
    BY <2>2, FS_EmptySet
  <2>8. unused'[c[1]] + Cardinality(LiveIn(c[1])) = ChunksPerRegion - 2
    BY <1>3, <2>6, <2>7
  <2>9. mapped' = mapped \cup {c[1]} /\ chunk' = [chunk EXCEPT ![c] = Used(p)]
        /\ regions' \subseteq regions \cup {c[1]}
    BY <1>6 DEF CreateInNew
  <2> QED
    BY <1>4, <2>3, <2>4, <2>6, <2>8, <2>9
<1> QED
  BY <1>5, <1>6 DEF CreateReturns

(* Create that returns no chunk leaves the chunks with an owner alone. *)
LEMMA CreateFailEffect ==
    ASSUME TrampolineInv, NEW p, CreateFails(p) \/ CreateFaults(p)
    PROVE  /\ live' = live /\ regions' = regions /\ unused' = unused
           /\ mapped \subseteq mapped'
           /\ is_initialized => is_initialized'
           /\ \A c \in live : chunk'[c] = chunk[c]
<1>1. TrampolineTypeOK /\ LiveChunksIntact
  BY DEF TrampolineInv
<1>2. live' = live /\ regions' = regions /\ unused' = unused
  BY DEF CreateFails, CreateFaults
<1>3. mapped \subseteq mapped' /\ (is_initialized => is_initialized')
  BY DEF CreateFails, CreateFaults, ChunkInitFails
<1>4. chunk' = chunk \/ \E c \in Chunks : Fits(c, p) /\ chunk' = [chunk EXCEPT ![c].is_used = TRUE]
  BY DEF CreateFails, CreateFaults, ChunkInitFails, FindsChunk
<1>5. ASSUME NEW c \in Chunks, Fits(c, p), chunk' = [chunk EXCEPT ![c].is_used = TRUE],
             NEW d \in live
      PROVE  chunk'[d] = chunk[d]
  <2>1. d # c
    BY <1>1, <1>5 DEF Fits, LiveChunksIntact
  <2> QED
    BY <1>1, <1>5, <2>1 DEF TrampolineTypeOK
<1> QED
  BY <1>2, <1>3, <1>4, <1>5

(* What Free does to a chunk with an owner: nothing, or it takes the chunk *)
(* from the owner and touches no chunk of another owner.  The region that  *)
(* goes back to the system is the one whose last owner this was.           *)
LEMMA FreeEffect ==
    ASSUME TrampolineInv, NEW c \in live, Free(c)
    PROVE  \/ UNCHANGED <<is_initialized, regions, mapped, unused, chunk, live>>
           \/ /\ live' = live \ {c}
              /\ \A d \in live' : d[1] \in mapped' /\ chunk'[d] = chunk[d]
              /\ \A d \in live' : d[1] \in regions => d[1] \in regions'
              /\ \A r \in Bases : r # c[1] => unused'[r] = unused[r]
              /\ regions' \subseteq regions
              /\ c[1] \in regions' => /\ c[1] \in regions /\ unused[c[1]] # ChunksPerRegion - 2
                                     /\ unused'[c[1]] = unused[c[1]] + 1
              /\ regions' # {} => is_initialized'
<1>1. TrampolineTypeOK /\ LiveChunksIntact /\ UnusedCountsLive /\ RegionsInUse /\ IsFiniteSet(live)
  BY DEF TrampolineInv
<1>2. c \in Chunks /\ c[1] \in Bases
  BY <1>1, ChunkParts DEF TrampolineTypeOK
<1>3. ChunksPerRegion \in Nat
  BY TrampolineAssumption
<1>4. ASSUME c[1] \in regions, LastChunk(c)
      PROVE  LiveIn(c[1]) = {c}
  <2>1. unused[c[1]] + Cardinality(LiveIn(c[1])) = ChunksPerRegion - 1
    BY <1>1, <1>4 DEF UnusedCountsLive
  <2>2. unused[c[1]] = ChunksPerRegion - 2
    BY <1>4 DEF LastChunk
  <2>3. IsFiniteSet(LiveIn(c[1])) /\ Cardinality(LiveIn(c[1])) \in Nat
    BY <1>1, LiveInFinite
  <2>4. Cardinality(LiveIn(c[1])) = 1
    BY <1>3, <2>1, <2>2, <2>3
  <2>5. \E d : LiveIn(c[1]) = {d}
    BY <2>3, <2>4, FS_Singleton
  <2>6. c \in LiveIn(c[1])
    BY DEF LiveIn
  <2> QED
    BY <2>5, <2>6
<1>5. CASE UNCHANGED <<is_initialized, regions, mapped, unused, chunk, live>>
  BY <1>5
<1>6. CASE c[1] \in regions /\ LastChunk(c) /\ FreeRegion(c) /\ live' = live \ {c}
  <2>1. \A d \in live' : d \in Chunks /\ d[1] # c[1] /\ d \in live
    BY <1>1, <1>4, <1>6 DEF LiveIn, TrampolineTypeOK
  <2>2. \A d \in live' : d[1] \in mapped' /\ chunk'[d] = chunk[d]
    BY <1>1, <1>6, <2>1 DEF FreeRegion, LiveChunksIntact
  <2>3. regions' = regions \ {c[1]} /\ unused' = unused
        /\ is_initialized' = (regions' # {})
    BY <1>6 DEF FreeRegion
  <2> QED
    BY <1>6, <2>1, <2>2, <2>3
<1>7. CASE c[1] \in regions /\ ~LastChunk(c) /\ FreeChunk(c) /\ live' = live \ {c}
  <2>1. \A d \in live' : d \in Chunks /\ d # c /\ d \in live
    BY <1>1, <1>7 DEF TrampolineTypeOK
  <2>2. \A d \in live' : d[1] \in mapped' /\ chunk'[d] = chunk[d]
    BY <1>1, <1>7, <2>1 DEF FreeChunk, LiveChunksIntact, TrampolineTypeOK
  <2>3. /\ unused'[c[1]] = unused[c[1]] + 1
        /\ \A r \in Bases : r # c[1] => unused'[r] = unused[r]
    BY <1>1, <1>2, <1>7 DEF FreeChunk, TrampolineTypeOK
  <2>4. regions' = regions /\ is_initialized' = is_initialized /\ unused[c[1]] # ChunksPerRegion - 2
    BY <1>7 DEF FreeChunk, LastChunk
  <2> QED
    BY <1>1, <1>7, <2>2, <2>3, <2>4 DEF RegionsInUse
<1>8. CASE c[1] \in regions /\ LastChunk(c) /\ LoseRegion(c) /\ live' = live \ {c}
  <2>1. \A d \in live' : d[1] \in mapped' /\ chunk'[d] = chunk[d]
    BY <1>1, <1>8 DEF LoseRegion, LiveChunksIntact
  <2>2. regions' = regions \ {c[1]} /\ unused' = unused
        /\ is_initialized' = is_initialized
    BY <1>8 DEF LoseRegion
  <2>3. \A d \in live' : d[1] # c[1]
    BY <1>4, <1>8 DEF LiveIn
  <2> QED
    BY <1>1, <1>8, <2>1, <2>2, <2>3 DEF RegionsInUse
<1>9. \/ UNCHANGED <<is_initialized, regions, mapped, unused, chunk, live>>
      \/ c[1] \in regions /\ LastChunk(c) /\ FreeRegion(c) /\ live' = live \ {c}
      \/ c[1] \in regions /\ ~LastChunk(c) /\ FreeChunk(c) /\ live' = live \ {c}
      \/ c[1] \in regions /\ LastChunk(c) /\ LoseRegion(c) /\ live' = live \ {c}
  BY DEF Free, FreeReturns, FreeFails
<1> QED
  BY <1>5, <1>6, <1>7, <1>8, <1>9

-----------------------------------------------------------------------------
(* The invariant is kept by Create, whoever calls it ... *)
LEMMA CreateInv ==
    ASSUME TrampolineInv, NEW p, WellFormed(p), Create(p)
    PROVE  TrampolineInv'
<1>1. TrampolineTypeOK /\ IsFiniteSet(live) /\ LiveChunksIntact /\ UnusedCountsLive
      /\ LiveChunksReach /\ RegionsInUse
  BY DEF TrampolineInv
<1>2. p \in Prologue
  BY DEF WellFormed
<1>3. TrampolineTypeOK'
  BY <1>1, <1>2, CreateType
<1>4. CASE CreateFails(p) \/ CreateFaults(p)
  <2>1. /\ live' = live /\ regions' = regions /\ unused' = unused
        /\ mapped \subseteq mapped'
        /\ is_initialized => is_initialized'
        /\ \A c \in live : chunk'[c] = chunk[c]
    BY <1>4, CreateFailEffect
  <2>2. LiveChunksIntact'
    BY <1>1, <2>1 DEF LiveChunksIntact
  <2>3. \A r : LiveIn(r)' = LiveIn(r)
    BY <2>1 DEF LiveIn
  <2>4. UnusedCountsLive' /\ RegionsInUse'
    BY <1>1, <2>1, <2>3 DEF UnusedCountsLive, RegionsInUse
  <2>5. LiveChunksReach'
    BY <1>1, <2>1 DEF LiveChunksReach
  <2> QED
    BY <1>1, <1>3, <2>1, <2>2, <2>4, <2>5 DEF TrampolineInv
<1>5. ASSUME NEW c \in Chunks, CreateReturns(p, c)
      PROVE  TrampolineInv'
  <2>1. /\ c \notin live /\ live' = live \cup {c}
        /\ Reaches(c, p)
        /\ chunk' = [chunk EXCEPT ![c] = Used(p)]
        /\ mapped \subseteq mapped' /\ c[1] \in mapped'
        /\ regions' \subseteq regions \cup {c[1]}
        /\ \A r \in Bases : r # c[1] => unused'[r] = unused[r]
        /\ unused'[c[1]] + Cardinality(LiveIn(c[1])) = ChunksPerRegion - 2
        /\ is_initialized'
    BY <1>5, CreateEffect
  <2>2. /\ chunk'[c] = Used(p)
        /\ \A d \in live : d \in Chunks /\ d # c /\ chunk'[d] = chunk[d]
    BY <1>1, <2>1 DEF TrampolineTypeOK
  <2>3. IsFiniteSet(live')
    BY <1>1, <2>1, FS_AddElement
  <2>4. LiveChunksIntact'
    BY <1>1, <1>2, <2>1, <2>2 DEF LiveChunksIntact, Used
  <2>5. LiveChunksReach'
    BY <1>1, <2>1, <2>2 DEF LiveChunksReach, Used
  <2>6. LiveIn(c[1])' = LiveIn(c[1]) \cup {c}
    BY <2>1 DEF LiveIn
  <2>7. \A r : r # c[1] => LiveIn(r)' = LiveIn(r)
    BY <2>1 DEF LiveIn
  <2>8. unused'[c[1]] + Cardinality(LiveIn(c[1])') = ChunksPerRegion - 1
    <3>1. IsFiniteSet(LiveIn(c[1])) /\ Cardinality(LiveIn(c[1])) \in Nat
      BY <1>1, LiveInFinite
    <3>2. c \notin LiveIn(c[1])
      BY <2>1 DEF LiveIn
    <3>3. Cardinality(LiveIn(c[1])') = Cardinality(LiveIn(c[1])) + 1
      BY <2>6, <3>1, <3>2, FS_AddElement
    <3>4. unused'[c[1]] \in Nat
      BY <1>3, ChunkParts DEF TrampolineTypeOK
    <3> QED
      BY <2>1, <3>1, <3>3, <3>4, TrampolineAssumption
  <2>9. UnusedCountsLive'
    <3>1. ASSUME NEW r \in regions', r # c[1]
          PROVE  (unused[r] + Cardinality(LiveIn(r)) = ChunksPerRegion - 1)'
      <4>1. r \in regions /\ r \in Bases
        BY <1>1, <2>1, <3>1 DEF TrampolineTypeOK
      <4> QED
        BY <1>1, <2>1, <2>7, <3>1, <4>1 DEF UnusedCountsLive
    <3> QED
      BY <2>8, <3>1 DEF UnusedCountsLive
  <2>10. RegionsInUse'
    <3>1. \A r \in regions' : LiveIn(r)' # {}
      BY <1>1, <2>1, <2>6, <2>7 DEF RegionsInUse
    <3> QED
      BY <2>1, <3>1 DEF RegionsInUse
  <2> QED
    BY <1>3, <2>3, <2>4, <2>5, <2>9, <2>10 DEF TrampolineInv
<1> QED
  BY <1>4, <1>5 DEF Create

(* ... and by Free, as long as the caller owns the chunk. *)
LEMMA FreeInv ==
    ASSUME TrampolineInv, NEW c \in live, Free(c)
    PROVE  TrampolineInv'
<1>1. TrampolineTypeOK /\ IsFiniteSet(live) /\ LiveChunksIntact /\ UnusedCountsLive
      /\ LiveChunksReach /\ RegionsInUse
  BY DEF TrampolineInv
<1>2. c \in Chunks /\ c[1] \in Bases
  BY <1>1, ChunkParts DEF TrampolineTypeOK
<1>3. TrampolineTypeOK'
  BY <1>1, <1>2, FreeType
<1>4. CASE UNCHANGED <<is_initialized, regions, mapped, unused, chunk, live>>
  <2>1. \A r : LiveIn(r)' = LiveIn(r)
    BY <1>4 DEF LiveIn
  <2> QED
    BY <1>1, <1>3, <1>4, <2>1
    DEF TrampolineInv, LiveChunksIntact, UnusedCountsLive, LiveChunksReach, RegionsInUse
<1>5. CASE /\ live' = live \ {c}
           /\ \A d \in live' : d[1] \in mapped' /\ chunk'[d] = chunk[d]
           /\ \A r \in Bases : r # c[1] => unused'[r] = unused[r]
           /\ regions' \subseteq regions
           /\ c[1] \in regions' => /\ c[1] \in regions /\ unused[c[1]] # ChunksPerRegion - 2
                                  /\ unused'[c[1]] = unused[c[1]] + 1
           /\ regions' # {} => is_initialized'
  <2>1. IsFiniteSet(live')
    BY <1>1, <1>5, FS_RemoveElement
  <2>2. LiveChunksIntact'
    BY <1>1, <1>5 DEF LiveChunksIntact
  <2>3. LiveChunksReach'
    BY <1>1, <1>5 DEF LiveChunksReach
  <2>4. LiveIn(c[1])' = LiveIn(c[1]) \ {c} /\ \A r : r # c[1] => LiveIn(r)' = LiveIn(r)
    BY <1>5 DEF LiveIn
  <2>5. ASSUME c[1] \in regions'
        PROVE  /\ unused'[c[1]] + Cardinality(LiveIn(c[1])') = ChunksPerRegion - 1
               /\ LiveIn(c[1])' # {}
    <3>1. unused[c[1]] + Cardinality(LiveIn(c[1])) = ChunksPerRegion - 1
      BY <1>1, <1>5, <2>5 DEF UnusedCountsLive
    <3>2. IsFiniteSet(LiveIn(c[1])) /\ Cardinality(LiveIn(c[1])) \in Nat /\ c \in LiveIn(c[1])
      BY <1>1, LiveInFinite DEF LiveIn
    <3>3. Cardinality(LiveIn(c[1])') = Cardinality(LiveIn(c[1])) - 1
      BY <2>4, <3>2, FS_RemoveElement
    <3>4. unused[c[1]] \in Nat /\ ChunksPerRegion \in Nat
      BY <1>1, <1>2, TrampolineAssumption DEF TrampolineTypeOK
    <3>5. Cardinality(LiveIn(c[1])) # 1
      BY <1>5, <2>5, <3>1, <3>2, <3>4
    <3>6. Cardinality(LiveIn(c[1])') # 0
      BY <3>2, <3>3, <3>5
    <3>7. LiveIn(c[1])' # {}
      BY <3>6, FS_EmptySet
    <3> QED
      BY <1>5, <2>5, <3>1, <3>2, <3>3, <3>4, <3>7
  <2>6. UnusedCountsLive'
    <3>1. ASSUME NEW r \in regions', r # c[1]
          PROVE  (unused[r] + Cardinality(LiveIn(r)) = ChunksPerRegion - 1)'
      <4>1. r \in regions /\ r \in Bases
        BY <1>1, <1>5, <3>1 DEF TrampolineTypeOK
      <4> QED
        BY <1>1, <1>5, <2>4, <3>1, <4>1 DEF UnusedCountsLive
    <3> QED
      BY <2>5, <3>1 DEF UnusedCountsLive
  <2>7. RegionsInUse'
    <3>1. \A r \in regions' : LiveIn(r)' # {}
      BY <1>1, <1>5, <2>4, <2>5 DEF RegionsInUse
    <3> QED
      BY <1>5, <3>1 DEF RegionsInUse
  <2> QED
    BY <1>3, <2>1, <2>2, <2>3, <2>6, <2>7 DEF TrampolineInv
<1> QED
  BY <1>4, <1>5, FreeEffect

-----------------------------------------------------------------------------
LEMMA PrologueWellFormed ==
    ASSUME NEW p \in Prologues
    PROVE  WellFormed(p)
BY TrampolineAssumption DEF WellFormed

LEMMA InvInit == TrampolineInit => TrampolineInv
<1> SUFFICES ASSUME TrampolineInit PROVE TrampolineInv
  OBVIOUS
<1>1. TrampolineTypeOK
  BY DEF TrampolineInit, TrampolineTypeOK, Content, Zeroed
<1>2. IsFiniteSet(live)
  BY FS_EmptySet DEF TrampolineInit
<1> QED
  BY <1>1, <1>2 DEF TrampolineInit, TrampolineInv, LiveChunksIntact, UnusedCountsLive,
                    LiveChunksReach, RegionsInUse

LEMMA InvStep == TrampolineInv /\ [TrampolineNext]_tvars => TrampolineInv'
<1> SUFFICES ASSUME TrampolineInv, [TrampolineNext]_tvars PROVE TrampolineInv'
  OBVIOUS
<1>1. ASSUME NEW p \in Prologues, Create(p)
      PROVE  TrampolineInv'
  BY <1>1, CreateInv, PrologueWellFormed
<1>2. ASSUME NEW c \in live, Free(c)
      PROVE  TrampolineInv'
  BY <1>2, FreeInv
<1>3. CASE UNCHANGED tvars
  <2>1. \A r : LiveIn(r)' = LiveIn(r)
    BY <1>3 DEF tvars, LiveIn
  <2> QED
    BY <1>3, <2>1 DEF tvars, TrampolineInv, TrampolineTypeOK, LiveChunksIntact,
                      UnusedCountsLive, LiveChunksReach, RegionsInUse
<1> QED
  BY <1>1, <1>2, <1>3 DEF TrampolineNext

LEMMA InvAlways == TrampolineSpec => []TrampolineInv
BY InvInit, InvStep, PTL DEF TrampolineSpec

(* The variables of the allocator keep their types: the counts stay        *)
(* natural numbers, and every listed region is allocated memory.           *)
THEOREM TypeCorrect == TrampolineSpec => []TrampolineTypeOK
<1>1. TrampolineInv => TrampolineTypeOK
  BY DEF TrampolineInv
<1> QED
  BY <1>1, InvAlways, PTL

(* A chunk that has an owner is never unmapped or marked as unused, for    *)
(* any number of regions and chunks and whatever library call fails.       *)
THEOREM ChunksIntact == TrampolineSpec => []LiveChunksIntact
<1>1. TrampolineInv => LiveChunksIntact
  BY DEF TrampolineInv
<1> QED
  BY <1>1, InvAlways, PTL

(* The count that decides when a region is freed is that of the chunks     *)
(* without an owner.                                                       *)
THEOREM CountsExact == TrampolineSpec => []UnusedCountsLive
<1>1. TrampolineInv => UnusedCountsLive
  BY DEF TrampolineInv
<1> QED
  BY <1>1, InvAlways, PTL

(* The hook jump and the relocated instructions of every chunk that has an *)
(* owner can be encoded, for every jump range and chunk size.              *)
THEOREM ChunksReach == TrampolineSpec => []LiveChunksReach
<1>1. TrampolineInv => LiveChunksReach
  BY DEF TrampolineInv
<1> QED
  BY <1>1, InvAlways, PTL

(* No listed region is without an owner.                                   *)
THEOREM NoIdleRegion == TrampolineSpec => []RegionsInUse
<1>1. TrampolineInv => RegionsInUse
  BY DEF TrampolineInv
<1> QED
  BY <1>1, InvAlways, PTL

(* Create never hands out a chunk that still has an owner. *)
THEOREM HandedOutOnce == TrampolineSpec => NoDoubleHandOut
<1>1. TrampolineInv /\ [TrampolineNext]_tvars
        => [\A p \in Prologues, c \in live : ~CreateReturns(p, c)]_tvars
  <2> SUFFICES ASSUME TrampolineInv,
                      NEW p \in Prologues, NEW c \in live, CreateReturns(p, c)
               PROVE  FALSE
    OBVIOUS
  <2>1. c \in Chunks
    BY DEF TrampolineInv, TrampolineTypeOK
  <2> QED
    BY <2>1, CreateEffect, PrologueWellFormed
<1> QED
  BY <1>1, InvAlways, PTL DEF TrampolineSpec, NoDoubleHandOut

-----------------------------------------------------------------------------
(* A step of the allocator is an Acquire or a Release of the pool, or the  *)
(* pool does not see it.                                                   *)
LEMMA PoolStep == TrampolineInv /\ [TrampolineNext]_tvars => [Pool!PoolNext]_Owned
<1> SUFFICES ASSUME TrampolineInv, [TrampolineNext]_tvars
             PROVE  [Pool!PoolNext]_Owned
  OBVIOUS
<1>1. TrampolineTypeOK
  BY DEF TrampolineInv
<1>2. ASSUME NEW p \in Prologues, NEW c \in Chunks, CreateReturns(p, c)
      PROVE  Pool!Acquire(c, p)
  <2>1. /\ c \notin live /\ live' = live \cup {c}
        /\ Reaches(c, p)
        /\ chunk' = [chunk EXCEPT ![c] = Used(p)]
    BY <1>2, CreateEffect, PrologueWellFormed
  <2>2. /\ chunk'[c].source = p
        /\ \A d \in live : d # c /\ chunk'[d] = chunk[d]
    BY <1>1, <2>1 DEF TrampolineTypeOK, Used
  <2>3. DOMAIN Owned = live /\ \A d \in live : Owned[d] = chunk[d].source
    BY DEF Owned
  <2>4. Owned' = [d \in live \cup {c} |-> IF d = c THEN p ELSE Owned[d]]
    BY <2>1, <2>2, <2>3 DEF Owned
  <2> QED
    BY <2>1, <2>3, <2>4 DEF Pool!Acquire
<1>3. ASSUME NEW p \in Prologues, CreateFails(p) \/ CreateFaults(p)
      PROVE  UNCHANGED Owned
  BY <1>3, CreateFailEffect DEF Owned
<1>4. ASSUME NEW c \in live, Free(c)
      PROVE  Pool!Release(c) \/ UNCHANGED Owned
  <2>1. CASE UNCHANGED <<is_initialized, regions, mapped, unused, chunk, live>>
    BY <2>1 DEF Owned
  <2>2. CASE live' = live \ {c} /\ \A d \in live' : chunk'[d] = chunk[d]
    <3>1. DOMAIN Owned = live /\ \A d \in live : Owned[d] = chunk[d].source
      BY DEF Owned
    <3>2. Owned' = [d \in live \ {c} |-> Owned[d]]
      BY <2>2, <3>1 DEF Owned
    <3> QED
      BY <3>1, <3>2 DEF Pool!Release
  <2> QED
    BY <1>4, <2>1, <2>2, FreeEffect
<1>5. CASE UNCHANGED tvars
  BY <1>5 DEF tvars, Owned
<1>6. live \subseteq Chunks
  BY <1>1 DEF TrampolineTypeOK
<1> QED
  BY <1>2, <1>3, <1>4, <1>5, <1>6 DEF TrampolineNext, Create, Pool!PoolNext

(* The allocator implements the pool of chunks: one owner at a time, in    *)
(* reach of the function, and nothing but the release of a chunk changes   *)
(* what it was made from.                                                  *)
THEOREM AllocatorImplementsPool == TrampolineSpec => ImplementsChunkPool
<1>1. TrampolineInit => Pool!PoolInit
  BY DEF TrampolineInit, Pool!PoolInit, Owned
<1> QED
  BY <1>1, PoolStep, InvAlways, PTL DEF TrampolineSpec, ImplementsChunkPool, Pool!PoolSpec
=============================================================================
