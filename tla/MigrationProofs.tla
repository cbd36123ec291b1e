--------------------------- MODULE MigrationProofs ---------------------------
(***************************************************************************)
(* Proofs about the migration of a thread, for every code that is          *)
(* relocated and every use of the chunk.                                   *)
(***************************************************************************)
EXTENDS Migration, RelocationProofs

(* The thread does not run while the function is relocated, and the hook   *)
(* is attached to a complete chunk only.                                   *)
MigrationInv ==
    /\ RelocationInv
    /\ attached \in BOOLEAN /\ lost \in BOOLEAN /\ ip \in Int
    /\ attached => phase = "complete"
    /\ phase \in {"analyze", "relocate"} => ip = Elsewhere

-----------------------------------------------------------------------------
(* Addresses *)

LEMMA MigrationConstants ==
    /\ Elsewhere \in Int /\ Before \in Int /\ CallbackJump \in Int
    /\ Elsewhere < Before /\ Before < 0
    /\ ContextFails \in BOOLEAN
BY MigrationAssumption

LEMMA AddressTypes ==
    ASSUME RelocationInv
    PROVE  Boundaries \subseteq Int /\ ChunkAddresses \subseteq Int
<1>1. InstructionsInv /\ ProgressInv /\ PiecesInv
  BY DEF RelocationInv
<1>2. bytes_read \in Nat
  BY <1>1, ImageParts
<1>3. \A i \in DOMAIN instructions : instructions[i].offset \in Nat
  BY <1>1, InstructionParts, ItemParts
<1>4. \A k \in DOMAIN buffer : Start(buffer[k]) \in Int
  <2>1. \A k \in DOMAIN buffer : buffer[k] \in Piece
    BY <1>1, LenProperties, ElementOfSeq DEF PiecesInv
  <2>2. \A k \in DOMAIN buffer : buffer[k].at \in Nat
    BY <2>1 DEF Piece
  <2> QED
    BY <2>2, Sizes DEF Start
<1> QED
  BY <1>2, <1>3, <1>4 DEF Boundaries, ChunkAddresses

(* The starts of the instructions are not in the chunk.                    *)
LEMMA BoundariesNear ==
    ASSUME RelocationInv, phase = "complete"
    PROVE  /\ Boundaries \subseteq 0 .. bytes_read
           /\ bytes_read \in Nat /\ bytes_read <= MinBytes + 14 /\ bytes_read >= MinBytes
           /\ Boundaries \cap (Destination .. Destination + CodeSize) = {}
<1>1. InstructionsInv /\ ProgressInv /\ Relocated = Analyzed
  BY DEF RelocationInv, ProgressInv
<1>2. bytes_read \in Nat /\ bytes_read <= MinBytes + 14 /\ bytes_read = OffsetBehind(Analyzed)
  BY <1>1, ImageParts
<1>3. bytes_read >= MinBytes
  BY <1>1, <1>2, OffsetIsBehind DEF ProgressInv
<1>4. ASSUME NEW i \in DOMAIN instructions
      PROVE  instructions[i].offset \in 0 .. bytes_read
  <2>1. /\ Analyzed \in Nat /\ i \in 1 .. Analyzed /\ Analyzed \in 0 .. Analyzed
        /\ instructions[i] \in Item
    BY <1>1, InstructionParts
  <2>2. instructions[i].offset < bytes_read
    BY <1>1, <1>2, <2>1, OffsetBehindParts
  <2>3. instructions[i].offset \in Nat
    BY <2>1, ItemParts
  <2> QED
    BY <1>2, <2>2, <2>3
<1>5. Boundaries \subseteq 0 .. bytes_read
  BY <1>2, <1>4 DEF Boundaries
<1>6. 0 .. bytes_read \subseteq 0 .. MinBytes + 14
  BY <1>2, Sizes
<1>7. Boundaries \cap (Destination .. Destination + CodeSize) = {}
  BY <1>5, <1>6, BufferAssumption
<1> QED
  BY <1>2, <1>3, <1>5, <1>7

(* Where the function starts, its first instruction does, and so does the  *)
(* first copy where the chunk's code does.                                 *)
LEMMA FirstInstruction ==
    ASSUME RelocationInv, phase = "complete"
    PROVE  /\ 1 \in DOMAIN instructions /\ instructions[1].offset = 0
           /\ 1 \in DOMAIN image /\ image[1] = 0
<1>1. InstructionsInv /\ ProgressInv /\ ImageInv /\ Relocated = Analyzed
  BY DEF RelocationInv, ProgressInv
<1>2. Analyzed \in Nat /\ DOMAIN instructions = 1 .. Analyzed /\ DOMAIN image = 1 .. Analyzed
  BY <1>1, ImageParts, InstructionParts
<1>3. Analyzed # 0
  <2>1. OffsetBehind(Analyzed) >= MinBytes
    BY <1>1, OffsetIsBehind DEF ProgressInv
  <2>2. OffsetBehind(Analyzed) # 0
    BY <2>1, Sizes
  <2> QED
    BY <2>2 DEF OffsetBehind
<1>4. 1 \in 1 .. Analyzed
  BY <1>2, <1>3
<1>5. instructions # <<>> /\ image # <<>>
  BY <1>2, <1>4
<1> QED
  BY <1>1, <1>2, <1>4, <1>5 DEF InstructionsInv, ImageInv

-----------------------------------------------------------------------------
(* Migration *)

(* The offset is a byte, so that it is that of no instruction, unless the  *)
(* thread is at the start of the code.                                     *)
LEMMA OffsetAsByte ==
    ASSUME NEW source \in Int, ip \in Int, ip - source \in 0 .. 125
    PROVE  /\ SourceOffset(source) \in Nat
           /\ ip # source => SourceOffset(source) >= 131
           /\ ip = source => SourceOffset(source) = 0
<1> DEFINE d == source - ip
<1>1. d \in -125 .. 0 /\ (d = 0 <=> ip = source)
  OBVIOUS
<1> HIDE DEF d
<1>2. d = 0 => d % 256 = 0
  OBVIOUS
<1>3. d # 0 => d % 256 = d + 256
  BY <1>1
<1>4. d # 0 => d + 256 >= 131 /\ d + 256 \in Nat
  BY <1>1
<1> QED
  BY <1>1, <1>2, <1>3, <1>4 DEF SourceOffset, d

LEMMA FirstMatch ==
    ASSUME RelocationInv, NEW from \in {"source", "destination"}, NEW offset,
           Matches(from, offset) # {}
    PROVE  LET first == Min(Matches(from, offset))
           IN  /\ first \in DOMAIN map /\ map[first][from] = offset
               /\ map[first].source \in Nat /\ map[first].destination \in Nat
               /\ offset \in Nat /\ offset <= 130
               /\ offset = 0 => map[first].source = 0 /\ map[first].destination = 0
<1> DEFINE S == Matches(from, offset)
           first == Min(S)
<1>1. MapInv
  BY DEF RelocationInv
<1>2. Len(map) \in Nat /\ DOMAIN map = 1 .. Len(map) /\ \A p \in DOMAIN map : map[p] \in MapItem
  BY <1>1, LenProperties, ElementOfSeq DEF MapInv
<1>3. S \in SUBSET Nat
  BY <1>2 DEF Matches
<1>4. S # {}
  OBVIOUS
<1>5. first \in S /\ \A n \in S : first <= n
  <2>1. \E m \in S : \A n \in S : m <= n
    <3> HIDE DEF S
    <3> QED
      BY <1>3, <1>4, SmallestOf
  <2> HIDE DEF S
  <2> QED
    BY <2>1 DEF Min
<1> HIDE DEF first
<1>6. first \in DOMAIN map /\ map[first][from] = offset
  BY <1>5 DEF Matches
<1>7. map[first].source \in Nat /\ map[first].destination \in Nat
  BY <1>2, <1>6 DEF MapItem
<1>8. map[first].source <= 130 /\ map[first].destination <= 130
  <2>1. map[first].source <= MinBytes - 1 /\ map[first].destination <= CodeSize + 5
    BY <1>1, <1>6 DEF MapInv
  <2> QED
    BY <1>7, <2>1, Sizes
<1>9. ASSUME offset = 0
      PROVE  map[first].source = 0 /\ map[first].destination = 0
  <2>1. map # <<>> /\ 1 \in DOMAIN map
    BY <1>2, <1>6
  <2>2. map[1].source = 0 /\ map[1].destination = 0
    BY <1>1, <2>1 DEF MapInv
  <2>3. 1 \in S
    BY <1>9, <2>1, <2>2 DEF Matches
  <2>4. first <= 1 /\ first >= 1 /\ first \in Nat
    BY <1>2, <1>5, <1>6, <2>3
  <2>5. first = 1
    BY <2>4
  <2> QED
    BY <2>2, <2>5
<1> QED
  BY <1>6, <1>7, <1>8, <1>9 DEF first

LEMMA Migration ==
    ASSUME RelocationInv, ip \in Int,
           NEW from \in {"source", "destination"}, NEW to \in {"source", "destination"},
           NEW source \in Int, NEW destination \in Int,
           NEW length \in Nat, length <= 125,
           NEW new \in Migrated(source, length, from, destination, to)
    PROVE  \/ new = ip /\ (InRange(source, length) => ContextFails)
           \/ ip = source /\ new = destination
<1> DEFINE offset == SourceOffset(source)
           S == Matches(from, offset)
<1>1. CASE ~InRange(source, length)
  BY <1>1 DEF Migrated
<1>2. CASE InRange(source, length) /\ new = ip /\ ContextFails
  BY <1>2
<1>3. CASE InRange(source, length) /\ S # {} /\ new = destination + map[Min(S)][to]
  <2>1. ip - source \in 0 .. 125
    BY <1>3 DEF InRange
  <2>2. /\ offset <= 130 /\ offset \in Nat
        /\ offset = 0 => map[Min(S)].source = 0 /\ map[Min(S)].destination = 0
    BY <1>3, FirstMatch
  <2>3. ip = source /\ offset = 0
    BY <2>1, <2>2, OffsetAsByte
  <2>4. map[Min(S)][to] = 0
    BY <2>2, <2>3
  <2> QED
    BY <1>3, <2>3, <2>4
<1> QED
  BY <1>1, <1>2, <1>3 DEF Migrated

(* A hook is attached: from the start of the function to that of the code  *)
(* in the chunk.                                                           *)
LEMMA AttachMigrates ==
    ASSUME MigrationInv, CommitAttach
    PROVE  /\ phase = "complete" /\ ~attached /\ ~lost /\ attached' = TRUE
           /\ UNCHANGED rvars
           /\ \/ ip' = ip /\ (lost' \/ ContextFails \/ ip \notin 0 .. bytes_read)
              \/ ip = 0 /\ ip' = Destination
           /\ lost' \in BOOLEAN
<1>1. /\ phase = "complete" /\ ~attached /\ ~lost /\ attached' = TRUE /\ UNCHANGED rvars
      /\ Migrates(0, bytes_read, "source", Destination, "destination")
  BY DEF CommitAttach
<1>2. RelocationInv /\ ip \in Int
  BY DEF MigrationInv
<1>3. bytes_read \in Nat /\ bytes_read <= 125
  BY <1>1, <1>2, BoundariesNear, Sizes
<1> DEFINE outcomes == Migrated(0, bytes_read, "source", Destination, "destination")
<1>4. CASE ip' \in outcomes /\ lost' = FALSE
  <2>1. \/ ip' = ip /\ (InRange(0, bytes_read) => ContextFails)
        \/ ip = 0 /\ ip' = Destination
    <3> HIDE DEF outcomes
    <3>1. ip' \in Migrated(0, bytes_read, "source", Destination, "destination")
      BY <1>4 DEF outcomes
    <3> QED
      BY <1>2, <1>3, <3>1, Migration, Sizes
  <2>2. ip \in 0 .. bytes_read => InRange(0, bytes_read)
    BY <1>2, <1>3 DEF InRange
  <2> QED
    BY <1>1, <1>2, <1>3, <1>4, <2>1, <2>2 DEF InRange
<1>5. CASE outcomes = {} /\ ip' = ip /\ lost' = TRUE
  BY <1>1, <1>5
<1> QED
  BY <1>1, <1>4, <1>5 DEF Migrates

(* A hook is removed: the other way round.                                 *)
LEMMA RemoveMigrates ==
    ASSUME MigrationInv, CommitRemove
    PROVE  /\ phase = "complete" /\ attached /\ ~lost /\ attached' = FALSE /\ Release
           /\ \/ /\ ip' = ip
                 /\ \/ lost' \/ ContextFails
                    \/ ip \notin Destination .. Destination + bytes_written
              \/ ip = Destination /\ ip' = 0
           /\ lost' \in BOOLEAN
<1>1. /\ attached /\ ~lost /\ attached' = FALSE /\ Release
      /\ Migrates(Destination, bytes_written, "destination", 0, "source")
  BY DEF CommitRemove
<1>2. RelocationInv /\ ip \in Int /\ phase = "complete"
  BY <1>1 DEF MigrationInv
<1>3. bytes_written \in Nat /\ bytes_written <= 125
  BY <1>2, ImageParts, Sizes DEF RelocationInv
<1> DEFINE outcomes == Migrated(Destination, bytes_written, "destination", 0, "source")
<1>4. CASE ip' \in outcomes /\ lost' = FALSE
  <2>1. \/ ip' = ip /\ (InRange(Destination, bytes_written) => ContextFails)
        \/ ip = Destination /\ ip' = 0
    BY <1>2, <1>3, <1>4, Migration, Sizes
  <2>2. ip \in Destination .. Destination + bytes_written
            => InRange(Destination, bytes_written)
    BY <1>2, <1>3, Sizes DEF InRange
  <2> QED
    BY <1>1, <1>2, <1>4, <2>1, <2>2
<1>5. CASE outcomes = {} /\ ip' = ip /\ lost' = TRUE
  BY <1>1, <1>2, <1>5
<1> QED
  BY <1>1, <1>4, <1>5 DEF Migrates

-----------------------------------------------------------------------------
(* Steps *)

LEMMA PlaceType ==
    ASSUME RelocationInv, NEW a
    PROVE  Place(a) \in Int
BY AddressTypes, MigrationConstants DEF Place

LEMMA ThreadRunsType ==
    ASSUME RelocationInv, ThreadRuns
    PROVE  ip' \in Int
<1>1. \/ ip' \in {0, Destination, CallbackJump, Elsewhere}
      \/ \E k \in DOMAIN buffer : ip' \in Leads(buffer[k])
  BY DEF ThreadRuns
<1>2. ASSUME NEW p, ip' \in Leads(p)
      PROVE  ip' \in Int
  BY <1>2, PlaceType DEF Leads
<1> QED
  BY <1>1, <1>2, Sizes, MigrationConstants

LEMMA MigrationStarts == Init => MigrationInv
<1> SUFFICES ASSUME Init PROVE MigrationInv
  OBVIOUS
<1>1. RelocationInit /\ attached = FALSE /\ ip = Elsewhere /\ lost = FALSE
  BY DEF Init
<1>2. RelocationInv /\ ip \in Int
  BY <1>1, RelocationStarts, MigrationConstants
<1> QED
  BY <1>1, <1>2 DEF MigrationInv

LEMMA MigrationKeeps == MigrationInv /\ [Next]_vars => MigrationInv'
<1> SUFFICES ASSUME MigrationInv, [Next]_vars PROVE MigrationInv'
  OBVIOUS
<1>1. RelocationInv
  BY DEF MigrationInv
<1>2. CASE ChunkInit /\ ip = Elsewhere /\ UNCHANGED <<attached, ip, lost>>
  <2>1. RelocationInv'
    BY <1>1, <1>2, ChunkInitKeeps
  <2>2. phase # "complete"
    BY <1>2 DEF ChunkInit, ChunkInitStarts, Decode, DecodeFails, AnalysisEnds, Relocate,
                RelocationEnds
  <2> QED
    BY <1>2, <2>1, <2>2 DEF MigrationInv
<1>3. CASE ThreadRuns
  <2>1. UNCHANGED rvars /\ UNCHANGED <<attached, lost>>
    BY <1>3 DEF ThreadRuns
  <2>2. RelocationInv'
    BY <1>1, <2>1, StutterKeeps
  <2>3. ip' \in Int
    BY <1>1, <1>3, ThreadRunsType
  <2>4. ASSUME phase \in {"analyze", "relocate"}
        PROVE  ip' = Elsewhere
    <3>1. ~attached
      BY <2>4 DEF MigrationInv
    <3> QED
      BY <1>3, <3>1 DEF ThreadRuns
  <2> QED
    BY <2>1, <2>2, <2>3, <2>4 DEF MigrationInv, rvars
<1>4. CASE IsSuspended
  <2>1. /\ phase = "complete" /\ ip' \in Boundaries \cup {Before, Elsewhere}
        /\ UNCHANGED rvars /\ UNCHANGED <<attached, lost>>
    BY <1>4 DEF IsSuspended
  <2>2. RelocationInv' /\ ip' \in Int
    BY <1>1, <2>1, StutterKeeps, AddressTypes, MigrationConstants
  <2> QED
    BY <2>1, <2>2 DEF MigrationInv, rvars
<1>5. CASE CommitAttach
  <2>1. /\ phase = "complete" /\ attached' = TRUE /\ UNCHANGED rvars
        /\ ip' = ip \/ ip' = Destination
        /\ lost' \in BOOLEAN
    BY <1>5, AttachMigrates
  <2>2. RelocationInv' /\ ip' \in Int
    BY <1>1, <2>1, StutterKeeps, Sizes DEF MigrationInv
  <2> QED
    BY <2>1, <2>2 DEF MigrationInv, rvars
<1>6. CASE CommitRemove
  <2>1. /\ attached' = FALSE /\ Release
        /\ ip' = ip \/ ip' = 0
        /\ lost' \in BOOLEAN
    BY <1>6, RemoveMigrates
  <2>2. RelocationInv' /\ ip' \in Int
    BY <1>1, <2>1, ReleaseKeeps DEF MigrationInv
  <2> QED
    BY <2>1, <2>2 DEF MigrationInv, Release
<1>7. CASE UNCHANGED vars
  <2>1. UNCHANGED rvars /\ UNCHANGED <<attached, ip, lost>>
    BY <1>7 DEF vars
  <2>2. RelocationInv'
    BY <1>1, <2>1, StutterKeeps
  <2> QED
    BY <2>1, <2>2 DEF MigrationInv, rvars
<1> QED
  BY <1>2, <1>3, <1>4, <1>5, <1>6, <1>7 DEF Next

LEMMA MigrationInvariant == Spec => []MigrationInv
BY MigrationStarts, MigrationKeeps, PTL DEF Spec

-----------------------------------------------------------------------------
(* Types; the offsets of the instructions are among the bytes the jump     *)
(* overwrites.                                                             *)
THEOREM MigrationTypeCorrect == Spec => []TypeOK
<1>1. MigrationInv => TypeOK
  BY TypeFollows DEF MigrationInv, TypeOK
<1> QED
  BY <1>1, MigrationInvariant, PTL

(* Whatever the function and the earlier uses of the chunk, the buffer of  *)
(* CodeSize bytes holds the instructions and the backjump fits behind them.*)
THEOREM BufferIsLargeEnough == Spec => []BufferHolds
<1>1. MigrationInv => BufferHolds
  BY DEF MigrationInv, RelocationInv, PiecesInv
<1> QED
  BY <1>1, MigrationInvariant, PTL

(* In the first use of a chunk the first item of the map for an            *)
(* instruction says where its copy is.  (In a later one it need not, since *)
(* the map keeps its items.)                                               *)
THEOREM MapLocatesCopies == Spec => [](uses <= 1 => MapIsImage)
<1>1. MigrationInv => (uses <= 1 => MapIsImage)
  BY MapIsImageFollows DEF MigrationInv
<1> QED
  BY <1>1, MigrationInvariant, PTL

(* With two items more than bytes are overwritten, as Trampoline.h:71-79   *)
(* has them, the map has room for every function a chunk is first used     *)
(* for, at least until a branch has become three instructions.             *)
THEOREM MapIsLargeEnough ==
    ASSUME MapSize >= MinBytes + 2
    PROVE  Spec => []MapSuffices
<1>1. Init => RoomInv
  BY DEF Init, RelocationInit, RoomInv, Relocated
<1>2. MigrationInv /\ RoomInv /\ [Next]_vars => RoomInv'
  <2> SUFFICES ASSUME MigrationInv, RoomInv, [Next]_vars PROVE RoomInv'
    OBVIOUS
  <2>1. CASE ChunkInit
    BY <2>1, ChunkInitKeepsRoom DEF MigrationInv
  <2>2. CASE Release
    BY <2>2, RoomStays DEF Release
  <2>3. CASE UNCHANGED rvars
    BY <2>3, RoomStays DEF rvars
  <2> QED
    BY <2>1, <2>2, <2>3 DEF Next, ThreadRuns, IsSuspended, CommitAttach, CommitRemove, vars
<1>3. RoomInv => MapSuffices
  BY DEF RoomInv, MapSuffices
<1> QED
  BY <1>1, <1>2, <1>3, MigrationInvariant, PTL DEF Spec

(* In the first use of a chunk the code in the buffer does what the        *)
(* function's first instructions did.                                      *)
THEOREM TrampolineIsEquivalent == Spec => [](uses <= 1 => BranchesEquivalent)
<1>1. MigrationInv => (uses <= 1 => BranchesEquivalent)
  BY BranchesEquivalentFollows DEF MigrationInv
<1> QED
  BY <1>1, MigrationInvariant, PTL

(* In every use of a chunk a thread that is migrated goes from an          *)
(* instruction to its copy, or from a copy to its instruction.             *)
THEOREM MigrationIsFaithful == Spec => MigrationFaithful
<1> DEFINE Faithful ==
        attached' # attached /\ ip' # ip =>
            \E i \in DOMAIN instructions :
                {ip, ip'} = {instructions[i].offset, Destination + image[i]}
<1>1. MigrationInv /\ [Next]_vars => [Faithful]_vars
  <2> SUFFICES ASSUME MigrationInv, [Next]_vars, attached' # attached, ip' # ip
               PROVE  \E i \in DOMAIN instructions :
                        {ip, ip'} = {instructions[i].offset, Destination + image[i]}
    OBVIOUS
  <2>1. CommitAttach \/ CommitRemove
    BY DEF Next, ThreadRuns, IsSuspended, vars
  <2>2. phase = "complete" /\ {ip, ip'} = {0, Destination}
    BY <2>1, AttachMigrates, RemoveMigrates
  <2>3. /\ 1 \in DOMAIN instructions
        /\ instructions[1].offset = 0 /\ Destination + image[1] = Destination
    BY <2>2, FirstInstruction, Sizes DEF MigrationInv
  <2> QED
    BY <2>2, <2>3
<1> QED
  BY <1>1, MigrationInvariant, PTL DEF Spec, MigrationFaithful

-----------------------------------------------------------------------------
(* The next instruction of the thread *)

(* An instruction in the chunk leads to another one, to the next           *)
(* instruction of the function that was not relocated, or elsewhere.       *)
LEMMA LeadsToCode ==
    ASSUME OnePieceComplete, attached, NEW k \in DOMAIN buffer, NEW a \in Leads(buffer[k])
    PROVE  a \in SourceAddresses \cup {Elsewhere} \cup ChunkAddresses
<1> DEFINE p == buffer[k]
           N == Analyzed
           Buffer == Destination .. Destination + CodeSize
<1>1. RelocationInv /\ phase = "complete"
  BY DEF OnePieceComplete
<1>2. /\ N \in Nat /\ DOMAIN buffer = 1 .. N + 1 /\ DOMAIN instructions = 1 .. N
      /\ DOMAIN image = 1 .. N
      /\ bytes_written \in Nat /\ bytes_written <= CodeSize
      /\ \A i \in 1 .. N : image[i] \in Nat /\ image[i] < bytes_written
      /\ Goal(buffer[N + 1]) = bytes_read /\ buffer[N + 1].form = "backjump"
  BY CompleteParts
<1>3. bytes_read >= MinBytes /\ Boundaries \cap Buffer = {}
  BY <1>1, BoundariesNear
<1> SUFFICES ASSUME NEW b, a = Place(b),
                    \/ p.form \notin {"jmp", "jmp_near", "backjump"} /\ b = End(p)
                    \/ p.form \in Branches \cup {"backjump"} /\ b = Goal(p)
             PROVE  b \in Boundaries => b = bytes_read
  <2>1. PICK b : /\ a = Place(b)
                 /\ \/ p.form \notin {"jmp", "jmp_near", "backjump"} /\ b = End(p)
                    \/ p.form \in Branches \cup {"backjump"} /\ b = Goal(p)
    BY DEF Leads
  <2>2. SUFFICES ASSUME b \in Boundaries => b = bytes_read
                 PROVE  a \in SourceAddresses \cup {Elsewhere} \cup ChunkAddresses
    BY <2>1
  <2>3. b \in Boundaries => b \in SourceAddresses
    BY <1>3, <2>2 DEF SourceAddresses
  <2> QED
    BY <2>1, <2>3 DEF Place
<1>4. bytes_written \in 0 .. CodeSize /\ \A i \in 1 .. N : image[i] \in 0 .. CodeSize
  <2>1. \A i \in 1 .. N : image[i] <= CodeSize
    BY <1>2, Sizes
  <2> QED
    BY <1>2, <2>1, Sizes
<1>5. \A o \in 0 .. CodeSize : Destination + o \in Buffer
  BY Sizes
<1>6. CASE k = N + 1
  BY <1>2, <1>6 DEF Branches
<1>7. CASE k \in 1 .. N
  <2>1. /\ Copies(k) /\ Updated(k) /\ buffer[k].at \in Nat /\ buffer[k].length \in Nat
        /\ k < N => buffer[k].at + buffer[k].length = image[k + 1]
        /\ k = N => buffer[k].at + buffer[k].length = bytes_written
    BY <1>7, CompleteParts, CopyEnds
  <2>2. CASE b = End(p)
    <3>1. End(p) = Destination + (p.at + p.length)
      <4> HIDE DEF p
      <4>1. p.at \in Nat /\ p.length \in Nat
        BY <2>1 DEF p
      <4> QED
        BY <4>1, Sizes DEF End, Start
    <3>2. p.at + p.length \in 0 .. CodeSize
      <4>1. k < N => k + 1 \in 1 .. N
        BY <1>2, <1>7
      <4>2. k < N \/ k = N
        BY <1>2, <1>7
      <4> QED
        BY <1>4, <2>1, <4>1, <4>2
    <3> QED
      BY <1>3, <1>5, <2>2, <3>1, <3>2
  <2>3. CASE p.form \in Branches \cup {"backjump"} /\ b = Goal(p)
    <3>1. Relative(instructions[k])
      BY <2>1, <2>3 DEF Copies, Relative, Branches, Forms
    <3>2. CASE HasInternalTarget(instructions[k])
      <4>1. PICK j \in 1 .. N : Goal(p) = Destination + image[j]
        BY <1>2, <2>1, <3>2 DEF Updated
      <4> QED
        BY <1>3, <1>4, <1>5, <2>3, <4>1
    <3>3. CASE ~HasInternalTarget(instructions[k])
      <4>1. b = instructions[k].target
        BY <2>1, <2>3, <3>1, <3>3 DEF Copies, HasExternalTarget
      <4>2. \A j \in DOMAIN instructions : instructions[j].offset # b
        BY <3>1, <3>3, <4>1 DEF HasInternalTarget, Range
      <4> QED
        BY <4>2 DEF Boundaries
    <3> QED
      BY <3>2, <3>3
  <2> QED
    BY <2>2, <2>3
<1> QED
  BY <1>2, <1>6, <1>7

LEMMA ChunkAddressesNear ==
    ASSUME OnePieceComplete
    PROVE  /\ ChunkAddresses \subseteq Destination .. Destination + bytes_written
           /\ Destination \in ChunkAddresses
<1>1. /\ Analyzed \in Nat /\ Analyzed >= 1 /\ DOMAIN buffer = 1 .. Analyzed + 1
      /\ bytes_written \in Nat
      /\ \A i \in 1 .. Analyzed :
            /\ Copies(i) /\ image[i] \in Nat /\ image[i] < bytes_written
            /\ buffer[i].at = image[i]
      /\ buffer[Analyzed + 1].at = bytes_written
  BY CompleteParts
<1>2. \A k \in DOMAIN buffer : buffer[k].at \in 0 .. bytes_written
  <2>1. \A k \in 1 .. Analyzed : buffer[k].at \in 0 .. bytes_written
    BY <1>1
  <2>2. buffer[Analyzed + 1].at \in 0 .. bytes_written
    BY <1>1
  <2> QED
    BY <1>1, <2>1, <2>2
<1>3. \A k \in DOMAIN buffer : Start(buffer[k]) \in Destination .. Destination + bytes_written
  BY <1>1, <1>2, Sizes DEF Start
<1>4. Destination \in ChunkAddresses
  <2>1. 1 \in DOMAIN buffer /\ 1 \in 1 .. Analyzed /\ Intact(1)
    BY <1>1, AllIntact
  <2>2. buffer[1].at = 0
    BY <1>1, <2>1, FirstInstruction DEF OnePieceComplete
  <2>3. buffer[1].form # "bytes"
    BY <1>1, <2>1 DEF Copies, Forms, Branches
  <2>4. Start(buffer[1]) = Destination
    BY <2>2, Sizes DEF Start
  <2> QED
    BY <2>1, <2>3, <2>4 DEF ChunkAddresses
<1> QED
  BY <1>3, <1>4 DEF ChunkAddresses

(* The property, in the first use of a chunk.                              *)
InCode ==
    ~lost /\ ~LoopRewritten /\ uses <= 1 =>
        ip \in SourceAddresses \cup {Elsewhere, Before, CallbackJump}
               \cup (IF attached THEN ChunkAddresses ELSE {})

LEMMA SameCode ==
    ASSUME UNCHANGED rvars
    PROVE  /\ Boundaries' = Boundaries /\ ChunkAddresses' = ChunkAddresses
           /\ (LoopRewritten' <=> LoopRewritten) /\ uses' = uses
<1>1. /\ instructions' = instructions /\ bytes_read' = bytes_read /\ buffer' = buffer
      /\ image' = image /\ uses' = uses
  BY DEF rvars
<1>2. LoopRewritten' <=> LoopRewritten
  BY <1>1 DEF LoopRewritten, HasExternalTarget, HasInternalTarget, Relative, OutOfReach
<1> QED
  BY <1>1, <1>2 DEF Boundaries, ChunkAddresses, Start, Intact

LEMMA InCodeKeeps ==
    ASSUME MigrationInv, InCode, [Next]_vars, ~ContextFails
    PROVE  InCode'
<1>1. RelocationInv
  BY DEF MigrationInv
<1> SUFFICES ASSUME ~lost', ~LoopRewritten', uses' <= 1
             PROVE  InCode'
  BY DEF InCode
<1>2. CASE ChunkInit /\ ip = Elsewhere /\ UNCHANGED <<attached, ip, lost>>
  BY <1>2 DEF InCode
<1>3. CASE ThreadRuns
  <2>1. UNCHANGED rvars /\ attached' = attached /\ lost' = lost
    BY <1>3 DEF ThreadRuns
  <2>2. ~lost /\ ~LoopRewritten /\ uses <= 1
    BY <2>1, SameCode
  <2>3. attached => OnePieceComplete
    BY <2>2 DEF MigrationInv, OnePieceComplete
  <2>4. ip' \in SourceAddresses \cup {Elsewhere, Before, CallbackJump}
               \cup (IF attached THEN ChunkAddresses ELSE {})
    <3>1. CASE attached /\ ip' \in {0, Destination}
      <4>1. Destination \in ChunkAddresses
        BY <2>3, <3>1, ChunkAddressesNear
      <4>2. 0 \in SourceAddresses
        BY <1>1, <2>3, <3>1, FirstInstruction
        DEF OnePieceComplete, SourceAddresses, Boundaries
      <4> QED
        BY <3>1, <4>1, <4>2
    <3>2. CASE ip' \in {CallbackJump, Elsewhere}
      BY <3>2
    <3>3. CASE attached /\ \E k \in DOMAIN buffer : ip' \in Leads(buffer[k])
      BY <2>3, <3>3, LeadsToCode
    <3> QED
      BY <1>3, <3>1, <3>2, <3>3 DEF ThreadRuns
  <2> QED
    BY <2>1, <2>4, SameCode DEF InCode, SourceAddresses
<1>4. CASE IsSuspended
  <2>1. /\ UNCHANGED rvars /\ ~attached /\ attached' = attached
        /\ ip' \in Boundaries \cup {Before, Elsewhere}
    BY <1>4 DEF IsSuspended
  <2> QED
    BY <2>1, SameCode DEF InCode, SourceAddresses
<1>5. CASE CommitAttach
  <2>1. /\ phase = "complete" /\ ~attached /\ ~lost /\ attached' = TRUE
        /\ UNCHANGED rvars
        /\ \/ ip' = ip /\ ip \notin 0 .. bytes_read
           \/ ip' = Destination
    BY <1>5, AttachMigrates
  <2>2. ~LoopRewritten /\ uses <= 1 /\ OnePieceComplete
    BY <1>1, <2>1, SameCode DEF OnePieceComplete
  <2>3. CASE ip' = Destination
    BY <2>1, <2>2, <2>3, ChunkAddressesNear, SameCode DEF InCode
  <2>4. CASE ip' = ip /\ ip \notin 0 .. bytes_read
    <3>1. ip \in SourceAddresses \cup {Elsewhere, Before, CallbackJump}
      BY <2>1, <2>2 DEF InCode
    <3>2. ip \in {Elsewhere, Before, CallbackJump}
      BY <1>1, <2>1, <2>4, <3>1, BoundariesNear DEF SourceAddresses
    <3> QED
      BY <2>4, <3>2 DEF InCode
  <2> QED
    BY <2>1, <2>3, <2>4
<1>6. CASE CommitRemove
  <2>1. /\ phase = "complete" /\ attached /\ ~lost /\ attached' = FALSE /\ Release
        /\ \/ ip' = ip /\ ip \notin Destination .. Destination + bytes_written
           \/ ip' = 0
    BY <1>6, RemoveMigrates
  <2>2. /\ instructions' = instructions /\ image' = image /\ uses' = uses
        /\ Boundaries' = Boundaries
    BY <2>1 DEF Release, Boundaries
  <2>3. ~LoopRewritten /\ uses <= 1
    BY <2>2 DEF LoopRewritten, HasExternalTarget, HasInternalTarget, Relative, OutOfReach
  <2>4. OnePieceComplete
    BY <1>1, <2>1, <2>3 DEF OnePieceComplete
  <2>5. SourceAddresses' = Boundaries
    BY <2>1, <2>2 DEF SourceAddresses
  <2>6. CASE ip' = 0
    <3>1. 0 \in Boundaries
      BY <1>1, <2>1, FirstInstruction DEF Boundaries
    <3> QED
      BY <2>5, <2>6, <3>1 DEF InCode
  <2>7. CASE ip' = ip /\ ip \notin Destination .. Destination + bytes_written
    <3>1. ip \notin ChunkAddresses
      BY <2>4, <2>7, ChunkAddressesNear
    <3>2. ip \in SourceAddresses \cup {Elsewhere, Before, CallbackJump}
      BY <2>1, <2>3, <3>1 DEF InCode
    <3>3. ip \in Boundaries \cup {Elsewhere, Before, CallbackJump}
      BY <3>2 DEF SourceAddresses
    <3> QED
      BY <2>5, <2>7, <3>3 DEF InCode
  <2> QED
    BY <2>1, <2>6, <2>7
<1>7. CASE UNCHANGED vars
  <2>1. UNCHANGED rvars /\ UNCHANGED <<attached, ip, lost>>
    BY <1>7 DEF vars
  <2> QED
    BY <2>1, SameCode DEF InCode, SourceAddresses
<1> QED
  BY <1>2, <1>3, <1>4, <1>5, <1>6, <1>7 DEF Next

(* If the contexts of threads can be read and set, the next instruction of *)
(* a thread exists whenever the hook is attached or removed for the first  *)
(* time in the life of its chunk.                                          *)
THEOREM ThreadsStayInCode ==
    ASSUME ~ContextFails
    PROVE  Spec => [](uses <= 1 => NextInstructionExists)
<1>1. Init => InCode
  BY DEF Init, InCode
<1>2. MigrationInv /\ InCode /\ [Next]_vars => InCode'
  BY InCodeKeeps
<1>3. InCode => (uses <= 1 => NextInstructionExists)
  BY DEF InCode, NextInstructionExists
<1> QED
  BY <1>1, <1>2, <1>3, MigrationInvariant, PTL DEF Spec
=============================================================================
