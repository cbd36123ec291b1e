-------------------------- MODULE RelocationProofs --------------------------
(***************************************************************************)
(* Proofs about code relocation, for every set of instructions, every      *)
(* place of the chunk and all sizes that Relocation assumes.               *)
(***************************************************************************)
EXTENDS Relocation, SequenceTheorems, WellFoundedInduction, TLAPS

(* What the analysis makes of the instructions. *)
Item ==
    {item \in [offset : 0 .. MinBytes - 1, form : Forms, length : 1 .. 15, target : Int] :
        \E i \in Instructions :
            item.form = i.form /\ item.length = i.length /\ item.target = i.target}

MapItem == [source : Nat, destination : Nat]

Analyzed == Len(instructions)

Relocated == Len(image)

(* The offset behind the first n instructions. *)
OffsetBehind(n) ==
    IF n = 0 THEN 0 ELSE instructions[n].offset + instructions[n].length

(* The instructions follow one another from the start of the function. *)
InstructionsInv ==
    /\ instructions \in Seq(Item)
    /\ instructions # <<>> => instructions[1].offset = 0
    /\ \A i, j \in DOMAIN instructions :
        i < j => instructions[i].offset + instructions[i].length <= instructions[j].offset
    /\ \A i \in DOMAIN instructions :
        i + 1 \in DOMAIN instructions =>
            instructions[i + 1].offset = instructions[i].offset + instructions[i].length

(* The offsets that are read and written: the copies are at most three     *)
(* times as long as the instructions, apart from a last one.               *)
ProgressInv ==
    /\ phase \in Phases
    /\ uses \in 0 .. MaxUses
    /\ uses = 0 => phase = "free"
    /\ phase = "analyze" => image = <<>> /\ buffer = <<>>
    /\ phase \in {"relocate", "complete"} => Offset >= MinBytes
    /\ phase = "complete" => Relocated = Analyzed
    /\ image \in Seq(Nat)
    /\ Relocated <= Analyzed
    /\ bytes_read = OffsetBehind(Relocated)
    /\ bytes_written \in Nat
    /\ bytes_written <= 3 * bytes_read
    /\ bytes_written <= 3 * (MinBytes - 1) + 15

ImageInv ==
    /\ \A i \in DOMAIN image :
        image[i] <= 3 * instructions[i].offset /\ image[i] < bytes_written
    /\ \A i, j \in DOMAIN image : i < j => image[i] < image[j]
    /\ image # <<>> => image[1] = 0

(* The first item of the map for an offset, of whatever use of the chunk,  *)
(* is at most three times as far.                                          *)
MapInv ==
    /\ map \in Seq(MapItem)
    /\ map # <<>> => map[1].source = 0 /\ map[1].destination = 0
    /\ \A p \in DOMAIN map :
        /\ map[p].source <= MinBytes - 1
        /\ map[p].destination <= CodeSize + 5
        /\ (\A q \in 1 .. p - 1 : map[q].source # map[p].source) =>
                map[p].destination <= 3 * map[p].source
    /\ \A i \in DOMAIN image : \E p \in DOMAIN map :
            map[p].source = instructions[i].offset /\ map[p].destination = image[i]

(* In the first use, every item is of an instruction that was relocated,   *)
(* and the first one for an instruction says where its copy is.            *)
FirstMapInv ==
    /\ uses = 0 => map = <<>>
    /\ uses <= 1 =>
        /\ \A p \in DOMAIN map : map[p].source < bytes_read
        /\ \A i \in DOMAIN image : \E p \in DOMAIN map :
            /\ map[p].source = instructions[i].offset /\ map[p].destination = image[i]
            /\ \A q \in 1 .. p - 1 : map[q].source # instructions[i].offset

PiecesInv ==
    /\ buffer \in Seq(Piece)
    /\ BufferHolds

(* The piece is the copy of the instruction, but for an internal target,   *)
(* and ends where the next copy starts.                                    *)
Copies(i) ==
    LET p == buffer[i]
        item == instructions[i]
    IN  /\ p.at = image[i]
        /\ p.at + p.length = IF i < Relocated THEN image[i + 1] ELSE bytes_written
        /\ p.form \in Forms /\ p.form # "call"
        /\ item.form = "plain" => p.form = "plain"
        /\ p.form \in {"jmp", "jmp_near"} => item.form \in {"jmp", "jmp_near"}
        /\ HasInternalTarget(item) => p.form = item.form /\ p.length = item.length
        /\ HasExternalTarget(item) => Goal(p) = item.target

(* An internal target is that of the copy. *)
Updated(i) ==
    HasInternalTarget(instructions[i]) =>
        \E j \in DOMAIN image :
            /\ instructions[j].offset = instructions[i].target
            /\ Goal(buffer[i]) = Destination + image[j]

(* In the first use, and before a branch has become three instructions,    *)
(* the buffer holds a piece per instruction, and at last the backjump.     *)
CopiesInv ==
    uses <= 1 /\ ~LoopRewritten =>
        /\ phase = "relocate" => Len(buffer) = Relocated
        /\ phase = "complete" =>
            /\ Len(buffer) = Relocated + 1
            /\ LET backjump == buffer[Relocated + 1]
               IN  /\ backjump.at = bytes_written /\ backjump.length = BackjumpSize
                   /\ backjump.form = "backjump" /\ Goal(backjump) = bytes_read
            /\ \A i \in DOMAIN image : Updated(i)
        /\ phase \in {"relocate", "complete"} => \A i \in DOMAIN image : Copies(i)

(* The inductive invariant. *)
RelocationInv ==
    /\ InstructionsInv
    /\ ProgressInv
    /\ ImageInv
    /\ MapInv
    /\ FirstMapInv
    /\ PiecesInv
    /\ CopiesInv

-----------------------------------------------------------------------------
LEMMA SmallestOf ==
    ASSUME NEW S \in SUBSET Nat, S # {}
    PROVE  \E m \in S : \A n \in S : m <= n
<1> DEFINE R == OpToRel(<, Nat)
<1>1. IsWellFoundedOn(R, Nat)
  BY NatLessThanWellFounded
<1>2. PICK m \in S : \A n \in S : ~(<<n, m>> \in R)
  <2> HIDE DEF R
  <2> QED
    BY <1>1, WFMin
<1>3. ASSUME NEW n \in S
      PROVE  m <= n
  <2>1. m \in Nat /\ n \in Nat
    BY <1>2
  <2>2. n < m => <<n, m>> \in R
    BY <2>1 DEF OpToRel
  <2> HIDE DEF R
  <2> QED
    BY <1>2, <2>1, <2>2
<1> QED
  BY <1>2, <1>3

(* Sizes and instructions *)

LEMMA Sizes ==
    /\ MinBytes \in Nat /\ MinBytes >= 1 /\ MinBytes <= 37
    /\ CodeSize \in Nat /\ 3 * (MinBytes - 1) + 15 <= CodeSize /\ CodeSize <= 125
    /\ BackjumpSize \in Nat /\ BackjumpSize >= 1
    /\ Destination \in Int /\ MapSize \in Nat /\ MaxUses \in Nat
<1>1. /\ MinBytes \in Nat /\ MinBytes # 0 /\ CodeSize \in Nat
      /\ BackjumpSize \in Nat /\ BackjumpSize # 0
      /\ Destination \in Int /\ MapSize \in Nat /\ MaxUses \in Nat
  BY RelocationAssumption
<1>2. CodeSize \in 3 * (MinBytes - 1) + 15 .. 125
  BY CodeSizeAssumption
<1> QED
  BY <1>1, <1>2

LEMMA ItemParts ==
    ASSUME NEW item \in Item
    PROVE  /\ item.offset \in Nat /\ item.offset <= MinBytes - 1
           /\ item.form \in Forms /\ item.target \in Int
           /\ item.length \in 1 .. 15 /\ item.length > OperandSize(item.form)
           /\ item.form = "loop" => item.length + 7 <= 15
           /\ Relative(item) => item.target \notin Destination .. Destination + CodeSize
<1>1. /\ item.offset \in 0 .. MinBytes - 1 /\ item.form \in Forms
      /\ item.length \in 1 .. 15 /\ item.target \in Int
  BY DEF Item
<1>2. PICK i \in Instructions :
        item.form = i.form /\ item.length = i.length /\ item.target = i.target
  BY DEF Item
<1>3. /\ i.length > OperandSize(i.form)
      /\ i.form = "loop" => i.length + 7 <= 15
  BY LengthsAssumption
<1>4. i.form # "plain" => i.target \notin Destination .. Destination + CodeSize
  BY BufferAssumption
<1> QED
  BY <1>1, <1>2, <1>3, <1>4, Sizes DEF Relative

(* The operand of an instruction has room in it. *)
LEMMA OperandFits ==
    ASSUME NEW form
    PROVE  OperandSize(form) \in {0, 1, 4}
BY DEF OperandSize

LEMMA InstructionParts ==
    ASSUME InstructionsInv
    PROVE  /\ Analyzed \in Nat
           /\ DOMAIN instructions = 1 .. Analyzed
           /\ \A i \in 1 .. Analyzed : instructions[i] \in Item
<1>1. instructions \in Seq(Item)
  BY DEF InstructionsInv
<1> QED
  BY <1>1, LenProperties, ElementOfSeq DEF Analyzed

(* The last of the relocated instructions ends where the next one starts,  *)
(* and never behind the first byte that stays by more than 14.             *)
LEMMA OffsetBehindParts ==
    ASSUME InstructionsInv, NEW n \in 0 .. Analyzed
    PROVE  /\ OffsetBehind(n) \in Nat /\ OffsetBehind(n) <= MinBytes + 14
           /\ n < Analyzed => OffsetBehind(n) = instructions[n + 1].offset
           /\ \A i \in 1 .. n : instructions[i].offset < OffsetBehind(n)
<1>1. Analyzed \in Nat /\ DOMAIN instructions = 1 .. Analyzed
  BY InstructionParts
<1>2. CASE n = 0
  <2>1. OffsetBehind(n) = 0
    BY <1>2 DEF OffsetBehind
  <2>2. ASSUME n < Analyzed
        PROVE  instructions[1].offset = 0
    <3>1. instructions # <<>>
      BY <1>1, <1>2, <2>2, EmptySeq DEF InstructionsInv, Analyzed
    <3> QED
      BY <3>1 DEF InstructionsInv
  <2> QED
    BY <1>2, <2>1, <2>2, Sizes
<1>3. CASE n # 0
  <2>1. n \in 1 .. Analyzed /\ instructions[n] \in Item
    BY <1>1, <1>3, InstructionParts
  <2>2. /\ instructions[n].offset \in Nat /\ instructions[n].offset <= MinBytes - 1
        /\ instructions[n].length \in 1 .. 15
    BY <2>1, ItemParts
  <2>3. OffsetBehind(n) = instructions[n].offset + instructions[n].length
    BY <1>3 DEF OffsetBehind
  <2>4. n < Analyzed => OffsetBehind(n) = instructions[n + 1].offset
    BY <1>1, <2>1, <2>3 DEF InstructionsInv
  <2>6. OffsetBehind(n) \in Nat /\ OffsetBehind(n) <= MinBytes + 14
        /\ instructions[n].offset < OffsetBehind(n)
    BY <2>2, <2>3, Sizes
  <2>5. ASSUME NEW i \in 1 .. n
        PROVE  instructions[i].offset < OffsetBehind(n)
    <3>1. CASE i = n
      BY <2>6, <3>1
    <3>2. CASE i < n
      <4>1. instructions[i] \in Item /\ i \in DOMAIN instructions /\ n \in DOMAIN instructions
        BY <1>1, <2>1, InstructionParts
      <4>2. instructions[i].offset + instructions[i].length <= instructions[n].offset
        BY <3>2, <4>1 DEF InstructionsInv
      <4>3. instructions[i].offset \in Nat /\ instructions[i].length \in 1 .. 15
        BY <4>1, ItemParts
      <4> QED
        BY <4>2, <4>3, <2>2, <2>6
    <3> QED
      BY <3>1, <3>2, <2>1
  <2> QED
    BY <2>4, <2>5, <2>6
<1> QED
  BY <1>2, <1>3

(* What the invariant says of the copies so far. *)
LEMMA ImageParts ==
    ASSUME InstructionsInv, ProgressInv
    PROVE  /\ Relocated \in 0 .. Analyzed
           /\ DOMAIN image = 1 .. Relocated /\ image \in Seq(Nat)
           /\ \A i \in 1 .. Relocated : image[i] \in Nat /\ instructions[i] \in Item
           /\ bytes_read = OffsetBehind(Relocated) /\ bytes_read \in Nat
           /\ bytes_read <= MinBytes + 14
           /\ bytes_written \in Nat /\ bytes_written <= CodeSize
<1>1. image \in Seq(Nat) /\ Relocated <= Analyzed
  BY DEF ProgressInv
<1>2. Relocated \in Nat /\ DOMAIN image = 1 .. Relocated
      /\ \A i \in 1 .. Relocated : image[i] \in Nat
  BY <1>1, LenProperties, ElementOfSeq DEF Relocated
<1>3. Analyzed \in Nat /\ \A i \in 1 .. Analyzed : instructions[i] \in Item
  BY InstructionParts
<1>4. Relocated \in 0 .. Analyzed
  BY <1>1, <1>2, <1>3
<1>5. bytes_read = OffsetBehind(Relocated) /\ bytes_written \in Nat
      /\ bytes_written <= 3 * (MinBytes - 1) + 15
  BY DEF ProgressInv
<1>6. bytes_read \in Nat /\ bytes_read <= MinBytes + 14
  BY <1>4, <1>5, OffsetBehindParts
<1>7. bytes_written <= CodeSize
  BY <1>5, Sizes
<1> QED
  BY <1>1, <1>2, <1>3, <1>4, <1>5, <1>6, <1>7

LEMMA RelocationStarts == RelocationInit => RelocationInv
<1> SUFFICES ASSUME RelocationInit PROVE RelocationInv
  OBVIOUS
<1>1. /\ phase = "free" /\ uses = 0 /\ instructions = <<>> /\ bytes_read = 0
      /\ bytes_written = 0 /\ map = <<>> /\ buffer = <<>> /\ image = <<>>
  BY DEF RelocationInit
<1>2. InstructionsInv
  BY <1>1 DEF InstructionsInv
<1>3. ProgressInv
  BY <1>1, Sizes DEF ProgressInv, Phases, OffsetBehind, Analyzed, Relocated
<1> QED
  BY <1>1, <1>2, <1>3
  DEF RelocationInv, ImageInv, MapInv, FirstMapInv, PiecesInv, BufferHolds, CopiesInv

-----------------------------------------------------------------------------
(* Analysis *)

LEMMA OffsetIsBehind ==
    ASSUME InstructionsInv
    PROVE  Offset = OffsetBehind(Analyzed)
<1>1. Analyzed \in Nat
  BY InstructionParts
<1>2. instructions = <<>> <=> Analyzed = 0
  BY EmptySeq DEF InstructionsInv, Analyzed
<1>3. Last(instructions) = instructions[Analyzed]
  BY DEF Last, Analyzed
<1> QED
  BY <1>1, <1>2, <1>3 DEF Offset, OffsetBehind

LEMMA TargetsStay ==
    ASSUME UNCHANGED instructions, NEW i
    PROVE  /\ HasInternalTarget(instructions[i])' <=> HasInternalTarget(instructions[i])
           /\ HasExternalTarget(instructions[i])' <=> HasExternalTarget(instructions[i])
BY DEF HasExternalTarget, HasInternalTarget, Relative

LEMMA StutterKeeps ==
    ASSUME RelocationInv, UNCHANGED rvars
    PROVE  RelocationInv'
<1>1. /\ phase' = phase /\ uses' = uses /\ instructions' = instructions
      /\ bytes_read' = bytes_read /\ bytes_written' = bytes_written
      /\ map' = map /\ buffer' = buffer /\ image' = image
  BY DEF rvars
<1>2. InstructionsInv' /\ ProgressInv' /\ ImageInv'
  BY <1>1 DEF RelocationInv, InstructionsInv, ProgressInv, ImageInv, Analyzed, Relocated,
              OffsetBehind, Offset
<1>3. MapInv' /\ FirstMapInv' /\ PiecesInv'
  BY <1>1 DEF RelocationInv, MapInv, FirstMapInv, PiecesInv, BufferHolds
<1>4. LoopRewritten' <=> LoopRewritten
  BY <1>1 DEF LoopRewritten, HasExternalTarget, HasInternalTarget, Relative, OutOfReach
<1>5. ASSUME NEW i \in DOMAIN image
      PROVE  (Copies(i)' <=> Copies(i)) /\ (Updated(i)' <=> Updated(i))
  BY <1>1, TargetsStay DEF Copies, Updated, Relocated, Goal, End, Start
<1>6. CopiesInv'
  BY <1>1, <1>4, <1>5 DEF RelocationInv, CopiesInv, Relocated, Goal, End, Start
<1> QED
  BY <1>2, <1>3, <1>6 DEF RelocationInv

(* A step that only ends the relocation, or frees the chunk. *)
LEMMA EndKeeps ==
    ASSUME RelocationInv, phase # "free", phase' \in {"failed", "map_full", "free"},
           UNCHANGED <<uses, instructions, bytes_read, bytes_written, map, buffer, image>>
    PROVE  RelocationInv'
<1>1. /\ uses' = uses /\ instructions' = instructions
      /\ bytes_read' = bytes_read /\ bytes_written' = bytes_written
      /\ map' = map /\ buffer' = buffer /\ image' = image
  OBVIOUS
<1>2. InstructionsInv' /\ ImageInv'
  BY <1>1 DEF RelocationInv, InstructionsInv, ImageInv
<1>3. ProgressInv'
  BY <1>1 DEF RelocationInv, ProgressInv, Analyzed, Relocated, OffsetBehind, Phases
<1>4. MapInv' /\ FirstMapInv' /\ PiecesInv'
  BY <1>1 DEF RelocationInv, MapInv, FirstMapInv, PiecesInv, BufferHolds
<1>5. CopiesInv'
  BY DEF CopiesInv
<1> QED
  BY <1>2, <1>3, <1>4, <1>5 DEF RelocationInv

LEMMA ChunkInitStartsKeeps ==
    ASSUME RelocationInv, ChunkInitStarts
    PROVE  RelocationInv'
<1>1. /\ phase = "free" /\ phase' = "analyze" /\ uses' = uses + 1 /\ uses < MaxUses
      /\ instructions' = <<>> /\ buffer' = <<>> /\ image' = <<>>
      /\ bytes_read' = 0 /\ bytes_written' = 0 /\ map' = map
  BY DEF ChunkInitStarts
<1>2. uses \in Nat /\ MaxUses \in Nat
  BY Sizes DEF RelocationInv, ProgressInv
<1>3. InstructionsInv' /\ ImageInv' /\ PiecesInv' /\ CopiesInv'
  BY <1>1 DEF InstructionsInv, ImageInv, PiecesInv, BufferHolds, CopiesInv
<1>4. ProgressInv'
  BY <1>1, <1>2, Sizes DEF ProgressInv, Phases, Analyzed, Relocated, OffsetBehind
<1>5. MapInv'
  BY <1>1 DEF RelocationInv, MapInv
<1>6. FirstMapInv'
  BY <1>1, <1>2 DEF RelocationInv, FirstMapInv
<1> QED
  BY <1>3, <1>4, <1>5, <1>6 DEF RelocationInv

LEMMA DecodeKeeps ==
    ASSUME RelocationInv, Decode
    PROVE  RelocationInv'
<1> DEFINE N == Analyzed
<1>1. /\ phase = "analyze" /\ phase' = phase /\ uses' = uses
      /\ bytes_read' = bytes_read /\ bytes_written' = bytes_written
      /\ map' = map /\ buffer' = buffer /\ image' = image /\ Offset < MinBytes
  BY DEF Decode, NeedsMore
<1>2. PICK instruction \in Instructions :
        instructions' = Append(instructions,
            [offset |-> Offset, form |-> instruction.form,
             length |-> instruction.length, target |-> instruction.target])
  BY DEF Decode
<1> DEFINE item == [offset |-> Offset, form |-> instruction.form,
                    length |-> instruction.length, target |-> instruction.target]
<1>3. InstructionsInv /\ ProgressInv
  BY DEF RelocationInv
<1>4. N \in Nat /\ DOMAIN instructions = 1 .. N
      /\ \A i \in 1 .. N : instructions[i] \in Item
  BY <1>3, InstructionParts
<1>5. Offset = OffsetBehind(N) /\ Offset \in Nat
      /\ \A i \in 1 .. N : instructions[i].offset < Offset
  <2>1. N \in 0 .. Analyzed
    BY <1>4
  <2> QED
    BY <1>3, <2>1, OffsetIsBehind, OffsetBehindParts
<1>6. item \in Item
  <2>1. Offset \in 0 .. MinBytes - 1
    BY <1>1, <1>5, Sizes
  <2>2. instruction \in Instruction
    BY RelocationAssumption
  <2>3. /\ instruction.form \in Forms /\ instruction.length \in 1 .. 15
        /\ instruction.target \in Int
    BY <2>2 DEF Instruction
  <2> QED
    BY <2>1, <2>3 DEF Item
<1>7. /\ instructions' \in Seq(Item) /\ Analyzed' = N + 1 /\ DOMAIN instructions' = 1 .. N + 1
      /\ instructions'[N + 1] = item
      /\ \A i \in 1 .. N : instructions'[i] = instructions[i]
  <2>1. instructions \in Seq(Item)
    BY <1>3 DEF InstructionsInv
  <2> HIDE DEF item
  <2>2. /\ instructions' \in Seq(Item) /\ Len(instructions') = Len(instructions) + 1
        /\ instructions'[Len(instructions) + 1] = item
        /\ \A i \in 1 .. Len(instructions) : instructions'[i] = instructions[i]
    BY <1>2, <1>6, <2>1, AppendProperties DEF item
  <2>3. DOMAIN instructions' = 1 .. Len(instructions')
    BY <2>2, LenProperties
  <2> QED
    BY <2>2, <2>3 DEF Analyzed
<1>8. InstructionsInv'
  <2>1. instructions'[1].offset = 0
    <3>1. CASE N = 0
      BY <1>5, <1>7, <3>1 DEF OffsetBehind
    <3>2. CASE N # 0
      <4>1. instructions # <<>> /\ 1 \in 1 .. N
        BY <1>4, <3>2
      <4> QED
        BY <1>3, <1>7, <4>1 DEF InstructionsInv
    <3> QED
      BY <3>1, <3>2
  <2>2. N >= 1 => instructions[N].offset + instructions[N].length = Offset
    BY <1>4, <1>5 DEF OffsetBehind
  <2>3. ASSUME NEW i \in 1 .. N
        PROVE  instructions[i].offset + instructions[i].length <= Offset
    <3>1. instructions[i] \in Item /\ instructions[N] \in Item /\ N >= 1
      BY <1>4
    <3>2. /\ instructions[i].offset \in Nat /\ instructions[i].length \in Nat
          /\ instructions[N].offset \in Nat /\ instructions[N].length \in Nat
      BY <3>1, ItemParts
    <3>3. CASE i = N
      BY <2>2, <3>1, <3>2, <3>3
    <3>4. CASE i # N
      <4>1. instructions[i].offset + instructions[i].length <= instructions[N].offset
        BY <1>3, <1>4, <3>1, <3>4 DEF InstructionsInv
      <4> QED
        BY <2>2, <3>1, <3>2, <4>1
    <3> QED
      BY <3>3, <3>4
  <2>4. ASSUME NEW i \in 1 .. N + 1, NEW j \in 1 .. N + 1, i < j
        PROVE  instructions'[i].offset + instructions'[i].length <= instructions'[j].offset
    <3>1. i \in 1 .. N
      BY <1>4, <2>4
    <3>2. CASE j = N + 1
      BY <1>7, <2>3, <3>1, <3>2
    <3>3. CASE j \in 1 .. N
      BY <1>3, <1>4, <1>7, <2>4, <3>1, <3>3 DEF InstructionsInv
    <3> QED
      BY <1>4, <3>2, <3>3
  <2>5. ASSUME NEW i \in 1 .. N + 1, i + 1 \in 1 .. N + 1
        PROVE  instructions'[i + 1].offset = instructions'[i].offset + instructions'[i].length
    <3>1. i \in 1 .. N
      BY <1>4, <2>5
    <3>2. CASE i = N
      BY <1>7, <2>2, <3>1, <3>2
    <3>3. CASE i + 1 \in 1 .. N
      BY <1>3, <1>4, <1>7, <3>1, <3>3 DEF InstructionsInv
    <3> QED
      BY <1>4, <2>5, <3>2, <3>3
  <2> QED
    BY <1>7, <2>1, <2>4, <2>5 DEF InstructionsInv
<1>9. image = <<>> /\ buffer = <<>>
  BY <1>1, <1>3 DEF ProgressInv
<1>10. ProgressInv'
  <2>1. Relocated = 0 /\ Relocated' = 0
    BY <1>1, <1>9 DEF Relocated
  <2>2. OffsetBehind(Relocated) = 0 /\ OffsetBehind(Relocated)' = 0
    BY <2>1 DEF OffsetBehind
  <2> QED
    BY <1>1, <1>3, <1>4, <1>7, <1>9, <2>1, <2>2 DEF ProgressInv
<1>11. ImageInv' /\ PiecesInv' /\ CopiesInv'
  BY <1>1, <1>9 DEF ImageInv, PiecesInv, BufferHolds, CopiesInv
<1>12. MapInv' /\ FirstMapInv'
  BY <1>1, <1>9 DEF RelocationInv, MapInv, FirstMapInv
<1> QED
  BY <1>8, <1>10, <1>11, <1>12 DEF RelocationInv

LEMMA AnalysisEndsKeeps ==
    ASSUME RelocationInv, AnalysisEnds
    PROVE  RelocationInv'
<1>1. /\ phase = "analyze" /\ phase' = "relocate" /\ uses' = uses
      /\ instructions' = instructions
      /\ bytes_read' = bytes_read /\ bytes_written' = bytes_written
      /\ map' = map /\ buffer' = buffer /\ image' = image /\ ~(Offset < MinBytes)
  BY DEF AnalysisEnds, NeedsMore
<1>2. InstructionsInv /\ ProgressInv /\ image = <<>> /\ buffer = <<>>
  BY <1>1 DEF RelocationInv, ProgressInv
<1>3. Offset \in Nat
  <2>1. Analyzed \in 0 .. Analyzed
    BY <1>2, InstructionParts
  <2> QED
    BY <1>2, <2>1, OffsetIsBehind, OffsetBehindParts
<1>4. InstructionsInv' /\ ImageInv' /\ PiecesInv'
  BY <1>1 DEF RelocationInv, InstructionsInv, ImageInv, PiecesInv, BufferHolds
<1>5. Offset' = Offset
  BY <1>1 DEF Offset
<1>6. ProgressInv'
  BY <1>1, <1>2, <1>3, <1>5, Sizes DEF ProgressInv, Analyzed, Relocated, OffsetBehind, Phases
<1>7. MapInv' /\ FirstMapInv'
  BY <1>1 DEF RelocationInv, MapInv, FirstMapInv
<1>8. CopiesInv'
  BY <1>1, <1>2 DEF CopiesInv, Relocated
<1> QED
  BY <1>4, <1>6, <1>7, <1>8 DEF RelocationInv

-----------------------------------------------------------------------------
(* Relocation of one instruction *)

(* What a way to relocate the instruction passes to Emits, whatever of the *)
(* instruction it writes.                                                  *)
Emitted(item, pieces, items, written) ==
    /\ pieces \in Seq(Piece) /\ items \in Seq(MapItem)
    /\ \A k \in DOMAIN pieces :
        pieces[k].form # "backjump" /\ pieces[k].at + pieces[k].length <= CodeSize
    /\ items # <<>> /\ items[1] = Entry(bytes_written)
    /\ \A k \in DOMAIN items :
        items[k].source = bytes_read /\ items[k].destination <= bytes_written + 20
    /\ written \in 1 .. 15 /\ written <= 3 * item.length

(* The instruction that is relocated next. *)
LEMMA NextParts ==
    ASSUME RelocationInv, Relocated < Analyzed
    PROVE  LET item == instructions[Relocated + 1]
           IN  /\ Relocated \in Nat /\ Analyzed \in Nat /\ item \in Item
               /\ Relocated + 1 \in DOMAIN instructions
               /\ bytes_read = item.offset /\ bytes_read <= MinBytes - 1
               /\ bytes_written <= 3 * (MinBytes - 1)
               /\ bytes_read \in Nat /\ bytes_written \in Nat
<1>1. InstructionsInv /\ ProgressInv
  BY DEF RelocationInv
<1>2. /\ Relocated \in 0 .. Analyzed /\ bytes_read = OffsetBehind(Relocated)
      /\ bytes_read \in Nat /\ bytes_written \in Nat
  BY <1>1, ImageParts
<1>3. /\ Analyzed \in Nat /\ DOMAIN instructions = 1 .. Analyzed
      /\ \A i \in 1 .. Analyzed : instructions[i] \in Item
  BY <1>1, InstructionParts
<1>4. Relocated \in Nat /\ Relocated + 1 \in 1 .. Analyzed
  BY <1>2, <1>3
<1>5. bytes_read = instructions[Relocated + 1].offset
  BY <1>1, <1>2, OffsetBehindParts
<1>6. instructions[Relocated + 1] \in Item
  BY <1>3, <1>4
<1>7. bytes_read <= MinBytes - 1
  BY <1>5, <1>6, ItemParts
<1>8. bytes_written <= 3 * bytes_read
  BY <1>1 DEF ProgressInv
<1>9. bytes_written <= 3 * (MinBytes - 1)
  BY <1>2, <1>7, <1>8, Sizes
<1> QED
  BY <1>2, <1>3, <1>4, <1>5, <1>6, <1>7, <1>9

(* What all ways to relocate an instruction have in common. *)
LEMMA EmitsKeeps ==
    ASSUME RelocationInv, phase = "relocate", Relocated < Analyzed,
           UNCHANGED <<uses, instructions>>,
           NEW pieces, NEW items, NEW written,
           Emitted(instructions[Relocated + 1], pieces, items, written),
           Emits(pieces, items, written),
           phase' # "map_full"
    PROVE  /\ InstructionsInv' /\ ProgressInv' /\ ImageInv'
           /\ MapInv' /\ FirstMapInv' /\ PiecesInv'
<1> DEFINE N == Relocated
           item == instructions[N + 1]
<1>1. /\ buffer' = buffer \o pieces /\ map' = map \o items
      /\ bytes_written' = bytes_written + written
      /\ bytes_read' = bytes_read + item.length
      /\ image' = Append(image, bytes_written) /\ phase' = phase
      /\ uses' = uses /\ instructions' = instructions
  BY DEF Emits, Relocated
<1>2. InstructionsInv /\ ProgressInv /\ ImageInv /\ MapInv /\ FirstMapInv /\ PiecesInv
  BY DEF RelocationInv
<1>3. /\ N \in Nat /\ Analyzed \in Nat /\ N < Analyzed /\ item \in Item
      /\ bytes_read = item.offset /\ bytes_read <= MinBytes - 1
      /\ bytes_written <= 3 * (MinBytes - 1)
      /\ bytes_read \in Nat /\ bytes_written \in Nat
  BY NextParts
<1>4. /\ item.length \in 1 .. 15 /\ item.offset \in Nat
      /\ written \in 1 .. 15 /\ written <= 3 * item.length
  BY <1>3, ItemParts DEF Emitted
<1>5. /\ DOMAIN image = 1 .. N /\ image \in Seq(Nat)
      /\ \A i \in 1 .. N : image[i] \in Nat /\ instructions[i] \in Item
  BY <1>2, ImageParts
<1>6. /\ image' \in Seq(Nat) /\ Relocated' = N + 1 /\ DOMAIN image' = 1 .. N + 1
      /\ \A i \in 1 .. N : image'[i] = image[i]
      /\ image'[N + 1] = bytes_written
  <2>1. /\ image' \in Seq(Nat) /\ Len(image') = Len(image) + 1
        /\ image'[Len(image) + 1] = bytes_written
        /\ \A i \in 1 .. Len(image) : image'[i] = image[i]
    BY <1>1, <1>3, <1>5, AppendProperties
  <2>2. DOMAIN image' = 1 .. Len(image')
    BY <2>1, LenProperties
  <2> QED
    BY <2>1, <2>2 DEF Relocated
<1>7. /\ bytes_written' \in Nat /\ bytes_written' > bytes_written
      /\ bytes_written' <= 3 * bytes_read'
      /\ bytes_written' <= 3 * (MinBytes - 1) + 15
      /\ bytes_read' > bytes_read /\ bytes_read' \in Nat
  <2>1. bytes_written <= 3 * bytes_read
    BY <1>2 DEF ProgressInv
  <2>2. item.length \in Nat /\ item.length >= 1 /\ written \in Nat /\ written >= 1
        /\ written <= 3 * item.length /\ written <= 15
    BY <1>4
  <2>3. bytes_written' = bytes_written + written /\ bytes_read' = bytes_read + item.length
    BY <1>1
  <2> HIDE DEF item, N
  <2>4. bytes_written' \in Nat /\ bytes_written' > bytes_written
    BY <1>3, <2>2, <2>3
  <2>5. bytes_read' > bytes_read /\ bytes_read' \in Nat
    BY <1>3, <2>2, <2>3
  <2>6. bytes_written' <= 3 * bytes_read'
    BY <1>3, <2>1, <2>2, <2>3
  <2>7. bytes_written' <= 3 * (MinBytes - 1) + 15
    BY <1>3, <2>2, <2>3, Sizes
  <2> QED
    BY <2>4, <2>5, <2>6, <2>7
<1>8. InstructionsInv' /\ Analyzed' = Analyzed
  BY <1>1, <1>2 DEF InstructionsInv, Analyzed
<1>9. ProgressInv'
  <2>1. OffsetBehind(Relocated)' = item.offset + item.length
    BY <1>1, <1>3, <1>6 DEF OffsetBehind
  <2>2. Offset' = Offset
    BY <1>1 DEF Offset
  <2>3. Relocated' <= Analyzed'
    BY <1>3, <1>6, <1>8
  <2> QED
    BY <1>1, <1>2, <1>3, <1>6, <1>7, <2>1, <2>2, <2>3 DEF ProgressInv
<1>10. ImageInv'
  <2>1. ASSUME NEW i \in 1 .. N + 1
        PROVE  image'[i] <= 3 * instructions'[i].offset /\ image'[i] < bytes_written'
    <3>1. CASE i \in 1 .. N
      <4>1. image[i] <= 3 * instructions[i].offset /\ image[i] < bytes_written
        BY <1>2, <1>5, <3>1 DEF ImageInv
      <4>2. image'[i] = image[i] /\ instructions'[i] = instructions[i] /\ image[i] \in Nat
        BY <1>1, <1>5, <1>6, <3>1
      <4>3. image'[i] < bytes_written'
        BY <1>3, <1>7, <4>1, <4>2
      <4> QED
        BY <4>1, <4>2, <4>3
    <3>2. CASE i = N + 1
      <4>1. bytes_written <= 3 * bytes_read
        BY <1>2 DEF ProgressInv
      <4> QED
        BY <1>1, <1>3, <1>6, <1>7, <3>2, <4>1
    <3> QED
      BY <1>3, <3>1, <3>2
  <2>2. ASSUME NEW i \in 1 .. N + 1, NEW j \in 1 .. N + 1, i < j
        PROVE  image'[i] < image'[j]
    <3>1. i \in 1 .. N
      BY <1>3, <2>2
    <3>2. CASE j \in 1 .. N
      BY <1>2, <1>5, <1>6, <2>2, <3>1, <3>2 DEF ImageInv
    <3>3. CASE j = N + 1
      BY <1>2, <1>5, <1>6, <3>1, <3>3 DEF ImageInv
    <3> QED
      BY <1>3, <3>2, <3>3
  <2>3. image'[1] = 0
    <3>1. CASE N = 0
      <4>1. bytes_read = 0
        BY <1>2, <3>1 DEF ProgressInv, OffsetBehind
      <4>2. bytes_written <= 3 * bytes_read
        BY <1>2 DEF ProgressInv
      <4> QED
        BY <1>3, <1>6, <3>1, <4>1, <4>2
    <3>2. CASE N # 0
      <4>1. 1 \in 1 .. N /\ image # <<>>
        BY <1>3, <1>5, <3>2
      <4> QED
        BY <1>2, <1>6, <4>1 DEF ImageInv
    <3> QED
      BY <3>1, <3>2
  <2> QED
    BY <1>6, <2>1, <2>2, <2>3 DEF ImageInv
<1> DEFINE M == Len(map)
           K == Len(items)
<1>11. /\ M \in Nat /\ K \in Nat /\ K >= 1
       /\ DOMAIN map = 1 .. M /\ DOMAIN items = 1 .. K
       /\ \A p \in 1 .. M : map[p] \in MapItem
       /\ \A p \in 1 .. K : items[p] \in MapItem
       /\ map' \in Seq(MapItem) /\ DOMAIN map' = 1 .. M + K
       /\ \A p \in 1 .. M : map'[p] = map[p]
       /\ \A p \in M + 1 .. M + K : map'[p] = items[p - M]
       /\ map'[M + 1] = Entry(bytes_written)
  <2>1. map \in Seq(MapItem) /\ items \in Seq(MapItem) /\ items # <<>>
        /\ items[1] = Entry(bytes_written)
    BY <1>2 DEF MapInv, Emitted
  <2>2. /\ M \in Nat /\ K \in Nat /\ K # 0
        /\ DOMAIN map = 1 .. M /\ DOMAIN items = 1 .. K
        /\ \A p \in 1 .. M : map[p] \in MapItem
        /\ \A p \in 1 .. K : items[p] \in MapItem
    BY <2>1, LenProperties, ElementOfSeq, EmptySeq
  <2>3. /\ map' \in Seq(MapItem) /\ Len(map') = M + K
        /\ \A p \in 1 .. M + K : map'[p] = IF p <= M THEN map[p] ELSE items[p - M]
    BY <1>1, <2>1, ConcatProperties
  <2>4. DOMAIN map' = 1 .. M + K
    BY <2>3, LenProperties
  <2> HIDE DEF M, K
  <2>5. /\ \A p \in 1 .. M : map'[p] = map[p]
        /\ \A p \in M + 1 .. M + K : map'[p] = items[p - M]
    BY <2>2, <2>3
  <2>6. map'[M + 1] = items[1]
    <3>1. M + 1 \in 1 .. M + K /\ ~(M + 1 <= M) /\ (M + 1) - M = 1
      BY <2>2
    <3> QED
      BY <2>3, <3>1
  <2>7. map'[M + 1] = Entry(bytes_written)
    BY <2>1, <2>6
  <2> QED
    BY <2>2, <2>3, <2>4, <2>5, <2>7
<1>12. \A p \in M + 1 .. M + K : /\ map'[p].source = bytes_read
                                 /\ map'[p].destination <= bytes_written + 20
  <2> HIDE DEF M, K
  <2>1. \A k \in 1 .. K : items[k].source = bytes_read
                          /\ items[k].destination <= bytes_written + 20
    BY <1>11 DEF Emitted
  <2>2. \A p \in M + 1 .. M + K : p - M \in 1 .. K
    BY <1>11
  <2> QED
    BY <1>11, <2>1, <2>2
<1>13. map'[M + 1].source = bytes_read /\ map'[M + 1].destination = bytes_written
  BY <1>11 DEF Entry
<1> HIDE DEF M, K
<1>14. \A p \in 1 .. M : map[p].source \in Nat /\ map[p].destination \in Nat
  BY <1>11 DEF MapItem
<1>15. ASSUME NEW p \in 1 .. M + K
       PROVE  /\ map'[p].source <= MinBytes - 1
              /\ map'[p].destination <= CodeSize + 5
              /\ (\A q \in 1 .. p - 1 : map'[q].source # map'[p].source) =>
                    map'[p].destination <= 3 * map'[p].source
  <2>1. CASE p \in 1 .. M
    <3>1. \A q \in 1 .. p - 1 : map'[q] = map[q]
      BY <1>11, <2>1
    <3>2. map'[p] = map[p] /\ p \in DOMAIN map
      BY <1>11, <2>1
    <3> QED
      BY <1>2, <3>1, <3>2 DEF MapInv
  <2>2. CASE p = M + 1
    <3>1. bytes_written <= 3 * bytes_read
      BY <1>2 DEF ProgressInv
    <3>2. bytes_written <= CodeSize + 5
      BY <1>3, Sizes
    <3> QED
      BY <1>3, <1>13, <2>2, <3>1, <3>2
  <2>3. CASE p \in M + 2 .. M + K
    <3>1. map'[p].source = bytes_read /\ map'[p].destination <= bytes_written + 20
      BY <1>11, <1>12, <2>3
    <3>2. M + 1 \in 1 .. p - 1 /\ map'[M + 1].source = map'[p].source
      BY <1>11, <1>13, <2>3, <3>1
    <3>3. p - M \in 1 .. K
      BY <1>11, <2>3
    <3>4. map'[p] \in MapItem
      BY <1>11, <2>3, <3>3
    <3>5. map'[p].destination <= CodeSize + 5
      <4>1. map'[p].destination \in Nat
        BY <3>4 DEF MapItem
      <4> QED
        BY <1>3, <3>1, <4>1, Sizes
    <3> QED
      BY <1>3, <3>1, <3>2, <3>5
  <2> QED
    BY <1>11, <2>1, <2>2, <2>3
<1>16. map'[1].source = 0 /\ map'[1].destination = 0
  <2>1. CASE M = 0
    <3>1. map = <<>>
      <4>1. map \in Seq(MapItem)
        BY <1>2 DEF MapInv
      <4> QED
        BY <2>1, <4>1, EmptySeq DEF M
    <3>2. N = 0
      <4>1. SUFFICES ASSUME N # 0 PROVE FALSE
        OBVIOUS
      <4>2. 1 \in DOMAIN image
        BY <1>3, <1>5, <4>1
      <4>3. \E p \in DOMAIN map : map[p].source = instructions[1].offset
        BY <1>2, <4>2 DEF MapInv
      <4> QED
        BY <1>11, <2>1, <4>3
    <3>3. bytes_read = 0
      BY <1>2, <3>2 DEF ProgressInv, OffsetBehind
    <3>4. bytes_written <= 3 * bytes_read
      BY <1>2 DEF ProgressInv
    <3> QED
      BY <1>3, <1>13, <2>1, <3>3, <3>4
  <2>2. CASE M # 0
    <3>1. map # <<>> /\ 1 \in 1 .. M
      BY <1>11, <2>2
    <3> QED
      BY <1>2, <1>11, <3>1 DEF MapInv
  <2> QED
    BY <2>1, <2>2
<1>17. ASSUME NEW i \in 1 .. N + 1
       PROVE  \E p \in 1 .. M + K :
                map'[p].source = instructions'[i].offset /\ map'[p].destination = image'[i]
  <2>1. CASE i \in 1 .. N
    <3>1. PICK p \in DOMAIN map :
            map[p].source = instructions[i].offset /\ map[p].destination = image[i]
      BY <1>2, <1>5, <2>1 DEF MapInv
    <3>2. p \in 1 .. M + K /\ map'[p] = map[p]
      BY <1>11, <3>1
    <3> QED
      BY <1>1, <1>6, <2>1, <3>1, <3>2
  <2>2. CASE i = N + 1
    <3>1. M + 1 \in 1 .. M + K
      BY <1>11
    <3> QED
      BY <1>1, <1>3, <1>6, <1>13, <2>2, <3>1
  <2> QED
    BY <1>3, <2>1, <2>2
<1>18. MapInv'
  BY <1>6, <1>11, <1>15, <1>16, <1>17 DEF MapInv
<1>19. FirstMapInv'
  <2>1. uses # 0 /\ uses \in Nat
    BY <1>2, Sizes DEF ProgressInv
  <2>2. SUFFICES ASSUME uses <= 1 PROVE FirstMapInv'
    BY <1>1, <2>1 DEF FirstMapInv
  <2>3. \A p \in 1 .. M : map[p].source < bytes_read
    BY <1>2, <1>11, <2>2 DEF FirstMapInv
  <2>4. ASSUME NEW p \in 1 .. M + K
        PROVE  map'[p].source < bytes_read'
    <3>1. CASE p \in 1 .. M
      <4>1. map'[p] = map[p] /\ map[p].source \in Nat /\ map[p].source < bytes_read
        BY <1>11, <1>14, <2>3, <3>1
      <4> QED
        BY <1>3, <1>7, <4>1
    <3>2. CASE p \in M + 1 .. M + K
      BY <1>7, <1>12, <3>2
    <3> QED
      BY <1>11, <3>1, <3>2
  <2>5. ASSUME NEW i \in 1 .. N + 1
        PROVE  \E p \in 1 .. M + K :
                /\ map'[p].source = instructions'[i].offset /\ map'[p].destination = image'[i]
                /\ \A q \in 1 .. p - 1 : map'[q].source # instructions'[i].offset
    <3>1. CASE i \in 1 .. N
      <4>1. PICK p \in DOMAIN map :
              /\ map[p].source = instructions[i].offset /\ map[p].destination = image[i]
              /\ \A q \in 1 .. p - 1 : map[q].source # instructions[i].offset
        BY <1>2, <1>5, <2>2, <3>1 DEF FirstMapInv
      <4>2. p \in 1 .. M + K /\ map'[p] = map[p] /\ \A q \in 1 .. p - 1 : map'[q] = map[q]
        BY <1>11, <4>1
      <4>3. instructions'[i].offset = instructions[i].offset /\ image'[i] = image[i]
        BY <1>1, <1>6, <3>1
      <4>4. map'[p].source = instructions'[i].offset /\ map'[p].destination = image'[i]
        BY <4>1, <4>2, <4>3
      <4>5. \A q \in 1 .. p - 1 : map'[q].source # instructions'[i].offset
        BY <4>1, <4>2, <4>3
      <4> QED
        BY <4>2, <4>4, <4>5
    <3>2. CASE i = N + 1
      <4>1. M + 1 \in 1 .. M + K /\ \A q \in 1 .. (M + 1) - 1 : q \in 1 .. M
        BY <1>11
      <4>2. \A q \in 1 .. (M + 1) - 1 : map'[q].source # item.offset
        BY <1>3, <1>11, <1>14, <2>3, <4>1, SMTT(20)
      <4> QED
        BY <1>1, <1>3, <1>6, <1>13, <3>2, <4>1, <4>2
    <3> QED
      BY <1>3, <3>1, <3>2
  <2> QED
    BY <1>1, <1>6, <1>11, <2>1, <2>4, <2>5 DEF FirstMapInv
<1>20. PiecesInv'
  <2> DEFINE B == Len(buffer)
             P == Len(pieces)
  <2>1. buffer \in Seq(Piece) /\ pieces \in Seq(Piece)
    BY <1>2 DEF PiecesInv, Emitted
  <2>2. /\ B \in Nat /\ P \in Nat /\ DOMAIN buffer = 1 .. B /\ DOMAIN pieces = 1 .. P
    BY <2>1, LenProperties
  <2>3. /\ buffer' \in Seq(Piece) /\ Len(buffer') = B + P
        /\ \A k \in 1 .. B + P : buffer'[k] = IF k <= B THEN buffer[k] ELSE pieces[k - B]
    BY <1>1, <2>1, ConcatProperties
  <2>4. DOMAIN buffer' = 1 .. B + P
    BY <2>3, LenProperties
  <2> HIDE DEF B, P
  <2>5. ASSUME NEW k \in 1 .. B + P
        PROVE  buffer'[k].at + buffer'[k].length <=
                 CodeSize + (IF buffer'[k].form = "backjump" THEN BackjumpSize ELSE 0)
    <3>1. CASE k \in 1 .. B
      <4>1. buffer'[k] = buffer[k] /\ k \in DOMAIN buffer
        BY <2>2, <2>3, <3>1
      <4> QED
        BY <1>2, <4>1 DEF PiecesInv, BufferHolds
    <3>2. CASE k \in B + 1 .. B + P
      <4>1. buffer'[k] = pieces[k - B] /\ k - B \in DOMAIN pieces
        BY <2>2, <2>3, <3>2
      <4>2. pieces[k - B].form # "backjump"
            /\ pieces[k - B].at + pieces[k - B].length <= CodeSize
        BY <4>1 DEF Emitted
      <4> QED
        BY <4>1, <4>2, Sizes
    <3> QED
      BY <2>2, <3>1, <3>2
  <2> QED
    BY <2>3, <2>4, <2>5 DEF PiecesInv, BufferHolds
<1> QED
  BY <1>8, <1>9, <1>10, <1>18, <1>19, <1>20

(* A rewritten loop stays one, and is the only one that is new. *)
LEMMA LoopsStay ==
    ASSUME RelocationInv, UNCHANGED instructions,
           image' = Append(image, bytes_written),
           LoopRewritten
    PROVE  LoopRewritten'
<1>1. PICK i \in DOMAIN image :
        /\ HasExternalTarget(instructions[i]) /\ instructions[i].form = "loop"
        /\ OutOfReach(instructions[i], image[i])
  BY DEF LoopRewritten
<1>2. image \in Seq(Nat) /\ bytes_written \in Nat
  BY DEF RelocationInv, ProgressInv
<1>3. i \in DOMAIN image' /\ image'[i] = image[i]
  <2>1. Len(image) \in Nat /\ DOMAIN image = 1 .. Len(image)
    BY <1>2, LenProperties
  <2>2. /\ image' \in Seq(Nat) /\ Len(image') = Len(image) + 1
        /\ \A j \in 1 .. Len(image) : image'[j] = image[j]
    BY <1>2, AppendProperties
  <2>3. DOMAIN image' = 1 .. Len(image')
    BY <2>2, LenProperties
  <2> QED
    BY <1>1, <2>1, <2>2, <2>3
<1>4. HasExternalTarget(instructions[i])'
  BY <1>1, TargetsStay
<1>5. instructions'[i].form = "loop" /\ OutOfReach(instructions[i], image[i])'
  BY <1>1 DEF OutOfReach
<1>6. OutOfReach(instructions[i], image[i])' <=> OutOfReach(instructions'[i], image'[i])
  BY DEF OutOfReach
<1> QED
  BY <1>1, <1>3, <1>4, <1>5, <1>6 DEF LoopRewritten

(* An instruction that becomes one piece. *)
LEMMA EmitsOneKeeps ==
    ASSUME RelocationInv, phase = "relocate", Relocated < Analyzed,
           UNCHANGED <<uses, instructions>>,
           NEW form \in Forms \ {"call"}, NEW length \in 1 .. 15, NEW disp \in Int,
           EmitsOne(form, length, disp),
           LET item == instructions[Relocated + 1]
           IN  /\ length <= 3 * item.length
               /\ item.form = "plain" => form = "plain"
               /\ form \in {"jmp", "jmp_near"} => item.form \in {"jmp", "jmp_near"}
               /\ HasInternalTarget(item) => form = item.form /\ length = item.length
               /\ HasExternalTarget(item) => Behind(length) + disp = item.target
    PROVE  RelocationInv'
<1> DEFINE N == Relocated
           item == instructions[N + 1]
           piece == [at |-> bytes_written, length |-> length, form |-> form, disp |-> disp]
           items == <<Entry(bytes_written)>>
<1>1. Emits(<<piece>>, items, length)
  BY DEF EmitsOne
<1>2. CASE phase' = "map_full"
  BY <1>1, <1>2, EndKeeps DEF Emits
<1>3. CASE phase' # "map_full"
  <2>1. /\ N \in Nat /\ N < Analyzed /\ item \in Item
        /\ bytes_read = item.offset
        /\ bytes_written <= 3 * (MinBytes - 1)
        /\ bytes_read \in Nat /\ bytes_written \in Nat
    BY NextParts
  <2>2. piece \in Piece
    <3>1. length \in Nat
      OBVIOUS
    <3> QED
      BY <2>1, <3>1 DEF Piece
  <2>3. Emitted(item, <<piece>>, items, length)
    <3>1. <<piece>> \in Seq(Piece) /\ DOMAIN <<piece>> = {1} /\ <<piece>>[1] = piece
      <4> HIDE DEF piece
      <4> QED
        BY <2>2
    <3>2. piece.form # "backjump" /\ piece.at + piece.length <= CodeSize
      <4>1. bytes_written + length <= CodeSize
        BY <2>1, Sizes
      <4>2. form # "backjump"
        BY DEF Forms, Branches
      <4> QED
        BY <4>1, <4>2
    <3>3. items \in Seq(MapItem) /\ DOMAIN items = {1} /\ items[1] = Entry(bytes_written)
      <4>1. Entry(bytes_written) \in MapItem
        BY <2>1 DEF Entry, MapItem
      <4> QED
        BY <4>1
    <3>4. Entry(bytes_written).source = bytes_read
          /\ Entry(bytes_written).destination <= bytes_written + 20
      BY <2>1 DEF Entry
    <3>5. length <= 3 * item.length
      OBVIOUS
    <3>6. items # <<>>
      OBVIOUS
    <3> HIDE DEF piece, items
    <3> QED
      BY <3>1, <3>2, <3>3, <3>4, <3>5, <3>6 DEF Emitted
  <2>4. /\ InstructionsInv' /\ ProgressInv' /\ ImageInv'
        /\ MapInv' /\ FirstMapInv' /\ PiecesInv'
    <3> HIDE DEF piece, items
    <3> QED
      BY <1>1, <1>3, <2>3, EmitsKeeps
  <2>5. /\ buffer' = Append(buffer, piece) /\ bytes_written' = bytes_written + length
        /\ image' = Append(image, bytes_written) /\ phase' = phase
    <3>1. buffer \in Seq(Piece)
      BY DEF RelocationInv, PiecesInv
    <3>2. buffer' = buffer \o <<piece>> /\ bytes_written' = bytes_written + length
          /\ image' = Append(image, bytes_written) /\ phase' = phase
      BY <1>1, <1>3 DEF Emits
    <3> HIDE DEF piece
    <3> QED
      BY <2>2, <3>1, <3>2, AppendIsConcat
  <2>6. CopiesInv'
    <3>1. SUFFICES ASSUME uses <= 1, ~LoopRewritten' PROVE CopiesInv'
      BY DEF CopiesInv
    <3>2. ~LoopRewritten
      BY <2>5, <3>1, LoopsStay
    <3>3. Len(buffer) = N /\ \A i \in DOMAIN image : Copies(i)
      BY <3>1, <3>2 DEF RelocationInv, CopiesInv
    <3>4. DOMAIN image = 1 .. N /\ image \in Seq(Nat)
      BY ImageParts DEF RelocationInv
    <3>5. /\ Relocated' = N + 1 /\ DOMAIN image' = 1 .. N + 1
          /\ \A i \in 1 .. N : image'[i] = image[i]
          /\ image'[N + 1] = bytes_written
      <4>1. /\ image' \in Seq(Nat) /\ Len(image') = Len(image) + 1
            /\ image'[Len(image) + 1] = bytes_written
            /\ \A i \in 1 .. Len(image) : image'[i] = image[i]
        BY <2>1, <2>5, <3>4, AppendProperties
      <4>2. DOMAIN image' = 1 .. Len(image')
        BY <4>1, LenProperties
      <4> QED
        BY <4>1, <4>2 DEF Relocated
    <3>6. /\ Len(buffer') = N + 1
          /\ \A i \in 1 .. N : buffer'[i] = buffer[i]
          /\ buffer'[N + 1] = piece
      <4>1. buffer \in Seq(Piece)
        BY DEF RelocationInv, PiecesInv
      <4> HIDE DEF piece
      <4> QED
        BY <2>2, <2>5, <3>3, <4>1, AppendProperties
    <3>7. ASSUME NEW i \in 1 .. N
          PROVE  Copies(i)'
      <4>1. Copies(i)
        BY <3>3, <3>4
      <4>2. /\ buffer'[i] = buffer[i] /\ image'[i] = image[i]
            /\ instructions'[i] = instructions[i]
        BY <3>5, <3>6
      <4>3. (IF i < N THEN image[i + 1] ELSE bytes_written)
              = (IF i < N + 1 THEN image'[i + 1] ELSE bytes_written')
        BY <2>1, <3>5
      <4>4. Goal(buffer[i])' = Goal(buffer[i])
        BY <4>2 DEF Goal, End, Start
      <4>5. /\ HasInternalTarget(instructions[i])' <=> HasInternalTarget(instructions[i])
            /\ HasExternalTarget(instructions[i])' <=> HasExternalTarget(instructions[i])
        BY TargetsStay
      <4> QED
        BY <3>5, <4>1, <4>2, <4>3, <4>4, <4>5 DEF Copies
    <3>8. ASSUME NEW i \in Nat, i = N + 1
          PROVE  Copies(i)'
      <4>1. /\ buffer'[i] = piece /\ image'[i] = bytes_written
            /\ instructions'[i] = instructions[i] /\ instructions[i] = item
        BY <3>5, <3>6, <3>8
      <4>2. ~(i < Relocated')
        BY <2>1, <3>5, <3>8
      <4>3. /\ HasInternalTarget(instructions[i])' <=> HasInternalTarget(instructions[i])
            /\ HasExternalTarget(instructions[i])' <=> HasExternalTarget(instructions[i])
        BY TargetsStay
      <4>4. Goal(piece) = Behind(length) + disp
        BY DEF Goal, End, Start, Behind
      <4>5. Goal(buffer[i])' = Goal(piece)
        <5> HIDE DEF piece
        <5> QED
          BY <4>1 DEF Goal, End, Start
      <4>6. piece.at + piece.length = bytes_written'
        BY <2>5
      <4>7. /\ piece.at = bytes_written /\ piece.form \in Forms /\ piece.form # "call"
            /\ item.form = "plain" => piece.form = "plain"
            /\ piece.form \in {"jmp", "jmp_near"} => item.form \in {"jmp", "jmp_near"}
            /\ HasInternalTarget(item) => piece.form = item.form /\ piece.length = item.length
            /\ HasExternalTarget(item) => Goal(piece) = item.target
        BY <4>4
      <4> HIDE DEF piece, item
      <4> QED
        BY <4>1, <4>2, <4>3, <4>5, <4>6, <4>7 DEF Copies
    <3>9. phase' = "relocate" /\ Len(buffer') = Relocated'
      BY <2>5, <3>5, <3>6
    <3>10. \A i \in 1 .. N + 1 : Copies(i)'
      BY <2>1, <3>7, <3>8
    <3> QED
      BY <3>5, <3>9, <3>10 DEF CopiesInv
  <2> QED
    BY <2>4, <2>6 DEF RelocationInv
<1> QED
  BY <1>2, <1>3

(* A loop that becomes three instructions. *)
LEMMA LoopIsRewritten ==
    ASSUME RelocationInv, phase = "relocate", Relocated < Analyzed,
           UNCHANGED <<uses, instructions>>,
           RewriteLoop(instructions[Relocated + 1]),
           phase' # "map_full"
    PROVE  LoopRewritten'
<1> DEFINE N == Relocated
           item == instructions[N + 1]
           W == bytes_written
<1>1. /\ HasExternalTarget(item) /\ item.form = "loop" /\ ShouldRewrite(item)
      /\ image' = Append(image, W)
  BY DEF RewriteLoop, Emits
<1>2. N \in Nat /\ W \in Nat
  BY NextParts
<1>3. PICK i \in Nat : i = N + 1
  BY <1>2
<1>4. i \in DOMAIN image' /\ image'[i] = W
  <2>1. image \in Seq(Nat)
    BY DEF RelocationInv, ProgressInv
  <2>2. /\ image' \in Seq(Nat) /\ Len(image') = Len(image) + 1
        /\ image'[Len(image) + 1] = W
    BY <1>1, <1>2, <2>1, AppendProperties
  <2>3. DOMAIN image' = 1 .. Len(image')
    BY <2>2, LenProperties
  <2> QED
    BY <1>2, <1>3, <2>2, <2>3 DEF Relocated
<1>5. HasExternalTarget(instructions[i])'
  BY <1>1, <1>3, TargetsStay
<1>6. instructions'[i] = item
  BY <1>3
<1>7. OutOfReach(item, W)
  BY <1>1 DEF ShouldRewrite
<1> HIDE DEF item, N, W
<1>8. OutOfReach(instructions[i], image[i])'
  BY <1>4, <1>6, <1>7 DEF OutOfReach
<1> QED
  BY <1>1, <1>4, <1>5, <1>6, <1>8 DEF LoopRewritten

LEMMA RewriteLoopKeeps ==
    ASSUME RelocationInv, phase = "relocate", Relocated < Analyzed,
           UNCHANGED <<uses, instructions>>,
           RewriteLoop(instructions[Relocated + 1])
    PROVE  RelocationInv'
<1> DEFINE N == Relocated
           item == instructions[N + 1]
           W == bytes_written
           L == item.length
           pieces == <<[at |-> W, length |-> L, form |-> "loop", disp |-> 2],
                       [at |-> W + L, length |-> 2, form |-> "jmp", disp |-> 5],
                       [at |-> W + L + 2, length |-> 5, form |-> "jmp_near",
                        disp |-> item.target - Behind(L + 2 + 5)]>>
           items == <<Entry(W), Entry(W + L + L), Entry(W + L + 2 + L + 2)>>
<1>1. /\ HasExternalTarget(item) /\ item.form = "loop" /\ ShouldRewrite(item)
      /\ Emits(pieces, items, L + 2 + 2)
  BY DEF RewriteLoop
<1>2. CASE phase' = "map_full"
  BY <1>1, <1>2, EndKeeps DEF Emits
<1>3. CASE phase' # "map_full"
  <2>1. /\ N \in Nat /\ N < Analyzed /\ item \in Item
        /\ bytes_read = item.offset /\ bytes_read \in Nat
        /\ W <= 3 * (MinBytes - 1) /\ W \in Nat
    BY NextParts
  <2>2. L \in Nat /\ L > 1 /\ L + 7 <= 15 /\ item.target \in Int
    BY <1>1, <2>1, ItemParts DEF OperandSize
  <2>3. pieces \in Seq(Piece)
    <3>1. item.target - Behind(L + 2 + 5) \in Int
      BY <2>1, <2>2, Sizes DEF Behind
    <3> DEFINE d == item.target - Behind(L + 2 + 5)
    <3> HIDE DEF d, W, L
    <3>2. /\ [at |-> W, length |-> L, form |-> "loop", disp |-> 2] \in Piece
          /\ [at |-> W + L, length |-> 2, form |-> "jmp", disp |-> 5] \in Piece
          /\ [at |-> W + L + 2, length |-> 5, form |-> "jmp_near", disp |-> d] \in Piece
      BY <2>1, <2>2, <3>1 DEF Piece, Forms, Branches, d
    <3> QED
      BY <3>2 DEF d
  <2>4. items \in Seq(MapItem) /\ items # <<>> /\ items[1] = Entry(W) /\ DOMAIN items = 1 .. 3
    <3>1. \A n \in Nat : Entry(n) \in MapItem
      BY <2>1 DEF Entry, MapItem
    <3>2. W + L + L \in Nat /\ W + L + 2 + L + 2 \in Nat
      BY <2>1, <2>2
    <3> HIDE DEF W, L
    <3> QED
      BY <2>1, <3>1, <3>2
  <2>5. ASSUME NEW k \in DOMAIN items
        PROVE  items[k].source = bytes_read /\ items[k].destination <= W + 20
    <3> HIDE DEF W, L
    <3>1. W + L + L <= W + 20 /\ W + L + 2 + L + 2 <= W + 20 /\ W <= W + 20
      BY <2>1, <2>2
    <3>2. k = 1 \/ k = 2 \/ k = 3
      BY <2>5
    <3> QED
      BY <3>1, <3>2 DEF Entry
  <2>6. ASSUME NEW k \in DOMAIN pieces
        PROVE  pieces[k].form # "backjump" /\ pieces[k].at + pieces[k].length <= CodeSize
    <3> HIDE DEF W, L
    <3>1. /\ W + L <= CodeSize /\ (W + L) + 2 <= CodeSize /\ (W + L + 2) + 5 <= CodeSize
      BY <2>1, <2>2, Sizes
    <3>2. k = 1 \/ k = 2 \/ k = 3
      BY <2>6
    <3> QED
      BY <3>1, <3>2
  <2>7. L + 2 + 2 \in 1 .. 15 /\ L + 2 + 2 <= 3 * L
    <3> HIDE DEF L
    <3> QED
      BY <2>2
  <2> HIDE DEF pieces, items
  <2>8. Emitted(item, pieces, items, L + 2 + 2)
    BY <2>3, <2>4, <2>5, <2>6, <2>7 DEF Emitted
  <2>9. /\ InstructionsInv' /\ ProgressInv' /\ ImageInv'
        /\ MapInv' /\ FirstMapInv' /\ PiecesInv'
    BY <1>1, <1>3, <2>8, EmitsKeeps
  <2>10. LoopRewritten'
    BY <1>3, LoopIsRewritten
  <2> QED
    BY <2>9, <2>10 DEF RelocationInv, CopiesInv
<1> QED
  BY <1>2, <1>3

LEMMA RelocateKeeps ==
    ASSUME RelocationInv, Relocate
    PROVE  RelocationInv'
<1> DEFINE item == instructions[Relocated + 1]
<1>1. /\ phase = "relocate" /\ Relocated < Analyzed
      /\ uses' = uses /\ instructions' = instructions
      /\ \/ RelocateCommon(item)
         \/ RelocateInReach(item)
         \/ Enlarge(item)
         \/ RewriteLoop(item)
         \/ RefuseCall(item)
  BY DEF Relocate, Relocated, Analyzed
<1>2. item \in Item /\ bytes_read = item.offset /\ bytes_written \in Nat
  BY <1>1, NextParts
<1>3. /\ item.offset \in Nat /\ item.form \in Forms /\ item.target \in Int
      /\ item.length \in 1 .. 15 /\ item.length > OperandSize(item.form)
  BY <1>2, ItemParts
<1>4. CASE RelocateCommon(item)
  <2> DEFINE disp == item.target - item.offset - item.length
  <2>1. /\ ~HasExternalTarget(item) /\ item.form \in Forms \ {"call"}
        /\ EmitsOne(item.form, item.length, disp)
    BY <1>3, <1>4 DEF RelocateCommon
  <2>2. disp \in Int /\ item.length <= 3 * item.length
    BY <1>3
  <2> HIDE DEF disp
  <2> QED
    BY <1>1, <1>3, <2>1, <2>2, EmitsOneKeeps
<1>5. CASE RelocateInReach(item)
  <2>1. /\ HasExternalTarget(item)
        /\ item.form = "memory" \/ (item.form \in Branches /\ ~ShouldRewrite(item))
        /\ EmitsOne(item.form, item.length, Redisplaced(item))
    BY <1>5 DEF RelocateInReach
  <2>2. Redisplaced(item) = item.target - Behind(item.length)
    <3>1. CASE item.form = "memory"
      BY <3>1 DEF Redisplaced, Displacement, Truncate
    <3>2. CASE ~ShouldRewrite(item)
      BY <3>2 DEF ShouldRewrite, OutOfReach, Redisplaced, Displacement, Behind
    <3> QED
      BY <2>1, <3>1, <3>2
  <2>3. Behind(item.length) \in Int
    BY <1>2, <1>3, Sizes DEF Behind
  <2>4. Redisplaced(item) \in Int /\ Behind(item.length) + Redisplaced(item) = item.target
    BY <1>3, <2>2, <2>3
  <2>5. item.form \in Forms \ {"call"} /\ item.length <= 3 * item.length
    BY <1>3, <2>1 DEF Branches
  <2>6. ~HasInternalTarget(item)
    BY <2>1 DEF HasExternalTarget
  <2> HIDE DEF item
  <2> QED
    BY <1>1, <1>3, <2>1, <2>4, <2>5, <2>6, EmitsOneKeeps DEF item
<1>6. CASE Enlarge(item)
  <2> DEFINE length == IF item.form = "jmp" THEN 5 ELSE 6
             form == IF item.form = "jmp" THEN "jmp_near" ELSE "jcc_near"
             disp == Displacement(form, Behind(length), item.target)
  <2>1. /\ HasExternalTarget(item) /\ item.form \in {"jmp", "jcc"}
        /\ EmitsOne(form, length, disp)
    BY <1>6 DEF Enlarge
  <2>2. Behind(length) \in Int
    BY <1>2, Sizes DEF Behind
  <2>3. disp = item.target - Behind(length)
    BY DEF Displacement, Truncate
  <2>4. disp \in Int /\ Behind(length) + disp = item.target
    <3> HIDE DEF disp, length
    <3> QED
      BY <1>3, <2>2, <2>3
  <2>5. length \in 1 .. 15 /\ length <= 3 * item.length
    BY <1>3, <2>1 DEF OperandSize
  <2>6. /\ form \in Forms \ {"call"} /\ item.form # "plain"
        /\ form \in {"jmp", "jmp_near"} => item.form \in {"jmp", "jmp_near"}
    BY <2>1 DEF Forms, Branches
  <2>7. ~HasInternalTarget(item)
    BY <2>1 DEF HasExternalTarget
  <2> HIDE DEF form, length, disp
  <2> QED
    BY <1>1, <2>1, <2>4, <2>5, <2>6, <2>7, EmitsOneKeeps
<1>7. CASE RewriteLoop(item)
  BY <1>1, <1>7, RewriteLoopKeeps
<1>8. CASE RefuseCall(item)
  BY <1>1, <1>8, EndKeeps DEF RefuseCall
<1> QED
  BY <1>1, <1>4, <1>5, <1>6, <1>7, <1>8

-----------------------------------------------------------------------------
(* The end of the relocation *)

(* Where the map says that an instruction is: no further than three times  *)
(* as far, and in the first use of the chunk where it is.                  *)
LEMMA RelocatedOffsetParts ==
    ASSUME RelocationInv, NEW i \in DOMAIN image
    PROVE  LET at == RelocatedOffset(instructions[i].offset)
           IN  /\ at \in Nat /\ at <= 3 * instructions[i].offset
               /\ uses <= 1 => at = image[i]
<1> DEFINE o == instructions[i].offset
           Is(p) == map[p].source = o /\ \A q \in 1 .. p - 1 : map[q].source # o
           P == CHOOSE p \in DOMAIN map : Is(p)
<1>1. MapInv /\ FirstMapInv
  BY DEF RelocationInv
<1>2. map \in Seq(MapItem)
  BY <1>1 DEF MapInv
<1>3. Len(map) \in Nat /\ DOMAIN map = 1 .. Len(map) /\ \A p \in DOMAIN map : map[p] \in MapItem
  BY <1>2, LenProperties, ElementOfSeq
<1>4. \E p \in DOMAIN map : Is(p)
  <2> DEFINE S == {p \in DOMAIN map : map[p].source = o}
  <2>1. S \in SUBSET Nat
    BY <1>3
  <2>2. PICK n \in S : TRUE
    BY <1>1 DEF MapInv
  <2>3. PICK m \in S : \A k \in S : m <= k
    <3> HIDE DEF S
    <3> QED
      BY <2>1, <2>2, SmallestOf
  <2>4. m \in DOMAIN map /\ map[m].source = o
    BY <2>3
  <2>5. ASSUME NEW q \in 1 .. m - 1
        PROVE  map[q].source # o
    <3>1. q \in DOMAIN map /\ q < m
      BY <1>3, <2>4
    <3> QED
      BY <1>3, <2>3, <2>4, <3>1
  <2> QED
    BY <2>4, <2>5
<1>5. P \in DOMAIN map /\ Is(P)
  <2> HIDE DEF Is
  <2> QED
    BY <1>4
<1>6. RelocatedOffset(o) = map[P].destination
  BY DEF RelocatedOffset
<1> HIDE DEF P
<1>7. RelocatedOffset(o) \in Nat
  BY <1>3, <1>5, <1>6 DEF MapItem
<1>8. RelocatedOffset(o) <= 3 * o
  BY <1>1, <1>5, <1>6 DEF MapInv
<1>9. ASSUME uses <= 1
      PROVE  RelocatedOffset(o) = image[i]
  <2>1. PICK p \in DOMAIN map : map[p].destination = image[i] /\ Is(p)
    BY <1>1, <1>9 DEF FirstMapInv
  <2>2. p = P
    <3>1. p \in Nat /\ P \in Nat
      BY <1>3, <1>5, <2>1
    <3>2. CASE p < P
      <4>1. p \in 1 .. P - 1
        BY <1>3, <2>1, <3>1, <3>2
      <4> QED
        BY <1>5, <2>1, <4>1
    <3>3. CASE P < p
      <4>1. P \in 1 .. p - 1
        BY <1>3, <1>5, <3>1, <3>3
      <4> QED
        BY <1>5, <2>1, <4>1
    <3> QED
      BY <3>1, <3>2, <3>3
  <2> QED
    BY <1>6, <2>1, <2>2
<1> QED
  BY <1>7, <1>8, <1>9

(* The fold of ZyrexUpdateInstructionOffsets, unrolled: there is a         *)
(* sequence of buffers, each of which is the one before it with the next   *)
(* instruction's offset updated.                                           *)
LEMMA OffsetsUpdatedUnrolled ==
    ASSUME InstructionsInv
    PROVE  \E g : /\ g[0] = buffer
                  /\ \A n \in 1 .. Analyzed :
                        g[n] = OffsetUpdated(g[n - 1], instructions[n])
                  /\ OffsetsUpdated = g[Analyzed]
<1> DEFINE Step(h, s) == IF s = {} THEN buffer
                         ELSE OffsetUpdated(h[s \ {Max(s)}], instructions[Max(s)])
           Solves(h, n) == h = [s \in SUBSET (1 .. n) |-> Step(h, s)]
           Bad == {n \in Nat : ~ \E h : Solves(h, n)}
<1>1. \E h : Solves(h, 0)
  <2>1. SUBSET (1 .. 0) = {{}}
    OBVIOUS
  <2>2. Solves([s \in SUBSET (1 .. 0) |-> buffer], 0)
    BY <2>1
  <2> QED
    BY <2>2
<1>2. ASSUME NEW n \in Nat, NEW h, Solves(h, n)
      PROVE  \E k : Solves(k, n + 1)
  <2> DEFINE k == [s \in SUBSET (1 .. n + 1) |->
                    IF n + 1 \in s THEN OffsetUpdated(h[s \ {n + 1}], instructions[n + 1])
                                   ELSE h[s]]
  <2>1. ASSUME NEW s \in SUBSET (1 .. n + 1)
        PROVE  k[s] = Step(k, s)
    <3>1. CASE n + 1 \in s
      <4>1. Max(s) = n + 1
        <5>1. \A x \in s : n + 1 >= x
          OBVIOUS
        <5>2. \A x \in s : (\A y \in s : x >= y) => x = n + 1
          BY <3>1
        <5> QED
          BY <3>1, <5>1, <5>2 DEF Max
      <4>2. s \ {n + 1} \in SUBSET (1 .. n + 1) /\ n + 1 \notin s \ {n + 1}
        OBVIOUS
      <4>3. k[s \ {n + 1}] = h[s \ {n + 1}]
        BY <4>2
      <4> QED
        BY <3>1, <4>1, <4>3
    <3>2. CASE n + 1 \notin s
      <4>1. s \in SUBSET (1 .. n)
        BY <3>2
      <4>2. h[s] = Step(h, s)
        BY <1>2, <4>1
      <4>3. s \ {Max(s)} \in SUBSET (1 .. n + 1) /\ n + 1 \notin s \ {Max(s)}
        BY <3>2
      <4>4. k[s \ {Max(s)}] = h[s \ {Max(s)}] /\ k[s] = h[s]
        BY <3>2, <4>3
      <4> QED
        BY <4>2, <4>4
    <3> QED
      BY <3>1, <3>2
  <2>2. k = [s \in SUBSET (1 .. n + 1) |-> k[s]]
    OBVIOUS
  <2> HIDE DEF k
  <2>3. Solves(k, n + 1)
    BY <2>1, <2>2
  <2> QED
    BY <2>3
<1>3. Bad = {}
  <2>1. SUFFICES ASSUME NEW b \in Bad PROVE FALSE
    OBVIOUS
  <2> HIDE DEF Solves
  <2>2. Bad \in SUBSET Nat
    OBVIOUS
  <2>3. PICK m \in Bad : \A x \in Bad : m <= x
    <3> HIDE DEF Bad
    <3> QED
      BY <2>1, <2>2, SmallestOf
  <2>4. m \in Nat /\ ~ \E h : Solves(h, m)
    BY <2>3
  <2>5. m # 0
    BY <1>1, <2>4
  <2>6. m - 1 \in Nat /\ (m - 1) + 1 = m /\ ~(m <= m - 1)
    BY <2>4, <2>5
  <2>7. m - 1 \notin Bad
    BY <2>3, <2>6
  <2>8. PICK h : Solves(h, m - 1)
    BY <2>6, <2>7
  <2>9. \E k : Solves(k, (m - 1) + 1)
    BY <1>2, <2>6, <2>8
  <2> QED
    BY <2>4, <2>6, <2>9
<1>4. Analyzed \in Nat /\ DOMAIN instructions = 1 .. Analyzed
  BY InstructionParts
<1> DEFINE iter == CHOOSE h : Solves(h, Analyzed)
<1>5. Solves(iter, Analyzed)
  <2> HIDE DEF Solves
  <2> QED
    BY <1>3, <1>4
<1>6. OffsetsUpdated = iter[1 .. Analyzed]
  BY <1>4 DEF OffsetsUpdated, FoldLeft, MapThenFoldSet
<1> HIDE DEF iter
<1> DEFINE g == [n \in 0 .. Analyzed |-> iter[1 .. n]]
<1>7. g[0] = buffer
  <2>1. 1 .. 0 = {} /\ {} \in SUBSET (1 .. Analyzed)
    OBVIOUS
  <2>2. iter[{}] = buffer
    BY <1>5, <2>1
  <2> QED
    BY <1>4, <2>1, <2>2
<1>8. ASSUME NEW n \in 1 .. Analyzed
      PROVE  g[n] = OffsetUpdated(g[n - 1], instructions[n])
  <2>1. /\ 1 .. n \in SUBSET (1 .. Analyzed) /\ 1 .. n # {} /\ n \in 1 .. n
        /\ (1 .. n) \ {n} = 1 .. n - 1
        /\ n \in 0 .. Analyzed /\ n - 1 \in 0 .. Analyzed
    <3>1. n \in Nat /\ n >= 1 /\ n <= Analyzed
      BY <1>4
    <3>2. n \in 1 .. n /\ n \in 0 .. Analyzed /\ n - 1 \in 0 .. Analyzed
      BY <1>4, <3>1
    <3>3. 1 .. n \in SUBSET (1 .. Analyzed)
      BY <1>4, <3>1
    <3>4. (1 .. n) \ {n} = 1 .. n - 1
      BY <3>1
    <3> QED
      BY <3>2, <3>3, <3>4
  <2>2. Max(1 .. n) = n
    <3>1. \A x \in 1 .. n : n >= x
      OBVIOUS
    <3>2. \A x \in 1 .. n : (\A y \in 1 .. n : x >= y) => x = n
      BY <2>1
    <3> QED
      BY <2>1, <3>1, <3>2 DEF Max
  <2>3. iter[1 .. n] = OffsetUpdated(iter[1 .. n - 1], instructions[n])
    BY <1>5, <2>1, <2>2
  <2> QED
    BY <2>1, <2>3
<1>9. g[Analyzed] = OffsetsUpdated
  BY <1>4, <1>6
<1> HIDE DEF g
<1> QED
  BY <1>7, <1>8, <1>9

Holds(pieces) ==
    /\ pieces \in Seq(Piece)
    /\ \A k \in DOMAIN pieces :
        pieces[k].at + pieces[k].length <=
            CodeSize + (IF pieces[k].form = "backjump" THEN BackjumpSize ELSE 0)

LEMMA DisplacementType ==
    ASSUME NEW form, NEW from \in Int, NEW to \in Int
    PROVE  /\ Displacement(form, from, to) \in Int
           /\ to - from \in -128 .. 127 => Displacement(form, from, to) = to - from
<1> DEFINE d == to - from
<1>1. d \in Int
  OBVIOUS
<1> HIDE DEF d
<1>2. (d + 128) % 256 \in Int
  BY <1>1
<1>3. d \in -128 .. 127 => (d + 128) % 256 = d + 128
  BY <1>1
<1>4. Truncate(form, d) \in Int /\ (d \in -128 .. 127 => Truncate(form, d) = d)
  BY <1>1, <1>2, <1>3 DEF Truncate
<1> QED
  BY <1>4 DEF Displacement, d

(* Whatever the map says of earlier uses, the operands that are updated    *)
(* are in the buffer.                                                      *)
LEMMA OffsetUpdatedHolds ==
    ASSUME RelocationInv, Relocated = Analyzed, NEW i \in DOMAIN instructions,
           NEW pieces, Holds(pieces)
    PROVE  Holds(OffsetUpdated(pieces, instructions[i]))
<1> DEFINE item == instructions[i]
           at == RelocatedOffset(item.offset)
           to == RelocatedOffset(item.target)
           disp == Displacement(item.form, at + item.length, to)
           size == OperandSize(item.form)
           hits == {k \in DOMAIN pieces : pieces[k].at = at /\ pieces[k].form = item.form}
<1>1. /\ DOMAIN instructions = 1 .. Analyzed /\ DOMAIN image = 1 .. Analyzed
      /\ item \in Item
  BY ImageParts, InstructionParts DEF RelocationInv
<1>2. CASE ~HasInternalTarget(item)
  BY <1>2 DEF OffsetUpdated
<1>3. CASE HasInternalTarget(item)
  <2>1. PICK j \in DOMAIN instructions : instructions[j].offset = item.target
    BY <1>3 DEF HasInternalTarget, Range
  <2>2. at \in Nat /\ at <= 3 * item.offset /\ to \in Nat
    BY <1>1, <2>1, RelocatedOffsetParts
  <2>3. /\ item.offset \in Nat /\ item.offset <= MinBytes - 1
        /\ item.length \in Nat /\ item.length <= 15 /\ size \in Nat /\ item.length > size
    BY <1>1, ItemParts, OperandFits, SMTT(20)
  <2>4. disp \in Int
    BY <2>2, <2>3, DisplacementType
  <2>5. OffsetUpdated(pieces, item) = Patch(pieces, at, item, disp)
    BY <1>3 DEF OffsetUpdated
  <2> DEFINE P == Len(pieces)
  <2>6. /\ pieces \in Seq(Piece) /\ P \in Nat /\ DOMAIN pieces = 1 .. P
        /\ \A k \in 1 .. P : pieces[k] \in Piece
    BY LenProperties, ElementOfSeq DEF Holds
  <2>7. CASE hits # {}
    <3> DEFINE new == [k \in DOMAIN pieces |->
                        IF k \in hits THEN [pieces[k] EXCEPT !.disp = disp] ELSE pieces[k]]
    <3>1. Patch(pieces, at, item, disp) = new
      BY <2>7 DEF Patch
    <3>2. ASSUME NEW k \in 1 .. P
          PROVE  /\ new[k] \in Piece /\ new[k].at = pieces[k].at
                 /\ new[k].length = pieces[k].length /\ new[k].form = pieces[k].form
      <4> HIDE DEF hits, disp
      <4>1. pieces[k] \in Piece /\ [pieces[k] EXCEPT !.disp = disp] \in Piece
        BY <2>4, <2>6 DEF Piece
      <4>2. new[k] = pieces[k] \/ new[k] = [pieces[k] EXCEPT !.disp = disp]
        BY <2>6
      <4> QED
        BY <4>1, <4>2 DEF Piece
    <3>3. new \in [1 .. P -> Piece]
      <4> HIDE DEF hits, disp
      <4> QED
        BY <2>6, <3>2
    <3> HIDE DEF new, P
    <3>4. new \in Seq(Piece) /\ DOMAIN new = 1 .. P
      BY <2>6, <3>3, SeqDef
    <3>5. Holds(new)
      BY <2>6, <3>2, <3>4 DEF Holds
    <3> QED
      BY <2>5, <3>1, <3>5
  <2>8. CASE hits = {}
    <3> DEFINE patch == [at |-> at + item.length - size, length |-> size,
                         form |-> "bytes", disp |-> 0]
    <3>1. Patch(pieces, at, item, disp) = Append(pieces, patch)
      BY <2>8 DEF Patch
    <3> HIDE DEF at, size, item
    <3>2. patch \in Piece /\ patch.at + patch.length <= CodeSize /\ patch.form # "backjump"
      <4>1. at + item.length - size \in Nat /\ (at + item.length - size) + size <= CodeSize
        BY <2>2, <2>3, Sizes
      <4> QED
        BY <2>3, <4>1 DEF Piece
    <3> HIDE DEF patch
    <3>3. /\ Append(pieces, patch) \in Seq(Piece) /\ Len(Append(pieces, patch)) = P + 1
          /\ \A k \in 1 .. P : Append(pieces, patch)[k] = pieces[k]
          /\ Append(pieces, patch)[P + 1] = patch
      BY <2>6, <3>2, AppendProperties
    <3>4. DOMAIN Append(pieces, patch) = 1 .. P + 1
      BY <3>3, LenProperties
    <3> HIDE DEF P
    <3>5. \A k \in 1 .. P + 1 : k \in 1 .. P \/ k = P + 1
      BY <2>6
    <3>6. ASSUME NEW k \in 1 .. P + 1
          PROVE  Append(pieces, patch)[k].at + Append(pieces, patch)[k].length <=
                    CodeSize + (IF Append(pieces, patch)[k].form = "backjump"
                                THEN BackjumpSize ELSE 0)
      <4>1. CASE k \in 1 .. P
        BY <2>6, <3>3, <4>1 DEF Holds
      <4>2. CASE k = P + 1
        BY <3>2, <3>3, <4>2, Sizes
      <4> QED
        BY <3>5, <4>1, <4>2
    <3>7. Holds(Append(pieces, patch))
      BY <3>3, <3>4, <3>6 DEF Holds
    <3> QED
      BY <2>5, <3>1, <3>7 DEF item
  <2> QED
    BY <2>7, <2>8
<1> QED
  BY <1>2, <1>3

LEMMA OffsetsUpdatedHolds ==
    ASSUME RelocationInv, Relocated = Analyzed
    PROVE  Holds(OffsetsUpdated)
<1>1. PICK g : /\ g[0] = buffer
               /\ \A n \in 1 .. Analyzed : g[n] = OffsetUpdated(g[n - 1], instructions[n])
               /\ OffsetsUpdated = g[Analyzed]
  BY OffsetsUpdatedUnrolled DEF RelocationInv
<1>2. Analyzed \in Nat /\ DOMAIN instructions = 1 .. Analyzed
  BY InstructionParts DEF RelocationInv
<1> DEFINE Bad == {n \in 0 .. Analyzed : ~Holds(g[n])}
<1>3. Bad = {}
  <2>1. SUFFICES ASSUME Bad # {} PROVE FALSE
    OBVIOUS
  <2>2. Bad \in SUBSET Nat
    OBVIOUS
  <2>3. PICK m \in Bad : \A x \in Bad : m <= x
    <3> HIDE DEF Bad
    <3> QED
      BY <2>1, <2>2, SmallestOf
  <2>4. Holds(g[0])
    BY <1>1 DEF RelocationInv, PiecesInv, BufferHolds, Holds
  <2>5. m \in 1 .. Analyzed /\ ~Holds(g[m])
    BY <1>2, <2>3, <2>4
  <2>6. m - 1 \in 0 .. Analyzed /\ ~(m <= m - 1)
    BY <1>2, <2>5
  <2>7. Holds(g[m - 1])
    BY <2>3, <2>6
  <2> QED
    BY <1>1, <1>2, <2>5, <2>7, OffsetUpdatedHolds
<1> QED
  BY <1>1, <1>2, <1>3


(* In the first use of the chunk, the operand of the instruction's copy    *)
(* and nothing else is updated.                                            *)
UpdatedPiece(i) ==
    [buffer[i] EXCEPT !.disp =
        Displacement(instructions[i].form, image[i] + instructions[i].length,
                     RelocatedOffset(instructions[i].target))]

UpTo(pieces, n) ==
    /\ pieces \in Seq(Piece) /\ DOMAIN pieces = 1 .. Analyzed
    /\ \A k \in 1 .. Analyzed :
        pieces[k] = IF k <= n /\ HasInternalTarget(instructions[k])
                    THEN UpdatedPiece(k) ELSE buffer[k]

(* The end of a relocation in which each instruction became one piece.     *)
OnePieceEach ==
    /\ RelocationInv /\ phase = "relocate" /\ Relocated = Analyzed
    /\ uses <= 1 /\ ~LoopRewritten

LEMMA OnePieceParts ==
    ASSUME OnePieceEach
    PROVE  /\ Analyzed \in Nat /\ DOMAIN instructions = 1 .. Analyzed
           /\ DOMAIN image = 1 .. Analyzed /\ DOMAIN buffer = 1 .. Analyzed
           /\ buffer \in Seq(Piece) /\ Len(buffer) = Analyzed
           /\ \A i \in 1 .. Analyzed :
                /\ Copies(i) /\ instructions[i] \in Item /\ buffer[i] \in Piece
                /\ image[i] \in Nat /\ image[i] <= CodeSize
                /\ buffer[i].at = image[i] /\ buffer[i].at + buffer[i].length <= CodeSize
                /\ RelocatedOffset(instructions[i].offset) = image[i]
           /\ \A i, j \in 1 .. Analyzed : i # j => image[i] # image[j]
<1>1. RelocationInv /\ InstructionsInv /\ ProgressInv /\ ImageInv
  BY DEF OnePieceEach, RelocationInv
<1>2. /\ Analyzed \in Nat /\ DOMAIN instructions = 1 .. Analyzed
      /\ DOMAIN image = 1 .. Analyzed
      /\ bytes_written \in Nat /\ bytes_written <= CodeSize
      /\ \A i \in 1 .. Analyzed : instructions[i] \in Item /\ image[i] \in Nat
  BY <1>1, ImageParts, InstructionParts DEF OnePieceEach
<1>3. Len(buffer) = Analyzed /\ \A i \in 1 .. Analyzed : Copies(i)
  BY <1>1, <1>2 DEF OnePieceEach, RelocationInv, CopiesInv
<1>4. buffer \in Seq(Piece)
  BY <1>1 DEF RelocationInv, PiecesInv
<1>5. DOMAIN buffer = 1 .. Analyzed /\ \A i \in 1 .. Analyzed : buffer[i] \in Piece
  BY <1>3, <1>4, LenProperties, ElementOfSeq
<1>6. ASSUME NEW i \in 1 .. Analyzed
      PROVE  /\ image[i] <= CodeSize /\ buffer[i].at = image[i]
             /\ buffer[i].at + buffer[i].length <= CodeSize
             /\ RelocatedOffset(instructions[i].offset) = image[i]
  <2>1. image[i] < bytes_written
    BY <1>1, <1>2 DEF ImageInv
  <2>2. /\ buffer[i].at = image[i]
        /\ buffer[i].at + buffer[i].length = IF i < Analyzed THEN image[i + 1] ELSE bytes_written
    BY <1>3 DEF Copies, OnePieceEach
  <2>3. i < Analyzed => image[i + 1] < bytes_written /\ image[i + 1] \in Nat
    <3>1. i < Analyzed => i + 1 \in 1 .. Analyzed
      BY <1>2
    <3> QED
      BY <1>1, <1>2, <3>1 DEF ImageInv
  <2>4. RelocatedOffset(instructions[i].offset) = image[i]
    BY <1>1, <1>2, RelocatedOffsetParts DEF OnePieceEach
  <2>5. image[i] <= CodeSize /\ bytes_written <= CodeSize
    BY <1>2, <2>1, Sizes
  <2>6. i < Analyzed => image[i + 1] <= CodeSize
    BY <1>2, <2>3, Sizes
  <2> QED
    BY <1>2, <2>2, <2>4, <2>5, <2>6
<1>7. ASSUME NEW i \in 1 .. Analyzed, NEW j \in 1 .. Analyzed, i # j
      PROVE  image[i] # image[j]
  <2>1. image[i] \in Nat /\ image[j] \in Nat /\ i \in Nat /\ j \in Nat
    BY <1>2
  <2>2. i < j => image[i] < image[j]
    BY <1>1, <1>2 DEF ImageInv
  <2>3. j < i => image[j] < image[i]
    BY <1>1, <1>2 DEF ImageInv
  <2>4. i < j \/ j < i
    BY <1>7, <2>1
  <2> QED
    BY <2>1, <2>2, <2>3, <2>4
<1> QED
  BY <1>2, <1>3, <1>4, <1>5, <1>6, <1>7

LEMMA OffsetUpdatedUpTo ==
    ASSUME OnePieceEach, NEW n \in 1 .. Analyzed, NEW pieces, UpTo(pieces, n - 1)
    PROVE  UpTo(OffsetUpdated(pieces, instructions[n]), n)
<1> DEFINE item == instructions[n]
           at == RelocatedOffset(item.offset)
           disp == Displacement(item.form, at + item.length, RelocatedOffset(item.target))
           hits == {k \in DOMAIN pieces : pieces[k].at = at /\ pieces[k].form = item.form}
<1>1. /\ Analyzed \in Nat /\ DOMAIN instructions = 1 .. Analyzed
      /\ DOMAIN image = 1 .. Analyzed
      /\ \A i \in 1 .. Analyzed : Copies(i) /\ buffer[i] \in Piece /\ buffer[i].at = image[i]
      /\ at = image[n] /\ item \in Item /\ image[n] \in Nat
      /\ \A i, j \in 1 .. Analyzed : i # j => image[i] # image[j]
  BY OnePieceParts
<1>2. n \in Nat /\ n - 1 \in Nat
      /\ \A k \in 1 .. Analyzed : (k <= n <=> k <= n - 1 \/ k = n) /\ ~(n <= n - 1)
  BY <1>1
<1>3. CASE ~HasInternalTarget(item)
  <2>1. OffsetUpdated(pieces, item) = pieces
    BY <1>3 DEF OffsetUpdated
  <2> QED
    BY <1>2, <1>3, <2>1 DEF UpTo
<1>4. CASE HasInternalTarget(item)
  <2>1. OffsetUpdated(pieces, item) = Patch(pieces, at, item, disp)
    BY <1>4 DEF OffsetUpdated
  <2>2. ASSUME NEW k \in 1 .. Analyzed
        PROVE  pieces[k].at = image[k] /\ pieces[k].form = buffer[k].form
    <3>1. pieces[k] = buffer[k] \/ pieces[k] = UpdatedPiece(k)
      BY DEF UpTo
    <3>2. UpdatedPiece(k).at = buffer[k].at /\ UpdatedPiece(k).form = buffer[k].form
      BY <1>1 DEF UpdatedPiece, Piece
    <3> QED
      BY <1>1, <3>1, <3>2
  <2>3. buffer[n].form = item.form
    BY <1>1, <1>4 DEF Copies
  <2>4. DOMAIN pieces = 1 .. Analyzed
    BY DEF UpTo
  <2>5. hits = {n}
    <3>1. n \in hits
      BY <1>1, <2>2, <2>3, <2>4
    <3>2. ASSUME NEW k \in hits
          PROVE  k = n
      <4>1. k \in 1 .. Analyzed /\ pieces[k].at = image[n]
        BY <1>1, <2>4
      <4> QED
        BY <1>1, <2>2, <4>1
    <3> QED
      BY <3>1, <3>2
  <2> DEFINE new == [k \in DOMAIN pieces |->
                        IF k \in hits THEN [pieces[k] EXCEPT !.disp = disp] ELSE pieces[k]]
  <2>6. OffsetUpdated(pieces, item) = new
    <3>1. hits # {}
      BY <2>5
    <3> QED
      BY <2>1, <3>1 DEF Patch
  <2>7. pieces[n] = buffer[n]
    BY <1>2 DEF UpTo
  <2>8. UpdatedPiece(n) = [buffer[n] EXCEPT !.disp = disp]
    BY <1>1 DEF UpdatedPiece
  <2>9. ASSUME NEW k \in 1 .. Analyzed
        PROVE  new[k] = IF k <= n /\ HasInternalTarget(instructions[k])
                        THEN UpdatedPiece(k) ELSE buffer[k]
    <3> HIDE DEF hits, disp
    <3>1. CASE k = n
      BY <1>2, <1>4, <2>4, <2>5, <2>7, <2>8, <3>1
    <3>2. CASE k # n
      <4>1. new[k] = pieces[k]
        BY <2>4, <2>5, <3>2
      <4>2. pieces[k] = IF k <= n - 1 /\ HasInternalTarget(instructions[k])
                        THEN UpdatedPiece(k) ELSE buffer[k]
        BY DEF UpTo
      <4> QED
        BY <1>2, <3>2, <4>1, <4>2
    <3> QED
      BY <3>1, <3>2
  <2>10. disp \in Int
    <3>1. PICK j \in DOMAIN instructions : instructions[j].offset = item.target
      BY <1>4 DEF HasInternalTarget, Range
    <3>2. RelocatedOffset(item.target) \in Nat
      BY <1>1, <3>1, OnePieceParts
    <3>3. at + item.length \in Int
      <4>1. at \in Nat /\ item.length \in 1 .. 15
        BY <1>1, ItemParts
      <4> HIDE DEF at, item
      <4> QED
        BY <4>1
    <3> QED
      BY <3>2, <3>3, DisplacementType
  <2>11. ASSUME NEW k \in 1 .. Analyzed
         PROVE  new[k] \in Piece
    <3>0. pieces \in Seq(Piece) /\ DOMAIN pieces = 1 .. Len(pieces)
      BY LenProperties DEF UpTo
    <3>1. pieces[k] \in Piece
      BY <2>4, <3>0, ElementOfSeq
    <3> HIDE DEF hits, disp
    <3>2. new[k] = pieces[k] \/ new[k] = [pieces[k] EXCEPT !.disp = disp]
      BY <2>4
    <3>3. [pieces[k] EXCEPT !.disp = disp] \in Piece
      BY <2>10, <3>1 DEF Piece
    <3> QED
      BY <3>1, <3>2, <3>3
  <2>12. new \in [1 .. Analyzed -> Piece]
    <3> HIDE DEF hits, disp
    <3> QED
      BY <2>4, <2>11
  <2> HIDE DEF new
  <2>13. new \in Seq(Piece) /\ DOMAIN new = 1 .. Analyzed
    BY <1>1, <2>12, SeqDef
  <2> QED
    BY <2>6, <2>9, <2>13 DEF UpTo
<1> QED
  BY <1>3, <1>4

LEMMA OffsetsUpdatedUpTo ==
    ASSUME OnePieceEach
    PROVE  UpTo(OffsetsUpdated, Analyzed)
<1>1. PICK g : /\ g[0] = buffer
               /\ \A n \in 1 .. Analyzed : g[n] = OffsetUpdated(g[n - 1], instructions[n])
               /\ OffsetsUpdated = g[Analyzed]
  BY OffsetsUpdatedUnrolled DEF OnePieceEach, RelocationInv
<1>2. Analyzed \in Nat
  BY OnePieceParts
<1> DEFINE Bad == {n \in 0 .. Analyzed : ~UpTo(g[n], n)}
<1>3. Bad = {}
  <2>1. SUFFICES ASSUME Bad # {} PROVE FALSE
    OBVIOUS
  <2>2. Bad \in SUBSET Nat
    OBVIOUS
  <2>3. PICK m \in Bad : \A x \in Bad : m <= x
    <3> HIDE DEF Bad
    <3> QED
      BY <2>1, <2>2, SmallestOf
  <2>4. UpTo(g[0], 0)
    <3>1. \A k \in 1 .. Analyzed : ~(k <= 0)
      OBVIOUS
    <3> QED
      BY <1>1, <3>1, OnePieceParts DEF UpTo
  <2>5. m \in 1 .. Analyzed /\ ~UpTo(g[m], m)
    BY <1>2, <2>3, <2>4
  <2>6. m - 1 \in 0 .. Analyzed /\ ~(m <= m - 1)
    BY <1>2, <2>5
  <2>7. UpTo(g[m - 1], m - 1)
    BY <2>3, <2>6
  <2> QED
    BY <1>1, <2>5, <2>7, OffsetUpdatedUpTo
<1> QED
  BY <1>1, <1>2, <1>3

(* The operand of an internal branch leads to the copy of its target: all  *)
(* of the buffer is in reach of a byte.                                    *)
LEMMA UpdatedPieceParts ==
    ASSUME OnePieceEach, NEW i \in 1 .. Analyzed, HasInternalTarget(instructions[i])
    PROVE  LET p == UpdatedPiece(i)
           IN  /\ p.at = buffer[i].at /\ p.length = buffer[i].length
               /\ p.form = buffer[i].form
               /\ \E j \in 1 .. Analyzed :
                    /\ instructions[j].offset = instructions[i].target
                    /\ Goal(p) = Destination + image[j]
<1> DEFINE item == instructions[i]
           p == UpdatedPiece(i)
<1>1. /\ DOMAIN instructions = 1 .. Analyzed /\ buffer[i] \in Piece /\ Copies(i)
      /\ image[i] \in Nat /\ buffer[i].at = image[i]
      /\ buffer[i].at + buffer[i].length <= CodeSize
  BY OnePieceParts
<1>2. PICK j \in 1 .. Analyzed : instructions[j].offset = item.target
  BY <1>1 DEF HasInternalTarget, Range
<1>3. RelocatedOffset(item.target) = image[j] /\ image[j] \in Nat /\ image[j] <= CodeSize
  BY <1>2, OnePieceParts
<1>4. buffer[i].length = item.length /\ item.length \in Nat
  <2>1. buffer[i].length = item.length
    BY <1>1 DEF Copies
  <2> QED
    BY <1>1, <2>1 DEF Piece
<1> DEFINE from == image[i] + item.length
<1>5. /\ p.at = image[i] /\ p.length = item.length /\ p.form = buffer[i].form
      /\ p.disp = Displacement(item.form, from, image[j])
  BY <1>1, <1>3, <1>4 DEF UpdatedPiece, Piece
<1>6. from \in Nat /\ from <= CodeSize
  BY <1>1, <1>4
<1> HIDE DEF p
<1>7. Goal(p) = Destination + from + p.disp
  <2>1. Goal(p) = ((Destination + image[i]) + item.length) + p.disp
    BY <1>5 DEF Goal, End, Start
  <2>2. (Destination + image[i]) + item.length = Destination + from
    BY <1>1, <1>4, Sizes
  <2> QED
    BY <2>1, <2>2
<1> HIDE DEF from
<1>8. image[j] - from \in -128 .. 127
  <2> DEFINE to == image[j]
  <2>1. to \in Nat /\ to <= 125 /\ from <= 125
    BY <1>3, <1>6, Sizes
  <2> HIDE DEF to
  <2>2. to - from \in -128 .. 127
    BY <1>6, <2>1
  <2> QED
    BY <2>2 DEF to
<1>9. p.disp = image[j] - from
  BY <1>3, <1>5, <1>6, <1>8, DisplacementType
<1>10. Goal(p) = Destination + image[j]
  BY <1>3, <1>6, <1>7, <1>9, Sizes
<1> QED
  BY <1>1, <1>2, <1>4, <1>5, <1>10 DEF p

LEMMA RelocationEndsKeeps ==
    ASSUME RelocationInv, RelocationEnds
    PROVE  RelocationInv'
<1> DEFINE backjump == [at |-> bytes_written, length |-> BackjumpSize, form |-> "backjump",
                        disp |-> bytes_read - Behind(BackjumpSize)]
<1>1. /\ phase = "relocate" /\ Relocated = Analyzed /\ phase' = "complete"
      /\ buffer' = Append(OffsetsUpdated, backjump)
      /\ uses' = uses /\ instructions' = instructions
      /\ bytes_read' = bytes_read /\ bytes_written' = bytes_written
      /\ map' = map /\ image' = image
  BY DEF RelocationEnds, Relocated, Analyzed
<1>2. InstructionsInv' /\ ImageInv' /\ MapInv' /\ FirstMapInv'
  BY <1>1 DEF RelocationInv, InstructionsInv, ImageInv, MapInv, FirstMapInv
<1>3. ProgressInv'
  <2>1. Offset' = Offset
    BY <1>1 DEF Offset
  <2> QED
    BY <1>1, <2>1 DEF RelocationInv, ProgressInv, Analyzed, Relocated, OffsetBehind, Phases
<1>4. /\ Relocated \in Nat /\ DOMAIN image = 1 .. Relocated
      /\ bytes_read \in Nat /\ bytes_written \in Nat /\ bytes_written <= CodeSize
  BY <1>1, ImageParts DEF RelocationInv
<1>5. backjump \in Piece /\ Goal(backjump) = bytes_read
  <2>1. Behind(BackjumpSize) \in Int
    BY <1>4, Sizes DEF Behind
  <2>2. bytes_read - Behind(BackjumpSize) \in Int
    BY <1>4, <2>1
  <2>3. Goal(backjump) = Behind(BackjumpSize) + (bytes_read - Behind(BackjumpSize))
    BY DEF Goal, End, Start, Behind
  <2>4. Goal(backjump) = bytes_read
    BY <1>4, <2>1, <2>3
  <2> QED
    BY <1>4, <2>2, <2>4, Sizes DEF Piece
<1> HIDE DEF backjump
<1> DEFINE pieces == OffsetsUpdated
           P == Len(pieces)
<1>6. Holds(pieces)
  BY <1>1, OffsetsUpdatedHolds
<1> HIDE DEF pieces
<1>7. /\ pieces \in Seq(Piece) /\ P \in Nat /\ DOMAIN pieces = 1 .. P
      /\ buffer' \in Seq(Piece) /\ Len(buffer') = P + 1 /\ DOMAIN buffer' = 1 .. P + 1
      /\ \A k \in 1 .. P : buffer'[k] = pieces[k]
      /\ buffer'[P + 1] = backjump
  <2>1. pieces \in Seq(Piece) /\ buffer' = Append(pieces, backjump)
    BY <1>1, <1>6 DEF Holds, pieces
  <2>2. P \in Nat /\ DOMAIN pieces = 1 .. P
    BY <2>1, LenProperties
  <2>3. /\ buffer' \in Seq(Piece) /\ Len(buffer') = P + 1
        /\ \A k \in 1 .. P : buffer'[k] = pieces[k]
        /\ buffer'[P + 1] = backjump
    BY <1>5, <2>1, AppendProperties
  <2>4. DOMAIN buffer' = 1 .. P + 1
    BY <2>3, LenProperties
  <2> QED
    BY <2>1, <2>2, <2>3, <2>4
<1>8. backjump.at = bytes_written /\ backjump.length = BackjumpSize
      /\ backjump.form = "backjump"
  BY DEF backjump
<1> HIDE DEF P
<1>9. PiecesInv'
  <2>1. ASSUME NEW k \in 1 .. P + 1
        PROVE  buffer'[k].at + buffer'[k].length <=
                CodeSize + (IF buffer'[k].form = "backjump" THEN BackjumpSize ELSE 0)
    <3>1. CASE k \in 1 .. P
      BY <1>6, <1>7, <3>1 DEF Holds
    <3>2. CASE k = P + 1
      BY <1>4, <1>7, <1>8, <3>2, Sizes
    <3> QED
      BY <1>7, <3>1, <3>2
  <2> QED
    BY <1>7, <2>1 DEF PiecesInv, BufferHolds
<1>10. CopiesInv'
  <2>1. LoopRewritten' <=> LoopRewritten
    BY <1>1 DEF LoopRewritten, HasExternalTarget, HasInternalTarget, Relative, OutOfReach
  <2>2. SUFFICES ASSUME uses <= 1, ~LoopRewritten PROVE CopiesInv'
    BY <1>1, <2>1 DEF CopiesInv
  <2>3. OnePieceEach
    BY <1>1, <2>2 DEF OnePieceEach
  <2>4. UpTo(pieces, Analyzed)
    BY <2>3, OffsetsUpdatedUpTo DEF pieces
  <2>5. P = Relocated
    BY <1>1, <1>4, <1>7, <2>4, RangeEquality DEF UpTo
  <2>6. Relocated' = Relocated
    BY <1>1 DEF Relocated
  <2>7. ASSUME NEW i \in 1 .. Relocated
        PROVE  Copies(i)' /\ Updated(i)'
    <3>1. /\ HasInternalTarget(instructions[i])' <=> HasInternalTarget(instructions[i])
          /\ HasExternalTarget(instructions[i])' <=> HasExternalTarget(instructions[i])
      BY <1>1, TargetsStay
    <3>2. Copies(i) /\ i \in 1 .. Analyzed
      BY <1>1, <2>3, OnePieceParts
    <3>3. buffer'[i] = IF HasInternalTarget(instructions[i]) THEN UpdatedPiece(i) ELSE buffer[i]
      <4>1. i <= Analyzed /\ i \in 1 .. P
        BY <1>1, <1>4, <2>5
      <4> QED
        BY <1>7, <2>4, <3>2, <4>1 DEF UpTo
    <3>4. image'[i] = image[i] /\ instructions'[i] = instructions[i]
      BY <1>1
    <3>5. (IF i < Relocated THEN image[i + 1] ELSE bytes_written)
            = (IF i < Relocated' THEN image'[i + 1] ELSE bytes_written')
      BY <1>1, <2>6
    <3>6. Goal(buffer[i])' = Goal(buffer'[i])
      BY DEF Goal, End, Start
    <3>7. CASE HasInternalTarget(instructions[i])
      <4> DEFINE p == UpdatedPiece(i)
      <4>1. /\ buffer'[i] = p /\ p.at = buffer[i].at /\ p.length = buffer[i].length
            /\ p.form = buffer[i].form
        BY <2>3, <3>2, <3>3, <3>7, UpdatedPieceParts
      <4>2. PICK j \in 1 .. Analyzed :
                /\ instructions[j].offset = instructions[i].target
                /\ Goal(p) = Destination + image[j]
        BY <2>3, <3>2, <3>7, UpdatedPieceParts
      <4>3. ~HasExternalTarget(instructions[i])
        BY <3>7 DEF HasExternalTarget
      <4> HIDE DEF p
      <4>4. Updated(i)'
        BY <1>1, <1>4, <3>6, <4>1, <4>2 DEF Updated
      <4>5. Copies(i)'
        BY <3>1, <3>2, <3>4, <3>5, <4>1, <4>3 DEF Copies
      <4> QED
        BY <4>4, <4>5
    <3>8. CASE ~HasInternalTarget(instructions[i])
      <4>1. buffer'[i] = buffer[i]
        BY <3>3, <3>8
      <4>2. Copies(i)'
        BY <3>1, <3>2, <3>4, <3>5, <3>6, <4>1 DEF Copies
      <4> QED
        BY <3>1, <3>8, <4>2 DEF Updated
    <3> QED
      BY <3>7, <3>8
  <2>8. /\ buffer'[Relocated' + 1] = backjump /\ Len(buffer') = Relocated' + 1
        /\ DOMAIN image' = 1 .. Relocated
    BY <1>1, <1>4, <1>7, <2>5, <2>6
  <2>9. Goal(buffer[Relocated + 1])' = bytes_read'
    <3>1. Goal(buffer[Relocated + 1])' = Goal(buffer'[Relocated' + 1])
      BY DEF Goal, End, Start
    <3> QED
      BY <1>1, <1>5, <2>8, <3>1
  <2> QED
    BY <1>1, <1>8, <2>7, <2>8, <2>9 DEF CopiesInv
<1> QED
  BY <1>2, <1>3, <1>9, <1>10 DEF RelocationInv

LEMMA ChunkInitKeeps ==
    ASSUME RelocationInv, ChunkInit
    PROVE  RelocationInv'
<1>1. CASE ChunkInitStarts
  BY <1>1, ChunkInitStartsKeeps
<1>2. CASE Decode
  BY <1>2, DecodeKeeps
<1>3. CASE DecodeFails
  BY <1>3, EndKeeps DEF DecodeFails
<1>4. CASE AnalysisEnds
  BY <1>4, AnalysisEndsKeeps
<1>5. CASE Relocate
  BY <1>5, RelocateKeeps
<1>6. CASE RelocationEnds
  BY <1>6, RelocationEndsKeeps
<1> QED
  BY <1>1, <1>2, <1>3, <1>4, <1>5, <1>6 DEF ChunkInit

LEMMA ReleaseKeeps ==
    ASSUME RelocationInv, Release
    PROVE  RelocationInv'
BY EndKeeps DEF Release

-----------------------------------------------------------------------------
(* What the invariant says of a complete chunk *)

LEMMA TypeFollows == RelocationInv => RelocationTypeOK
<1> SUFFICES ASSUME RelocationInv PROVE RelocationTypeOK
  OBVIOUS
<1>1. InstructionsInv /\ ProgressInv /\ MapInv /\ PiecesInv
  BY DEF RelocationInv
<1>2. bytes_read \in Nat /\ bytes_written \in Nat /\ image \in Seq(Nat)
  BY <1>1, ImageParts
<1>3. \A i \in DOMAIN instructions : instructions[i].offset \in 0 .. MinBytes - 1
  BY <1>1, InstructionParts DEF Item
<1>4. phase \in Phases /\ uses \in 0 .. MaxUses
  BY <1>1 DEF ProgressInv
<1>5. map \in Seq([source : Nat, destination : Nat]) /\ buffer \in Seq(Piece)
  BY <1>1 DEF MapInv, MapItem, PiecesInv
<1> QED
  BY <1>2, <1>3, <1>4, <1>5 DEF RelocationTypeOK

LEMMA MapIsImageFollows == RelocationInv /\ uses <= 1 => MapIsImage
BY RelocatedOffsetParts DEF MapIsImage

(* The chunk is complete, in its first use, and each instruction became    *)
(* one piece.                                                              *)
OnePieceComplete ==
    RelocationInv /\ phase = "complete" /\ uses <= 1 /\ ~LoopRewritten

LEMMA CompleteParts ==
    ASSUME OnePieceComplete
    PROVE  /\ Analyzed \in Nat /\ Relocated = Analyzed /\ Analyzed >= 1
           /\ DOMAIN instructions = 1 .. Analyzed /\ DOMAIN image = 1 .. Analyzed
           /\ DOMAIN buffer = 1 .. Analyzed + 1
           /\ \A i \in 1 .. Analyzed :
                /\ instructions[i] \in Item /\ Copies(i) /\ Updated(i)
                /\ image[i] \in Nat /\ image[i] < bytes_written
                /\ buffer[i].at = image[i]
           /\ \A i, j \in 1 .. Analyzed : i < j => image[i] < image[j]
           /\ bytes_written \in Nat /\ bytes_written <= CodeSize
           /\ bytes_read \in 0 .. MinBytes + 14 /\ bytes_read = OffsetBehind(Analyzed)
           /\ buffer[Analyzed + 1].at = bytes_written
           /\ Goal(buffer[Analyzed + 1]) = bytes_read
           /\ buffer[Analyzed + 1].form = "backjump"
<1>1. InstructionsInv /\ ProgressInv /\ ImageInv /\ PiecesInv /\ CopiesInv
  BY DEF OnePieceComplete, RelocationInv
<1>2. Relocated = Analyzed
  BY <1>1 DEF OnePieceComplete, ProgressInv
<1>3. /\ Analyzed \in Nat /\ DOMAIN instructions = 1 .. Analyzed
      /\ DOMAIN image = 1 .. Analyzed
      /\ \A i \in 1 .. Analyzed : instructions[i] \in Item /\ image[i] \in Nat
      /\ bytes_written \in Nat /\ bytes_written <= CodeSize
      /\ bytes_read \in 0 .. MinBytes + 14 /\ bytes_read = OffsetBehind(Analyzed)
  <2>1. bytes_read \in 0 .. MinBytes + 14
    BY <1>1, ImageParts, Sizes
  <2> QED
    BY <1>1, <1>2, <2>1, ImageParts, InstructionParts
<1>4. Analyzed >= 1
  <2>1. OffsetBehind(Analyzed) >= MinBytes
    BY <1>1, OffsetIsBehind DEF OnePieceComplete, ProgressInv
  <2>2. OffsetBehind(Analyzed) # 0
    BY <2>1, Sizes
  <2> QED
    BY <1>3, <2>2 DEF OffsetBehind
<1>5. /\ Len(buffer) = Analyzed + 1
      /\ buffer[Analyzed + 1].at = bytes_written
      /\ Goal(buffer[Analyzed + 1]) = bytes_read
      /\ buffer[Analyzed + 1].form = "backjump"
      /\ \A i \in 1 .. Analyzed : Copies(i) /\ Updated(i)
  BY <1>1, <1>2, <1>3 DEF OnePieceComplete, CopiesInv
<1>6. DOMAIN buffer = 1 .. Analyzed + 1
  BY <1>1, <1>5, LenProperties DEF PiecesInv
<1>7. /\ \A i \in 1 .. Analyzed : image[i] < bytes_written
      /\ \A i, j \in 1 .. Analyzed : i < j => image[i] < image[j]
  BY <1>1, <1>3 DEF ImageInv
<1>8. \A i \in 1 .. Analyzed : buffer[i].at = image[i]
  BY <1>5 DEF Copies
<1> QED
  BY <1>2, <1>3, <1>4, <1>5, <1>6, <1>7, <1>8

(* The end of a copy is the start of the next one, or of the backjump.     *)
LEMMA CopyEnds ==
    ASSUME OnePieceComplete, NEW k \in 1 .. Analyzed
    PROVE  /\ k < Analyzed => buffer[k].at + buffer[k].length = image[k + 1]
           /\ k = Analyzed => buffer[k].at + buffer[k].length = bytes_written
           /\ buffer[k].at \in Nat /\ buffer[k].length \in Nat
<1>1. Copies(k) /\ Relocated = Analyzed /\ Analyzed \in Nat
  BY CompleteParts
<1>2. buffer[k] \in Piece
  <2>1. buffer \in Seq(Piece)
    BY DEF OnePieceComplete, RelocationInv, PiecesInv
  <2>2. k \in 1 .. Len(buffer)
    BY <2>1, LenProperties, CompleteParts
  <2> QED
    BY <2>1, <2>2, ElementOfSeq
<1> QED
  BY <1>1, <1>2 DEF Copies, Piece

LEMMA AllIntact ==
    ASSUME OnePieceComplete
    PROVE  \A k \in 1 .. Analyzed + 1 : Intact(k)
<1> DEFINE N == Analyzed
<1>1. /\ N \in Nat /\ DOMAIN buffer = 1 .. N + 1 /\ bytes_written \in Nat
      /\ \A i \in 1 .. N :
            image[i] \in Nat /\ image[i] < bytes_written /\ buffer[i].at = image[i]
      /\ \A i, j \in 1 .. N : i < j => image[i] < image[j]
      /\ buffer[N + 1].at = bytes_written
  BY CompleteParts
<1>2. Len(buffer) = N + 1
  <2>1. Len(buffer) \in Nat /\ DOMAIN buffer = 1 .. Len(buffer)
    BY LenProperties DEF OnePieceComplete, RelocationInv, PiecesInv
  <2> HIDE DEF N
  <2> QED
    BY <1>1, <2>1
<1>3. ASSUME NEW k \in 1 .. N + 1, NEW j \in k + 1 .. N + 1
      PROVE  buffer[j].at >= buffer[k].at + buffer[k].length
  <2>1. /\ k < N => buffer[k].at + buffer[k].length = image[k + 1]
        /\ k = N => buffer[k].at + buffer[k].length = bytes_written
        /\ k \in 1 .. N
    <3>1. k \in 1 .. N
      BY <1>1
    <3> QED
      BY <3>1, CopyEnds
  <2> HIDE DEF N
  <2>2. CASE k = N
    <3>1. j = N + 1
      BY <1>1, <2>2
    <3> QED
      BY <1>1, <2>1, <2>2, <3>1
  <2>3. CASE k < N /\ j = N + 1
    <3>1. k + 1 \in 1 .. N
      BY <1>1, <2>3
    <3>2. image[k + 1] \in Nat /\ image[k + 1] < bytes_written
      BY <1>1, <3>1
    <3> QED
      BY <1>1, <2>1, <2>3, <3>2
  <2>4. CASE k < N /\ j \in 1 .. N
    <3>1. k + 1 \in 1 .. N /\ (k + 1 = j \/ k + 1 < j)
      BY <1>1, <1>3, <2>4
    <3>2. image[k + 1] \in Nat /\ image[j] \in Nat /\ buffer[j].at = image[j]
      BY <1>1, <2>4, <3>1
    <3>3. image[k + 1] <= image[j]
      BY <1>1, <2>4, <3>1, <3>2
    <3> QED
      BY <2>1, <2>4, <3>2, <3>3
  <2> QED
    BY <1>1, <1>3, <2>1, <2>2, <2>3, <2>4
<1> QED
  BY <1>2, <1>3 DEF Intact

(* Only the backjump is the copy of no instruction.                        *)
LEMMA Hops ==
    ASSUME OnePieceComplete, NEW a
    PROVE  Follow(a) = IF a = Destination + bytes_written THEN bytes_read ELSE a
<1> DEFINE N == Analyzed
<1>1. /\ N \in Nat /\ DOMAIN buffer = 1 .. N + 1 /\ DOMAIN image = 1 .. N
      /\ bytes_written \in Nat /\ bytes_written <= CodeSize
      /\ \A i \in 1 .. N :
            image[i] \in Nat /\ image[i] < bytes_written /\ buffer[i].at = image[i]
      /\ buffer[N + 1].at = bytes_written /\ Goal(buffer[N + 1]) = bytes_read
      /\ bytes_read \in 0 .. MinBytes + 14
      /\ \A k \in 1 .. N + 1 : Intact(k)
  BY CompleteParts, AllIntact
<1> HIDE DEF N
<1>2. Glue = {N + 1}
  <2>1. ASSUME NEW k \in Glue
        PROVE  k = N + 1
    <3>1. k \in 1 .. N + 1 /\ buffer[k].at \notin Range(image)
      BY <1>1 DEF Glue
    <3>2. k \notin 1 .. N
      BY <1>1, <3>1 DEF Range
    <3> QED
      BY <1>1, <3>1, <3>2
  <2>2. bytes_written \notin Range(image)
    <3>1. \A i \in 1 .. N : image[i] # bytes_written
      BY <1>1
    <3> QED
      BY <1>1, <3>1 DEF Range
  <2>3. N + 1 \in Glue
    <3>1. N + 1 \in 1 .. N + 1
      BY <1>1
    <3> QED
      BY <1>1, <2>2, <3>1 DEF Glue
  <2> QED
    BY <2>1, <2>3
<1>3. Start(buffer[N + 1]) = Destination + bytes_written
  BY <1>1 DEF Start
<1>4. \A b : Hop(b) = IF b = Destination + bytes_written THEN bytes_read ELSE b
  BY <1>1, <1>2, <1>3 DEF Hop
<1>5. bytes_read # Destination + bytes_written
  <2>1. Destination + bytes_written \in Destination .. Destination + CodeSize
    BY <1>1, Sizes
  <2>2. bytes_read \notin Destination .. Destination + CodeSize
    BY <1>1, BufferAssumption
  <2> QED
    BY <2>1, <2>2
<1> QED
  BY <1>4, <1>5 DEF Follow

LEMMA Moves ==
    ASSUME OnePieceComplete
    PROVE  /\ \A j \in 1 .. Analyzed :
                Moved(instructions[j].offset) = Destination + image[j]
           /\ \A a : (\A j \in 1 .. Analyzed : instructions[j].offset # a) => Moved(a) = a
<1>1. /\ Analyzed \in Nat /\ DOMAIN instructions = 1 .. Analyzed
      /\ \A i \in 1 .. Analyzed : instructions[i] \in Item
  BY CompleteParts
<1>2. ASSUME NEW j \in 1 .. Analyzed, NEW i \in 1 .. Analyzed,
             instructions[i].offset = instructions[j].offset
      PROVE  i = j
  <2>1. \A x, y \in 1 .. Analyzed :
            x < y => instructions[x].offset + instructions[x].length <= instructions[y].offset
    BY <1>1 DEF OnePieceComplete, RelocationInv, InstructionsInv
  <2>2. \A x \in 1 .. Analyzed :
            instructions[x].offset \in Nat /\ instructions[x].length \in 1 .. 15
    BY <1>1, ItemParts
  <2>3. \A x, y \in 1 .. Analyzed : x < y => instructions[x].offset # instructions[y].offset
    <3>1. SUFFICES ASSUME NEW x \in 1 .. Analyzed, NEW y \in 1 .. Analyzed, x < y
                   PROVE  instructions[x].offset # instructions[y].offset
      OBVIOUS
    <3>2. instructions[x].offset + instructions[x].length <= instructions[y].offset
      BY <2>1, <3>1
    <3> QED
      BY <2>2, <3>2
  <2>4. i < j \/ j < i \/ i = j
    BY <1>1
  <2> QED
    BY <1>2, <2>3, <2>4
<1>3. ASSUME NEW j \in 1 .. Analyzed
      PROVE  Moved(instructions[j].offset) = Destination + image[j]
  <2>1. (CHOOSE i \in DOMAIN instructions :
            instructions[i].offset = instructions[j].offset) = j
    BY <1>1, <1>2
  <2> QED
    BY <1>1, <2>1 DEF Moved
<1>4. ASSUME NEW a, \A j \in 1 .. Analyzed : instructions[j].offset # a
      PROVE  Moved(a) = a
  BY <1>1, <1>4 DEF Moved
<1> QED
  BY <1>3, <1>4

LEMMA BranchesEquivalentFollows == RelocationInv /\ uses <= 1 => BranchesEquivalent
<1> SUFFICES ASSUME OnePieceComplete, NEW i \in DOMAIN instructions
             PROVE  Equivalent(i)
  BY DEF BranchesEquivalent, OnePieceComplete
<1> DEFINE item == instructions[i]
           p == buffer[i]
           W == Destination + bytes_written
<1>1. /\ Analyzed \in Nat /\ DOMAIN instructions = 1 .. Analyzed
      /\ DOMAIN buffer = 1 .. Analyzed + 1 /\ i \in 1 .. Analyzed /\ i \in Nat
      /\ item \in Item /\ Copies(i) /\ Updated(i) /\ p.at = image[i]
      /\ bytes_written \in Nat /\ bytes_written <= CodeSize
      /\ bytes_read = OffsetBehind(Analyzed) /\ bytes_read \in Nat
      /\ \A j \in 1 .. Analyzed : image[j] \in Nat /\ image[j] < bytes_written
      /\ DOMAIN image = 1 .. Analyzed
  BY CompleteParts
<1>2. i \in DOMAIN buffer /\ Intact(i)
  BY <1>1, AllIntact
<1>3. Destination \in Int
  BY Sizes
<1>4. \A j \in 1 .. Analyzed : Destination + image[j] # W
  <2>1. SUFFICES ASSUME NEW j \in 1 .. Analyzed PROVE Destination + image[j] # W
    OBVIOUS
  <2>2. image[j] \in Nat /\ image[j] < bytes_written
    BY <1>1
  <2> QED
    BY <1>1, <1>3, <2>2
<1>5. InstructionsInv
  BY DEF OnePieceComplete, RelocationInv
<1>6. Follow(End(p)) = Moved(item.offset + item.length)
  <2>1. p.at \in Nat /\ p.length \in Nat
    BY <1>1, CopyEnds
  <2>2. End(p) = Destination + (p.at + p.length)
    <3> HIDE DEF p
    <3> QED
      BY <1>3, <2>1 DEF End, Start
  <2>3. OffsetBehind(i) = item.offset + item.length
    BY <1>1 DEF OffsetBehind
  <2>4. CASE i < Analyzed
    <3>1. i + 1 \in 1 .. Analyzed
      BY <1>1, <2>4
    <3>2. p.at + p.length = image[i + 1]
      BY <1>1, <2>4, CopyEnds
    <3>3. Follow(End(p)) = Destination + image[i + 1]
      BY <1>4, <2>2, <3>1, <3>2, Hops
    <3>4. instructions[i + 1].offset = item.offset + item.length
      BY <1>1, <1>5, <3>1 DEF InstructionsInv
    <3> QED
      BY <3>1, <3>3, <3>4, Moves
  <2>5. CASE i = Analyzed
    <3>1. Follow(End(p)) = bytes_read
      BY <1>1, <2>2, <2>5, CopyEnds, Hops
    <3>2. \A j \in 1 .. Analyzed : instructions[j].offset # bytes_read
      <4>1. Analyzed \in 0 .. Analyzed
        BY <1>1
      <4>2. \A j \in 1 .. Analyzed : instructions[j].offset < bytes_read
        BY <1>1, <1>5, <4>1, OffsetBehindParts
      <4>3. \A j \in 1 .. Analyzed : instructions[j] \in Item
        BY <1>5, InstructionParts
      <4>4. \A j \in 1 .. Analyzed : instructions[j].offset \in Nat
        BY <4>3, ItemParts
      <4> QED
        BY <1>1, <4>2, <4>4
    <3> QED
      BY <1>1, <2>3, <2>5, <3>1, <3>2, Moves
  <2> QED
    BY <1>1, <2>4, <2>5
<1>7. ASSUME Relative(item)
      PROVE  Goal(p) = Moved(item.target) /\ Follow(Goal(p)) = Moved(item.target)
  <2>1. CASE HasInternalTarget(item)
    <3>1. PICK j \in DOMAIN image :
            instructions[j].offset = item.target /\ Goal(p) = Destination + image[j]
      BY <1>1, <2>1 DEF Updated
    <3>2. Follow(Goal(p)) = Goal(p)
      BY <1>1, <1>4, <3>1, Hops
    <3> QED
      BY <1>1, <3>1, <3>2, Moves
  <2>2. CASE ~HasInternalTarget(item)
    <3>1. HasExternalTarget(item)
      BY <1>7, <2>2 DEF HasExternalTarget
    <3>2. Goal(p) = item.target
      BY <1>1, <3>1 DEF Copies
    <3>3. item.target # W
      <4>1. W \in Destination .. Destination + CodeSize
        BY <1>1, Sizes
      <4> QED
        BY <1>1, <1>7, <4>1, ItemParts
    <3>4. Moved(item.target) = item.target
      <4>1. \A j \in 1 .. Analyzed : instructions[j].offset # item.target
        BY <1>1, <1>7, <2>2 DEF HasInternalTarget, Range
      <4> QED
        BY <4>1, Moves
    <3> QED
      BY <3>2, <3>3, <3>4, Hops
  <2> QED
    BY <2>1, <2>2
<1>8. item.form \in Branches \/ item.form = "memory" => Relative(item)
  BY DEF Branches, Relative
<1> QED
  BY <1>1, <1>2, <1>6, <1>7, <1>8 DEF Equivalent

-----------------------------------------------------------------------------
(* Room in the map *)

(* In the first use, before a branch has become three instructions, the    *)
(* map has an item per instruction that was relocated; of the instructions *)
(* each starts at least a byte behind the one before.                      *)
RoomInv ==
    /\ \A i \in DOMAIN instructions : instructions[i].offset >= i - 1
    /\ uses <= 1 /\ ~LoopRewritten => phase # "map_full" /\ Len(map) = Relocated

(* A step that relocates nothing.                                          *)
LEMMA RoomStays ==
    ASSUME RoomInv, UNCHANGED <<uses, instructions, map, image>>,
           phase' # "map_full" \/ phase' = phase
    PROVE  RoomInv'
<1>1. LoopRewritten' <=> LoopRewritten
  BY DEF LoopRewritten, HasExternalTarget, HasInternalTarget, Relative, OutOfReach
<1> QED
  BY <1>1 DEF RoomInv, Relocated

LEMMA DecodeKeepsRoom ==
    ASSUME RelocationInv, RoomInv, Decode
    PROVE  RoomInv'
<1> DEFINE N == Analyzed
<1>1. /\ phase = "analyze" /\ phase' = phase /\ uses' = uses /\ map' = map /\ image' = image
  BY DEF Decode
<1>2. PICK item : instructions' = Append(instructions, item) /\ item.offset = Offset
                  /\ item \in Item
  <2>1. PICK instruction \in Instructions :
            instructions' = Append(instructions,
                [offset |-> Offset, form |-> instruction.form,
                 length |-> instruction.length, target |-> instruction.target])
    BY DEF Decode
  <2> DEFINE item == [offset |-> Offset, form |-> instruction.form,
                      length |-> instruction.length, target |-> instruction.target]
  <2>2. Offset \in 0 .. MinBytes - 1
    <3>1. InstructionsInv /\ Analyzed \in 0 .. Analyzed
      BY InstructionParts DEF RelocationInv
    <3>2. Offset \in Nat
      BY <3>1, OffsetIsBehind, OffsetBehindParts
    <3> QED
      BY <3>2, Sizes DEF Decode, NeedsMore
  <2>3. instruction \in Instruction
    BY RelocationAssumption
  <2>4. item \in Item
    BY <2>2, <2>3 DEF Item, Instruction
  <2> QED
    BY <2>1, <2>4
<1>3. N \in Nat /\ DOMAIN instructions = 1 .. N /\ \A i \in 1 .. N : instructions[i] \in Item
  BY InstructionParts DEF RelocationInv
<1>4. /\ DOMAIN instructions' = 1 .. N + 1 /\ instructions'[N + 1] = item
      /\ \A i \in 1 .. N : instructions'[i] = instructions[i]
  <2>1. instructions \in Seq(Item)
    BY DEF RelocationInv, InstructionsInv
  <2>2. /\ instructions' \in Seq(Item) /\ Len(instructions') = Len(instructions) + 1
        /\ instructions'[Len(instructions) + 1] = item
        /\ \A i \in 1 .. Len(instructions) : instructions'[i] = instructions[i]
    BY <1>2, <2>1, AppendProperties
  <2>3. DOMAIN instructions' = 1 .. Len(instructions')
    BY <2>2, LenProperties
  <2> QED
    BY <2>2, <2>3 DEF Analyzed
<1>5. item.offset >= N
  <2>1. Offset = OffsetBehind(N)
    BY OffsetIsBehind DEF RelocationInv
  <2>2. CASE N = 0
    BY <1>2, <2>1, <2>2 DEF OffsetBehind
  <2>3. CASE N # 0
    <3>1. N \in 1 .. N /\ instructions[N] \in Item
      BY <1>3, <2>3
    <3>2. instructions[N].offset >= N - 1
      BY <1>3, <3>1 DEF RoomInv
    <3>3. instructions[N].length \in 1 .. 15 /\ instructions[N].offset \in Nat
      BY <3>1, ItemParts
    <3>4. item.offset = instructions[N].offset + instructions[N].length
      BY <1>2, <2>1, <2>3 DEF OffsetBehind
    <3> DEFINE before == instructions[N].offset
               length == instructions[N].length
    <3>5. before \in Nat /\ length \in Nat /\ length >= 1 /\ before >= N - 1
      BY <3>2, <3>3
    <3> HIDE DEF N, before, length
    <3>6. before + length >= N
      BY <1>3, <3>5
    <3> QED
      BY <3>4, <3>6 DEF N, before, length
  <2> QED
    BY <2>2, <2>3
<1>6. \A i \in DOMAIN instructions' : instructions'[i].offset >= i - 1
  <2>1. \A i \in 1 .. N : instructions'[i].offset >= i - 1
    BY <1>3, <1>4 DEF RoomInv
  <2>2. instructions'[N + 1].offset >= (N + 1) - 1
    <3>1. (N + 1) - 1 = N
      BY <1>3
    <3> QED
      BY <1>4, <1>5, <3>1
  <2>3. \A i \in 1 .. N + 1 : i \in 1 .. N \/ i = N + 1
    BY <1>3
  <2> HIDE DEF N
  <2> QED
    BY <1>4, <2>1, <2>2, <2>3
<1>7. image = <<>> /\ ~LoopRewritten
  <2>1. image = <<>>
    BY <1>1 DEF RelocationInv, ProgressInv
  <2> QED
    BY <2>1 DEF LoopRewritten
<1> QED
  BY <1>1, <1>6, <1>7 DEF RoomInv, Relocated

LEMMA EmitsKeepsRoom ==
    ASSUME RelocationInv, RoomInv, MapSize >= MinBytes + 2,
           phase = "relocate", Relocated < Analyzed, UNCHANGED <<uses, instructions>>,
           NEW pieces, NEW items, NEW written, Emits(pieces, items, written),
           items \in Seq(MapItem), Len(items) \in 1 .. 3,
           phase' # "map_full" => Len(items) = 1 \/ LoopRewritten'
    PROVE  RoomInv'
<1> DEFINE N == Relocated
<1>1. \A i \in DOMAIN instructions' : instructions'[i].offset >= i - 1
  BY DEF RoomInv
<1>2. N \in Nat /\ N <= MinBytes - 1
  <2>1. /\ N \in Nat /\ N + 1 \in DOMAIN instructions
        /\ bytes_read = instructions[N + 1].offset /\ bytes_read <= MinBytes - 1
        /\ bytes_read \in Nat
    BY NextParts
  <2>2. bytes_read >= (N + 1) - 1
    BY <2>1 DEF RoomInv
  <2> HIDE DEF N
  <2> QED
    BY <2>1, <2>2, Sizes
<1>3. uses' = uses
  OBVIOUS
<1>4. map \in Seq(MapItem) /\ image \in Seq(Nat) /\ bytes_written \in Nat
  BY DEF RelocationInv, MapInv, ProgressInv
<1>5. CASE Len(map) + Len(items) > MapSize
  <2>1. phase' = "map_full" /\ map' = map /\ image' = image
    BY <1>5 DEF Emits
  <2>2. LoopRewritten' <=> LoopRewritten
    BY <2>1 DEF LoopRewritten, HasExternalTarget, HasInternalTarget, Relative, OutOfReach
  <2>3. ~(uses <= 1 /\ ~LoopRewritten)
    <3>1. SUFFICES ASSUME uses <= 1, ~LoopRewritten PROVE FALSE
      OBVIOUS
    <3>2. Len(map) = N
      BY <3>1 DEF RoomInv
    <3> DEFINE K == Len(items)
    <3>3. K \in 1 .. 3 /\ N + K > MapSize
      BY <1>5, <3>2
    <3> HIDE DEF N, K
    <3> QED
      BY <1>2, <3>3, Sizes
  <2> QED
    BY <1>1, <1>3, <2>2, <2>3 DEF RoomInv
<1>6. CASE ~(Len(map) + Len(items) > MapSize)
  <2>1. phase' = phase /\ map' = map \o items /\ image' = Append(image, bytes_written)
    BY <1>6 DEF Emits
  <2>2. SUFFICES ASSUME uses <= 1, ~LoopRewritten' PROVE RoomInv'
    BY <1>1, <1>3 DEF RoomInv
  <2>3. ~LoopRewritten
    BY <2>1, <2>2, LoopsStay
  <2>4. Len(items) = 1 /\ Len(map) = N
    BY <2>1, <2>2, <2>3 DEF RoomInv
  <2>5. Len(map') = Len(map) + Len(items)
    BY <1>4, <2>1, ConcatProperties
  <2>6. Len(image') = Len(image) + 1
    BY <1>4, <2>1, AppendProperties
  <2> QED
    BY <1>1, <2>1, <2>4, <2>5, <2>6 DEF RoomInv, Relocated
<1> QED
  BY <1>5, <1>6

LEMMA RelocateKeepsRoom ==
    ASSUME RelocationInv, RoomInv, MapSize >= MinBytes + 2, Relocate
    PROVE  RoomInv'
<1> DEFINE item == instructions[Relocated + 1]
<1>1. /\ phase = "relocate" /\ Relocated < Analyzed
      /\ UNCHANGED <<uses, instructions>>
      /\ \/ RelocateCommon(item)
         \/ RelocateInReach(item)
         \/ Enlarge(item)
         \/ RewriteLoop(item)
         \/ RefuseCall(item)
  BY DEF Relocate, Relocated, Analyzed
<1>2. item \in Item /\ bytes_read \in Nat /\ bytes_written \in Nat
  BY <1>1, NextParts
<1>3. \A n \in Nat : Entry(n) \in MapItem
  BY <1>2 DEF Entry, MapItem
<1>4. CASE \E form, length, disp : EmitsOne(form, length, disp)
  <2>1. PICK form, length, disp : EmitsOne(form, length, disp)
    BY <1>4
  <2> DEFINE items == <<Entry(bytes_written)>>
  <2>2. items \in Seq(MapItem) /\ Len(items) = 1
    BY <1>2, <1>3
  <2>3. PICK pieces, written : Emits(pieces, items, written)
    BY <2>1 DEF EmitsOne
  <2>4. Len(items) \in 1 .. 3
    BY <2>2
  <2> HIDE DEF items
  <2> QED
    BY <1>1, <2>2, <2>3, <2>4, EmitsKeepsRoom
<1>5. CASE RewriteLoop(item)
  <2> DEFINE W == bytes_written
             L == item.length
             items == <<Entry(W), Entry(W + L + L), Entry(W + L + 2 + L + 2)>>
  <2>1. W + L + L \in Nat /\ W + L + 2 + L + 2 \in Nat /\ W \in Nat
    <3>1. L \in Nat
      BY <1>2, ItemParts
    <3> HIDE DEF L, W
    <3> QED
      BY <1>2, <3>1 DEF W
  <2>2. items \in Seq(MapItem) /\ Len(items) = 3
    <3> HIDE DEF L, W
    <3> QED
      BY <1>3, <2>1
  <2>3. PICK pieces, written : Emits(pieces, items, written)
    BY <1>5 DEF RewriteLoop
  <2>4. phase' # "map_full" => LoopRewritten'
    BY <1>1, <1>5, LoopIsRewritten
  <2>5. Len(items) \in 1 .. 3
    BY <2>2
  <2> HIDE DEF items
  <2> QED
    BY <1>1, <2>2, <2>3, <2>4, <2>5, EmitsKeepsRoom
<1>6. CASE RefuseCall(item)
  BY <1>1, <1>6, RoomStays DEF RefuseCall
<1> QED
  BY <1>1, <1>4, <1>5, <1>6 DEF RelocateCommon, RelocateInReach, Enlarge

LEMMA ChunkInitKeepsRoom ==
    ASSUME RelocationInv, RoomInv, MapSize >= MinBytes + 2, ChunkInit
    PROVE  RoomInv'
<1>1. CASE ChunkInitStarts
  <2>1. /\ phase' = "analyze" /\ uses' = uses + 1 /\ instructions' = <<>>
        /\ image' = <<>> /\ map' = map
    BY <1>1 DEF ChunkInitStarts
  <2>2. uses \in Nat /\ (uses = 0 => map = <<>>)
    BY Sizes DEF RelocationInv, ProgressInv, FirstMapInv
  <2>3. uses' <= 1 => uses = 0
    BY <2>1, <2>2
  <2> QED
    BY <2>1, <2>2, <2>3 DEF RoomInv, Relocated
<1>2. CASE Decode
  BY <1>2, DecodeKeepsRoom
<1>3. CASE DecodeFails
  BY <1>3, RoomStays DEF DecodeFails
<1>4. CASE AnalysisEnds
  BY <1>4, RoomStays DEF AnalysisEnds
<1>5. CASE Relocate
  BY <1>5, RelocateKeepsRoom
<1>6. CASE RelocationEnds
  BY <1>6, RoomStays DEF RelocationEnds
<1> QED
  BY <1>1, <1>2, <1>3, <1>4, <1>5, <1>6 DEF ChunkInit
=============================================================================
