----------------------------- MODULE Relocation -----------------------------
(***************************************************************************)
(* src/src/Relocation.c: how the first instructions of a function are      *)
(* moved to the code buffer of a trampoline chunk, and the part of         *)
(* ZyrexTrampolineChunkInit (Trampoline.c) around it.  The chunk is used   *)
(* for one function after the other.                                       *)
(*                                                                         *)
(* Addresses are relative to the function.  An instruction is known by its *)
(* form, its length and, if it has a relative operand, its target; what    *)
(* the buffer holds is the sequence of the instructions that were written  *)
(* to it, in the order of the writes, each with its displacement.          *)
(***************************************************************************)
EXTENDS Integers, SequencesExt

CONSTANTS
    Instructions,       \* what the function may be made of, see Instruction
    Destination,        \* address of the code buffer of the chunk
    MinBytes,           \* min_bytes_to_reloc: ZYREX_SIZEOF_RELATIVE_JUMP
    CodeSize,           \* room for instructions in the buffer, without the backjump
    BackjumpSize,       \* ZYREX_SIZEOF_ABSOLUTE_JUMP
    MapSize,            \* number of items of the translation map
    MaxUses             \* bound: how often the chunk is used

(* The branches are those with an 8-bit operand, except the near ones;     *)
(* loop stands for JCXZ, LOOP and their kin, memory for an instruction     *)
(* with an operand relative to the instruction pointer.                    *)
Branches == {"jmp", "jcc", "loop", "jmp_near", "jcc_near"}

Forms == Branches \cup {"plain", "call", "memory"}

(* An instruction without a relative operand has no use for the target. *)
Instruction == [form : Forms, length : 1 .. 15, target : Int]

(* The bytes of the relative operand. *)
OperandSize(form) ==
    IF form \in {"jmp", "jcc", "loop"} THEN 1 ELSE IF form = "plain" THEN 0 ELSE 4

ASSUME RelocationAssumption ==
    /\ Instructions \subseteq Instruction
    /\ Destination \in Int
    /\ MinBytes \in Nat \ {0}
    /\ CodeSize \in Nat
    /\ BackjumpSize \in Nat \ {0}
    /\ MapSize \in Nat
    /\ MaxUses \in Nat

(* An operand comes after an opcode, which of a LOOP has so few prefixes   *)
(* that it becomes no longer than the longest instruction.                 *)
ASSUME LengthsAssumption ==
    \A i \in Instructions :
        /\ i.length > OperandSize(i.form)
        /\ i.form = "loop" => i.length + 7 <= 15

(* Trampoline.h:51-59: the buffer has room for an instruction that starts  *)
(* at the last byte, and for the bytes before it after they have become    *)
(* three times as many.  Two offsets in it are less than half a byte apart.*)
ASSUME CodeSizeAssumption == CodeSize \in 3 * (MinBytes - 1) + 15 .. 125

(* The buffer is memory of its own: neither are the function's first       *)
(* instructions in it, nor does one of them refer to it.                   *)
ASSUME BufferAssumption ==
    LET Buffer == Destination .. Destination + CodeSize
    IN  /\ \A a \in 0 .. MinBytes + 14 : a \notin Buffer
        /\ \A i \in Instructions : i.form # "plain" => i.target \notin Buffer

VARIABLES
    phase,          \* how far ChunkInit is, see Phases
    uses,           \* how often the chunk was taken
    instructions,   \* context.instructions, each with its address_offset
    bytes_read,     \* context.bytes_read
    bytes_written,  \* context.bytes_written
    map,            \* the items of the translation map, up to its count
    buffer,         \* what was written to the code buffer
    image           \* history: the offset each instruction was relocated to

rvars == <<phase, uses, instructions, bytes_read, bytes_written, map, buffer, image>>

(* The chunk is not in use; its code is analyzed, relocated; the chunk is  *)
(* complete; ChunkInit failed, or an assertion did.                        *)
Phases == {"free", "analyze", "relocate", "complete", "failed", "map_full"}

Piece == [at : Nat, length : Nat, form : Forms \cup {"backjump", "bytes"}, disp : Int]

RelocationTypeOK ==
    /\ phase \in Phases
    /\ uses \in 0 .. MaxUses
    /\ bytes_read \in Nat /\ bytes_written \in Nat
    /\ \A i \in DOMAIN instructions : instructions[i].offset \in 0 .. MinBytes - 1
    /\ map \in Seq([source : Nat, destination : Nat])
    /\ buffer \in Seq(Piece)
    /\ image \in Seq(Nat)

RelocationInit ==
    /\ phase = "free"
    /\ uses = 0
    /\ instructions = <<>>
    /\ bytes_read = 0
    /\ bytes_written = 0
    /\ map = <<>>
    /\ buffer = <<>>
    /\ image = <<>>

-----------------------------------------------------------------------------
(* Analysis *)

(* A caller takes the chunk.  The translation map stays as it is. *)
ChunkInitStarts ==
    /\ phase = "free" /\ uses < MaxUses
    /\ phase' = "analyze"
    /\ uses' = uses + 1
    /\ instructions' = <<>> /\ buffer' = <<>> /\ image' = <<>>
    /\ bytes_read' = 0 /\ bytes_written' = 0
    /\ UNCHANGED map

(* The offset of the instruction that is decoded next. *)
Offset == IF instructions = <<>> THEN 0
          ELSE Last(instructions).offset + Last(instructions).length

(* The first pass stops one byte late. *)
NeedsMoreLate(offset) == offset <= MinBytes

NeedsMore(offset) == offset < MinBytes

Relative(item) == item.form # "plain"

(* No instruction has a target in the middle of another one. *)
Between(a, item) == item.offset < a /\ a < item.offset + item.length

Aligned(item) ==
    \A other \in Range(instructions) \cup {item} :
        /\ Relative(item) => ~Between(item.target, other)
        /\ Relative(other) => ~Between(other.target, item)

(* The first pass of ZyrexAnalyzeCode decodes one more instruction. *)
Decode ==
    /\ phase = "analyze" /\ NeedsMore(Offset)
    /\ \E instruction \in Instructions :
        LET item == [offset |-> Offset, form |-> instruction.form,
                     length |-> instruction.length, target |-> instruction.target]
        IN  Aligned(item) /\ instructions' = Append(instructions, item)
    /\ UNCHANGED <<phase, uses, bytes_read, bytes_written, map, buffer, image>>

DecodeFails ==
    /\ phase = "analyze" /\ NeedsMore(Offset)
    /\ phase' = "failed"
    /\ UNCHANGED <<uses, instructions, bytes_read, bytes_written, map, buffer, image>>

AnalysisEnds ==
    /\ phase = "analyze" /\ ~NeedsMore(Offset)
    /\ phase' = "relocate"
    /\ UNCHANGED <<uses, instructions, bytes_read, bytes_written, map, buffer, image>>

(* The second pass: the target is the start of an analyzed instruction. *)
HasInternalTarget(item) ==
    Relative(item) /\ \E other \in Range(instructions) : other.offset = item.target

HasExternalTarget(item) == Relative(item) /\ ~HasInternalTarget(item)

-----------------------------------------------------------------------------
(* Relocation of one instruction *)

(* What is left of a displacement in an operand of the form.  Those of 32  *)
(* bits are in reach: Create looks for a chunk that is near the targets    *)
(* (LiveChunksReach of the module Trampoline).                             *)
Truncate(form, disp) ==
    IF form \in {"jmp", "jcc", "loop"} THEN ((disp + 128) % 256) - 128 ELSE disp

Displacement(form, from, to) == Truncate(form, to - from)

(* The address behind an instruction of the length, if it is written next. *)
Behind(length) == Destination + bytes_written + length

(* The target of the instruction is out of its reach at the offset. *)
OutOfReach(item, offset) ==
    LET distance == item.target - (Destination + offset + item.length)
    IN  Truncate(item.form, distance) # distance

(* ZyrexShouldRewriteBranchInstruction *)
ShouldRewrite(item) == OutOfReach(item, bytes_written)

(* ZyrexUpdateRelocationContext for the items, with the pieces that were   *)
(* written and the bytes that count as written.  The assertion fails if an *)
(* item finds the map full.                                                *)
Emits(pieces, items, written) ==
    IF Len(map) + Len(items) > MapSize
    THEN phase' = "map_full" /\ UNCHANGED <<bytes_read, bytes_written, map, buffer, image>>
    ELSE /\ buffer' = buffer \o pieces
         /\ map' = map \o items
         /\ bytes_written' = bytes_written + written
         /\ bytes_read' = bytes_read + instructions[Len(image) + 1].length
         /\ image' = Append(image, bytes_written)
         /\ UNCHANGED phase

Entry(destination) == [source |-> bytes_read, destination |-> destination]

(* One piece, and one item with the offset behind it. *)
EmitsOneLate(form, length, disp) ==
    Emits(<<[at |-> bytes_written, length |-> length, form |-> form, disp |-> disp]>>,
          <<Entry(bytes_written + length)>>, length)

(* One piece, one item. *)
EmitsOne(form, length, disp) ==
    Emits(<<[at |-> bytes_written, length |-> length, form |-> form, disp |-> disp]>>,
          <<Entry(bytes_written)>>, length)

(* ZyrexRelocateCommonInstruction: copied as it is. *)
RelocateCommon(item) ==
    /\ ~HasExternalTarget(item) /\ item.form # "call"
    /\ EmitsOne(item.form, item.length, item.target - item.offset - item.length)

(* The displacement from the new position of the instruction. *)
Redisplaced(item) == Displacement(item.form, Behind(item.length), item.target)

(* A branch with its target in reach, or a memory operand: copied, with a  *)
(* new displacement.                                                       *)
RelocateInReach(item) ==
    /\ HasExternalTarget(item)
    /\ item.form = "memory" \/ (item.form \in Branches /\ ~ShouldRewrite(item))
    /\ EmitsOne(item.form, item.length, Redisplaced(item))

(* A branch that has a form with a 32-bit operand. *)
Enlarge(item) ==
    /\ HasExternalTarget(item) /\ item.form \in {"jmp", "jcc"} /\ ShouldRewrite(item)
    /\ LET length == IF item.form = "jmp" THEN 5 ELSE 6
           form == IF item.form = "jmp" THEN "jmp_near" ELSE "jcc_near"
       IN  EmitsOne(form, length, Displacement(form, Behind(length), item.target))

(* A branch that has none: a branch over a short jump to a near jump.  The *)
(* items of the jumps are placed by a counter that has moved on, and five  *)
(* bytes are counted as two.                                               *)
RewriteLoop(item) ==
    /\ HasExternalTarget(item) /\ item.form = "loop" /\ ShouldRewrite(item)
    /\ LET W == bytes_written
           L == item.length
       IN  Emits(<<[at |-> W, length |-> L, form |-> "loop", disp |-> 2],
                   [at |-> W + L, length |-> 2, form |-> "jmp", disp |-> 5],
                   [at |-> W + L + 2, length |-> 5, form |-> "jmp_near",
                    disp |-> item.target - Behind(L + 2 + 5)]>>,
                 <<Entry(W), Entry(W + L + L), Entry(W + L + 2 + L + 2)>>,
                 L + 2 + 2)

(* A CALL is refused, whatever its target. *)
RefuseCall(item) ==
    /\ item.form = "call"
    /\ phase' = "failed"
    /\ UNCHANGED <<bytes_read, bytes_written, map, buffer, image>>

(* An iteration of the loop of ZyrexRelocateCode. *)
Relocate ==
    /\ phase = "relocate" /\ Len(image) < Len(instructions)
    /\ LET item == instructions[Len(image) + 1]
       IN  \/ RelocateCommon(item)
           \/ RelocateInReach(item)
           \/ Enlarge(item)
           \/ RewriteLoop(item)
           \/ RefuseCall(item)
    /\ UNCHANGED <<uses, instructions>>

-----------------------------------------------------------------------------
(* The end of the relocation *)

(* ZyrexGetRelocatedInstructionOffset: the first item of the instruction. *)
RelocatedOffset(offset) ==
    map[CHOOSE i \in DOMAIN map :
            /\ map[i].source = offset
            /\ \A j \in 1 .. i - 1 : map[j].source # offset].destination

(* The operand of the instruction is overwritten where the map says that   *)
(* the instruction is; something else may be there.                        *)
Patch(pieces, at, item, disp) ==
    LET size == OperandSize(item.form)
        hits == {k \in DOMAIN pieces : pieces[k].at = at /\ pieces[k].form = item.form}
    IN  IF hits # {}
        THEN [k \in DOMAIN pieces |->
                IF k \in hits THEN [pieces[k] EXCEPT !.disp = disp] ELSE pieces[k]]
        ELSE Append(pieces, [at |-> at + item.length - size, length |-> size,
                             form |-> "bytes", disp |-> 0])

(* The displacements of copies are left as they are. *)
NoneUpdated == buffer

(* An iteration of ZyrexUpdateInstructionOffsets. *)
OffsetUpdated(pieces, item) ==
    IF ~HasInternalTarget(item) THEN pieces
    ELSE LET at == RelocatedOffset(item.offset)
             to == RelocatedOffset(item.target)
         IN  Patch(pieces, at, item, Displacement(item.form, at + item.length, to))

(* ZyrexUpdateInstructionOffsets. *)
OffsetsUpdated == FoldLeft(OffsetUpdated, buffer, instructions)

(* The offsets are updated, and ChunkInit writes the backjump. *)
RelocationEnds ==
    /\ phase = "relocate" /\ Len(image) = Len(instructions)
    /\ phase' = "complete"
    /\ buffer' = Append(OffsetsUpdated,
                        [at |-> bytes_written, length |-> BackjumpSize, form |-> "backjump",
                         disp |-> bytes_read - Behind(BackjumpSize)])
    /\ UNCHANGED <<uses, instructions, bytes_read, bytes_written, map, image>>

(* ZyrexTrampolineFree marks the chunk as unused, and no more. *)
Release ==
    /\ phase = "complete"
    /\ phase' = "free"
    /\ UNCHANGED <<uses, instructions, bytes_read, bytes_written, map, buffer, image>>

ChunkInit ==
    \/ ChunkInitStarts
    \/ Decode \/ DecodeFails \/ AnalysisEnds
    \/ Relocate
    \/ RelocationEnds

-----------------------------------------------------------------------------
(* Meaning of the code in the buffer *)

(* No later write has hit the piece. *)
Intact(k) ==
    \A j \in k + 1 .. Len(buffer) :
        \/ buffer[j].at >= buffer[k].at + buffer[k].length
        \/ buffer[k].at >= buffer[j].at + buffer[j].length

(* The addresses at which execution enters and leaves a piece. *)
Start(p) == Destination + p.at
End(p) == Start(p) + p.length
Goal(p) == End(p) + p.disp

(* The pieces that are the copy of no instruction of the function. *)
Glue == {k \in DOMAIN buffer : Intact(k) /\ buffer[k].at \notin Range(image)}

(* Where execution at the address goes if there is a jump the relocation   *)
(* added; at most two of them follow one another.                          *)
Hop(a) ==
    IF \E k \in Glue : Start(buffer[k]) = a
    THEN Goal(buffer[CHOOSE k \in Glue : Start(buffer[k]) = a])
    ELSE a

Follow(a) == Hop(Hop(a))

(* Where the instruction at an address of the function is executed now. *)
Moved(a) ==
    IF \E i \in DOMAIN instructions : instructions[i].offset = a
    THEN Destination + image[CHOOSE i \in DOMAIN instructions : instructions[i].offset = a]
    ELSE a

(* The copy of an instruction is whole, and whatever the instruction goes  *)
(* on to or refers to, the copy goes on or refers to where that is now.    *)
Equivalent(i) ==
    LET item == instructions[i]
    IN  \E k \in DOMAIN buffer :
            LET p == buffer[k]
            IN  /\ p.at = image[i] /\ Intact(k)
                /\ item.form \notin {"jmp", "jmp_near"} =>
                    Follow(End(p)) = Moved(item.offset + item.length)
                /\ item.form \in Branches => Follow(Goal(p)) = Moved(item.target)
                /\ item.form = "memory" => Goal(p) = Moved(item.target)

(* A branch without a form with a 32-bit operand was rewritten. *)
LoopRewritten ==
    \E i \in DOMAIN image :
        /\ HasExternalTarget(instructions[i]) /\ instructions[i].form = "loop"
        /\ OutOfReach(instructions[i], image[i])

-----------------------------------------------------------------------------
(* The trampoline does what the function's first instructions did, however *)
(* they refer to one another and however far their targets are             *)
(* (Relocation.c:784-795), unless a LOOP or JCXZ had to be rewritten.      *)
BranchesEquivalent ==
    phase = "complete" /\ ~LoopRewritten => \A i \in DOMAIN instructions : Equivalent(i)

(* Instructions and backjump fit into the buffer, as Trampoline.h:51-66    *)
(* computes its size: the assertions of Relocation.c:899 and               *)
(* Trampoline.c:720 would let them be a backjump too long.                 *)
BufferHolds ==
    \A k \in DOMAIN buffer :
        buffer[k].at + buffer[k].length <=
            CodeSize + (IF buffer[k].form = "backjump" THEN BackjumpSize ELSE 0)

(* The first item of the map for an instruction says where its copy is,    *)
(* also where the instruction became three: what ZyrexMigrateThread and    *)
(* the update of internal branches rely on.                                *)
MapIsImage ==
    \A i \in DOMAIN image : RelocatedOffset(instructions[i].offset) = image[i]

(* For the first function a chunk is used for, the map has room for an     *)
(* item per instruction and for one branch that becomes three              *)
(* (Trampoline.h:68-79), as Relocation.c:454-455 asserts.                  *)
MapSuffices == uses <= 1 /\ ~LoopRewritten => phase # "map_full"

(* Relocation.c:454-455 asserts that the map has room for another item,    *)
(* whatever the chunk was used for before.                                 *)
MapHasRoom == phase # "map_full"

(* Relocation.c:538-551 says that the rewritten branch goes to its target  *)
(* if it is taken, and to the next instruction if it is not.               *)
CodeEquivalent ==
    phase = "complete" => \A i \in DOMAIN instructions : Equivalent(i)
=============================================================================
