----------------------------- MODULE Migration ------------------------------
(***************************************************************************)
(* src/src/InlineHook.c, ZyrexMigrateThread, as ZyrexTransactionCommitEx   *)
(* calls it: a suspended thread that is in the first instructions of a     *)
(* function when its hook is attached, or in the code buffer of the chunk  *)
(* when the hook is removed, is moved to the other copy.  The chunk and    *)
(* its code are those of Relocation; one thread of the transaction's       *)
(* vector runs the function and its trampoline.                            *)
(***************************************************************************)
EXTENDS Relocation

CONSTANTS
    Elsewhere,      \* the address of code that is neither of the two copies
    Before,         \* an address just below the function
    CallbackJump,   \* address of the callback_jump of the chunk
    ContextFails    \* TRUE: the context of a thread cannot be read or set

ASSUME MigrationAssumption ==
    /\ {Elsewhere, Before, CallbackJump} \subseteq Int
    /\ Elsewhere < Before /\ Before < 0
    /\ ContextFails \in BOOLEAN

VARIABLES
    attached,       \* the function starts with the jump to the chunk
    ip,             \* the instruction pointer of the thread
    lost            \* ZyrexMigrateThread came to its ZYAN_UNREACHABLE

vars == <<rvars, attached, ip, lost>>

Init ==
    /\ RelocationInit
    /\ attached = FALSE
    /\ ip = Elsewhere
    /\ lost = FALSE

TypeOK ==
    /\ RelocationTypeOK
    /\ attached \in BOOLEAN
    /\ ip \in Int
    /\ lost \in BOOLEAN

-----------------------------------------------------------------------------
(* Starts of the instructions that were relocated, and of the next one. *)
Boundaries == {instructions[i].offset : i \in DOMAIN instructions} \cup {bytes_read}

(* The addresses of the function the thread can be at: once the hook is in *)
(* place, the bytes behind the start are those of the jump.                *)
SourceAddresses ==
    {a \in Boundaries : attached => a = 0 \/ a >= MinBytes}

(* The addresses of the chunk the thread can be at. *)
ChunkAddresses ==
    {Start(buffer[k]) : k \in {j \in DOMAIN buffer : Intact(j) /\ buffer[j].form # "bytes"}}

(* Code that is not in one of the copies is not told apart. *)
Place(a) == IF a \in Boundaries \cup ChunkAddresses THEN a ELSE Elsewhere

(* Where an instruction at the piece leads. *)
Leads(p) ==
    (IF p.form \in {"jmp", "jmp_near", "backjump"} THEN {} ELSE {Place(End(p))})
    \cup
    (IF p.form \in Branches \cup {"backjump"} THEN {Place(Goal(p))} ELSE {})

(* The thread executes an instruction: from the start of the hooked        *)
(* function by the callback jump to the callback, which may call the       *)
(* trampoline; from the trampoline to where its code leads.                *)
ThreadRuns ==
    /\ ~lost
    /\ \/ attached /\ ip = Elsewhere /\ ip' \in {0, Destination}
       \/ attached /\ ip = 0 /\ ip' = CallbackJump
       \/ /\ ip \in {CallbackJump, Before} \cup Boundaries
          /\ attached => ip # 0
          /\ ip' = Elsewhere
       \/ attached /\ \E k \in DOMAIN buffer :
            Start(buffer[k]) = ip /\ ip' \in Leads(buffer[k])
    /\ UNCHANGED <<rvars, attached, lost>>

-----------------------------------------------------------------------------
(* The lower bound is not looked at. *)
InRangeBelow(source, length) == ip <= source + length

(* The byte behind the source is left out. *)
InRangeExact(source, length) == source <= ip /\ ip < source + length

(* The instruction pointers that are looked up: the byte behind the source *)
(* is among them.                                                          *)
InRange(source, length) == source <= ip /\ ip <= source + length

(* source_offset, the source minus the instruction pointer, as a byte. *)
SourceOffset(source) == (source - ip) % 256

(* The items of the map that match the offset, in the direction of the     *)
(* commit of an installation or of a removal; the first one is used.       *)
Matches(from, offset) == {i \in DOMAIN map : map[i][from] = offset}

(* The instruction pointers ZyrexMigrateThread can leave the thread with:  *)
(* none if it comes to the ZYAN_UNREACHABLE.  The suspend count is what it *)
(* was.                                                                    *)
Migrated(source, length, from, destination, to) ==
    LET matches == Matches(from, SourceOffset(source))
    IN  IF ~InRange(source, length) THEN {ip}
        ELSE (IF matches = {} THEN {} ELSE {destination + map[Min(matches)][to]})
             \cup (IF ContextFails THEN {ip} ELSE {})

(* A thread of the vector is migrated, or lost. *)
Migrates(source, length, from, destination, to) ==
    LET outcomes == Migrated(source, length, from, destination, to)
    IN  \/ ip' \in outcomes /\ lost' = FALSE
        \/ outcomes = {} /\ ip' = ip /\ lost' = TRUE

-----------------------------------------------------------------------------
(* The thread is suspended wherever it happens to be while the function is *)
(* not hooked.                                                             *)
IsSuspended ==
    /\ phase = "complete" /\ ~attached /\ ~lost
    /\ ip' \in Boundaries \cup {Before, Elsewhere} /\ ip' # ip
    /\ UNCHANGED <<rvars, attached, lost>>

(* CommitEx attaches the hook: the thread is migrated to the chunk, and    *)
(* the jump is written.                                                    *)
CommitAttach ==
    /\ phase = "complete" /\ ~attached /\ ~lost
    /\ Migrates(0, bytes_read, "source", Destination, "destination")
    /\ attached' = TRUE
    /\ UNCHANGED rvars

(* CommitEx removes the hook: the thread is migrated back, the             *)
(* instructions are restored and the chunk is freed.                       *)
CommitRemove ==
    /\ attached /\ ~lost
    /\ Migrates(Destination, bytes_written, "destination", 0, "source")
    /\ attached' = FALSE
    /\ Release

Next ==
    \/ ChunkInit /\ ip = Elsewhere /\ UNCHANGED <<attached, ip, lost>>
    \/ ThreadRuns
    \/ IsSuspended
    \/ CommitAttach
    \/ CommitRemove

Spec == Init /\ [][Next]_vars

-----------------------------------------------------------------------------
(* Wherever a thread of the vector was when hooks were attached and        *)
(* removed, and whatever it has executed since, its next instruction       *)
(* exists: it is neither inside the bytes that the jump has overwritten    *)
(* nor in a chunk that was freed.  (The callback jump, which migration     *)
(* does not look at, and a loop that had to be rewritten are left out.)    *)
NextInstructionExists ==
    ~lost /\ ~LoopRewritten =>
        ip \in SourceAddresses \cup {Elsewhere, Before, CallbackJump}
               \cup (IF attached THEN ChunkAddresses ELSE {})

(* A migration takes the thread from an instruction to its copy or from a  *)
(* copy to its instruction, and nowhere else; it leaves a thread alone     *)
(* that is in neither (Transaction.c:403-417, 427-441).                    *)
MigrationFaithful ==
    [][attached' # attached /\ ip' # ip =>
        \E i \in DOMAIN instructions :
            {ip, ip'} = {instructions[i].offset, Destination + image[i]}]_vars

(* InlineHook.c:133-134: that a thread in the code that is patched is at   *)
(* no instruction of the map "should never happen".  So a thread that is   *)
(* at a relocated instruction, or at the copy of one, is found.            *)
MigrationFindsInstruction ==
    lost => \A i \in DOMAIN instructions :
                ip \notin {instructions[i].offset, Destination + image[i]}
=============================================================================
