---------------------------- MODULE MCMigration -----------------------------
(***************************************************************************)
(* Constants for Relocation and Migration.  The sizes are those of the     *)
(* code.  The targets are the starts of the function's first instructions  *)
(* (with 5 and 6 also the first one that stays), and code before and       *)
(* behind the function that is in reach of a short branch from there, but  *)
(* not from the chunk.                                                     *)
(***************************************************************************)
EXTENDS Migration

Make(form, lengths, targets) == [form : {form}, length : lengths, target : targets]

MCTargets == {-100, 0, 2, 4, 5, 6, 100}

MCInstructions ==
    Make("plain", {1, 2, 3, 15}, {0})
    \cup Make("jmp", {2}, {-100, 0, 4, 6})
    \cup Make("jcc", {2}, MCTargets)
    \cup Make("loop", {2, 3}, {0, 4, 100})
    \cup Make("jmp_near", {5}, {0, 1000})
    \cup Make("jcc_near", {6}, {2, 100})
    \cup Make("memory", {7}, {0, 3, 1000})
    \cup Make("call", {5}, {1000})

(* Negative numbers cannot be written in a configuration. *)
MCElsewhere == -5000
MCBefore == -2

(* Code of one-byte instructions, for a chunk that is used again. *)
MCShortInstructions == Make("plain", {1}, {0})
=============================================================================
