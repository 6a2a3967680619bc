------------------------------ MODULE Buffers ------------------------------
(***************************************************************************)
(* The byte buffers of src/src/reader.c and src/src/writer.c.  An allocated *)
(* block is a sequence of cells as long as the allocation; offsets count    *)
(* from 0 as in C.  Reading outside a block yields Junk and writing outside *)
(* it is lost, so that an offset that has gone wrong shows in the data.     *)
(***************************************************************************)
EXTENDS Tinyframe

CONSTANT SizeMod  \* 2^w for the w bits of size_t

ASSUME SizeModAssumption == SizeMod \in Nat \ {0}

LeastOf(a, b) == IF a < b THEN a ELSE b

(* The n cells from offset at: &buf[at], n.                                 *)
Slice(b, at, n) ==
    [i \in 1..n |-> IF at + i \in 1..Len(b) THEN b[at + i] ELSE Junk]

(* memcpy(&buf[at], s, Len(s)).                                             *)
Overlay(b, at, s) ==
    [i \in 1..Len(b) |-> IF i - at \in 1..Len(s) THEN s[i - at] ELSE b[i]]

(* Mutant: a memmove that is one cell short.                                *)
MoveToStartShort(b, at, n) == Overlay(b, 0, Slice(b, at, n - 1))

(* memmove(buf, &buf[at], n).                                               *)
MoveToStart(b, at, n) == Overlay(b, 0, Slice(b, at, n))

(* realloc(buf, size): the cells that still fit are kept.                   *)
Realloc(b, size) ==
    [i \in 1..size |-> IF i <= Len(b) THEN b[i] ELSE Junk]

(* a + b in size_t.                                                         *)
Plus(a, b) == IF a + b < SizeMod THEN a + b ELSE a + b - SizeMod

(* Mutants: the increment taken for the new size; no expansion to max.      *)
ExpandedToInc(size, inc, max) == LeastOf(inc, max)
ExpandedNotToMax(size, inc, max) == IF size + inc > max THEN size ELSE size + inc

(* size + inc > max ? max : size + inc.                                     *)
Expanded(size, inc, max) == LeastOf(Plus(size, inc), max)

=============================================================================
