----------------------------- MODULE OutputPaging -----------------------------
(***************************************************************************)
(* Where a page of output ends: output of src/worker.rs, which pages       *)
(* through a file of any bytes that may still grow, and output_page of     *)
(* src/lib.rs, which pages through a complete text.                        *)
(*                                                                         *)
(* A byte is the number of bytes of the UTF-8 character that it begins, or *)
(* 0 if it can only continue one.                                          *)
(***************************************************************************)
EXTENDS Integers, Sequences

CONSTANTS
    CharSize,   \* 4 in the code: bytes of the longest character
    PageSize    \* 4096 in the code: bytes read for one page

ASSUME PagingAssumption ==
    /\ CharSize \in Nat \ {0}
    /\ PageSize \in Nat
    /\ PageSize >= CharSize
    /\ PageSize >= 2

Byte == 0 .. CharSize

Least(a, b) == IF a < b THEN a ELSE b

(* The character that begins at position i ends at or before position n,   *)
(* the bytes after the first being continuations.                          *)
CharWithin(bytes, i, n) ==
    /\ i + bytes[i] - 1 <= n
    /\ \A j \in i + 1 .. i + bytes[i] - 1 : bytes[j] = 0

(* The first n bytes are whole characters: std::str::from_utf8 accepts. *)
Whole(bytes, n) ==
    \A i \in 1 .. n :
      IF bytes[i] = 0
        THEN \E k \in 1 .. i - 1 : k + bytes[k] > i
        ELSE CharWithin(bytes, i, n)

IsText(bytes) == Whole(bytes, Len(bytes))

(* Utf8Error::valid_up_to *)
ValidUpTo(bytes) ==
    CHOOSE n \in 0 .. Len(bytes) :
      /\ Whole(bytes, n)
      /\ \A m \in n + 1 .. Len(bytes) : ~Whole(bytes, m)

(* Utf8Error::error_len is None: the rest is the beginning of a character. *)
CutOff(bytes) ==
    LET v == ValidUpTo(bytes) IN
    /\ v < Len(bytes)
    /\ bytes[v + 1] > Len(bytes) - v
    /\ \A j \in v + 2 .. Len(bytes) : bytes[j] = 0

-----------------------------------------------------------------------------
(* output of src/worker.rs: the encoding of a page and the bytes it takes  *)
(* of those that were read.                                                *)

HexPage(bytes) == [encoding |-> "hex", used |-> Least(Len(bytes), PageSize \div 2)]

(* Mutation: a page that ends inside a character is not text. *)
PageAllOrNothing(bytes) ==
    IF IsText(bytes)
      THEN [encoding |-> "utf8", used |-> Len(bytes)]
      ELSE HexPage(bytes)

Page(bytes) ==
    IF IsText(bytes)
      THEN [encoding |-> "utf8", used |-> Len(bytes)]
    ELSE IF CutOff(bytes) /\ ValidUpTo(bytes) > 0
      THEN [encoding |-> "utf8", used |-> ValidUpTo(bytes)]
    ELSE HexPage(bytes)

-----------------------------------------------------------------------------
(* output_page of src/lib.rs, on a text *)

IsCharBoundary(text, n) ==
    n \in 0 .. Len(text) /\ (n = Len(text) \/ text[n + 1] > 0)

(* end is lowered to the next boundary. *)
PageEnd(text, cursor, budget) ==
    LET end == Least(cursor + budget, Len(text)) IN
    CHOOSE n \in 0 .. end :
      /\ IsCharBoundary(text, n)
      /\ \A m \in n + 1 .. end : ~IsCharBoundary(text, m)

(* Answers InvalidCursor and InvalidBudget otherwise. *)
PageAllowed(text, cursor, budget) ==
    IsCharBoundary(text, cursor) /\ budget \in CharSize .. PageSize

=============================================================================
