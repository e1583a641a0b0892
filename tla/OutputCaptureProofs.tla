------------------------- MODULE OutputCaptureProofs -------------------------
(***************************************************************************)
(* What a client relies on who pages through an output with the cursor it  *)
(* was given last: first of a page by itself, for bytes of any number and  *)
(* kind, then of the pages of a task whose output is still being captured. *)
(***************************************************************************)
EXTENDS OutputCapture, SequenceTheorems, WellFoundedInduction, TLAPS

Bytes == Seq(Byte)

LEMMA BytesDomain ==
    ASSUME NEW bytes \in Bytes
    PROVE  /\ Len(bytes) \in Nat
           /\ DOMAIN bytes = 1 .. Len(bytes)
           /\ \A i \in 1 .. Len(bytes) : bytes[i] \in 0 .. CharSize
           /\ CharSize \in Nat \ {0}
<1>1. /\ Len(bytes) \in Nat
      /\ DOMAIN bytes = 1 .. Len(bytes)
      /\ bytes \in [1 .. Len(bytes) -> Byte]
  BY LenProperties DEF Bytes
<1> QED
  BY <1>1, PagingAssumption DEF Byte

(* A nonempty set of naturals has a least element. *)
LEMMA HasLeast ==
    ASSUME NEW T, T \subseteq Nat, T # {}
    PROVE  \E x \in T : \A y \in T : x <= y
<1>1. \E x \in T : \A y \in T : ~ (<<y, x>> \in OpToRel(<, Nat))
  BY WFMin, NatLessThanWellFounded, Zenon
<1>2. PICK x \in T : \A y \in T : ~ (<<y, x>> \in OpToRel(<, Nat))
  BY <1>1
<1>3. ASSUME NEW y \in T
      PROVE  x <= y
  <2>1. x \in Nat /\ y \in Nat
    OBVIOUS
  <2>2. ~ (<<y, x>> \in OpToRel(<, Nat))
    BY <1>2
  <2>3. ~ (y < x)
    BY <2>1, <2>2 DEF OpToRel
  <2> QED
    BY <2>1, <2>3
<1> QED
  BY <1>3

(* A set of naturals up to n has a greatest element. *)
LEMMA HasGreatest ==
    ASSUME NEW n \in Nat, NEW S, S \subseteq 0 .. n, S # {}
    PROVE  \E x \in S : \A y \in x + 1 .. n : y \notin S
<1> DEFINE T == {n - x : x \in S}
<1>1. T \subseteq Nat /\ T # {}
  <2>1. \A x \in S : n - x \in Nat
    OBVIOUS
  <2>2. PICK x \in S : TRUE
    OBVIOUS
  <2> QED
    BY <2>1, <2>2
<1>2. PICK z \in T : \A y \in T : z <= y
  BY <1>1, HasLeast
<1>3. PICK x \in S : z = n - x
  OBVIOUS
<1>4. \A y \in S : n - x <= n - y
  BY <1>2, <1>3
<1>5. x \in Int /\ \A y \in S : y \in Int
  OBVIOUS
<1>6. \A y \in x + 1 .. n : y \notin S
  BY <1>4, <1>5
<1> QED
  BY <1>6


-----------------------------------------------------------------------------
(***************************************************************************)
(* output of src/worker.rs                                                 *)
(***************************************************************************)

(* ValidUpTo names the longest beginning that is whole characters. *)
LEMMA ValidUpToIsLongest ==
    ASSUME NEW bytes \in Bytes
    PROVE  /\ ValidUpTo(bytes) \in 0 .. Len(bytes)
           /\ Whole(bytes, ValidUpTo(bytes))
           /\ \A m \in ValidUpTo(bytes) + 1 .. Len(bytes) : ~Whole(bytes, m)
<1> DEFINE S == {n \in 0 .. Len(bytes) : Whole(bytes, n)}
<1>1. Len(bytes) \in Nat
  BY BytesDomain
<1>2. Whole(bytes, 0)
  BY DEF Whole
<1>3. S \subseteq 0 .. Len(bytes) /\ S # {}
  BY <1>1, <1>2
<1>4. \E x \in S : \A y \in x + 1 .. Len(bytes) : y \notin S
  BY <1>1, <1>3, HasGreatest
<1>5. \E n \in 0 .. Len(bytes) :
        /\ Whole(bytes, n)
        /\ \A m \in n + 1 .. Len(bytes) : ~Whole(bytes, m)
  BY <1>1, <1>4
<1> QED
  BY <1>5 DEF ValidUpTo

(* Whatever bytes a reader finds at its cursor, its page takes at least    *)
(* one of them and no more than were read: a client that follows           *)
(* next_cursor neither turns on the spot nor skips a byte, also in binary  *)
(* output and where the file ends inside a character.                      *)
THEOREM PageMovesOn ==
    ASSUME NEW bytes \in Bytes, bytes # << >>
    PROVE  Page(bytes).used \in 1 .. Len(bytes)
<1>1. Len(bytes) \in Nat \ {0}
  BY BytesDomain, EmptySeq DEF Bytes
<1>2. PageSize \div 2 \in Nat \ {0}
  BY PagingAssumption
<1>3. HexPage(bytes).used \in 1 .. Len(bytes)
  BY <1>1, <1>2 DEF HexPage, Least
<1>4. ValidUpTo(bytes) \in 0 .. Len(bytes)
  BY ValidUpToIsLongest
<1>5. CASE IsText(bytes)
  BY <1>1, <1>5 DEF Page
<1>6. CASE ~IsText(bytes) /\ CutOff(bytes) /\ ValidUpTo(bytes) > 0
  BY <1>1, <1>4, <1>6 DEF Page
<1>7. CASE ~IsText(bytes) /\ ~(CutOff(bytes) /\ ValidUpTo(bytes) > 0)
  <2>1. Page(bytes) = HexPage(bytes)
    BY <1>7 DEF Page
  <2> QED
    BY <1>3, <2>1
<1> QED
  BY <1>5, <1>6, <1>7

(* A page that is called utf8 consists of whole characters: no character   *)
(* is torn between two pages of text.                                      *)
THEOREM TextPageIsWhole ==
    ASSUME NEW bytes \in Bytes, Page(bytes).encoding = "utf8"
    PROVE  Whole(bytes, Page(bytes).used)
<1>1. CASE IsText(bytes)
  BY <1>1 DEF Page, IsText
<1>2. CASE ~IsText(bytes) /\ CutOff(bytes) /\ ValidUpTo(bytes) > 0
  BY <1>2, ValidUpToIsLongest DEF Page
<1>3. CASE ~IsText(bytes) /\ ~(CutOff(bytes) /\ ValidUpTo(bytes) > 0)
  <2>1. Page(bytes).encoding = "hex"
    BY <1>3 DEF Page, HexPage
  <2> QED
    BY <2>1
<1> QED
  BY <1>1, <1>2, <1>3

(* Whole characters before a place and whole characters after it are whole *)
(* characters together.                                                    *)
LEMMA WholeJoins ==
    ASSUME NEW text \in Bytes, NEW bytes \in Bytes,
           NEW k \in 0 .. Len(text), NEW n \in 0 .. Len(bytes),
           k + n <= Len(text),
           \A i \in 1 .. n : bytes[i] = text[k + i],
           Whole(text, k), Whole(bytes, n)
    PROVE  Whole(text, k + n)
<1>1. /\ Len(text) \in Nat /\ Len(bytes) \in Nat
      /\ \A i \in 1 .. Len(text) : text[i] \in Nat
      /\ \A i \in 1 .. Len(bytes) : bytes[i] \in Nat
  BY BytesDomain
<1> SUFFICES ASSUME NEW i \in 1 .. k + n
             PROVE  IF text[i] = 0
                      THEN \E q \in 1 .. i - 1 : q + text[q] > i
                      ELSE CharWithin(text, i, k + n)
  BY DEF Whole
<1>2. CASE i <= k
  <2>1. i \in 1 .. k
    BY <1>1, <1>2
  <2>2. CASE text[i] = 0
    BY <2>1, <2>2 DEF Whole
  <2>3. CASE text[i] # 0
    <3>1. CharWithin(text, i, k)
      BY <2>1, <2>3 DEF Whole
    <3> QED
      BY <1>1, <2>1, <2>3, <3>1 DEF CharWithin
  <2> QED
    BY <2>2, <2>3
<1>3. CASE i > k
  <2> DEFINE j == i - k
  <2>1. j \in 1 .. n /\ i = k + j
    BY <1>1, <1>3
  <2>2. bytes[j] = text[i] /\ bytes[j] \in Nat
    BY <1>1, <2>1
  <2> HIDE DEF j
  <2>3. CASE text[i] = 0
    <3>1. PICK q \in 1 .. j - 1 : q + bytes[q] > j
      BY <2>1, <2>2, <2>3 DEF Whole
    <3>2. bytes[q] = text[k + q] /\ bytes[q] \in Nat /\ k + q \in 1 .. i - 1
      BY <1>1, <2>1, <3>1
    <3>3. (k + q) + text[k + q] > i
      BY <1>1, <2>1, <3>1, <3>2
    <3> QED
      BY <2>3, <3>2, <3>3
  <2>4. CASE text[i] # 0
    <3>1. CharWithin(bytes, j, n)
      BY <2>1, <2>2, <2>4 DEF Whole
    <3>2. j + bytes[j] - 1 <= n /\ \A l \in j + 1 .. j + bytes[j] - 1 : bytes[l] = 0
      BY <3>1 DEF CharWithin
    <3>3. i + text[i] - 1 <= k + n
      BY <2>1, <2>2, <3>2
    <3>4. ASSUME NEW l \in i + 1 .. i + text[i] - 1
          PROVE  text[l] = 0
      <4>1. l - k \in j + 1 .. j + bytes[j] - 1 /\ l - k \in 1 .. n
        BY <2>1, <2>2, <3>2
      <4>2. bytes[l - k] = 0 /\ bytes[l - k] = text[k + (l - k)]
        BY <3>2, <4>1
      <4>3. k + (l - k) = l
        BY <2>1, <2>2
      <4> QED
        BY <4>2, <4>3
    <3>5. CharWithin(text, i, k + n)
      BY <3>3, <3>4 DEF CharWithin
    <3> QED
      BY <2>4, <3>5
  <2> QED
    BY <2>3, <2>4
<1> QED
  BY <1>1, <1>2, <1>3

(* Whole characters and one more are whole characters. *)
LEMMA WholeGrows ==
    ASSUME NEW bytes \in Bytes, NEW v \in 0 .. Len(bytes) - 1, Whole(bytes, v),
           NEW x \in Nat \ {0}, x = bytes[v + 1], v + x <= Len(bytes),
           \A j \in v + 2 .. v + x : bytes[j] = 0
    PROVE  Whole(bytes, v + x)
<1>1. Len(bytes) \in Nat /\ \A i \in 1 .. Len(bytes) : bytes[i] \in Nat
  BY BytesDomain
<1> SUFFICES ASSUME NEW i \in 1 .. v + x
             PROVE  IF bytes[i] = 0
                      THEN \E q \in 1 .. i - 1 : q + bytes[q] > i
                      ELSE CharWithin(bytes, i, v + x)
  BY DEF Whole
<1>2. CASE i <= v
  <2>1. i \in 1 .. v
    BY <1>2
  <2>2. CASE bytes[i] = 0
    BY <2>1, <2>2 DEF Whole
  <2>3. CASE bytes[i] # 0
    <3>1. CharWithin(bytes, i, v)
      BY <2>1, <2>3 DEF Whole
    <3> QED
      BY <1>1, <2>1, <2>3, <3>1 DEF CharWithin
  <2> QED
    BY <2>2, <2>3
<1>3. CASE i = v + 1
  BY <1>1, <1>3 DEF CharWithin
<1>4. CASE i > v + 1
  <2>1. bytes[i] = 0
    BY <1>1, <1>4
  <2>2. v + 1 \in 1 .. i - 1 /\ (v + 1) + bytes[v + 1] > i
    BY <1>1, <1>4
  <2> QED
    BY <2>1, <2>2
<1> QED
  BY <1>1, <1>2, <1>3, <1>4

(* Whoever reads a text from the end of a character gets text: either the  *)
(* page ends with a character, or some characters are whole and one is cut *)
(* off.  This is where a page must be as long as the longest character.    *)
LEMMA PageOfTextIsText ==
    ASSUME NEW text \in Bytes, IsText(text),
           NEW k \in 0 .. Len(text), Whole(text, k),
           NEW bytes \in Bytes,
           Len(bytes) = Least(k + PageSize, Len(text)) - k,
           \A i \in 1 .. Len(bytes) : bytes[i] = text[k + i]
    PROVE  Page(bytes).encoding = "utf8"
<1> DEFINE L == Len(bytes)
           v == ValidUpTo(bytes)
<1>1. /\ Len(text) \in Nat /\ L \in Nat /\ k + L <= Len(text)
      /\ \A i \in 1 .. Len(text) : text[i] \in 0 .. CharSize
      /\ \A i \in 1 .. L : bytes[i] \in 0 .. CharSize
      /\ CharSize \in Nat \ {0} /\ PageSize \in Nat /\ CharSize <= PageSize
  <2>1. /\ Len(text) \in Nat /\ L \in Nat
        /\ \A i \in 1 .. Len(text) : text[i] \in 0 .. CharSize
        /\ \A i \in 1 .. L : bytes[i] \in 0 .. CharSize
    BY BytesDomain
  <2>2. CharSize \in Nat \ {0} /\ PageSize \in Nat /\ CharSize <= PageSize
    BY PagingAssumption
  <2>3. k + L <= Len(text)
    BY <2>1, <2>2 DEF Least
  <2> QED
    BY <2>1, <2>2, <2>3
<1>2. CASE IsText(bytes)
  BY <1>2 DEF Page
<1>3. CASE ~IsText(bytes)
  <2>1. /\ v \in 0 .. L /\ Whole(bytes, v)
        /\ \A m \in v + 1 .. L : ~Whole(bytes, m)
    BY ValidUpToIsLongest
  <2> HIDE DEF v
  <2>2. v < L
    BY <1>1, <1>3, <2>1 DEF IsText
  <2> DEFINE i == k + (v + 1)
             x == bytes[v + 1]
  <2>3. i \in 1 .. Len(text) /\ x = text[i] /\ x \in Nat
    BY <1>1, <2>1, <2>2
  <2>4. Whole(text, k + v)
    <3>1. v \in 0 .. Len(bytes) /\ k + v <= Len(text)
      BY <1>1, <2>1
    <3>2. \A j \in 1 .. v : bytes[j] = text[k + j]
      BY <1>1, <2>1
    <3> QED
      BY <2>1, <3>1, <3>2, WholeJoins
  <2> HIDE DEF x
  <2>5. x # 0
    <3> SUFFICES ASSUME text[i] = 0 PROVE FALSE
      BY <2>3
    <3>1. PICK q \in 1 .. i - 1 : q + text[q] > i
      BY <2>3 DEF IsText, Whole
    <3>2. q \in 1 .. k + v /\ text[q] \in Nat /\ text[q] # 0
      BY <1>1, <2>1, <2>2, <2>3, <3>1
    <3>3. CharWithin(text, q, k + v)
      BY <2>4, <3>2 DEF Whole
    <3>4. q + text[q] - 1 <= k + v
      BY <3>3 DEF CharWithin
    <3> QED
      BY <1>1, <2>1, <3>1, <3>2, <3>4
  <2>6. CharWithin(text, i, Len(text))
    BY <2>3, <2>5 DEF IsText, Whole
  <2>7. k + v + x <= Len(text) /\ \A j \in i + 1 .. i + x - 1 : text[j] = 0
    BY <1>1, <2>1, <2>3, <2>6 DEF CharWithin
  <2>8. \A j \in v + 2 .. v + x : j <= L => bytes[j] = 0
    <3> SUFFICES ASSUME NEW j \in v + 2 .. v + x, j <= L PROVE bytes[j] = 0
      OBVIOUS
    <3>1. j \in 1 .. L /\ k + j \in i + 1 .. i + x - 1
      BY <1>1, <2>1, <2>3
    <3> QED
      BY <2>7, <3>1
  <2>9. x > L - v
    <3> SUFFICES ASSUME v + x <= L PROVE FALSE
      BY <1>1, <2>1, <2>3
    <3>1. v \in 0 .. Len(bytes) - 1 /\ x \in Nat \ {0} /\ x = bytes[v + 1]
      BY <1>1, <2>1, <2>2, <2>3, <2>5 DEF x
    <3>2. \A j \in v + 2 .. v + x : bytes[j] = 0
      BY <1>1, <2>1, <2>3, <2>8
    <3>3. Whole(bytes, v + x)
      BY <2>1, <3>1, <3>2, WholeGrows
    <3> QED
      BY <1>1, <2>1, <2>3, <2>5, <3>3
  <2>10. \A j \in v + 2 .. L : bytes[j] = 0
    BY <1>1, <2>1, <2>3, <2>8, <2>9
  <2>11. CutOff(bytes)
    BY <2>2, <2>9, <2>10 DEF CutOff, v, x
  <2>12. v > 0
    <3> SUFFICES ASSUME v = 0 PROVE FALSE
      BY <2>1
    <3>1. x <= CharSize /\ x > L /\ k + x <= Len(text)
      BY <1>1, <2>2, <2>3, <2>7, <2>9
    <3>2. L = PageSize \/ L = Len(text) - k
      BY <1>1 DEF Least
    <3> QED
      BY <1>1, <2>3, <3>1, <3>2
  <2> QED
    BY <1>3, <2>11, <2>12 DEF Page, v
<1> QED
  BY <1>2, <1>3

-----------------------------------------------------------------------------
(***************************************************************************)
(* output_page of src/lib.rs                                               *)
(***************************************************************************)

(* In a text the place behind a character is a boundary. *)
LEMMA CharacterEndsAtBoundary ==
    ASSUME NEW text \in Bytes, IsText(text),
           NEW i \in 1 .. Len(text), text[i] > 0
    PROVE  /\ i + text[i] - 1 <= Len(text)
           /\ IsCharBoundary(text, i + text[i] - 1)
<1> DEFINE next == i + text[i]
<1>1. /\ Len(text) \in Nat
      /\ \A k \in 1 .. Len(text) : text[k] \in 0 .. CharSize
      /\ CharSize \in Nat
  BY BytesDomain
<1>2. text[i] \in Nat \ {0} /\ i \in Nat
  BY <1>1
<1>3. CharWithin(text, i, Len(text))
  BY <1>2 DEF IsText, Whole
<1>4. next - 1 <= Len(text) /\ \A j \in i + 1 .. next - 1 : text[j] = 0
  BY <1>1, <1>2, <1>3 DEF CharWithin
<1>5. CASE next - 1 < Len(text)
  <2>1. next \in 1 .. Len(text)
    BY <1>1, <1>2, <1>5
  <2>2. ASSUME text[next] = 0
        PROVE  FALSE
    <3>1. PICK k \in 1 .. next - 1 : k + text[k] > next
      BY <2>1, <2>2 DEF IsText, Whole
    <3>2. k \in 1 .. Len(text) /\ text[k] \in Nat /\ next \in Nat
      BY <1>1, <1>2, <2>1
    <3>3. CASE k < i
      <4>1. text[k] > 0
        BY <1>2, <3>1, <3>2, <3>3
      <4>2. CharWithin(text, k, Len(text))
        BY <3>2, <4>1 DEF IsText, Whole
      <4>3. i \in k + 1 .. k + text[k] - 1
        BY <1>2, <3>1, <3>2, <3>3
      <4> QED
        BY <1>2, <4>2, <4>3 DEF CharWithin
    <3>4. CASE k = i
      BY <1>2, <3>1, <3>4
    <3>5. CASE k > i
      <4>1. text[k] = 0
        BY <1>2, <1>4, <3>2, <3>5
      <4> QED
        BY <1>2, <3>1, <3>2, <4>1
    <3> QED
      BY <1>2, <3>2, <3>3, <3>4, <3>5
  <2>3. text[next] > 0
    BY <1>1, <2>1, <2>2
  <2>4. next - 1 + 1 = next /\ next - 1 \in 0 .. Len(text)
    BY <1>1, <1>2, <1>5
  <2> HIDE DEF next
  <2>5. IsCharBoundary(text, next - 1)
    BY <2>3, <2>4 DEF IsCharBoundary
  <2>6. next - 1 = i + text[i] - 1
    BY <1>2 DEF next
  <2> QED
    BY <1>4, <2>5, <2>6
<1>6. CASE next - 1 = Len(text)
  BY <1>1, <1>4, <1>6 DEF IsCharBoundary
<1> QED
  BY <1>1, <1>2, <1>4, <1>5, <1>6

(* From a cursor that output_page accepts, every page of a text ends at a  *)
(* boundary, so that the next call accepts it, exceeds no budget, and      *)
(* takes at least one character unless the text is at its end: a reader    *)
(* gets through the text with any legal budget.                            *)
THEOREM OutputPageMovesOn ==
    ASSUME NEW text \in Bytes, IsText(text),
           NEW cursor, NEW budget, PageAllowed(text, cursor, budget)
    PROVE  /\ PageEnd(text, cursor, budget) \in cursor .. Len(text)
           /\ PageEnd(text, cursor, budget) <= cursor + budget
           /\ PageAllowed(text, PageEnd(text, cursor, budget), budget)
           /\ cursor < Len(text) => PageEnd(text, cursor, budget) > cursor
<1> DEFINE end == Least(cursor + budget, Len(text))
           S == {n \in 0 .. end : IsCharBoundary(text, n)}
           page == PageEnd(text, cursor, budget)
<1>1. /\ Len(text) \in Nat
      /\ \A k \in 1 .. Len(text) : text[k] \in 0 .. CharSize
      /\ CharSize \in Nat \ {0}
      /\ PageSize \in Nat
  BY BytesDomain, PagingAssumption
<1>2. /\ cursor \in 0 .. Len(text)
      /\ IsCharBoundary(text, cursor)
      /\ budget \in CharSize .. PageSize
  BY DEF PageAllowed, IsCharBoundary
<1>3. /\ end \in cursor .. Len(text)
      /\ end <= cursor + budget
      /\ end < Len(text) => end = cursor + budget
  BY <1>1, <1>2 DEF Least
<1> HIDE DEF end
<1>4. cursor \in S
  BY <1>1, <1>2, <1>3
<1>5. \E n \in S : \A m \in n + 1 .. end : m \notin S
  <2>1. end \in Nat /\ S \subseteq 0 .. end /\ S # {}
    BY <1>1, <1>2, <1>3, <1>4
  <2> HIDE DEF S
  <2> QED
    BY <2>1, HasGreatest
<1>6. \E n \in 0 .. end :
        /\ IsCharBoundary(text, n)
        /\ \A m \in n + 1 .. end : ~IsCharBoundary(text, m)
  BY <1>1, <1>3, <1>5
<1>7. /\ page \in 0 .. end
      /\ IsCharBoundary(text, page)
      /\ \A m \in page + 1 .. end : ~IsCharBoundary(text, m)
  BY <1>6 DEF PageEnd, end
<1> HIDE DEF page
<1>8. \A n \in 0 .. end : IsCharBoundary(text, n) => n <= page
  BY <1>1, <1>3, <1>7
<1>9. page >= cursor
  BY <1>1, <1>2, <1>3, <1>8
<1>10. ASSUME cursor < Len(text)
       PROVE  page > cursor
  <2> DEFINE i == cursor + 1
             n == i + text[i] - 1
  <2>1. i \in 1 .. Len(text) /\ text[i] > 0
    BY <1>1, <1>2, <1>10 DEF IsCharBoundary
  <2>2. n <= Len(text) /\ IsCharBoundary(text, n)
    BY <2>1, CharacterEndsAtBoundary
  <2>3. text[i] \in 1 .. CharSize
    BY <1>1, <2>1
  <2>4. n = cursor + text[i]
    BY <1>1, <1>2, <2>3
  <2> HIDE DEF n
  <2>5. n \in 0 .. end /\ n > cursor
    BY <1>1, <1>2, <1>3, <2>2, <2>3, <2>4
  <2> QED
    BY <1>1, <1>2, <1>3, <1>7, <1>8, <2>2, <2>5
<1> QED
  BY <1>1, <1>2, <1>3, <1>7, <1>9, <1>10 DEF PageAllowed, page

-----------------------------------------------------------------------------
(***************************************************************************)
(* capture, execute_claimed and output of src/worker.rs together           *)
(***************************************************************************)

Workers == {"create", "spawn", "wait", "join_stdout", "join_stderr", "mark",
            "report_exit", "report_unknown", "off"}

States == {"running", "unknown", "exited"}

Reader == [pc : {"idle", "stat", "read", "mark"}, stream : Streams,
           state : States \cup {None}, len : Nat \cup {None}, cursor : Nat,
           answer : {None} \cup [state : States \cup {None}, more : BOOLEAN,
                                 truncated : BOOLEAN],
           got : Bytes, early : BOOLEAN, hex : BOOLEAN]

Typed ==
    /\ content \in [Streams -> Bytes]
    /\ output \in [Streams -> Nat]
    /\ produced \in [Streams -> Nat]
    /\ pipe \in [Streams -> Nat]
    /\ ssh \in {"absent", "up", "exited", "failed"}
    /\ stored \in [Streams -> Nat \cup {None}]
    /\ capture \in [Streams -> [pc : {"none", "reading", "done", "failed", "gone"},
                                truncated : BOOLEAN]]
    /\ marker \in BOOLEAN
    /\ worker \in Workers
    /\ state \in States
    /\ readers \in [Readers -> Reader]
    /\ faults \in Nat

(* Where the bytes of a stream are: a file holds what its thread took out  *)
(* of the pipe, up to the limit, and a thread that dropped nothing and did *)
(* not fail has them all.                                                  *)
Conserved(s) ==
    /\ produced[s] <= output[s] /\ output[s] <= Len(content[s])
    /\ pipe[s] <= produced[s]
    /\ stored[s] # None => stored[s] <= Limit /\ stored[s] + pipe[s] <= produced[s]
    /\ capture[s].pc # "none" => stored[s] # None
    /\ capture[s].truncated => produced[s] > Limit
    /\ capture[s].pc \in {"reading", "done"} /\ ~capture[s].truncated =>
         stored[s] + pipe[s] = produced[s]
    /\ capture[s].pc = "done" => pipe[s] = 0

(* How far the worker has come tells what happened before. *)
Course ==
    /\ worker \in {"create", "spawn"} =>
         /\ ssh = "absent"
         /\ \A s \in Streams : produced[s] = 0 /\ stored[s] \in {None, 0}
                                 /\ capture[s].pc = "none"
    /\ worker = "create" => stored["stderr"] = None
    /\ worker = "spawn" => \A s \in Streams : stored[s] # None
    /\ worker \in {"join_stdout", "join_stderr", "mark", "report_exit"} =>
         ssh \in {"exited", "failed"}
    /\ worker \in {"join_stderr", "mark", "report_exit"} => capture["stdout"].pc = "done"
    /\ worker \in {"mark", "report_exit"} => capture["stderr"].pc = "done"
    /\ worker = "mark" => Overflowed
    /\ worker = "report_exit" => ssh = "exited" /\ (Overflowed => marker)
    /\ worker = "off" => \A s \in Streams : ~Reading(s)
    /\ ssh = "exited" => produced = output

(* An exit is recorded when there is no more to come, and then everything  *)
(* was stored or the marker says that it was not.                          *)
Settled ==
    /\ worker = "off"
    /\ ssh = "exited"
    /\ \A s \in Streams : stored[s] # None
    /\ marker \/ \A s \in Streams : Everything(s)

ExitsAreSettled == state = "exited" => Settled

(* The marker exists only where a stream outgrew its limit: a full file    *)
(* that is complete is not called truncated.                               *)
MarkerIsTrue == marker => \E s \in Streams : produced[s] > Limit

Capturing ==
    /\ Typed
    /\ \A s \in Streams : Conserved(s)
    /\ Course
    /\ ExitsAreSettled
    /\ MarkerIsTrue

(* What a client holds is the beginning of its stream, and what it read of *)
(* an exited task is as true now as it was then.                           *)
Reads(r) ==
    LET c == readers[r]
        s == c.stream
    IN
    /\ c.got = SubSeq(content[s], 1, c.cursor)
    /\ c.cursor > 0 => stored[s] # None
    /\ stored[s] # None => c.cursor <= stored[s]
    /\ c.pc \in {"read", "mark"} =>
         stored[s] # None /\ c.len \in Nat /\ c.len <= stored[s]
    /\ c.pc # "idle" /\ c.state = "exited" =>
         state = "exited" /\ (c.pc # "stat" => c.len = stored[s])
    /\ Last(r) /\ c.answer.state = "exited" =>
         /\ state = "exited"
         /\ c.cursor = stored[s]
         /\ c.answer.truncated = marker
         /\ marker \/ Everything(s)
         /\ c.pc # "idle" => c.state = "exited"

(* The pages of a client that asks after the exit are those of a file that *)
(* does not change: of a whole text each is text and ends with a character.*)
ReadsText(r) ==
    LET c == readers[r]
        s == c.stream
    IN
    /\ c.hex => state = "exited"
    /\ ~c.early => c.cursor = 0 \/ state = "exited"
    /\ state = "exited" /\ IsText(content[s]) /\ stored[s] = Len(content[s]) =>
         ~c.hex /\ (~c.early => Whole(content[s], c.cursor))

IInv == Capturing /\ \A r \in Readers : Reads(r) /\ ReadsText(r)

(* One lemma for each step of the command, ssh, the threads and the worker: *)
(* where the bytes are, and what the worker may rely on, hold after it.    *)
LEMMA RemoteWritesKeeps ==
    ASSUME Capturing, NEW s \in Streams, RemoteWrites(s)
    PROVE  Capturing'
<1> USE DEF Capturing
<1>1. Typed'
  BY DEF RemoteWrites, Typed, files
<1>2. ASSUME NEW t \in Streams PROVE Conserved(t)'
  <2>1. CASE t = s
    <3>1. produced'[t] = produced[t] + 1 /\ pipe'[t] = pipe[t] + 1 /\ produced[t] < output[t]
      BY <2>1 DEF RemoteWrites, Typed
    <3>2. /\ produced[t] \in Nat /\ pipe[t] \in Nat /\ output[t] \in Nat
          /\ stored[t] \in Nat \cup {None}
      BY DEF Typed
    <3>3. /\ content' = content /\ output' = output
          /\ stored' = stored /\ capture' = capture
      BY DEF RemoteWrites, files
    <3>4. produced'[t] <= output[t] /\ pipe'[t] <= produced'[t]
      BY <3>1, <3>2 DEF Conserved
    <3>5. stored[t] # None => stored[t] + pipe'[t] <= produced'[t]
      BY <3>1, <3>2 DEF Conserved
    <3>6. produced[t] > Limit => produced'[t] > Limit
      BY <3>1, <3>2, CaptureAssumption
    <3>7. capture[t].pc = "reading"
      BY <2>1 DEF RemoteWrites, Reading
    <3>8. ~capture[t].truncated => stored[t] + pipe'[t] = produced'[t]
      <4>1. stored[t] \in Nat
        BY <3>2, <3>7 DEF Conserved
      <4> QED
        BY <3>1, <3>2, <3>7 DEF Conserved
    <3> QED
      BY <3>3, <3>4, <3>5, <3>6, <3>7, <3>8 DEF Conserved
  <2>2. CASE t # s
    BY <2>2 DEF RemoteWrites, Conserved, files
  <2> QED
    BY <2>1, <2>2
<1>3. Course'
  BY DEF RemoteWrites, Course
<1>4. ExitsAreSettled'
  BY DEF RemoteWrites, ExitsAreSettled, Settled
<1>5. MarkerIsTrue'
  <2>1. \A t \in Streams : produced[t] \in Nat /\ produced'[t] \in {produced[t], produced[t] + 1}
    BY DEF RemoteWrites, Typed
  <2> QED
    BY <2>1, CaptureAssumption DEF RemoteWrites, MarkerIsTrue, files
<1> QED
  BY <1>1, <1>2, <1>3, <1>4, <1>5

LEMMA BrokenPipeKeeps ==
    ASSUME Capturing, NEW s \in Streams, BrokenPipe(s)
    PROVE  Capturing'
<1> USE DEF Capturing
<1>1. Typed'
  BY DEF BrokenPipe, Typed, files
<1>2. ASSUME NEW t \in Streams PROVE Conserved(t)'
  BY DEF BrokenPipe, Conserved, files
<1>3. Course'
  BY DEF BrokenPipe, Course, Reading
<1>4. ExitsAreSettled'
  BY DEF BrokenPipe, ExitsAreSettled, Settled
<1>5. MarkerIsTrue'
  BY DEF BrokenPipe, MarkerIsTrue, files
<1> QED
  BY <1>1, <1>2, <1>3, <1>4, <1>5

LEMMA SshExitsKeeps ==
    ASSUME Capturing, SshExits
    PROVE  Capturing'
<1> USE DEF Capturing
<1>1. Typed'
  BY DEF SshExits, Typed, files
<1>2. ASSUME NEW t \in Streams PROVE Conserved(t)'
  BY DEF SshExits, Conserved, files
<1>3. Course'
  BY DEF SshExits, Course, Reading
<1>4. ExitsAreSettled'
  BY DEF SshExits, ExitsAreSettled, Settled
<1>5. MarkerIsTrue'
  BY DEF SshExits, MarkerIsTrue, files
<1> QED
  BY <1>1, <1>2, <1>3, <1>4, <1>5

LEMMA SshFailsKeeps ==
    ASSUME Capturing, SshFails
    PROVE  Capturing'
<1> USE DEF Capturing
<1>1. Typed'
  BY DEF SshFails, Typed, files
<1>2. ASSUME NEW t \in Streams PROVE Conserved(t)'
  BY DEF SshFails, Typed, Conserved, files
<1>3. Course'
  BY DEF SshFails, Course, Reading
<1>4. ExitsAreSettled'
  BY DEF SshFails, ExitsAreSettled, Settled
<1>5. MarkerIsTrue'
  BY DEF SshFails, MarkerIsTrue, files
<1> QED
  BY <1>1, <1>2, <1>3, <1>4, <1>5

LEMMA DrainKeeps ==
    ASSUME Capturing, NEW s \in Streams, Drain(s)
    PROVE  Capturing'
<1> USE DEF Capturing
<1>1. PICK n \in 1 .. pipe[s] :
        LET keep == Least(n, Limit - stored[s]) IN
        /\ pipe' = [pipe EXCEPT ![s] = @ - n]
        /\ stored' = [stored EXCEPT ![s] = @ + keep]
        /\ capture' = [capture EXCEPT ![s].truncated = @ \/ keep < n]
  BY DEF Drain
<1> DEFINE keep == Least(n, Limit - stored[s])
<1>2. /\ Reading(s)
      /\ UNCHANGED <<content, output, produced, ssh, marker, worker, state, readers, faults>>
  BY DEF Drain
<1>3. /\ pipe[s] \in Nat /\ produced[s] \in Nat /\ Limit \in Nat
      /\ stored[s] \in Nat /\ stored[s] # None /\ stored[s] <= Limit
      /\ stored[s] + pipe[s] <= produced[s]
  BY <1>2, CaptureAssumption DEF Typed, Conserved, Reading
<1>4. keep \in 0 .. n /\ stored[s] + keep <= Limit /\ (keep < n => stored[s] + keep = Limit)
  BY <1>3 DEF Least
<1> HIDE DEF keep
<1>5. /\ pipe' = [pipe EXCEPT ![s] = @ - n]
      /\ stored' = [stored EXCEPT ![s] = @ + keep]
      /\ capture' = [capture EXCEPT ![s].truncated = @ \/ keep < n]
  BY <1>1 DEF keep
<1>6. /\ \A t \in Streams : capture'[t].pc = capture[t].pc
      /\ \A t \in Streams \ {s} : /\ pipe'[t] = pipe[t] /\ stored'[t] = stored[t]
                                 /\ capture'[t] = capture[t]
      /\ pipe'[s] = pipe[s] - n
      /\ stored'[s] = stored[s] + keep
      /\ capture'[s].truncated = (capture[s].truncated \/ keep < n)
  BY <1>5 DEF Typed
<1>7. Typed'
  <2>1. pipe' \in [Streams -> Nat]
    BY <1>5 DEF Typed
  <2>2. stored' \in [Streams -> Nat \cup {None}]
    BY <1>3, <1>4, <1>5 DEF Typed
  <2>3. capture' \in [Streams -> [pc : {"none", "reading", "done", "failed", "gone"},
                                  truncated : BOOLEAN]]
    <3>1. (capture[s].truncated \/ keep < n) \in BOOLEAN
      OBVIOUS
    <3> QED
      BY <1>5 DEF Typed
  <2> QED
    BY <1>2, <2>1, <2>2, <2>3 DEF Typed
<1>8. ASSUME NEW t \in Streams PROVE Conserved(t)'
  <2>1. CASE t = s
    <3>1. produced[t] <= output[t] /\ output[t] <= Len(content[t])
      BY DEF Conserved
    <3>2. /\ stored'[t] \in Nat /\ stored'[t] # None /\ stored'[t] <= Limit
          /\ pipe'[t] \in Nat /\ stored'[t] + pipe'[t] <= produced[t]
      <4>1. stored'[s] = stored[s] + keep /\ pipe'[s] = pipe[s] - n
        BY <1>6
      <4>2. stored'[s] \in Nat /\ stored'[s] <= Limit /\ pipe'[s] \in Nat
        BY <1>3, <1>4, <4>1
      <4>3. stored'[s] + pipe'[s] <= produced[s]
        BY <1>3, <1>4, <4>1
      <4> QED
        BY <2>1, <4>2, <4>3, CaptureAssumption
    <3>3. capture'[t].truncated => produced[t] > Limit
      <4>1. CASE keep < n
        BY <1>3, <1>4, <2>1, <4>1
      <4>2. CASE ~(keep < n)
        BY <1>6, <4>2 DEF Conserved
      <4> QED
        BY <4>1, <4>2
    <3>4. ~capture'[t].truncated => stored'[t] + pipe'[t] = produced[t]
      <4> SUFFICES ASSUME ~capture'[t].truncated
                   PROVE  stored'[t] + pipe'[t] = produced[t]
        OBVIOUS
      <4>1. ~capture[s].truncated /\ ~(keep < n)
        BY <1>6, <2>1, Zenon
      <4>3. keep = n
        BY <1>4, <4>1
      <4>2. stored[s] + pipe[s] = produced[s]
        BY <1>2, <4>1 DEF Conserved, Reading
      <4> QED
        BY <1>3, <1>6, <2>1, <4>2, <4>3
    <3>5. capture'[t].pc = "reading"
      BY <1>2, <1>6, <2>1 DEF Reading
    <3>6. pipe'[t] <= produced[t]
      BY <1>3, <2>1, <3>2
    <3> QED
      BY <1>2, <3>2, <3>3, <3>4, <3>5, <3>6 DEF Conserved
  <2>2. CASE t # s
    BY <1>2, <1>6, <2>2 DEF Conserved
  <2> QED
    BY <2>1, <2>2
<1>9. worker \notin {"create", "spawn", "mark", "report_exit", "off"}
  BY <1>2 DEF Course, Reading, Streams
<1>10. Course'
  <2>1. \A t \in Streams : capture'[t].pc = capture[t].pc
    BY <1>6
  <2>2. worker' = worker /\ ssh' = ssh /\ produced' = produced /\ output' = output
    BY <1>2
  <2> QED
    BY <1>9, <2>1, <2>2 DEF Course, Streams
<1>11. ExitsAreSettled' /\ MarkerIsTrue'
  BY <1>2, <1>9 DEF ExitsAreSettled, Settled, MarkerIsTrue
<1> QED
  BY <1>7, <1>8, <1>10, <1>11

LEMMA EndOfFileKeeps ==
    ASSUME Capturing, NEW s \in Streams, EndOfFile(s)
    PROVE  Capturing'
<1> USE DEF Capturing
<1>1. Typed'
  BY DEF EndOfFile, Typed, source, files
<1>2. ASSUME NEW t \in Streams PROVE Conserved(t)'
  BY DEF EndOfFile, Conserved, source, files, Reading
<1>3. Course'
  BY DEF EndOfFile, Course, Overflowed, source, files
<1>4. ExitsAreSettled'
  BY DEF EndOfFile, ExitsAreSettled, Settled, Everything, source, files
<1>5. MarkerIsTrue'
  BY DEF EndOfFile, MarkerIsTrue, source, files
<1> QED
  BY <1>1, <1>2, <1>3, <1>4, <1>5

LEMMA CaptureFailsKeeps ==
    ASSUME Capturing, NEW s \in Streams, CaptureFails(s)
    PROVE  Capturing'
<1> USE DEF Capturing
<1>1. Typed'
  <2>1. faults' \in Nat
    BY DEF CaptureFails, Fault, Typed
  <2>2. pipe' \in [Streams -> Nat]
    BY DEF CaptureFails, Typed
  <2>3. capture' \in [Streams -> [pc : {"none", "reading", "done", "failed", "gone"},
                                  truncated : BOOLEAN]]
    BY DEF CaptureFails, Typed
  <2> QED
    BY <2>1 DEF CaptureFails, Typed, files
<1>2. ASSUME NEW t \in Streams PROVE Conserved(t)'
  BY DEF CaptureFails, Typed, Conserved, files, Reading
<1>3. Course'
  BY DEF CaptureFails, Course, Reading, Overflowed, files
<1>4. ExitsAreSettled'
  BY DEF CaptureFails, ExitsAreSettled, Settled, Everything, files
<1>5. MarkerIsTrue'
  BY DEF CaptureFails, MarkerIsTrue, files
<1> QED
  BY <1>1, <1>2, <1>3, <1>4, <1>5

LEMMA CreateOutputsKeeps ==
    ASSUME Capturing, CreateOutputs
    PROVE  Capturing'
<1> USE DEF Capturing
<1>1. Typed'
  BY DEF CreateOutputs, Typed, source, Workers
<1>2. ASSUME NEW t \in Streams PROVE Conserved(t)'
  BY CaptureAssumption DEF CreateOutputs, Typed, Conserved, source
<1>3. Course'
  BY DEF CreateOutputs, Typed, Course, Streams, source
<1>4. ExitsAreSettled'
  BY DEF CreateOutputs, ExitsAreSettled, Settled
<1>5. MarkerIsTrue'
  BY DEF CreateOutputs, MarkerIsTrue, source
<1> QED
  BY <1>1, <1>2, <1>3, <1>4, <1>5

LEMMA SpawnSshKeeps ==
    ASSUME Capturing, SpawnSsh
    PROVE  Capturing'
<1> USE DEF Capturing
<1>1. Typed'
  BY DEF SpawnSsh, Typed, files, Workers
<1>2. ASSUME NEW t \in Streams PROVE Conserved(t)'
  BY DEF SpawnSsh, Typed, Conserved, Course, files
<1>3. Course'
  BY DEF SpawnSsh, Course
<1>4. ExitsAreSettled'
  BY DEF SpawnSsh, ExitsAreSettled, Settled
<1>5. MarkerIsTrue'
  BY DEF SpawnSsh, MarkerIsTrue, files
<1> QED
  BY <1>1, <1>2, <1>3, <1>4, <1>5

LEMMA StartFailsKeeps ==
    ASSUME Capturing, StartFails
    PROVE  Capturing'
<1> USE DEF Capturing
<1>1. Typed'
  BY DEF StartFails, Typed, source, files, Workers, Fault
<1>2. ASSUME NEW t \in Streams PROVE Conserved(t)'
  BY DEF StartFails, Conserved, source, files
<1>3. Course'
  BY DEF StartFails, Course, source
<1>4. ExitsAreSettled'
  BY DEF StartFails, ExitsAreSettled, Settled
<1>5. MarkerIsTrue'
  BY DEF StartFails, MarkerIsTrue, source, files
<1> QED
  BY <1>1, <1>2, <1>3, <1>4, <1>5

LEMMA SshReapedKeeps ==
    ASSUME Capturing, SshReaped
    PROVE  Capturing'
<1> USE DEF Capturing
<1>1. Typed'
  BY DEF SshReaped, Typed, source, files, Workers
<1>2. ASSUME NEW t \in Streams PROVE Conserved(t)'
  BY DEF SshReaped, Conserved, source, files
<1>3. Course'
  BY DEF SshReaped, Course, source
<1>4. ExitsAreSettled'
  BY DEF SshReaped, ExitsAreSettled, Settled
<1>5. MarkerIsTrue'
  BY DEF SshReaped, MarkerIsTrue, source, files
<1> QED
  BY <1>1, <1>2, <1>3, <1>4, <1>5

LEMMA JoinStdoutKeeps ==
    ASSUME Capturing, JoinStdout
    PROVE  Capturing'
<1> USE DEF Capturing
<1>1. Typed'
  BY DEF JoinStdout, Typed, source, files, Workers
<1>2. ASSUME NEW t \in Streams PROVE Conserved(t)'
  BY DEF JoinStdout, Conserved, source, files
<1>3. Course'
  BY DEF JoinStdout, Course, source
<1>4. ExitsAreSettled'
  BY DEF JoinStdout, ExitsAreSettled, Settled
<1>5. MarkerIsTrue'
  BY DEF JoinStdout, MarkerIsTrue, source, files
<1> QED
  BY <1>1, <1>2, <1>3, <1>4, <1>5

LEMMA JoinStderrKeeps ==
    ASSUME Capturing, JoinStderr
    PROVE  Capturing'
<1> USE DEF Capturing
<1>1. Typed'
  BY DEF JoinStderr, Typed, source, files, Workers, Report
<1>2. ASSUME NEW t \in Streams PROVE Conserved(t)'
  BY DEF JoinStderr, Conserved, source, files
<1>3. Course'
  BY DEF JoinStderr, Course, Overflowed, source, Joined, Report
<1>4. ExitsAreSettled'
  BY DEF JoinStderr, ExitsAreSettled, Settled
<1>5. MarkerIsTrue'
  BY DEF JoinStderr, MarkerIsTrue, source, files
<1> QED
  BY <1>1, <1>2, <1>3, <1>4, <1>5

LEMMA MarkTruncatedKeeps ==
    ASSUME Capturing, MarkTruncated
    PROVE  Capturing'
<1> USE DEF Capturing
<1>1. Typed'
  <2>1. faults' \in Nat /\ marker' \in BOOLEAN /\ worker' \in Workers
    <3>1. Report \in Workers /\ "report_unknown" \in Workers
      BY DEF Report, Workers
    <3>2. CASE marker' = TRUE /\ worker' = Report /\ faults' = faults
      BY <3>1, <3>2 DEF Typed
    <3>3. CASE Fault /\ worker' = "report_unknown" /\ marker' = marker
      BY <3>1, <3>3 DEF Typed, Fault
    <3> QED
      BY <3>2, <3>3 DEF MarkTruncated
  <2> QED
    BY <2>1 DEF MarkTruncated, Typed, source
<1>2. ASSUME NEW t \in Streams PROVE Conserved(t)'
  BY DEF MarkTruncated, Conserved, source
<1>3. Course'
  BY DEF MarkTruncated, Course, source, Report
<1>4. ExitsAreSettled'
  BY DEF MarkTruncated, ExitsAreSettled, Settled
<1>5. MarkerIsTrue'
  <2>1. PICK t \in Streams : capture[t].truncated
    BY DEF MarkTruncated, Course, Overflowed
  <2>2. produced[t] > Limit
    BY <2>1 DEF Conserved
  <2> QED
    BY <2>2 DEF MarkTruncated, MarkerIsTrue, source
<1> QED
  BY <1>1, <1>2, <1>3, <1>4, <1>5

LEMMA FinishTaskKeeps ==
    ASSUME Capturing, FinishTask
    PROVE  Capturing'
<1> USE DEF Capturing
<1>1. Typed'
  BY DEF FinishTask, Typed, files, Workers, States, WorkerEnds
<1>2. ASSUME NEW t \in Streams PROVE Conserved(t)'
  BY DEF FinishTask, Typed, Conserved, files, WorkerEnds, Reading
<1>3. Course'
  BY DEF FinishTask, Course, Reading, WorkerEnds
<1>4. ExitsAreSettled'
  <2>1. CASE worker = "report_exit"
    <3>1. /\ ssh = "exited" /\ produced = output
          /\ \A s \in Streams : capture[s].pc = "done"
          /\ Overflowed => marker
      BY <2>1 DEF Course, Streams
    <3>2. \A s \in Streams : stored[s] # None /\ pipe[s] = 0
      BY <3>1 DEF Conserved
    <3>3. ASSUME NEW s \in Streams, ~Overflowed
          PROVE  Everything(s)
      <4>1. stored[s] + pipe[s] = produced[s]
        BY <3>1, <3>3 DEF Conserved, Overflowed
      <4>2. stored[s] \in Nat
        BY <3>2 DEF Typed
      <4> QED
        BY <3>1, <3>2, <4>1, <4>2 DEF Everything
    <3> QED
      BY <3>1, <3>2, <3>3 DEF FinishTask, WorkerEnds, ExitsAreSettled, Settled,
         Everything, files
  <2>2. CASE worker = "report_unknown"
    BY <2>2 DEF FinishTask, ExitsAreSettled
  <2> QED
    BY <2>1, <2>2 DEF FinishTask
<1>5. MarkerIsTrue'
  BY DEF FinishTask, MarkerIsTrue, files
<1> QED
  BY <1>1, <1>2, <1>3, <1>4, <1>5

LEMMA WorkerDiesKeeps ==
    ASSUME Capturing, WorkerDies
    PROVE  Capturing'
<1> USE DEF Capturing
<1>1. Typed'
  <2>1. faults' \in Nat
    BY DEF WorkerDies, Fault, Typed
  <2>2. pipe' \in [Streams -> Nat]
    BY DEF WorkerDies, WorkerEnds
  <2>3. capture' \in [Streams -> [pc : {"none", "reading", "done", "failed", "gone"},
                                  truncated : BOOLEAN]]
    BY DEF WorkerDies, WorkerEnds, Typed
  <2> QED
    BY <2>1 DEF WorkerDies, WorkerEnds, Typed, files, Workers
<1>2. ASSUME NEW t \in Streams PROVE Conserved(t)'
  BY DEF WorkerDies, Typed, Conserved, files, WorkerEnds, Reading
<1>3. Course'
  BY DEF WorkerDies, Course, Reading, WorkerEnds
<1>4. ExitsAreSettled'
  BY DEF WorkerDies, ExitsAreSettled, Settled
<1>5. MarkerIsTrue'
  BY DEF WorkerDies, MarkerIsTrue, files
<1> QED
  BY <1>1, <1>2, <1>3, <1>4, <1>5

LEMMA SweepStaleKeeps ==
    ASSUME Capturing, SweepStale
    PROVE  Capturing'
<1> USE DEF Capturing
<1>1. Typed'
  BY DEF SweepStale, Typed, source, files, States
<1>2. ASSUME NEW t \in Streams PROVE Conserved(t)'
  BY DEF SweepStale, Conserved, source, files
<1>3. Course'
  BY DEF SweepStale, Course, Reading, Overflowed, source, files
<1>4. ExitsAreSettled'
  BY DEF SweepStale, ExitsAreSettled
<1>5. MarkerIsTrue'
  BY DEF SweepStale, MarkerIsTrue, source, files
<1> QED
  BY <1>1, <1>2, <1>3, <1>4, <1>5

-----------------------------------------------------------------------------
(* Every step that is not a client's *)
Others ==
    \/ SshStep
    \/ SshFails
    \/ \E s \in Streams : CaptureStep(s) \/ CaptureFails(s)
    \/ WorkerStep
    \/ StartFails
    \/ WorkerDies
    \/ SweepStale

LEMMA InitIInv == Init => IInv
<1> SUFFICES ASSUME Init PROVE IInv
  OBVIOUS
<1>1. content \in [Streams -> Bytes]
  BY CaptureAssumption DEF Init, Streams, Bytes
<1>2. \A s \in Streams : Len(content[s]) \in Nat
  BY <1>1, LenProperties DEF Bytes
<1>3. \A s \in Streams : Fresh(s) \in Reader
  BY EmptySeq DEF Fresh, Reader, Bytes
<1>4. Typed
  <2>1. output \in [Streams -> Nat]
    BY <1>2 DEF Init
  <2>2. readers \in [Readers -> Reader]
    BY <1>3 DEF Init
  <2> QED
    BY <1>1, <2>1, <2>2 DEF Init, Typed, NoThread, Workers, States
<1>5. ASSUME NEW s \in Streams PROVE Conserved(s)
  BY <1>2 DEF Init, Conserved, NoThread
<1>6. Course /\ ExitsAreSettled /\ MarkerIsTrue
  BY DEF Init, Course, ExitsAreSettled, MarkerIsTrue, Streams, NoThread
<1>7. ASSUME NEW r \in Readers PROVE Reads(r) /\ ReadsText(r)
  <2>1. PICK s \in Streams : readers[r] = Fresh(s)
    BY DEF Init
  <2>2. SubSeq(content[s], 1, 0) = << >>
    BY SubSeqEmpty
  <2>3. /\ readers[r].got = << >> /\ readers[r].cursor = 0 /\ readers[r].stream = s
        /\ readers[r].pc = "idle" /\ readers[r].answer = None /\ ~readers[r].hex
    BY <2>1 DEF Fresh
  <2>4. stored[s] = None
    BY DEF Init
  <2> QED
    BY <2>2, <2>3, <2>4 DEF Init, Reads, ReadsText, Last
<1> QED
  BY <1>4, <1>5, <1>6, <1>7 DEF IInv, Capturing

LEMMA OthersKeep ==
    ASSUME Capturing, Others
    PROVE  Capturing' /\ readers' = readers /\ content' = content
<1>1. CASE SshStep
  <2>1. Capturing'
    BY <1>1, RemoteWritesKeeps, BrokenPipeKeeps, SshExitsKeeps DEF SshStep
  <2> QED
    BY <1>1, <2>1 DEF SshStep, RemoteWrites, BrokenPipe, SshExits
<1>2. CASE SshFails
  BY <1>2, SshFailsKeeps DEF SshFails
<1>3. ASSUME NEW s \in Streams, CaptureStep(s) \/ CaptureFails(s)
      PROVE  Capturing' /\ readers' = readers /\ content' = content
  <2>1. Capturing'
    BY <1>3, DrainKeeps, EndOfFileKeeps, CaptureFailsKeeps DEF CaptureStep
  <2> QED
    BY <1>3, <2>1 DEF CaptureStep, Drain, EndOfFile, CaptureFails, source
<1>4. CASE WorkerStep
  <2>1. Capturing'
    BY <1>4, CreateOutputsKeeps, SpawnSshKeeps, SshReapedKeeps,
       JoinStdoutKeeps,
       JoinStderrKeeps, MarkTruncatedKeeps, FinishTaskKeeps DEF WorkerStep
  <2> QED
    BY <1>4, <2>1 DEF WorkerStep, CreateOutputs, SpawnSsh, SshReaped,
       JoinStdout,
       JoinStderr, MarkTruncated, FinishTask, source
<1>5. CASE StartFails \/ WorkerDies \/ SweepStale
  <2>1. Capturing'
    BY <1>5, StartFailsKeeps, WorkerDiesKeeps, SweepStaleKeeps
  <2> QED
    BY <1>5, <2>1 DEF StartFails, WorkerDies, SweepStale, source
<1> QED
  BY <1>1, <1>2, <1>3, <1>4, <1>5 DEF Others

(* When an exit is recorded the worker, its threads and ssh have ended:    *)
(* nothing but the clients can move any more.                              *)
LEMMA ExitIsFinal ==
    ASSUME Capturing, Others
    PROVE  state # "exited"
<1> SUFFICES ASSUME state = "exited" PROVE FALSE
  OBVIOUS
<1>1. worker = "off" /\ ssh = "exited"
  BY DEF Capturing, ExitsAreSettled, Settled
<1>2. \A s \in Streams : ~Reading(s)
  BY <1>1 DEF Capturing, Course
<1>3. ~SshStep /\ ~SshFails
  BY <1>1 DEF SshStep, SshFails, RemoteWrites, BrokenPipe, SshExits
<1>4. \A s \in Streams : ~CaptureStep(s) /\ ~CaptureFails(s)
  BY <1>2 DEF CaptureStep, Drain, EndOfFile, CaptureFails
<1>5. ~WorkerStep
  BY <1>1 DEF WorkerStep, CreateOutputs, SpawnSsh, SshReaped, JoinStdout,
     JoinStderr, MarkTruncated, FinishTask
<1>6. ~StartFails /\ ~WorkerDies /\ ~SweepStale
  BY <1>1 DEF StartFails, WorkerDies, SweepStale
<1> QED
  BY <1>3, <1>4, <1>5, <1>6 DEF Others

(* A file that exists stays and loses no byte. *)
LEMMA FilesGrow ==
    ASSUME Capturing, Others, NEW s \in Streams, stored[s] # None
    PROVE  stored[s] \in Nat /\ stored'[s] \in Nat /\ stored'[s] >= stored[s]
<1>1. stored[s] \in Nat /\ stored[s] <= Limit
  BY DEF Capturing, Typed, Conserved
<1>2. CASE stored' = stored
  BY <1>1, <1>2
<1>3. ASSUME NEW t \in Streams, Drain(t)
      PROVE  stored'[s] \in Nat /\ stored'[s] >= stored[s]
  <2>1. PICK n \in 1 .. pipe[t] :
          stored' = [stored EXCEPT ![t] = @ + Least(n, Limit - stored[t])]
    BY <1>3 DEF Drain
  <2>2. CASE t = s
    <3>1. pipe[t] \in Nat /\ Limit \in Nat
      BY CaptureAssumption DEF Capturing, Typed
    <3>2. Least(n, Limit - stored[t]) \in Nat
      BY <1>1, <2>2, <3>1 DEF Least
    <3>3. stored'[s] = stored[s] + Least(n, Limit - stored[t])
      BY <2>1, <2>2 DEF Capturing, Typed
    <3> QED
      BY <1>1, <3>2, <3>3
  <2>3. CASE t # s
    BY <1>1, <2>1, <2>3 DEF Capturing, Typed
  <2> QED
    BY <2>2, <2>3
<1>4. CASE CreateOutputs
  <2>1. PICK t \in Streams : stored[t] = None /\ stored' = [stored EXCEPT ![t] = 0]
    BY <1>4 DEF CreateOutputs
  <2> QED
    BY <1>1, <2>1 DEF Capturing, Typed
<1>5. \/ stored' = stored
      \/ \E t \in Streams : Drain(t)
      \/ CreateOutputs
  <2>1. SshStep \/ SshFails => stored' = stored
    BY DEF SshStep, RemoteWrites, BrokenPipe, SshExits, SshFails, files
  <2>2. \A t \in Streams : EndOfFile(t) \/ CaptureFails(t) => stored' = stored
    BY DEF EndOfFile, CaptureFails, files
  <2>3. WorkerStep => CreateOutputs \/ stored' = stored
    BY DEF WorkerStep, SpawnSsh, SshReaped, JoinStdout, JoinStderr,
       MarkTruncated, FinishTask, files
  <2>4. StartFails \/ WorkerDies \/ SweepStale => stored' = stored
    BY DEF StartFails, WorkerDies, SweepStale, files
  <2> QED
    BY <2>1, <2>2, <2>3, <2>4 DEF Others, CaptureStep
<1> QED
  BY <1>1, <1>2, <1>3, <1>4, <1>5

(* What a client knows survives every step of the others, and the step     *)
(* that records the exit finds it ready for the last pages.                *)
LEMMA OthersKeepReads ==
    ASSUME IInv, Others, NEW r \in Readers
    PROVE  Reads(r)' /\ ReadsText(r)'
<1> DEFINE c == readers[r]
           s == c.stream
<1>1. readers' = readers /\ content' = content /\ state # "exited"
  BY OthersKeep, ExitIsFinal DEF IInv
<1>2. c \in Reader /\ s \in Streams /\ c.cursor \in Nat /\ c.len \in Nat \cup {None}
  BY DEF IInv, Capturing, Typed, Reader
<1>3. stored[s] # None => stored[s] \in Nat /\ stored'[s] \in Nat /\ stored'[s] >= stored[s]
  BY <1>2, FilesGrow DEF IInv
<1>4. Reads(r) /\ ReadsText(r)
  BY DEF IInv
<1>5. stored'[s] \in Nat \cup {None}
  BY <1>2, OthersKeep DEF IInv, Capturing, Typed
<1>6. ~c.hex /\ (~c.early => c.cursor = 0)
  BY <1>1, <1>4 DEF ReadsText
<1>7. ReadsText(r)'
  <2>1. Whole(content[s], 0)
    BY DEF Whole
  <2> QED
    BY <1>1, <1>6, <2>1 DEF ReadsText
<1>8. Reads(r)'
  <2>1. c.got = SubSeq(content[s], 1, c.cursor)
    BY <1>4 DEF Reads
  <2>2. c.cursor > 0 => stored'[s] # None
    BY <1>3, <1>4, CaptureAssumption DEF Reads
  <2>3. stored'[s] # None => c.cursor <= stored'[s]
    <3>1. CASE stored[s] # None
      BY <1>2, <1>3, <1>4, <3>1 DEF Reads
    <3>2. CASE stored[s] = None
      <4>1. c.cursor = 0
        BY <1>2, <1>4, <3>2 DEF Reads
      <4> QED
        BY <1>5, <4>1
    <3> QED
      BY <3>1, <3>2
  <2>4. c.pc \in {"read", "mark"} =>
          stored'[s] # None /\ c.len \in Nat /\ c.len <= stored'[s]
    BY <1>3, <1>4, CaptureAssumption DEF Reads
  <2>5. /\ ~(c.pc # "idle" /\ c.state = "exited")
        /\ ~(Last(r) /\ c.answer.state = "exited")
    BY <1>1, <1>4 DEF Reads
  <2>6. Last(r)' <=> Last(r)
    BY <1>1 DEF Last
  <2> QED
    BY <1>1, <2>1, <2>2, <2>3, <2>4, <2>5, <2>6 DEF Reads
<1> QED
  BY <1>7, <1>8

-----------------------------------------------------------------------------
(* The clients *)

Still == UNCHANGED <<source, files, capture, worker, state, faults>>

LEMMA ClientsKeepCapturing ==
    ASSUME Capturing, Still, readers' \in [Readers -> Reader]
    PROVE  Capturing'
<1>1. Typed'
  BY DEF Capturing, Still, Typed, source, files
<1>2. \A s \in Streams : Conserved(s)'
  BY DEF Capturing, Still, Conserved, source, files
<1>3. Course' /\ ExitsAreSettled' /\ MarkerIsTrue'
  BY DEF Capturing, Still, Course, ExitsAreSettled, Settled, MarkerIsTrue,
     Reading, Overflowed, Everything, source, files
<1> QED
  BY <1>1, <1>2, <1>3 DEF Capturing

(* What one read finds: the bytes of the file from the cursor on. *)
LEMMA WhatIsRead ==
    ASSUME Capturing, NEW s \in Streams, stored[s] # None,
           NEW k \in Nat, k <= stored[s]
    PROVE  /\ content[s] \in Bytes /\ Len(content[s]) \in Nat
           /\ stored[s] \in Nat /\ stored[s] <= Len(content[s])
           /\ BytesAt(s, k) \in Bytes
           /\ Len(BytesAt(s, k)) = Least(k + PageSize, stored[s]) - k
           /\ Len(BytesAt(s, k)) \in Nat
           /\ \A i \in 1 .. Len(BytesAt(s, k)) : BytesAt(s, k)[i] = content[s][k + i]
<1> DEFINE text == content[s]
           m == Least(k + PageSize, stored[s])
<1>1. text \in Bytes /\ Len(text) \in Nat
  BY LenProperties DEF Capturing, Typed, Bytes
<1>2. stored[s] \in Nat /\ stored[s] <= Len(text)
  <2>1. /\ stored[s] \in Nat /\ pipe[s] \in Nat /\ produced[s] \in Nat /\ output[s] \in Nat
    BY DEF Capturing, Typed
  <2>2. /\ stored[s] + pipe[s] <= produced[s]
        /\ produced[s] <= output[s] /\ output[s] <= Len(text)
    BY DEF Capturing, Conserved
  <2> QED
    BY <1>1, <2>1, <2>2
<1>3. m \in k .. stored[s]
  BY <1>2, PagingAssumption DEF Least
<1>4. \A i \in k + 1 .. m : text[i] \in Byte
  <2>1. text \in [1 .. Len(text) -> Byte]
    BY <1>1, LenProperties DEF Bytes
  <2> QED
    BY <1>1, <1>2, <1>3, <2>1
<1> HIDE DEF text, m
<1>5. /\ SubSeq(text, k + 1, m) \in Seq(Byte)
      /\ Len(SubSeq(text, k + 1, m)) = IF k + 1 <= m THEN m - (k + 1) + 1 ELSE 0
      /\ \A i \in 1 .. m - (k + 1) + 1 : SubSeq(text, k + 1, m)[i] = text[k + 1 + i - 1]
  <2>1. k + 1 \in Int /\ m \in Int
    BY <1>2, <1>3
  <2> QED
    BY <1>4, <2>1, SubSeqProperties
<1>6. BytesAt(s, k) = SubSeq(text, k + 1, m)
  BY DEF BytesAt, text, m
<1>7. Len(BytesAt(s, k)) = m - k /\ m - k \in Nat
  BY <1>2, <1>3, <1>5, <1>6
<1>8. \A i \in 1 .. m - k : BytesAt(s, k)[i] = text[k + i]
  BY <1>2, <1>3, <1>5, <1>6
<1> QED
  BY <1>1, <1>2, <1>5, <1>6, <1>7, <1>8 DEF Bytes, text, m

(* A page continues what the client holds; it is empty only at the end of  *)
(* the file.                                                               *)
LEMMA PageAppends ==
    ASSUME Capturing, NEW s \in Streams, stored[s] # None,
           NEW k \in Nat, k <= stored[s]
    PROVE  LET used == Page(BytesAt(s, k)).used IN
           /\ used \in Nat /\ used <= Len(BytesAt(s, k)) /\ k + used <= stored[s]
           /\ k < stored[s] => used > 0
           /\ SubSeq(BytesAt(s, k), 1, used) \in Bytes
           /\ SubSeq(content[s], 1, k) \o SubSeq(BytesAt(s, k), 1, used)
                = SubSeq(content[s], 1, k + used)
<1> DEFINE text == content[s]
           bytes == BytesAt(s, k)
           m == Least(k + PageSize, stored[s])
           used == Page(bytes).used
<1>1. /\ text \in Bytes /\ Len(text) \in Nat /\ stored[s] \in Nat /\ stored[s] <= Len(text)
      /\ bytes \in Bytes /\ Len(bytes) = m - k /\ Len(bytes) \in Nat
  BY WhatIsRead
<1>2. m \in k .. stored[s] /\ (k < stored[s] => k < m)
  BY <1>1, PagingAssumption DEF Least
<1>3. bytes = SubSeq(text, k + 1, m)
  BY DEF BytesAt
<1> HIDE DEF text, bytes, m
<1>4. CASE Len(bytes) = 0
  <2>1. IsText(bytes)
    BY <1>4 DEF IsText, Whole
  <2>2. used = 0
    BY <1>4, <2>1 DEF Page
  <2> HIDE DEF used
  <2>3. SubSeq(bytes, 1, used) = << >>
    BY <2>2, SubSeqEmpty
  <2>4. SubSeq(text, 1, k) \in Seq(Byte)
    <3>1. \A i \in 1 .. k : text[i] \in Byte
      BY <1>1, LenProperties DEF Bytes
    <3> QED
      BY <3>1, SubSeqProperties
  <2>5. SubSeq(text, 1, k) \o << >> = SubSeq(text, 1, k + used)
    BY <2>2, <2>4, ConcatEmptySeq
  <2> QED
    BY <1>1, <1>2, <1>4, <2>2, <2>3, <2>5, EmptySeq DEF Bytes, used, text,
       bytes
<1>5. CASE Len(bytes) > 0
  <2>1. used \in 1 .. Len(bytes)
    BY <1>1, <1>5, PageMovesOn, EmptySeq
  <2> HIDE DEF used
  <2>2. k + 1 \in 1 .. Len(text) /\ m \in 1 .. Len(text) /\ used \in 1 .. m - (k + 1) + 1
    BY <1>1, <1>2, <1>5, <2>1
  <2>3. SubSeq(bytes, 1, used) = SubSeq(text, k + 1, k + used)
    <3>1. SubSeq(SubSeq(text, k + 1, m), 1, used)
            = SubSeq(text, (k + 1) + 1 - 1, (k + 1) + used - 1)
      BY <1>1, <2>2, SubSeqOfSubSeq DEF Bytes
    <3>2. (k + 1) + 1 - 1 = k + 1 /\ (k + 1) + used - 1 = k + used
      BY <2>1, <1>1
    <3> QED
      BY <1>3, <3>1, <3>2
  <2>4. SubSeq(text, 1, k) \o SubSeq(text, k + 1, k + used) = SubSeq(text, 1, k + used)
    <3>1. /\ 1 \in 1 .. Len(text) + 1
          /\ k \in 1 - 1 .. Len(text)
          /\ k + used \in k .. Len(text)
      BY <1>1, <1>2, <2>1
    <3> QED
      BY <1>1, <3>1, ConcatAdjacentSubSeq DEF Bytes
  <2>5. SubSeq(bytes, 1, used) \in Bytes
    <3>1. \A i \in 1 .. used : bytes[i] \in Byte
      BY <1>1, <2>1, LenProperties DEF Bytes
    <3>2. used \in Int
      BY <1>1, <2>1
    <3> QED
      BY <3>1, <3>2, SubSeqProperties DEF Bytes
  <2>6. used \in Nat /\ used <= Len(bytes) /\ k + used <= stored[s] /\ used > 0
    BY <1>1, <1>2, <2>1
  <2>7. SubSeq(text, 1, k) \o SubSeq(bytes, 1, used) = SubSeq(text, 1, k + used)
    BY <2>3, <2>4
  <2> QED
    BY <2>5, <2>6, <2>7 DEF used, text, bytes
<1> QED
  BY <1>1, <1>4, <1>5

(* A step of a client changes what this client knows, and nothing else. *)
Turn(r, c) ==
    /\ Still
    /\ c \in Reader
    /\ readers' = [readers EXCEPT ![r] = c]
    /\ c.stream = readers[r].stream

LEMMA TurnChangesOne ==
    ASSUME Capturing, NEW r \in Readers, NEW c, Turn(r, c)
    PROVE  /\ readers' \in [Readers -> Reader]
           /\ readers'[r] = c
           /\ \A q \in Readers \ {r} : readers'[q] = readers[q]
           /\ content' = content /\ stored' = stored /\ state' = state
           /\ produced' = produced /\ output' = output /\ marker' = marker
  BY DEF Capturing, Typed, Turn, Still, source, files

LEMMA OtherClientsKeep ==
    ASSUME IInv, NEW r \in Readers, NEW c, Turn(r, c), NEW q \in Readers \ {r}
    PROVE  Reads(q)' /\ ReadsText(q)'
<1>1. Reads(q) /\ ReadsText(q)
  BY DEF IInv
<1>2. /\ readers'[q] = readers[q]
      /\ content' = content /\ stored' = stored /\ state' = state
      /\ produced' = produced /\ output' = output /\ marker' = marker
  BY TurnChangesOne DEF IInv
<1> QED
  BY <1>1, <1>2 DEF Reads, ReadsText, Last, Everything

LEMMA ReaderFacts ==
    ASSUME IInv, NEW r \in Readers
    PROVE  /\ readers[r] \in Reader
           /\ readers[r].stream \in Streams
           /\ readers[r].cursor \in Nat
           /\ Reads(r) /\ ReadsText(r)
           /\ Capturing
           /\ state \in States
           /\ \A s \in Streams : stored[s] # None => stored[s] \in Nat
  BY DEF IInv, Capturing, Typed, Reader

LEMMA PageTaskKeeps ==
    ASSUME IInv, NEW r \in Readers, PageTask(r)
    PROVE  \E c : Turn(r, c) /\ Reads(r)' /\ ReadsText(r)'
<1> DEFINE c == [readers[r] EXCEPT !.pc = "stat", !.state = state]
<1>1. c \in Reader /\ c.stream = readers[r].stream
  BY ReaderFacts DEF Reader, States
<1>2. Turn(r, c)
  BY <1>1 DEF PageTask, Turn, Still
<1>3. /\ readers'[r] = c
      /\ content' = content /\ stored' = stored /\ state' = state
      /\ marker' = marker
      /\ produced' = produced /\ output' = output
  BY <1>2, TurnChangesOne DEF IInv
<1>4. /\ c.pc = "stat" /\ c.state = state /\ c.stream = readers[r].stream
      /\ c.got = readers[r].got /\ c.cursor = readers[r].cursor
      /\ c.answer = readers[r].answer /\ c.hex = readers[r].hex
      /\ c.early = readers[r].early
  BY ReaderFacts DEF Reader
<1> HIDE DEF c
<1>5. Reads(r)'
  BY <1>3, <1>4, ReaderFacts DEF Reads, Last, Everything
<1>6. ReadsText(r)'
  BY <1>3, <1>4, ReaderFacts DEF ReadsText
<1> QED
  BY <1>2, <1>5, <1>6

LEMMA PagePendingKeeps ==
    ASSUME IInv, NEW r \in Readers, PagePending(r)
    PROVE  \E c : Turn(r, c) /\ Reads(r)' /\ ReadsText(r)'
<1> DEFINE c == [readers[r] EXCEPT !.pc = "idle", !.state = None, !.answer = None]
<1>1. c \in Reader /\ c.stream = readers[r].stream
  BY ReaderFacts DEF Reader
<1>2. Turn(r, c)
  BY <1>1 DEF PagePending, Turn, Still
<1>3. /\ readers'[r] = c
      /\ content' = content /\ stored' = stored /\ state' = state
      /\ marker' = marker
  BY <1>2, TurnChangesOne DEF IInv
<1>4. /\ c.pc = "idle" /\ c.answer = None /\ c.stream = readers[r].stream
      /\ c.got = readers[r].got /\ c.cursor = readers[r].cursor
      /\ c.hex = readers[r].hex /\ c.early = readers[r].early
  BY ReaderFacts DEF Reader
<1> HIDE DEF c
<1>5. Reads(r)'
  BY <1>3, <1>4, ReaderFacts DEF Reads, Last
<1>6. ReadsText(r)'
  BY <1>3, <1>4, ReaderFacts DEF ReadsText
<1> QED
  BY <1>2, <1>5, <1>6

LEMMA PageStatKeeps ==
    ASSUME IInv, NEW r \in Readers, PageStat(r)
    PROVE  \E c : Turn(r, c) /\ Reads(r)' /\ ReadsText(r)'
<1> DEFINE s == readers[r].stream
           c == [readers[r] EXCEPT !.pc = "read", !.len = stored[s]]
<1>1. stored[s] # None /\ stored[s] \in Nat
  BY ReaderFacts DEF PageStat
<1>2. c \in Reader /\ c.stream = s
  BY <1>1, ReaderFacts DEF Reader
<1>3. Turn(r, c)
  BY <1>2 DEF PageStat, Turn, Still
<1>4. /\ readers'[r] = c
      /\ content' = content /\ stored' = stored /\ state' = state
      /\ marker' = marker
      /\ produced' = produced /\ output' = output
  BY <1>3, TurnChangesOne DEF IInv
<1>5. /\ c.pc = "read" /\ c.len = stored[s] /\ c.stream = s /\ c.state = readers[r].state
      /\ c.got = readers[r].got /\ c.cursor = readers[r].cursor
      /\ c.answer = readers[r].answer /\ c.hex = readers[r].hex
      /\ c.early = readers[r].early
      /\ readers[r].pc = "stat"
  BY ReaderFacts DEF Reader, PageStat
<1> HIDE DEF c
<1>6. Reads(r)'
  BY <1>1, <1>4, <1>5, ReaderFacts DEF Reads, Last, Everything
<1>7. ReadsText(r)'
  BY <1>4, <1>5, ReaderFacts DEF ReadsText
<1> QED
  BY <1>3, <1>6, <1>7

LEMMA PageReadKeeps ==
    ASSUME IInv, NEW r \in Readers, PageRead(r)
    PROVE  \E c : Turn(r, c) /\ Reads(r)' /\ ReadsText(r)'
<1> DEFINE b == readers[r]
           s == b.stream
           text == content[s]
           bytes == BytesAt(s, b.cursor)
           page == Page(bytes)
           early == b.early \/ b.state # "exited"
           hex == b.hex \/ (~early /\ page.encoding = "hex")
           c == [b EXCEPT !.pc = "mark", !.cursor = @ + page.used,
                          !.got = @ \o SubSeq(bytes, 1, page.used),
                          !.early = early, !.hex = hex]
<1>1. /\ b \in Reader /\ s \in Streams /\ b.cursor \in Nat
      /\ b.pc = "read" /\ b.got = SubSeq(text, 1, b.cursor)
      /\ stored[s] # None /\ stored[s] \in Nat /\ b.cursor <= stored[s]
      /\ b.len \in Nat /\ b.len <= stored[s]
  BY ReaderFacts DEF PageRead, Reads
<1>2. /\ page.used \in Nat /\ b.cursor + page.used <= stored[s]
      /\ b.cursor < stored[s] => page.used > 0
      /\ SubSeq(bytes, 1, page.used) \in Bytes
      /\ b.got \o SubSeq(bytes, 1, page.used) = SubSeq(text, 1, b.cursor + page.used)
  BY <1>1, PageAppends, ReaderFacts
<1>3. c \in Reader /\ c.stream = s
  <2>1. b.got \o SubSeq(bytes, 1, page.used) \in Bytes
    BY <1>1, <1>2, ConcatProperties DEF Reader, Bytes
  <2>2. early \in BOOLEAN /\ hex \in BOOLEAN
    BY <1>1 DEF Reader
  <2>3. b.cursor + page.used \in Nat
    BY <1>1, <1>2
  <2>4. c = [b EXCEPT !.pc = "mark", !.cursor = b.cursor + page.used,
                      !.got = b.got \o SubSeq(bytes, 1, page.used),
                      !.early = early, !.hex = hex]
    BY <1>1 DEF Reader
  <2> HIDE DEF page, bytes, early, hex, c
  <2> DEFINE cursor == b.cursor + page.used
             got == b.got \o SubSeq(bytes, 1, page.used)
  <2>5. cursor \in Nat /\ got \in Bytes
    BY <2>1, <2>3
  <2>6. c = [b EXCEPT !.pc = "mark", !.cursor = cursor, !.got = got,
                      !.early = early, !.hex = hex]
    BY <2>4
  <2> HIDE DEF cursor, got
  <2> QED
    BY <1>1, <2>2, <2>5, <2>6 DEF Reader
<1>4. readers' = [readers EXCEPT ![r] = c]
  BY DEF PageRead
<1>5. Turn(r, c)
  BY <1>3, <1>4 DEF PageRead, Turn, Still
<1>6. /\ readers'[r] = c
      /\ content' = content /\ stored' = stored /\ state' = state
      /\ marker' = marker
      /\ produced' = produced /\ output' = output
  BY <1>5, TurnChangesOne DEF IInv
<1>7. /\ c.pc = "mark" /\ c.cursor = b.cursor + page.used
      /\ c.got = b.got \o SubSeq(bytes, 1, page.used)
      /\ c.early = early /\ c.hex = hex
      /\ c.state = b.state /\ c.len = b.len /\ c.answer = b.answer
  BY <1>1 DEF Reader
<1> HIDE DEF c
<1>8. Reads(r)'
  <2> HIDE DEF page, bytes
  <2>1. c.got = SubSeq(text, 1, c.cursor)
    BY <1>2, <1>7
  <2>2. /\ c.cursor \in Nat /\ c.cursor <= stored[s]
        /\ b.cursor = stored[s] => c.cursor = stored[s]
    BY <1>1, <1>2, <1>7
  <2>3. /\ b.state = "exited" => state = "exited" /\ b.len = stored[s]
        /\ Last(r) /\ b.answer.state = "exited" =>
             /\ state = "exited"
             /\ b.cursor = stored[s]
             /\ b.answer.truncated = marker
             /\ marker \/ Everything(s)
             /\ b.state = "exited"
    BY <1>1, ReaderFacts DEF Reads
  <2> QED
    BY <1>1, <1>3, <1>6, <1>7, <2>1, <2>2, <2>3 DEF Reads, Last, Everything
<1>9. ReadsText(r)'
  <2>1. /\ b.hex => state = "exited"
        /\ ~b.early => b.cursor = 0 \/ state = "exited"
        /\ state = "exited" /\ IsText(text) /\ stored[s] = Len(text) =>
             ~b.hex /\ (~b.early => Whole(text, b.cursor))
    BY ReaderFacts DEF ReadsText
  <2>2. b.state = "exited" => state = "exited"
    BY <1>1, ReaderFacts DEF Reads
  <2>3. ASSUME IsText(text), stored[s] = Len(text), ~early, state = "exited"
        PROVE  page.encoding = "utf8" /\ Whole(text, c.cursor)
    <3>1. /\ text \in Bytes /\ Len(text) \in Nat /\ bytes \in Bytes
          /\ Len(bytes) = Least(b.cursor + PageSize, Len(text)) - b.cursor
          /\ \A i \in 1 .. Len(bytes) : bytes[i] = text[b.cursor + i]
      BY <1>1, <2>3, WhatIsRead, ReaderFacts
    <3>2. Whole(text, b.cursor)
      BY <2>1, <2>3
    <3> HIDE DEF text, bytes
    <3>3. b.cursor \in 0 .. Len(text)
      BY <1>1, <2>3, <3>1
    <3>4. page.encoding = "utf8"
      BY <2>3, <3>1, <3>2, <3>3, PageOfTextIsText
    <3>5. Whole(bytes, page.used)
      BY <3>1, <3>4, TextPageIsWhole
    <3>6. page.used \in 0 .. Len(bytes)
      BY <1>1, <1>2, <3>1, PageAppends, ReaderFacts DEF bytes
    <3>7. b.cursor + page.used <= Len(text)
      BY <1>2, <2>3
    <3> HIDE DEF page
    <3>8. \A i \in 1 .. page.used : bytes[i] = text[b.cursor + i]
      BY <3>1, <3>6
    <3>9. Whole(text, b.cursor + page.used)
      BY <3>1, <3>2, <3>3, <3>5, <3>6, <3>7, <3>8, WholeJoins
    <3> QED
      BY <1>7, <3>4, <3>9
  <2> HIDE DEF page, bytes
  <2>4. c.hex => state = "exited"
    BY <1>7, <2>1, <2>2
  <2>5. ~c.early => state = "exited"
    BY <1>7, <2>2
  <2>6. IsText(text) /\ stored[s] = Len(text) /\ state = "exited" =>
          ~c.hex /\ (~c.early => Whole(text, c.cursor))
    BY <1>7, <2>1, <2>3
  <2> QED
    BY <1>3, <1>6, <2>4, <2>5, <2>6 DEF ReadsText
<1> QED
  BY <1>5, <1>8, <1>9

LEMMA PageMarkKeeps ==
    ASSUME IInv, NEW r \in Readers, PageMark(r)
    PROVE  \E c : Turn(r, c) /\ Reads(r)' /\ ReadsText(r)'
<1> DEFINE b == readers[r]
           s == b.stream
           more == b.cursor < b.len
           c == [b EXCEPT !.pc = "idle", !.state = None, !.len = None,
                          !.answer = Answer(r, more, marker)]
<1>1. /\ b \in Reader /\ s \in Streams /\ b.cursor \in Nat
      /\ b.pc = "mark" /\ b.got = SubSeq(content[s], 1, b.cursor)
      /\ stored[s] # None /\ stored[s] \in Nat /\ b.cursor <= stored[s]
      /\ b.len \in Nat
      /\ b.state = "exited" => state = "exited" /\ b.len = stored[s]
      /\ marker \in BOOLEAN
  BY ReaderFacts DEF PageMark, Reads, Capturing, Typed
<1>2. c \in Reader /\ c.stream = s
  <2>1. Answer(r, more, marker) \in [state : States \cup {None}, more : BOOLEAN,
                                     truncated : BOOLEAN]
    BY <1>1 DEF Answer, Reader
  <2> QED
    BY <1>1, <2>1 DEF Reader
<1>3. Turn(r, c)
  BY <1>2 DEF PageMark, Turn, Still
<1>4. /\ readers'[r] = c
      /\ content' = content /\ stored' = stored /\ state' = state
      /\ produced' = produced /\ output' = output /\ marker' = marker
  BY <1>3, TurnChangesOne DEF IInv
<1>5. /\ c.pc = "idle" /\ c.cursor = b.cursor /\ c.got = b.got
      /\ c.early = b.early /\ c.hex = b.hex
      /\ c.answer = Answer(r, more, marker)
  BY <1>1 DEF Reader
<1>6. /\ Answer(r, more, marker).state = b.state
      /\ Answer(r, more, marker).more = more
      /\ Answer(r, more, marker).truncated = marker
  BY DEF Answer
<1> HIDE DEF c
<1>7. ASSUME ~more, b.state = "exited"
      PROVE  /\ state = "exited" /\ b.cursor = stored[s]
             /\ marker \/ Everything(s)
  <2>1. state = "exited" /\ b.cursor = stored[s]
    BY <1>1, <1>7
  <2>2. marker \/ Everything(s)
    BY <1>1, <2>1, ReaderFacts DEF Capturing, ExitsAreSettled, Settled
  <2> QED
    BY <2>1, <2>2
<1>8. Reads(r)'
  <2>1. Last(r)' => ~more
    BY <1>4, <1>5, <1>6 DEF Last
  <2> QED
    BY <1>1, <1>2, <1>4, <1>5, <1>6, <1>7, <2>1 DEF Reads, Everything
<1>9. ReadsText(r)'
  BY <1>2, <1>4, <1>5, ReaderFacts DEF ReadsText
<1> QED
  BY <1>3, <1>8, <1>9

-----------------------------------------------------------------------------
LEMMA IInvHolds == Spec => []IInv
<1>1. Init => IInv
  BY InitIInv
<1>2. IInv /\ [Next]_vars => IInv'
  <2> SUFFICES ASSUME IInv, [Next]_vars PROVE IInv'
    OBVIOUS
  <2>1. CASE Others
    <3>1. Capturing'
      BY <2>1, OthersKeep DEF IInv
    <3>2. \A r \in Readers : Reads(r)' /\ ReadsText(r)'
      BY <2>1, OthersKeepReads
    <3> QED
      BY <3>1, <3>2 DEF IInv
  <2>2. ASSUME NEW r \in Readers, ReaderStep(r)
        PROVE  IInv'
    <3>1. PICK c : Turn(r, c) /\ Reads(r)' /\ ReadsText(r)'
      BY <2>2, PageTaskKeeps, PagePendingKeeps, PageStatKeeps, PageReadKeeps,
         PageMarkKeeps DEF ReaderStep
    <3>2. \A q \in Readers : Reads(q)' /\ ReadsText(q)'
      BY <3>1, OtherClientsKeep
    <3>3. Capturing'
      BY <3>1, TurnChangesOne, ClientsKeepCapturing DEF IInv, Turn
    <3> QED
      BY <3>2, <3>3 DEF IInv
  <2>3. CASE UNCHANGED vars
    <3>1. Still /\ readers' = readers
      BY <2>3 DEF vars, Still
    <3>2. Capturing'
      BY <3>1, ClientsKeepCapturing DEF IInv, Capturing, Typed
    <3>3. \A r \in Readers : Reads(r)' /\ ReadsText(r)'
      BY <3>1 DEF IInv, Still, source, files, Reads, ReadsText, Last,
         Everything
    <3> QED
      BY <3>2, <3>3 DEF IInv
  <2> QED
    BY <2>1, <2>2, <2>3 DEF Next, Others
<1> QED
  BY <1>1, <1>2, PTL DEF Spec

(* A client that is told that the task exited and that there is no more    *)
(* may stop reading: what it holds is the whole file, and the file is all  *)
(* that the command wrote to the stream, or the answer calls it truncated. *)
(* This holds for every output, page size, pipe and limit, wherever the    *)
(* pages end and however the reads mix with the capture, with failed calls *)
(* and with the death of the worker.                                       *)
THEOREM ExitedOutputsAreWhole == Spec => []ExitedOutputIsWhole
<1>1. IInv => ExitedOutputIsWhole
  BY DEF IInv, Reads, ExitedOutputIsWhole
<1> QED
  BY <1>1, IInvHolds, PTL

(* Only an output that is longer than the limit is ever called truncated. *)
THEOREM MarkersAreTrue == Spec => []MarkerIsTrue
<1>1. IInv => MarkerIsTrue
  BY DEF IInv, Capturing
<1> QED
  BY <1>1, IInvHolds, PTL

(* Of a text that was stored whole, a client that pages after the exit     *)
(* gets no page in hex, however long the characters are at which the pages *)
(* end: a page is at least as long as the longest character.               *)
THEOREM TextsStayText == Spec => []TextStaysText
<1>1. IInv => TextStaysText
  <2> SUFFICES ASSUME IInv, NEW r \in Readers,
                      IsText(content[readers[r].stream]),
                      stored[readers[r].stream] = Len(content[readers[r].stream])
               PROVE  ~readers[r].hex
    BY DEF TextStaysText
  <2> QED
    BY DEF IInv, ReadsText
<1> QED
  BY <1>1, IInvHolds, PTL

-----------------------------------------------------------------------------
(***************************************************************************)
(* The promise of FollowedOutput                                           *)
(***************************************************************************)

File == [s \in Streams |-> IF stored[s] = None THEN 0 ELSE stored[s]]
Place == [r \in Readers |-> readers[r].cursor]
Follows == [r \in Readers |-> readers[r].stream]
AllTold == [r \in Readers |-> Told(r)]

LEMMA InitFollows == Init => Followed!Init
<1> SUFFICES ASSUME Init PROVE Followed!Init
  OBVIOUS
<1>1. \A r \in Readers : \E s \in Streams : readers[r] = Fresh(s)
  BY DEF Init
<1>2. \A r \in Readers : /\ readers[r].stream \in Streams
                         /\ readers[r].cursor = 0
                         /\ readers[r].answer = None
  <2> SUFFICES ASSUME NEW r \in Readers
               PROVE  /\ readers[r].stream \in Streams
                      /\ readers[r].cursor = 0
                      /\ readers[r].answer = None
    OBVIOUS
  <2>1. PICK s \in Streams : readers[r] = Fresh(s)
    BY <1>1
  <2> QED
    BY <2>1 DEF Fresh
<1>3. Follows \in [Readers -> Streams] /\ Place = [r \in Readers |-> 0]
  BY <1>2 DEF Follows, Place
<1>4. AllTold = [r \in Readers |-> "open"]
  BY <1>2 DEF AllTold, Told, Last
<1>5. File = [s \in Streams |-> 0]
  BY DEF Init, File
<1> QED
  BY <1>3, <1>4, <1>5
     DEF Init, Followed!Init, Verdict, File, Place, Follows, AllTold

(* Before the exit is recorded only three steps of the world are seen.     *)
LEMMA OthersFollow ==
    ASSUME IInv, IInv', Others
    PROVE  [Followed!Next]_(Followed!vars)
<1>1. readers' = readers /\ state # "exited" /\ Verdict = "open"
  BY OthersKeep, ExitIsFinal DEF IInv, Verdict
<1>2. Place' = Place /\ Follows' = Follows /\ AllTold' = AllTold
  BY <1>1 DEF Place, Follows, AllTold, Told, Last
<1>3. ASSUME NEW s \in Streams, RemoteWrites(s)
      PROVE  Followed!Next
  <2>1. produced[s] \in Nat /\ produced'[s] = produced[s] + 1
    BY <1>3 DEF IInv, Capturing, Typed, RemoteWrites
  <2>2. produced' = [produced EXCEPT ![s] = produced'[s]] /\ produced'[s] > produced[s]
    <3>1. produced' = [produced EXCEPT ![s] = produced[s] + 1]
      BY <1>3 DEF RemoteWrites
    <3> QED
      BY <2>1, <3>1
  <2>3. File' = File /\ Verdict' = Verdict
    BY <1>3 DEF RemoteWrites, File, Verdict, files
  <2>4. Followed!Write(s)
    BY <1>1, <1>2, <2>2, <2>3
       DEF Followed!Write, Followed!Raises, File, Place, Follows, AllTold
  <2> QED
    BY <2>4 DEF Followed!Next
<1>4. ASSUME NEW s \in Streams, Drain(s)
      PROVE  [Followed!Next]_(Followed!vars)
  <2>1. /\ stored[s] # None /\ stored[s] \in Nat
        /\ \A t \in Streams \ {s} : stored'[t] = stored[t]
        /\ produced' = produced /\ Verdict' = Verdict
    <3>1. stored[s] # None /\ stored[s] \in Nat
      BY <1>4 DEF IInv, Capturing, Typed, Conserved, Drain, Reading
    <3>2. \A t \in Streams \ {s} : stored'[t] = stored[t]
      BY <1>4 DEF IInv, Capturing, Typed, Drain
    <3> QED
      BY <1>4, <3>1, <3>2 DEF Drain, Verdict
  <2>2. stored'[s] \in Nat /\ stored'[s] >= stored[s]
    BY <2>1, FilesGrow DEF IInv
  <2>3. stored'[s] <= produced[s] /\ produced[s] \in Nat
    <3>1. /\ stored'[s] # None => stored'[s] + pipe'[s] <= produced'[s]
          /\ pipe'[s] \in Nat /\ produced'[s] \in Nat
      BY DEF IInv, Capturing, Conserved, Typed
    <3> QED
      BY <2>1, <2>2, <3>1, CaptureAssumption
  <2>4. /\ File[s] = stored[s] /\ File'[s] = stored'[s]
        /\ \A t \in Streams \ {s} : File'[t] = File[t]
    BY <2>1, <2>2, CaptureAssumption DEF File
  <2>5. File' = [File EXCEPT ![s] = File'[s]]
    BY <2>4 DEF File
  <2>6. CASE stored'[s] > stored[s]
    <3>1. Followed!Store(s)
      BY <1>1, <1>2, <2>1, <2>3, <2>4, <2>5, <2>6
         DEF Followed!Store, Followed!Raises, File, Place, Follows, AllTold
    <3> QED
      BY <3>1 DEF Followed!Next
  <2>7. CASE stored'[s] = stored[s]
    <3>1. File' = File
      BY <2>4, <2>5, <2>7 DEF File
    <3> QED
      BY <1>1, <1>2, <2>1, <3>1
         DEF Followed!vars, File, Place, Follows, AllTold
  <2> QED
    BY <2>1, <2>2, <2>6, <2>7
<1>5. CASE FinishTask
  <2>1. produced' = produced /\ File' = File /\ marker' = marker
    BY <1>5 DEF FinishTask, File, files
  <2>2. CASE state' = "exited"
    <3>1. Verdict' = IF marker THEN "cut" ELSE "whole"
      BY <2>1, <2>2 DEF Verdict
    <3>2. marker => File # produced
      <4> SUFFICES ASSUME marker PROVE File # produced
        OBVIOUS
      <4>1. PICK s \in Streams : produced[s] > Limit
        BY DEF IInv, Capturing, MarkerIsTrue
      <4>2. File[s] <= Limit /\ File[s] \in Nat
        BY CaptureAssumption DEF IInv, Capturing, Typed, Conserved, File
      <4>3. produced[s] \in Nat /\ Limit \in Nat
        BY CaptureAssumption DEF IInv, Capturing, Typed
      <4> QED
        BY <4>1, <4>2, <4>3
    <3>3. ~marker => File = produced
      <4> SUFFICES ASSUME ~marker PROVE File = produced
        OBVIOUS
      <4>1. \A s \in Streams : stored'[s] # None /\ stored'[s] = produced[s]
        BY <2>1, <2>2 DEF IInv, Capturing, ExitsAreSettled, Settled, Everything
      <4>2. \A s \in Streams : File[s] = produced[s]
        BY <2>1, <4>1 DEF File
      <4>3. produced = [s \in Streams |-> produced[s]]
        BY DEF IInv, Capturing, Typed
      <4> QED
        BY <4>2, <4>3 DEF File
    <3>4. Verdict' = IF File = produced THEN "whole" ELSE "cut"
      BY <3>1, <3>2, <3>3
    <3>5. Followed!Settle
      BY <1>1, <1>2, <2>1, <3>4
         DEF Followed!Settle, File, Place, Follows, AllTold
    <3> QED
      BY <3>5 DEF Followed!Next
  <2>3. CASE state' # "exited"
    <3>1. Verdict' = "open"
      BY <2>3 DEF Verdict
    <3> QED
      BY <1>1, <1>2, <2>1, <3>1 DEF Followed!vars, File, Place, Follows,
         AllTold
  <2> QED
    BY <2>2, <2>3
<1>6. ASSUME produced' = produced, File' = File, Verdict' = "open"
      PROVE  UNCHANGED Followed!vars
  BY <1>1, <1>2, <1>6 DEF Followed!vars, File, Place, Follows, AllTold
<1>7. CASE CreateOutputs
  <2>1. PICK s \in Streams : stored[s] = None /\ stored' = [stored EXCEPT ![s] = 0]
    BY <1>7 DEF CreateOutputs
  <2>2. \A t \in Streams : stored'[t] = IF t = s THEN 0 ELSE stored[t]
    BY <2>1 DEF IInv, Capturing, Typed
  <2>3. File' = File
    BY <2>1, <2>2, CaptureAssumption DEF File
  <2>4. produced' = produced /\ Verdict' = "open"
    BY <1>1, <1>7 DEF CreateOutputs, source, Verdict
  <2> QED
    BY <1>6, <2>3, <2>4
<1>8. CASE /\ UNCHANGED <<produced, stored>>
           /\ state' # "exited"
  <2>1. File' = File /\ Verdict' = "open"
    BY <1>8 DEF File, Verdict
  <2> QED
    BY <1>6, <1>8, <2>1
<1>9. \/ \E s \in Streams : RemoteWrites(s) \/ Drain(s)
      \/ FinishTask
      \/ CreateOutputs
      \/ UNCHANGED <<produced, stored>> /\ state' # "exited"
  <2>1. SshStep \/ SshFails =>
          \/ \E s \in Streams : RemoteWrites(s)
          \/ UNCHANGED <<produced, stored>> /\ state' # "exited"
    BY <1>1 DEF SshStep, BrokenPipe, SshExits, SshFails, files
  <2>2. \A s \in Streams : EndOfFile(s) \/ CaptureFails(s) =>
          UNCHANGED <<produced, stored>> /\ state' # "exited"
    BY <1>1 DEF EndOfFile, CaptureFails, source, files
  <2>3. WorkerStep => \/ FinishTask
                      \/ CreateOutputs
                      \/ UNCHANGED <<produced, stored>> /\ state' # "exited"
    BY <1>1 DEF WorkerStep, SpawnSsh, SshReaped, JoinStdout, JoinStderr,
       MarkTruncated, source, files
  <2>4. StartFails \/ WorkerDies \/ SweepStale =>
          UNCHANGED <<produced, stored>> /\ state' # "exited"
    BY <1>1 DEF StartFails, WorkerDies, SweepStale, source, files
  <2> QED
    BY <2>1, <2>2, <2>3, <2>4 DEF Others, CaptureStep
<1> QED
  BY <1>3, <1>4, <1>5, <1>6, <1>7, <1>8, <1>9

(* What the mapping shows of a client's step, by its cursor and answer. *)
LEMMA TurnIsSeen ==
    ASSUME IInv, NEW r \in Readers, NEW c, Turn(r, c)
    PROVE  /\ produced' = produced /\ File' = File /\ Verdict' = Verdict
           /\ Follows' = Follows
           /\ Place' = [Place EXCEPT ![r] = c.cursor]
           /\ AllTold' = [AllTold EXCEPT ![r] = Told(r)']
           /\ Told(r)' = IF c.answer # None /\ ~c.answer.more /\ c.answer.state = "exited"
                           THEN IF c.answer.truncated THEN "cut" ELSE "whole"
                           ELSE "open"
<1>1. /\ readers'[r] = c
      /\ \A q \in Readers \ {r} : readers'[q] = readers[q]
      /\ stored' = stored /\ state' = state /\ produced' = produced /\ marker' = marker
  BY TurnChangesOne DEF IInv
<1>2. File' = File /\ Verdict' = Verdict
  BY <1>1 DEF File, Verdict
<1>3. Follows' = Follows
  BY <1>1 DEF Follows, Turn
<1>4. Place' = [Place EXCEPT ![r] = c.cursor]
  BY <1>1 DEF Place
<1>5. \A q \in Readers \ {r} : Told(q)' = Told(q)
  BY <1>1 DEF Told, Last
<1>6. AllTold' = [AllTold EXCEPT ![r] = Told(r)']
  BY <1>5 DEF AllTold
<1>7. Told(r)' = IF c.answer # None /\ ~c.answer.more /\ c.answer.state = "exited"
                   THEN IF c.answer.truncated THEN "cut" ELSE "whole"
                   ELSE "open"
  BY <1>1 DEF Told, Last
<1> QED
  BY <1>1, <1>2, <1>3, <1>4, <1>6, <1>7

LEMMA ClientsFollow ==
    ASSUME IInv, IInv', NEW r \in Readers, ReaderStep(r)
    PROVE  [Followed!Next]_(Followed!vars)
<1> DEFINE b == readers[r]
           s == b.stream
<1>1. PICK c : Turn(r, c)
  BY PageTaskKeeps, PagePendingKeeps, PageStatKeeps, PageReadKeeps,
     PageMarkKeeps
     DEF ReaderStep
<1>2. /\ readers'[r] = c
      /\ produced' = produced /\ File' = File /\ Verdict' = Verdict
      /\ Follows' = Follows
      /\ Place' = [Place EXCEPT ![r] = c.cursor]
      /\ AllTold' = [AllTold EXCEPT ![r] = Told(r)']
      /\ Told(r)' = IF c.answer # None /\ ~c.answer.more /\ c.answer.state = "exited"
                      THEN IF c.answer.truncated THEN "cut" ELSE "whole"
                      ELSE "open"
  BY <1>1, TurnIsSeen, TurnChangesOne DEF IInv
<1>3. /\ b \in Reader /\ s \in Streams /\ b.cursor \in Nat /\ c.cursor \in Nat
      /\ Reads(r) /\ Reads(r)' /\ Capturing
      /\ c.stream = s /\ stored' = stored /\ state' = state /\ marker' = marker
  BY <1>1, ReaderFacts, TurnChangesOne DEF IInv, Turn, Reader
<1>4. /\ Place[r] = b.cursor /\ Follows[r] = s
      /\ stored[s] # None => File[s] = stored[s]
  BY <1>3 DEF Place, Follows, File
<1>5. ASSUME c.cursor = b.cursor, Told(r)' = Told(r)
      PROVE  UNCHANGED Followed!vars
  <2>1. Place' = Place /\ AllTold' = AllTold
    BY <1>2, <1>4, <1>5 DEF Place, AllTold
  <2> QED
    BY <1>2, <2>1 DEF Followed!vars, File, Place, Follows, AllTold
<1>6. CASE PageTask(r) \/ PageStat(r)
  <2>1. c.cursor = b.cursor /\ c.answer = b.answer
    BY <1>2, <1>3, <1>6 DEF PageTask, PageStat, IInv, Capturing, Typed, Reader
  <2>2. Told(r)' = Told(r)
    BY <1>2, <2>1 DEF Told, Last
  <2> QED
    BY <1>5, <2>1, <2>2
<1>7. CASE PagePending(r)
  <2>1. c.cursor = b.cursor /\ c.answer = None
    BY <1>2, <1>3, <1>7 DEF PagePending, IInv, Capturing, Typed, Reader
  <2>2. Told(r)' = "open"
    BY <1>2, <2>1
  <2>3. Told(r) = "open"
    <3>1. stored[s] = None
      BY <1>7 DEF PagePending
    <3>2. state # "exited"
      BY <1>3, <3>1 DEF Capturing, ExitsAreSettled, Settled
    <3> QED
      BY <1>3, <3>2 DEF Told, Reads
  <2> QED
    BY <1>5, <2>1, <2>2, <2>3
<1>8. CASE PageRead(r)
  <2>1. c.answer = b.answer /\ b.pc = "read" /\ c.pc = "mark"
    <3> DEFINE bytes == BytesAt(s, b.cursor)
               page == Page(bytes)
               cursor == b.cursor + page.used
               got == b.got \o SubSeq(bytes, 1, page.used)
               early == b.early \/ b.state # "exited"
               hex == b.hex \/ (~early /\ page.encoding = "hex")
    <3>1. readers' = [readers EXCEPT
                        ![r] = [b EXCEPT !.pc = "mark", !.cursor = cursor, !.got = got,
                                         !.early = early, !.hex = hex]]
      BY <1>8 DEF PageRead
    <3> HIDE DEF cursor, got, early, hex
    <3>2. b.pc = "read"
      BY <1>8 DEF PageRead
    <3>3. c = [b EXCEPT !.pc = "mark", !.cursor = cursor, !.got = got,
                        !.early = early, !.hex = hex]
      BY <1>2, <3>1 DEF IInv, Capturing, Typed
    <3> QED
      BY <1>3, <3>2, <3>3 DEF Reader
  <2>2. Told(r)' = Told(r)
    BY <1>2, <2>1 DEF Told, Last
  <2>3. /\ stored[s] # None /\ stored[s] \in Nat
        /\ c.cursor <= stored[s]
    BY <1>2, <1>3, <2>1, ReaderFacts DEF Reads
  <2>4. c.cursor >= b.cursor
    <3>1. b.cursor <= stored[s]
      BY <1>3, <2>3 DEF Reads
    <3>2. Page(BytesAt(s, b.cursor)).used \in Nat
      BY <1>3, <2>3, <3>1, PageAppends
    <3>3. c.cursor = b.cursor + Page(BytesAt(s, b.cursor)).used
      BY <1>2, <1>3, <1>8 DEF PageRead, IInv, Capturing, Typed, Reader
    <3> QED
      BY <1>3, <3>2, <3>3
  <2>5. AllTold' = AllTold
    BY <1>2, <2>2 DEF AllTold
  <2>6. CASE c.cursor > b.cursor
    <3>1. Place'[r] = c.cursor
      BY <1>2, <1>4 DEF Place
    <3>2. Followed!Read(r)
      BY <1>2, <1>4, <2>3, <2>5, <2>6, <3>1
         DEF Followed!Read, Followed!Raises, File, Place, Follows, AllTold
    <3> QED
      BY <3>2 DEF Followed!Next
  <2>7. CASE c.cursor = b.cursor
    BY <1>5, <2>2, <2>7
  <2> QED
    BY <1>3, <2>4, <2>6, <2>7
<1>9. CASE PageMark(r)
  <2> DEFINE more == b.cursor < b.len
  <2>1. /\ b.pc = "mark" /\ c.cursor = b.cursor
        /\ c.answer = Answer(r, more, marker)
    BY <1>2, <1>3, <1>9 DEF PageMark, IInv, Capturing, Typed, Reader
  <2>2. /\ c.answer.more = more /\ c.answer.truncated = marker
        /\ c.answer.state = b.state
    BY <2>1 DEF Answer
  <2>3. b.state = "exited" => state = "exited" /\ b.len = stored[s]
    BY <1>3, <2>1 DEF Reads
  <2>4. CASE Told(r)' # "open"
    <3>1. ~more /\ b.state = "exited" /\ Told(r)' = IF marker THEN "cut" ELSE "whole"
      BY <1>2, <2>2, <2>4
    <3>2. state = "exited" /\ Verdict = Told(r)' /\ Verdict # "open"
      BY <2>3, <3>1 DEF Verdict
    <3>3. Place[r] = File[s]
      <4>1. b.cursor <= stored[s] /\ stored[s] # None /\ stored[s] \in Nat
        BY <1>3, <2>1, ReaderFacts DEF Reads
      <4> QED
        BY <1>3, <1>4, <2>3, <3>1, <4>1
    <3>4. Place' = Place
      BY <1>2, <2>1 DEF Place
    <3>5. Followed!Tell(r)
      BY <1>2, <1>4, <3>2, <3>3, <3>4
         DEF Followed!Tell, File, Place, Follows, AllTold
    <3> QED
      BY <3>5 DEF Followed!Next
  <2>5. CASE Told(r)' = "open"
    <3>1. Told(r) = "open"
      <4> SUFFICES ASSUME Last(r), b.answer.state = "exited"
                   PROVE  FALSE
        BY DEF Told
      <4>1. state = "exited" /\ b.cursor = stored[s] /\ b.state = "exited"
        BY <1>3, <2>1 DEF Reads
      <4>2. ~more
        BY <1>3, <2>3, <4>1
      <4>3. c.answer = b.answer
        <5>1. /\ b.answer # None /\ ~b.answer.more
              /\ b.answer.truncated = marker
          BY <1>3 DEF Reads, Last
        <5>2. b.answer = [state |-> "exited", more |-> FALSE, truncated |-> marker]
          BY <1>3, <5>1 DEF Reader
        <5>3. more = FALSE
          BY <4>2
        <5> HIDE DEF more
        <5> QED
          BY <2>1, <4>1, <5>2, <5>3 DEF Answer
      <4> QED
        BY <1>2, <2>5, <4>3 DEF Last
    <3> QED
      BY <1>5, <2>1, <2>5, <3>1
  <2> QED
    BY <2>4, <2>5
<1> QED
  BY <1>6, <1>7, <1>8, <1>9 DEF ReaderStep

(* Seen from outside, the pipes, the two threads, the worker and the four  *)
(* looks of each client are one growing output that is settled once: no    *)
(* byte is stored after an exit is recorded, the verdict tells exactly     *)
(* whether bytes are missing, and who was told of the end is never told    *)
(* anything else.                                                          *)
THEOREM CaptureFollows == Spec => ImplementsFollowedOutput
<1>1. Init => Followed!Init
  BY InitFollows
<1>2. IInv /\ IInv' /\ [Next]_vars => [Followed!Next]_(Followed!vars)
  <2> SUFFICES ASSUME IInv, IInv', [Next]_vars
               PROVE  [Followed!Next]_(Followed!vars)
    OBVIOUS
  <2>1. CASE Others
    BY <2>1, OthersFollow
  <2>2. CASE \E r \in Readers : ReaderStep(r)
    BY <2>2, ClientsFollow
  <2>3. CASE UNCHANGED vars
    BY <2>3 DEF vars, source, files, Followed!vars, Verdict, Told, Last
  <2> QED
    BY <2>1, <2>2, <2>3 DEF Next, Others
<1> QED
  BY <1>1, <1>2, IInvHolds, PTL DEF Spec, ImplementsFollowedOutput,
     Followed!Spec

=============================================================================
