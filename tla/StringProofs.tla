---------------------------- MODULE StringProofs ----------------------------
(***************************************************************************)
(* Proofs about the string functions of both trees, for every set of       *)
(* strings, of lengths and of sizes of the output.                         *)
(***************************************************************************)
EXTENDS Strings, OldString, WellFoundedInduction, FiniteSetTheorems, SequenceTheorems, TLAPS

-----------------------------------------------------------------------------
(* Natural numbers and recursion over them.                                *)

(* A nonempty set of naturals has a least element. *)
LEMMA LeastNatural ==
    ASSUME NEW T \in SUBSET Nat, T # {}
    PROVE  \E m \in T : \A k \in T : m <= k
<1>. DEFINE Less == {ss \in Nat \X Nat : ss[1] < ss[2]}
<1>1. OpToRel(<, Nat) = Less
  BY Zenon DEF OpToRel
<1>2. IsWellFoundedOn(Less, Nat)
  BY <1>1, NatLessThanWellFounded, Zenon
<1>. HIDE DEF Less
<1>3. PICK m \in T : \A k \in T : ~ (<<k, m>> \in Less)
  BY <1>2, WFMin, Zenon
<1>4. \A k \in T : <<k, m>> \in Less <=> k < m
  BY DEF Less
<1>5. \A k \in T : ~ (k < m)
  BY <1>3, <1>4, Zenon
<1>6. \A k \in T : m <= k
  BY <1>5
<1>. QED  BY <1>6

(* The runs of n steps from a first value, step[i] being the i-th. *)
Runs(V, first, step, n) ==
    {h \in [0 .. n -> V] : h[0] = first /\ \A i \in 1 .. n : h[i] = step[i][h[i - 1]]}

(* A first value and a step define a run of any length. *)
LEMMA RunsExist ==
    ASSUME NEW V, NEW first \in V, NEW step \in [Nat -> [V -> V]], NEW N \in Nat
    PROVE  Runs(V, first, step, N) # {}
<1>. DEFINE Stuck == {n \in Nat : Runs(V, first, step, n) = {}}
<1>1. Stuck = {}
  <2>1. SUFFICES ASSUME Stuck # {} PROVE FALSE
    OBVIOUS
  <2>2. Stuck \in SUBSET Nat
    OBVIOUS
  <2>. HIDE DEF Stuck
  <2>3. PICK m \in Stuck : \A k \in Stuck : m <= k
    BY <2>1, <2>2, LeastNatural
  <2>4. m \in Nat /\ Runs(V, first, step, m) = {}
    BY DEF Stuck
  <2>5. m # 0
    <3>1. PICK h : h = [i \in 0 .. 0 |-> first]
      OBVIOUS
    <3>2. h \in Runs(V, first, step, 0)
      BY <3>1 DEF Runs
    <3>. QED  BY <2>4, <3>2
  <2>6. m - 1 \in Nat /\ m - 1 \notin Stuck
    BY <2>3, <2>4, <2>5
  <2>7. PICK h : h \in Runs(V, first, step, m - 1)
    BY <2>6 DEF Stuck
  <2>8. h \in [0 .. m - 1 -> V] /\ h[0] = first
    BY <2>7 DEF Runs
  <2>9. \A i \in 1 .. m - 1 : h[i] = step[i][h[i - 1]]
    BY <2>7 DEF Runs
  <2>10. PICK h2 : h2 = [i \in 0 .. m |-> IF i = m THEN step[m][h[m - 1]] ELSE h[i]]
    OBVIOUS
  <2>11. h2 \in [0 .. m -> V] /\ h2[0] = first
    BY <2>4, <2>5, <2>6, <2>8, <2>10
  <2>12. ASSUME NEW i \in 1 .. m PROVE h2[i] = step[i][h2[i - 1]]
    <3>1. h2[i - 1] = h[i - 1]
      BY <2>4, <2>6, <2>10
    <3>2. CASE i = m
      <4>1. h2[m] = step[m][h[m - 1]] /\ h2[m - 1] = h[m - 1]
        BY <2>4, <2>6, <2>10
      <4>. QED  BY <3>2, <4>1, Zenon
    <3>3. CASE i # m
      <4>1. i \in 1 .. m - 1 /\ h2[i] = h[i]
        BY <2>4, <2>6, <2>10, <3>3
      <4>. QED  BY <2>9, <3>1, <4>1, Zenon
    <3>. QED  BY <3>2, <3>3
  <2>13. h2 \in Runs(V, first, step, m)
    BY <2>11, <2>12 DEF Runs
  <2>. QED  BY <2>4, <2>13
<1>. QED  BY <1>1

-----------------------------------------------------------------------------
(* The trims.                                                              *)

(* A buffer is indexed from zero to its last byte. *)
LEMMA BufferShape ==
    ASSUME NEW g \in Texts
    PROVE  /\ LastOf(g) \in Nat
           /\ DOMAIN g = 0 .. LastOf(g)
<1>1. IsFiniteSet(DOMAIN g) /\ DOMAIN g # {} /\ DOMAIN g = 0 .. Cardinality(DOMAIN g) - 1
  BY StringsAssumption
<1>2. Cardinality(DOMAIN g) \in Nat
  BY <1>1, FS_CardinalityType
<1>3. DOMAIN g = 0 .. LastOf(g)
  BY <1>1 DEF LastOf
<1>4. LastOf(g) \in Nat
  BY <1>1, <1>2 DEF LastOf
<1>. QED  BY <1>3, <1>4

(* What is not blank between two blank stretches is the text. *)
LEMMA TextBounds ==
    ASSUME call.len \in Nat, NEW a \in Nat, NEW b \in Int, a <= b, b < call.len,
           BlankIn(0, a - 1), BlankIn(b + 1, call.len - 1),
           call.given[a] # Blank, call.given[b] # Blank
    PROVE  Solid # {} /\ FirstSolid = a /\ FinalSolid = b
<1>1. a \in Solid /\ b \in Solid
  BY DEF Solid
<1>2. \A j \in Solid : a <= j /\ j <= b
  BY DEF Solid, BlankIn
<1>3. Solid \subseteq Int
  BY DEF Solid
<1>4. \A i \in Solid : (\A j \in Solid : i <= j) => i = a
  BY <1>1, <1>2, <1>3
<1>5. \A i \in Solid : (\A j \in Solid : j <= i) => i = b
  BY <1>1, <1>2, <1>3
<1>6. FirstSolid = a
  BY <1>1, <1>2, <1>4, Zenon DEF FirstSolid
<1>7. FinalSolid = b
  BY <1>1, <1>2, <1>5, Zenon DEF FinalSolid
<1>. QED  BY <1>1, <1>6, <1>7

LEMMA NothingSolid ==
    ASSUME call.len \in Nat, BlankIn(0, call.len - 1)
    PROVE  Solid = {}
BY DEF Solid, BlankIn

(* The facts every trim step starts from. *)
LEMMA TrimTypes ==
    ASSUME StringsTypeOK, call.fn \in Trims
    PROVE  /\ call.len \in Nat /\ LastOf(call.given) \in Nat
           /\ call.len <= LastOf(call.given)
           /\ DOMAIN call.given = 0 .. LastOf(call.given)
           /\ call.fn \notin Htmls /\ call.fn # "htmlspecialchars"
BY BufferShape, StringsAssumption DEF StringsTypeOK, Trims, Htmls

(* A trim step leaves the parts about htmlspecialchars as they are. *)
LEMMA TrimSuffices ==
    ASSUME StringsTypeOK, call.fn \in Trims, UNCHANGED call,
           p' \in Nat, pc' \in {"enter", "lead", "tail", "done", "below"},
           TrimScans', TrimIsExact', TrimStaysInside'
    PROVE  StringsIInv'
<1>1. call.fn \notin Htmls
  BY DEF Trims, Htmls
<1>2. StringsTypeOK'
  BY <1>1 DEF StringsTypeOK
<1>3. HtmlCopies' /\ HtmlIsLongestPrefix'
  BY <1>1 DEF HtmlCopies, HtmlIsLongestPrefix
<1>. QED  BY <1>2, <1>3 DEF StringsIInv

(* Only blanks in front of the end: nothing is left. *)
LEMMA TrimAllIsExact ==
    ASSUME StringsIInv, call.fn \in Trims, pc = "lead", AtEnd, mem[p] \in {Blank, NUL},
           TrimAll, UNCHANGED <<call, p, q>>
    PROVE  StringsIInv'
<1>1. StringsTypeOK /\ TrimScans
  BY DEF StringsIInv
<1>2. /\ call.len \in Nat /\ LastOf(call.given) \in Nat
      /\ call.len <= LastOf(call.given)
      /\ DOMAIN call.given = 0 .. LastOf(call.given)
  BY <1>1, TrimTypes
<1>3. mem = call.given /\ p = call.len /\ BlankIn(0, call.len - 1) /\ call.len > 0
  BY <1>1, <1>2 DEF TrimScans, AtEnd, StringsTypeOK
<1>4. Solid = {}
  BY <1>2, <1>3, NothingSolid
<1>5. Solid' = Solid /\ Moves' = Moves
  BY DEF Solid, Moves
<1>6. pc' = "done" /\ result' = (IF Moves THEN 0 ELSE p)
  BY DEF TrimAll, Return
<1>7. mem' = [call.given EXCEPT ![result'] = NUL]
  BY <1>3, <1>6 DEF TrimAll
<1>8. result' \in 0 .. LastOf(call.given)
  BY <1>2, <1>3, <1>6
<1>9. TrimIsExact'
  BY <1>2, <1>3, <1>4, <1>5, <1>6, <1>7, <1>8 DEF TrimIsExact
<1>10. TrimStaysInside'
  BY <1>3, <1>6 DEF TrimStaysInside
<1>11. TrimScans'
  BY <1>6 DEF TrimScans
<1>. QED  BY <1>1, <1>6, <1>9, <1>10, <1>11, TrimSuffices DEF StringsTypeOK

LEMMA TrimEnterKeeps == StringsIInv /\ TrimEnter => StringsIInv'
<1>. SUFFICES ASSUME StringsIInv, TrimEnter PROVE StringsIInv'
  OBVIOUS
<1>1. StringsTypeOK /\ TrimScans /\ call.fn \in Trims /\ pc = "enter" /\ UNCHANGED <<call, mem, p>>
  BY DEF StringsIInv, TrimEnter
<1>2. call.len \in Nat
  BY <1>1, TrimTypes
<1>3. mem = call.given /\ p = 0
  BY <1>1 DEF TrimScans
<1>4. CASE call.len = 0 /\ Return(0) /\ UNCHANGED q
  <2>1. TrimIsExact' /\ TrimStaysInside' /\ TrimScans'
    BY <1>1, <1>3, <1>4 DEF TrimIsExact, TrimStaysInside, TrimScans, Return
  <2>. QED  BY <1>1, <1>4, <2>1, TrimSuffices DEF StringsTypeOK, Return
<1>5. CASE call.len > 0 /\ q' = call.len - 1 /\ pc' = "lead" /\ UNCHANGED result
  <2>1. TrimScans'
    BY <1>1, <1>2, <1>3, <1>5 DEF TrimScans, BlankIn
  <2>2. TrimIsExact' /\ TrimStaysInside'
    BY <1>5 DEF TrimIsExact, TrimStaysInside
  <2>. QED  BY <1>1, <1>5, <2>1, <2>2, TrimSuffices DEF StringsTypeOK
<1>. QED  BY <1>4, <1>5 DEF TrimEnter

LEMMA TrimLeadKeeps == StringsIInv /\ TrimLead => StringsIInv'
<1>. SUFFICES ASSUME StringsIInv, TrimLead PROVE StringsIInv'
  OBVIOUS
<1>1. StringsTypeOK /\ TrimScans /\ pc = "lead" /\ mem[p] = Blank /\ UNCHANGED <<call, q>>
  BY DEF StringsIInv, TrimLead
<1>2. call.fn \in Trims
  BY <1>1 DEF StringsTypeOK
<1>3. CASE AtEnd /\ TrimAll /\ UNCHANGED p
  BY <1>1, <1>2, <1>3, TrimAllIsExact
<1>4. CASE ~AtEnd /\ p' = p + 1 /\ UNCHANGED <<mem, pc, result>>
  <2>1. call.len \in Nat /\ p \in Nat
    BY <1>1, <1>2, TrimTypes DEF StringsTypeOK
  <2>2. TrimScans'
    BY <1>1, <1>2, <1>4, <2>1 DEF TrimScans, BlankIn, AtEnd
  <2>3. TrimIsExact' /\ TrimStaysInside'
    BY <1>1, <1>4 DEF TrimIsExact, TrimStaysInside
  <2>. QED  BY <1>1, <1>2, <1>4, <2>1, <2>2, <2>3, TrimSuffices
<1>. QED  BY <1>3, <1>4 DEF TrimLead

LEMMA TrimLeadEndsKeeps == StringsIInv /\ TrimLeadEnds => StringsIInv'
<1>. SUFFICES ASSUME StringsIInv, TrimLeadEnds PROVE StringsIInv'
  OBVIOUS
<1>1. StringsTypeOK /\ TrimScans /\ pc = "lead" /\ mem[p] # Blank /\ UNCHANGED <<call, p, q>>
  BY DEF StringsIInv, TrimLeadEnds
<1>2. call.fn \in Trims
  BY <1>1 DEF StringsTypeOK
<1>3. CASE mem[p] = NUL /\ AtEnd
  BY <1>1, <1>2, <1>3, TrimAllIsExact DEF TrimLeadEnds
<1>4. CASE ~(mem[p] = NUL /\ AtEnd)
  <2>1. call.len \in Nat /\ p \in Nat
    BY <1>1, <1>2, TrimTypes DEF StringsTypeOK
  <2>2. pc' = "tail" /\ UNCHANGED <<mem, result>>
    BY <1>4 DEF TrimLeadEnds
  <2>3. TrimScans'
    BY <1>1, <1>2, <1>4, <2>1, <2>2 DEF TrimScans, BlankIn, AtEnd
  <2>4. TrimIsExact' /\ TrimStaysInside'
    BY <2>2 DEF TrimIsExact, TrimStaysInside
  <2>. QED  BY <1>1, <1>2, <2>1, <2>2, <2>3, <2>4, TrimSuffices
<1>. QED  BY <1>3, <1>4

LEMMA TrimTailKeeps == StringsIInv /\ TrimTail => StringsIInv'
<1>. SUFFICES ASSUME StringsIInv, TrimTail PROVE StringsIInv'
  OBVIOUS
<1>1. StringsTypeOK /\ TrimScans /\ pc = "tail" /\ mem[q] = Blank /\ q' = q - 1
  BY DEF StringsIInv, TrimTail, BlankAtTheTail
<1>2. UNCHANGED <<call, mem, p, result>> /\ pc' = IF q = 0 THEN "below" ELSE "tail"
  BY DEF TrimTail
<1>3. call.fn \in Trims
  BY <1>1 DEF StringsTypeOK
<1>4. call.len \in Nat /\ p \in Nat
  BY <1>1, <1>3, TrimTypes DEF StringsTypeOK
<1>5. /\ mem = call.given /\ call.len > 0 /\ p <= call.len
      /\ q \in 0 .. call.len - 1 /\ call.given[q] = Blank
      /\ BlankIn(q + 1, call.len - 1)
      /\ call.given[p] # Blank /\ (p = call.len => call.given[p] # NUL)
  BY <1>1, <1>3 DEF TrimScans
<1>6. BlankIn(q, call.len - 1)
  BY <1>4, <1>5 DEF BlankIn
<1>7. TrimScans'
  <2>1. q # 0 => q' \in 0 .. call.len - 1 /\ q' + 1 = q
    BY <1>1, <1>4, <1>5
  <2>. QED  BY <1>1, <1>2, <1>3, <1>6, <2>1 DEF TrimScans, BlankIn
<1>8. TrimStaysInside'
  <2>1. CASE q = 0
    <3>1. Solid = {}
      BY <1>4, <1>6, <2>1, NothingSolid
    <3>2. p = call.len
      BY <1>4, <1>5, <1>6, <2>1 DEF BlankIn
    <3>3. Solid' = Solid
      BY <1>2 DEF Solid
    <3>. QED  BY <1>2, <1>5, <3>1, <3>2, <3>3 DEF TrimStaysInside
  <2>2. CASE q # 0
    BY <1>2, <2>2 DEF TrimStaysInside
  <2>. QED  BY <2>1, <2>2
<1>9. TrimIsExact'
  BY <1>2 DEF TrimIsExact
<1>. QED  BY <1>1, <1>2, <1>3, <1>4, <1>7, <1>8, <1>9, TrimSuffices

LEMMA TrimTailEndsKeeps == StringsIInv /\ TrimTailEnds => StringsIInv'
<1>. SUFFICES ASSUME StringsIInv, TrimTailEnds PROVE StringsIInv'
  OBVIOUS
<1>1. StringsTypeOK /\ TrimScans /\ pc = "tail" /\ mem[q] # Blank /\ UNCHANGED <<call, p, q>>
  BY DEF StringsIInv, TrimTailEnds, BlankAtTheTail
<1>2. call.fn \in Trims
  BY <1>1 DEF StringsTypeOK
<1>3. /\ call.len \in Nat /\ LastOf(call.given) \in Nat
      /\ call.len <= LastOf(call.given)
      /\ DOMAIN call.given = 0 .. LastOf(call.given) /\ p \in Nat
  BY <1>1, <1>2, TrimTypes DEF StringsTypeOK
<1>4. /\ mem = call.given /\ call.len > 0 /\ p <= call.len
      /\ q \in 0 .. call.len - 1 /\ call.given[q] # Blank
      /\ BlankIn(0, p - 1) /\ BlankIn(q + 1, call.len - 1)
      /\ call.given[p] # Blank
  BY <1>1, <1>2 DEF TrimScans
<1>5. p <= q
  BY <1>3, <1>4 DEF BlankIn
<1>6. Solid # {} /\ FirstSolid = p /\ FinalSolid = q
  BY <1>3, <1>4, <1>5, TextBounds
<1>7. Solid' = Solid /\ FirstSolid' = FirstSolid /\ FinalSolid' = FinalSolid /\ Moves' = Moves
  BY <1>1 DEF Solid, FirstSolid, FinalSolid, Moves
<1>8. pc' = "done"
  BY DEF TrimTailEnds, Return
<1>9. TrimIsExact'
  <2>1. CASE Moves /\ mem' = Moved(q - p + 1) /\ Return(0)
    <3>1. /\ DOMAIN mem' = DOMAIN mem
          /\ \A i \in DOMAIN mem :
                 mem'[i] = IF i < q - p + 1 THEN mem[p + i]
                           ELSE IF i = q - p + 1 THEN NUL ELSE mem[i]
      BY <2>1 DEF Moved
    <3>2. result' = 0
      BY <2>1 DEF Return
    <3>3. ASSUME NEW i \in DOMAIN mem
          PROVE  mem'[i] = IF i = result' + (q - p + 1) THEN NUL
                           ELSE IF i \in result' .. result' + (q - p + 1) - 1
                                THEN call.given[p + i - result'] ELSE call.given[i]
      <4>1. i \in Nat
        BY <1>3, <1>4
      <4>2. \A a \in Nat, c \in Int :
                /\ a = 0 + c <=> a = c
                /\ a \in 0 .. 0 + c - 1 <=> a < c
                /\ p + a - 0 = p + a
        BY <1>3
      <4>3. q - p + 1 \in Int
        BY <1>3, <1>4
      <4>4. /\ i = 0 + (q - p + 1) <=> i = q - p + 1
            /\ i \in 0 .. 0 + (q - p + 1) - 1 <=> i < q - p + 1
            /\ p + i - 0 = p + i
        BY <4>1, <4>2, <4>3, Zenon
      <4>5. i < q - p + 1 => i # q - p + 1
        BY <1>3, <1>4, <4>1
      <4>. QED  BY <1>4, <3>1, <3>2, <4>4, <4>5, Zenon
    <3>4. \A i \in DOMAIN mem' :
              mem'[i] = IF i = result' + (FinalSolid' - FirstSolid' + 1) THEN NUL
                        ELSE IF i \in result' .. result' + (FinalSolid' - FirstSolid' + 1) - 1
                             THEN call'.given[FirstSolid' + i - result'] ELSE call'.given[i]
      BY <1>1, <1>6, <1>7, <3>1, <3>3, Zenon
    <3>5. Solid' # {} /\ call'.len # 0 /\ result' = IF Moves' THEN 0 ELSE FirstSolid'
      BY <1>1, <1>3, <1>4, <1>6, <1>7, <2>1, <3>2
    <3>. QED  BY <3>4, <3>5 DEF TrimIsExact
  <2>2. CASE ~Moves /\ mem' = [mem EXCEPT ![q + 1] = NUL] /\ Return(p)
    <3>1. result' = p /\ DOMAIN mem' = DOMAIN mem /\ DOMAIN mem = 0 .. LastOf(call.given)
      BY <1>3, <1>4, <2>2 DEF Return
    <3>2. p + (q - p + 1) = q + 1 /\ \A i \in Int : p + i - p = i
      BY <1>3, <1>4
    <3>3. \A i \in DOMAIN mem : mem'[i] = IF i = q + 1 THEN NUL ELSE mem[i]
      BY <2>2
    <3>4. \A i \in DOMAIN mem' :
              mem'[i] = IF i = result' + (FinalSolid' - FirstSolid' + 1) THEN NUL
                        ELSE IF i \in result' .. result' + (FinalSolid' - FirstSolid' + 1) - 1
                             THEN call'.given[FirstSolid' + i - result'] ELSE call'.given[i]
      <4>1. \A i \in DOMAIN mem' : p + i - p = i
        BY <1>3, <3>1, <3>2
      <4>. QED  BY <1>1, <1>4, <1>6, <1>7, <3>1, <3>2, <3>3, <4>1, Zenon
    <3>5. Solid' # {} /\ call'.len # 0 /\ result' = IF Moves' THEN 0 ELSE FirstSolid'
      BY <1>1, <1>3, <1>4, <1>6, <1>7, <2>2, <3>1
    <3>. QED  BY <3>4, <3>5 DEF TrimIsExact
  <2>. QED  BY <2>1, <2>2 DEF TrimTailEnds
<1>10. TrimStaysInside'
  BY <1>6, <1>7, <1>8 DEF TrimStaysInside
<1>11. TrimScans'
  BY <1>8 DEF TrimScans
<1>. QED  BY <1>1, <1>2, <1>3, <1>8, <1>9, <1>10, <1>11, TrimSuffices

-----------------------------------------------------------------------------
(* htmlspecialchars.                                                       *)

(* The length of what the function reads, and when it has read it. *)
LEMMA InputFacts ==
    ASSUME StringsTypeOK, call.fn \in Htmls
    PROVE  /\ call.outlen \in Nat /\ InputLength \in Nat
           /\ \A i \in 0 .. InputLength : i \in DOMAIN call.given
           /\ p <= InputLength => (InputEnds <=> p = InputLength)
<1>1. call.outlen \in Nat /\ call.given \in Texts /\ call.len \in Nat /\ p \in Nat
  BY StringsAssumption DEF StringsTypeOK
<1>. DEFINE n == LastOf(call.given)
<1>2. n \in Nat /\ DOMAIN call.given = 0 .. n
  BY <1>1, BufferShape
<1>3. CASE call.fn = "htmlspecialcharsl"
  <2>1. InputLength = call.len /\ call.len <= n
    BY <1>3 DEF InputLength, StringsTypeOK
  <2>. QED  BY <1>1, <1>2, <1>3, <2>1 DEF InputEnds
<1>4. CASE call.fn = "htmlspecialchars"
  <2>. DEFINE T == {i \in 0 .. n : call.given[i] = NUL}
  <2>1. T \in SUBSET Nat /\ T # {}
    BY <1>2, <1>4 DEF StringsTypeOK
  <2>2. PICK m \in T : \A k \in T : m <= k
    BY <2>1, LeastNatural
  <2>. DEFINE Ends(i) == call.given[i] = NUL /\ \A j \in 0 .. i - 1 : call.given[j] # NUL
  <2>3. m \in DOMAIN call.given /\ Ends(m)
    BY <1>2, <2>1, <2>2
  <2>4. InputLength = CHOOSE i \in DOMAIN call.given : Ends(i)
    BY <1>4 DEF InputLength
  <2>. HIDE DEF Ends, n
  <2>5. InputLength \in DOMAIN call.given /\ Ends(InputLength)
    BY <2>3, <2>4, Zenon
  <2>. USE DEF Ends
  <2>. QED  BY <1>1, <1>2, <1>4, <2>5 DEF InputEnds
<1>. QED  BY <1>3, <1>4 DEF Htmls

(* The characters of the input and of the escapes. *)
HtmlChars ==
    {call.given[i] : i \in DOMAIN call.given}
        \cup {"&", "l", "t", ";", "g", "a", "m", "p", "q", "u", "o", "#", "0", "3", "9"}

LEMMA EscapeIsText ==
    ASSUME NEW i \in DOMAIN call.given
    PROVE  Escape(call.given[i]) \in Seq(HtmlChars)
<1>. DEFINE c == call.given[i]
<1>1. c \in HtmlChars
  BY DEF HtmlChars
<1>2. {"&", "l", "t", ";", "g", "a", "m", "p", "q", "u", "o", "#", "0", "3", "9"} \subseteq HtmlChars
  BY DEF HtmlChars
<1>3. Escape(c) \in {<<"&", "l", "t", ";">>, <<"&", "g", "t", ";">>,
                      <<"&", "a", "m", "p", ";">>, <<"&", "q", "u", "o", "t", ";">>,
                      <<"&", "#", "0", "3", "9", ";">>, <<c>>}
  <2>. HIDE DEF c
  <2>. QED  BY DEF Escape
<1>. HIDE DEF HtmlChars, c
<1>4. Escape(c) \in Seq(HtmlChars)
  <2>1. \A a1, a2, a3, a4, a5, a6 \in HtmlChars :
            /\ <<a1>> \in Seq(HtmlChars) /\ <<a1, a2, a3, a4>> \in Seq(HtmlChars)
            /\ <<a1, a2, a3, a4, a5>> \in Seq(HtmlChars)
            /\ <<a1, a2, a3, a4, a5, a6>> \in Seq(HtmlChars)
    OBVIOUS
  <2>2. \A a \in {"&", "l", "t", ";", "g", "a", "m", "p", "q", "u", "o", "#", "0", "3", "9"} :
            a \in HtmlChars
    BY <1>2
  <2>3. /\ <<"&", "l", "t", ";">> \in Seq(HtmlChars)
        /\ <<"&", "g", "t", ";">> \in Seq(HtmlChars)
        /\ <<"&", "a", "m", "p", ";">> \in Seq(HtmlChars)
        /\ <<"&", "q", "u", "o", "t", ";">> \in Seq(HtmlChars)
        /\ <<"&", "#", "0", "3", "9", ";">> \in Seq(HtmlChars)
        /\ <<c>> \in Seq(HtmlChars)
    BY <1>1, <2>1, <2>2, Zenon
  <2>. QED  BY <1>3, <2>3, Zenon
<1>. QED  BY <1>4 DEF c

(* Escaped by its recursion. *)
LEMMA EscapedUnfolds ==
    ASSUME StringsTypeOK, call.fn \in Htmls
    PROVE  /\ Escaped[0] = <<>>
           /\ \A k \in 0 .. InputLength : Escaped[k] \in Seq(HtmlChars)
           /\ \A k \in 0 .. InputLength :
                  k > 0 => Escaped[k] = Escaped[k - 1] \o Escape(call.given[k - 1])
<1>. DEFINE V == Seq(HtmlChars)
            N == InputLength
            E(i) == Escape(call.given[i - 1])
            step == [i \in Nat |-> [v \in V |-> IF i \in 1 .. N THEN v \o E(i) ELSE v]]
            Unfolds(g) == g = [k \in 0 .. N |-> IF k = 0 THEN <<>> ELSE g[k - 1] \o E(k)]
<1>1. N \in Nat /\ \A i \in 0 .. N : i \in DOMAIN call.given
  BY InputFacts
<1>2. <<>> \in V
  OBVIOUS
<1>3. \A k \in 1 .. N : E(k) \in V
  BY <1>1, EscapeIsText
<1>4. Escaped = CHOOSE g : Unfolds(g)
  BY DEF Escaped
<1>. HIDE DEF V, N, E
<1>5. step \in [Nat -> [V -> V]]
  <2>1. \A a \in V, e \in V : a \o e \in V
    BY ConcatProperties DEF V
  <2>. QED  BY <1>2, <1>3, <2>1
<1>. HIDE DEF step
<1>. PICK h : h \in Runs(V, <<>>, step, N)
  <2>1. N \in Nat
    BY <1>1
  <2>2. Runs(V, <<>>, step, N) # {}
    BY <1>2, <1>5, <2>1, RunsExist, Zenon
  <2>. QED  BY <2>2
<1>6. h \in [0 .. N -> V] /\ h[0] = <<>> /\ \A i \in 1 .. N : h[i] = step[i][h[i - 1]]
  BY DEF Runs
<1>7. \A i \in 1 .. N : h[i] = h[i - 1] \o E(i)
  <2>1. \A v \in V, i \in 1 .. N : step[i][v] = v \o E(i)
    <3>1. \A i \in 1 .. N : i \in Nat
      BY <1>1
    <3>. QED  BY <3>1, Zenon DEF step
  <2>2. \A i \in 1 .. N : h[i - 1] \in V
    BY <1>1, <1>6
  <2>. QED  BY <1>6, <2>1, <2>2
<1>8. Unfolds(h)
  <2>1. \A k \in 0 .. N : h[k] = IF k = 0 THEN <<>> ELSE h[k - 1] \o E(k)
    <3>1. \A k \in 0 .. N : k # 0 => k \in 1 .. N
      BY <1>1
    <3>. QED  BY <1>6, <1>7, <3>1, Zenon
  <2>2. h = [k \in 0 .. N |-> h[k]]
    BY <1>6
  <2>. QED  BY <2>1, <2>2, Zenon
<1>9. Unfolds(Escaped)
  BY <1>4, <1>8, Zenon
<1>10. Escaped[0] = <<>> /\ \A k \in 1 .. N : Escaped[k] = Escaped[k - 1] \o E(k)
  <2>1. \A k \in 0 .. N : Escaped[k] = IF k = 0 THEN <<>> ELSE Escaped[k - 1] \o E(k)
    BY <1>9, Zenon
  <2>2. Escaped[0] = <<>>
    BY <1>1, <2>1
  <2>3. \A k \in 1 .. N : k \in 0 .. N /\ k # 0
    BY <1>1
  <2>. QED  BY <2>1, <2>2, <2>3, Zenon
<1>. HIDE DEF Unfolds
<1>. DEFINE Wrong == {k \in 0 .. N : Escaped[k] \notin V}
<1>11. Wrong = {}
  <2>1. SUFFICES ASSUME Wrong # {} PROVE FALSE
    OBVIOUS
  <2>2. Wrong \in SUBSET Nat
    BY <1>1
  <2>. HIDE DEF Wrong
  <2>3. PICK m \in Wrong : \A k \in Wrong : m <= k
    BY <2>1, <2>2, LeastNatural
  <2>. USE DEF Wrong
  <2>4. m \in 1 .. N /\ m - 1 \in 0 .. N /\ m - 1 \notin Wrong
    BY <1>1, <1>2, <1>10, <2>3
  <2>5. Escaped[m] = Escaped[m - 1] \o E(m) /\ Escaped[m - 1] \in V /\ E(m) \in V
    BY <1>3, <1>10, <2>4
  <2>6. Escaped[m] \in V
    BY <2>5, ConcatProperties DEF V
  <2>. QED  BY <2>3, <2>6
<1>12. \A k \in 0 .. N : Escaped[k] \in V
  BY <1>11
<1>13. \A k \in 0 .. N : k > 0 => Escaped[k] = Escaped[k - 1] \o E(k)
  BY <1>1, <1>10
<1>. QED  BY <1>10, <1>12, <1>13, Zenon DEF V, N, E

(* A step of htmlspecialchars leaves the parts about the trims as they are. *)
LEMMA HtmlSuffices ==
    ASSUME StringsTypeOK, call.fn \in Htmls, UNCHANGED call,
           p' \in Nat, pc' \in {"enter", "loop", "done"},
           HtmlCopies', HtmlIsLongestPrefix'
    PROVE  StringsIInv'
<1>1. call.fn \notin Trims
  BY DEF Trims, Htmls
<1>2. StringsTypeOK'
  BY <1>1 DEF StringsTypeOK
<1>3. TrimScans' /\ TrimIsExact' /\ TrimStaysInside'
  BY <1>1 DEF TrimScans, TrimIsExact, TrimStaysInside
<1>. QED  BY <1>2, <1>3 DEF StringsIInv

(* Input and escapes depend on the call alone. *)
LEMMA InputStays ==
    ASSUME UNCHANGED call
    PROVE  InputLength' = InputLength /\ Escaped' = Escaped
<1>1. InputLength' = InputLength
  BY DEF InputLength
<1>2. Escaped' = Escaped
  BY <1>1 DEF Escaped
<1>. QED  BY <1>1, <1>2

LEMMA HtmlEnterKeeps == StringsIInv /\ HtmlEnter => StringsIInv'
<1>. SUFFICES ASSUME StringsIInv, HtmlEnter PROVE StringsIInv'
  OBVIOUS
<1>1. StringsTypeOK /\ HtmlCopies /\ pc = "enter" /\ call.fn \in Htmls
  BY DEF StringsIInv, HtmlEnter
<1>2. UNCHANGED <<call, mem, p, q>> /\ InputLength' = InputLength /\ Escaped' = Escaped
  BY InputStays DEF HtmlEnter
<1>3. call.outlen \in Nat /\ InputLength \in Nat /\ (p <= InputLength => (InputEnds <=> p = InputLength))
  BY <1>1, InputFacts
<1>4. p = 0 /\ result = 0 /\ Escaped[0] = <<>>
  BY <1>1, EscapedUnfolds DEF HtmlCopies
<1>5. /\ DOMAIN mem = 0 .. call.outlen + 6
      /\ q = 0 /\ \A i \in DOMAIN mem : mem[i] = Old
  BY <1>1, <1>3, <1>4 DEF HtmlCopies
<1>6. InputEnds <=> InputLength = 0
  BY <1>3, <1>4
<1>7. CASE (call.outlen = 0 \/ InputEnds) /\ Return(0)
  <2>1. pc' = "done" /\ result' = 0
    BY <1>7 DEF Return
  <2>2. HtmlCopies'
    BY <1>2, <1>5, <2>1 DEF HtmlCopies
  <2>3. HtmlIsLongestPrefix'
    BY <1>2, <1>5, <1>6, <1>7, <2>1 DEF HtmlIsLongestPrefix
  <2>. QED  BY <1>1, <1>2, <2>1, <2>2, <2>3, HtmlSuffices DEF StringsTypeOK
<1>8. CASE call.outlen > 0 /\ ~InputEnds /\ pc' = "loop" /\ UNCHANGED result
  <2>1. q < call.outlen /\ InputLength # 0
    BY <1>3, <1>5, <1>6, <1>8
  <2>2. HtmlCopies'
    BY <1>1, <1>2, <1>8, <2>1 DEF HtmlCopies
  <2>3. HtmlIsLongestPrefix'
    BY <1>8 DEF HtmlIsLongestPrefix
  <2>. QED  BY <1>1, <1>2, <1>8, <2>2, <2>3, HtmlSuffices DEF StringsTypeOK
<1>. QED  BY <1>7, <1>8 DEF HtmlEnter

(* What the next character adds. *)
LEMMA NextEscape ==
    ASSUME StringsTypeOK, HtmlCopies, call.fn \in Htmls, pc = "loop", ~InputEnds
    PROVE  LET esc == Escape(call.given[p])
           IN  /\ p + 1 <= InputLength
               /\ q \in Nat /\ Len(esc) \in Nat /\ Len(Escaped[p + 1]) = q + Len(esc)
               /\ \A i \in 1 .. q : Escaped[p + 1][i] = Escaped[p][i]
               /\ \A i \in 1 .. Len(esc) : Escaped[p + 1][q + i] = esc[i]
<1>. DEFINE esc == Escape(call.given[p])
<1>1. /\ InputLength \in Nat /\ p \in Nat /\ p <= InputLength
      /\ p # InputLength /\ p \in DOMAIN call.given
  BY InputFacts DEF HtmlCopies, StringsTypeOK
<1>2. p + 1 <= InputLength /\ p + 1 \in 0 .. InputLength /\ p \in 0 .. InputLength
      /\ p + 1 > 0 /\ (p + 1) - 1 = p
  BY <1>1
<1>3. esc \in Seq(HtmlChars)
  BY <1>1, EscapeIsText
<1>4. Escaped[p] \in Seq(HtmlChars) /\ Escaped[p + 1] = Escaped[p] \o esc
  BY <1>2, EscapedUnfolds
<1>5. q = Len(Escaped[p])
  BY DEF HtmlCopies
<1>. HIDE DEF esc
<1>6. q \in Nat /\ Len(esc) \in Nat
  BY <1>3, <1>4, <1>5, LenProperties
<1>7. /\ Len(Escaped[p + 1]) = q + Len(esc)
      /\ \A i \in 1 .. q + Len(esc) :
             Escaped[p + 1][i] = IF i <= q THEN Escaped[p][i] ELSE esc[i - q]
  BY <1>3, <1>4, <1>5, ConcatProperties
<1>8. \A i \in 1 .. q : Escaped[p + 1][i] = Escaped[p][i]
  <2>1. \A i \in 1 .. q : i \in 1 .. q + Len(esc) /\ i <= q
    BY <1>6
  <2>. QED  BY <1>7, <2>1, Zenon
<1>9. \A i \in 1 .. Len(esc) : Escaped[p + 1][q + i] = esc[i]
  <2>1. ASSUME NEW i \in 1 .. Len(esc) PROVE Escaped[p + 1][q + i] = esc[i]
    <3>1. q + i \in 1 .. q + Len(esc) /\ ~(q + i <= q) /\ (q + i) - q = i
      BY <1>6
    <3>. QED  BY <1>7, <3>1
  <2>. QED  BY <2>1
<1>. QED  BY <1>2, <1>6, <1>7, <1>8, <1>9 DEF esc

LEMMA HtmlPutKeeps == StringsIInv /\ HtmlPut => StringsIInv'
<1>. SUFFICES ASSUME StringsIInv, HtmlPut PROVE StringsIInv'
  OBVIOUS
<1>. DEFINE esc == Escape(call.given[p])
<1>1. StringsTypeOK /\ HtmlCopies /\ pc = "loop" /\ ~InputEnds /\ p \in Nat
  BY DEF StringsIInv, HtmlPut, StringsTypeOK
<1>2. call.fn \in Htmls
  BY <1>1 DEF StringsTypeOK
<1>3. UNCHANGED <<call, pc, result>> /\ InputLength' = InputLength /\ Escaped' = Escaped /\ p' = p + 1
  BY InputStays DEF HtmlPut
<1>4. call.outlen \in Nat /\ InputLength # 0 /\ DOMAIN mem = 0 .. call.outlen + 6
  BY <1>1, <1>2, InputFacts DEF HtmlCopies
<1>5. /\ p + 1 <= InputLength
      /\ q \in Nat /\ Len(esc) \in Nat /\ Len(Escaped[p + 1]) = q + Len(esc)
      /\ \A i \in 1 .. q : Escaped[p + 1][i] = Escaped[p][i]
      /\ \A i \in 1 .. Len(esc) : Escaped[p + 1][q + i] = esc[i]
  BY <1>1, <1>2, NextEscape
<1>6. q + Len(esc) < call.outlen /\ q' = q + Len(esc)
  BY DEF HtmlPut, EscapeFits
<1>7. mem' = [i \in DOMAIN mem |-> IF i \in q .. q + Len(esc) - 1 THEN esc[i - q + 1] ELSE mem[i]]
  BY DEF HtmlPut
<1>8. /\ \A i \in 1 .. q : mem[i - 1] = Escaped[p][i]
      /\ \A i \in DOMAIN mem : i >= q => mem[i] = Old
  BY <1>1, <1>2 DEF HtmlCopies
<1>. HIDE DEF esc
<1>9. ASSUME NEW i \in 1 .. q' PROVE mem'[i - 1] = Escaped[p + 1][i]
  <2>1. i - 1 \in DOMAIN mem
    BY <1>4, <1>5, <1>6
  <2>2. CASE i <= q
    <3>1. i \in 1 .. q /\ i - 1 \notin q .. q + Len(esc) - 1
      BY <1>5, <1>6, <2>2
    <3>. QED  BY <1>5, <1>7, <1>8, <2>1, <3>1, Zenon
  <2>3. CASE i > q
    <3>1. /\ i - q \in 1 .. Len(esc) /\ q + (i - q) = i /\ (i - 1) - q + 1 = i - q
          /\ i - 1 \in q .. q + Len(esc) - 1
      BY <1>5, <1>6, <2>3
    <3>2. Escaped[p + 1][i] = esc[i - q]
      BY <1>5, <3>1, Zenon
    <3>3. mem'[i - 1] = esc[(i - 1) - q + 1]
      BY <1>7, <2>1, <3>1, Zenon
    <3>. QED  BY <3>1, <3>2, <3>3, Zenon
  <2>. QED  BY <1>5, <2>2, <2>3
<1>10. \A i \in DOMAIN mem' : i >= q' => mem'[i] = Old
  BY <1>4, <1>5, <1>6, <1>7, <1>8
<1>11. DOMAIN mem' = DOMAIN mem
  BY <1>7
<1>12. HtmlCopies'
  <2>1. q' = Len(Escaped'[p'])
    BY <1>3, <1>5, <1>6
  <2>2. \A i \in 1 .. q' : mem'[i - 1] = Escaped'[p'][i]
    BY <1>3, <1>9
  <2>. QED  BY <1>1, <1>3, <1>4, <1>5, <1>6, <1>10, <1>11, <2>1, <2>2 DEF HtmlCopies
<1>13. HtmlIsLongestPrefix'
  BY <1>1, <1>3 DEF HtmlIsLongestPrefix
<1>. QED  BY <1>1, <1>2, <1>3, <1>12, <1>13, HtmlSuffices DEF StringsTypeOK

LEMMA HtmlEndsKeeps == StringsIInv /\ HtmlEnds => StringsIInv'
<1>. SUFFICES ASSUME StringsIInv, HtmlEnds PROVE StringsIInv'
  OBVIOUS
<1>. DEFINE esc == Escape(call.given[p])
<1>1. StringsTypeOK /\ HtmlCopies /\ pc = "loop" /\ p \in Nat
  BY DEF StringsIInv, HtmlEnds, StringsTypeOK
<1>2. call.fn \in Htmls
  BY <1>1 DEF StringsTypeOK
<1>3. UNCHANGED <<call, p, q>> /\ InputLength' = InputLength /\ Escaped' = Escaped
  BY InputStays DEF HtmlEnds
<1>4. /\ call.outlen \in Nat /\ InputLength \in Nat
      /\ p <= InputLength => (InputEnds <=> p = InputLength)
  BY <1>1, <1>2, InputFacts
<1>5. /\ DOMAIN mem = 0 .. call.outlen + 6 /\ InputLength # 0 /\ p <= InputLength
      /\ q = Len(Escaped[p]) /\ q < call.outlen
      /\ \A i \in 1 .. q : mem[i - 1] = Escaped[p][i]
      /\ \A i \in DOMAIN mem : i >= q => mem[i] = Old
  BY <1>1, <1>2 DEF HtmlCopies
<1>6. mem' = [mem EXCEPT ![q] = NUL] /\ result' = q /\ pc' = "done"
  BY DEF HtmlEnds, Return
<1>7. p \in 0 .. InputLength /\ q \in Nat
  <2>1. p \in 0 .. InputLength
    BY <1>1, <1>4, <1>5
  <2>. QED  BY <1>1, <1>2, <1>5, <2>1, EscapedUnfolds, LenProperties
<1>8. p < InputLength => Len(Escaped[p + 1]) >= call.outlen
  <2>. SUFFICES ASSUME p < InputLength PROVE Len(Escaped[p + 1]) >= call.outlen
    OBVIOUS
  <2>1. ~InputEnds
    BY <1>1, <1>4, <1>5
  <2>2. q \in Nat /\ Len(esc) \in Nat /\ Len(Escaped[p + 1]) = q + Len(esc)
    BY <1>1, <1>2, <2>1, NextEscape
  <2>3. ~(q + Len(esc) < call.outlen)
    BY <2>1 DEF HtmlEnds, EscapeFits
  <2>. QED  BY <1>4, <2>2, <2>3
<1>9. DOMAIN mem' = DOMAIN mem /\ mem'[q] = NUL
  BY <1>4, <1>5, <1>6, <1>7
<1>10. \A i \in 1 .. q : mem'[i - 1] = Escaped[p][i]
  BY <1>4, <1>5, <1>6, <1>7
<1>11. \A i \in DOMAIN mem' : i > q => mem'[i] = Old
  BY <1>4, <1>5, <1>6, <1>7
<1>12. HtmlIsLongestPrefix'
  BY <1>3, <1>4, <1>5, <1>6, <1>7, <1>8, <1>9, <1>10, <1>11 DEF HtmlIsLongestPrefix
<1>13. HtmlCopies'
  BY <1>3, <1>5, <1>6, <1>9 DEF HtmlCopies
<1>. QED  BY <1>1, <1>2, <1>3, <1>6, <1>12, <1>13, HtmlSuffices DEF StringsTypeOK

-----------------------------------------------------------------------------

LEMMA StringsInitIsInductive == StrInit => StringsIInv
<1>. SUFFICES ASSUME StrInit PROVE StringsIInv
  OBVIOUS
<1>1. p = 0 /\ q = 0 /\ pc = "enter" /\ result = 0
  BY DEF StrInit
<1>2. PICK fn \in Trims \cup Htmls, given \in Texts, len \in TextLengths, outlen \in OutLengths :
          /\ fn # "htmlspecialchars" => len <= LastOf(given)
          /\ fn = "htmlspecialchars" => len = 0 /\ given[LastOf(given)] = NUL
          /\ call = [fn |-> fn, given |-> given, len |-> len, outlen |-> outlen]
          /\ mem = IF fn \in Trims THEN given ELSE [i \in 0 .. outlen + 6 |-> Old]
  BY DEF StrInit
<1>3. call.fn = fn /\ call.given = given /\ call.len = len /\ call.outlen = outlen
  BY <1>2
<1>4. StringsTypeOK
  BY <1>1, <1>2, <1>3 DEF StringsTypeOK
<1>5. TrimScans
  BY <1>1, <1>2, <1>3 DEF TrimScans
<1>6. HtmlCopies
  <2>. SUFFICES ASSUME call.fn \in Htmls PROVE HtmlCopies
    BY DEF HtmlCopies
  <2>1. Escaped[0] = <<>> /\ InputLength \in Nat /\ call.outlen \in Nat
    BY <1>4, EscapedUnfolds, InputFacts
  <2>2. mem = [i \in 0 .. call.outlen + 6 |-> Old]
    BY <1>2, <1>3 DEF Trims, Htmls
  <2>. QED  BY <1>1, <2>1, <2>2 DEF HtmlCopies
<1>7. TrimIsExact /\ TrimStaysInside /\ HtmlIsLongestPrefix
  BY <1>1 DEF TrimIsExact, TrimStaysInside, HtmlIsLongestPrefix
<1>. QED  BY <1>4, <1>5, <1>6, <1>7 DEF StringsIInv

LEMMA StringsStutters == StringsIInv /\ UNCHANGED strVars => StringsIInv'
<1>. SUFFICES ASSUME StringsIInv, UNCHANGED strVars PROVE StringsIInv'
  OBVIOUS
<1>1. UNCHANGED <<call, mem, p, q, pc, result>> /\ InputLength' = InputLength /\ Escaped' = Escaped
  BY InputStays DEF strVars
<1>2. Solid' = Solid /\ FirstSolid' = FirstSolid /\ FinalSolid' = FinalSolid /\ Moves' = Moves
  BY <1>1 DEF Solid, FirstSolid, FinalSolid, Moves
<1>3. StringsTypeOK'
  BY <1>1 DEF StringsIInv, StringsTypeOK
<1>4. TrimScans'
  BY <1>1 DEF StringsIInv, TrimScans, BlankIn
<1>5. HtmlCopies'
  BY <1>1 DEF StringsIInv, HtmlCopies
<1>6. TrimIsExact'
  BY <1>1, <1>2 DEF StringsIInv, TrimIsExact
<1>7. TrimStaysInside'
  BY <1>1, <1>2 DEF StringsIInv, TrimStaysInside
<1>8. HtmlIsLongestPrefix'
  BY <1>1 DEF StringsIInv, HtmlIsLongestPrefix
<1>. QED  BY <1>3, <1>4, <1>5, <1>6, <1>7, <1>8 DEF StringsIInv

LEMMA StringsInvariant == StrSpec => []StringsIInv
<1>1. StringsIInv /\ [StrNext]_strVars => StringsIInv'
  BY TrimEnterKeeps, TrimLeadKeeps, TrimLeadEndsKeeps, TrimTailKeeps, TrimTailEndsKeeps,
     HtmlEnterKeeps, HtmlPutKeeps, HtmlEndsKeeps, StringsStutters DEF StrNext
<1>. QED  BY StringsInitIsInductive, <1>1, PTL DEF StrSpec

(* strtriml and strtriml_move leave the text between the first and the     *)
(* last character that is not blank and its NUL, and every other byte as   *)
(* it was.                                                                 *)
THEOREM TrimsAreExact == StrSpec => []TrimIsExact
<1>1. StringsIInv => TrimIsExact
  BY DEF StringsIInv
<1>. QED  BY StringsInvariant, <1>1, PTL

(* Their scan for the tail leaves the buffer in one case only: nothing but *)
(* blanks before len, and then a character that ends no string.            *)
THEOREM TrimsStayInside == StrSpec => []TrimStaysInside
<1>1. StringsIInv => TrimStaysInside
  BY DEF StringsIInv
<1>. QED  BY StringsInvariant, <1>1, PTL

(* Both htmlspecialchars write the longest escaped prefix of their input   *)
(* that fits with its NUL, and nothing behind it.                          *)
THEOREM HtmlWritesLongestPrefix == StrSpec => []HtmlIsLongestPrefix
<1>1. StringsIInv => HtmlIsLongestPrefix
  BY DEF StringsIInv
<1>. QED  BY StringsInvariant, <1>1, PTL


-----------------------------------------------------------------------------
(* The older tree: trim_len, trim_len_cpy and trunc_str.                   *)

LEMMA OldShape ==
    ASSUME OsTypeOK
    PROVE  /\ OsLen(os_call.given) \in Nat
           /\ DOMAIN os_call.given = 0 .. OsLen(os_call.given)
           /\ os_call.given[OsLen(os_call.given)] = OsNUL
           /\ os_call.len \in Nat
           /\ os_call.fn # "trunc_str" => os_call.len <= OsLen(os_call.given)
<1>. DEFINE g == os_call.given
<1>1. IsFiniteSet(DOMAIN g) /\ DOMAIN g # {} /\ DOMAIN g = 0 .. OsLen(g) /\ g[OsLen(g)] = OsNUL
  BY OldStringAssumption DEF OsTypeOK
<1>2. Cardinality(DOMAIN g) \in Nat
  BY <1>1, FS_CardinalityType
<1>3. OsLen(g) \in Nat
  BY <1>1, <1>2 DEF OsLen
<1>4. os_call.len \in Nat /\ (os_call.fn # "trunc_str" => os_call.len <= OsLen(g))
  BY <1>3 DEF OsTypeOK
<1>. QED  BY <1>1, <1>3, <1>4

LEMMA OldFields ==
    ASSUME OsTypeOK
    PROVE  /\ os.head \in Nat /\ os.tail \in Int /\ os.len \in Nat
           /\ os.moved \in BOOLEAN /\ os.x \in Nat
           /\ os.pc \in {"enter", "tail", "quote", "done"}
BY DEF OsTypeOK

(* Where the text begins and how long it is. *)
LEMMA OldTextBounds ==
    ASSUME os_call.len \in Nat, NEW a \in Nat, NEW b \in Int, a <= b, b < os_call.len,
           OsBlankIn(0, a - 1), OsBlankIn(b + 1, os_call.len - 1),
           os_call.given[a] # OsBlank, os_call.given[b] # OsBlank
    PROVE  OsFirst = a /\ OsSize = b - a + 1
<1>1. a \in OsSolid /\ b \in OsSolid
  BY DEF OsSolid
<1>2. \A j \in OsSolid : a <= j /\ j <= b
  BY DEF OsSolid, OsBlankIn
<1>3. OsSolid \subseteq Int
  BY DEF OsSolid
<1>4. \A i \in OsSolid : (\A j \in OsSolid : i <= j) => i = a
  BY <1>1, <1>2, <1>3
<1>5. \A i \in OsSolid : (\A j \in OsSolid : j <= i) => i = b
  BY <1>1, <1>2, <1>3
<1>6. OsSolid # {}
  BY <1>1
<1>7. (CHOOSE i \in OsSolid : \A j \in OsSolid : i <= j) = a
  BY <1>1, <1>2, <1>4, Zenon
<1>8. (CHOOSE i \in OsSolid : \A j \in OsSolid : j <= i) = b
  BY <1>1, <1>2, <1>5, Zenon
<1>9. OsFirst = a
  BY <1>6, <1>7 DEF OsFirst
<1>10. OsSize = b - a + 1
  BY <1>6, <1>8, <1>9 DEF OsSize
<1>. QED  BY <1>9, <1>10

LEMMA OldNothingSolid ==
    ASSUME os_call.len \in Nat, OsBlankIn(0, os_call.len - 1)
    PROVE  OsFirst = os_call.len /\ OsSize = 0
<1>1. OsSolid = {}
  BY DEF OsSolid, OsBlankIn
<1>. QED  BY <1>1 DEF OsFirst, OsSize

LEMMA OldTextStays ==
    ASSUME UNCHANGED os_call
    PROVE  OsFirst' = OsFirst /\ OsSize' = OsSize
<1>1. OsSolid' = OsSolid
  BY DEF OsSolid
<1>2. OsFirst' = OsFirst
  BY <1>1 DEF OsFirst
<1>. QED  BY <1>1, <1>2 DEF OsSize

(* A step of a trim or of the cut leaves the parts about the quotes as     *)
(* they are.                                                               *)
LEMMA OldCutSuffices ==
    ASSUME OsTypeOK, os_call.fn \notin OsQuotes, UNCHANGED os_call,
           OsTypeOK', OsScans', OldCutsAreExact'
    PROVE  OsIInv'
<1>1. OsReads' /\ OsSizes' /\ QuotesDecode'
  BY DEF OsReads, OsSizes, QuotesDecode, OsQuotes, OsTypeOK
<1>. QED  BY <1>1 DEF OsIInv

LEMMA OsHeadKeeps == OsIInv /\ OsHead => OsIInv'
<1>. SUFFICES ASSUME OsIInv, OsHead PROVE OsIInv'
  OBVIOUS
<1>1. OsTypeOK /\ OsScans /\ os.pc = "enter" /\ os_call.fn \in OsTrims /\ UNCHANGED <<os_call, os_mem>>
  BY DEF OsIInv, OsHead
<1>2. os_call.len \in Nat /\ os.head \in Nat /\ os.tail \in Int /\ os.len \in Nat
  BY <1>1, OldShape, OldFields
<1>3. /\ os_mem = os_call.given
      /\ os.head <= os_call.len /\ os.tail < os_call.len /\ os.len = os.tail - os.head + 1
      /\ OsBlankIn(0, os.head - 1) /\ OsBlankIn(os.tail + 1, os_call.len - 1)
      /\ os.moved <=> IF os_call.fn = "trim_len_cpy" THEN os.head > 0 ELSE os.tail < os_call.len - 1
      /\ os.tail = os_call.len - 1
  BY <1>1 DEF OsScans
<1>4. os_call.fn \notin OsQuotes
  BY <1>1 DEF OsTrims, OsQuotes
<1>5. CASE os.len > 0 /\ os_mem[os.head] = OsBlank
  <2>1. os' = [os EXCEPT !.head = @ + 1, !.len = @ - 1, !.moved = os_call.fn = "trim_len_cpy"]
    BY <1>5 DEF OsHead
  <2>2. /\ os'.head = os.head + 1 /\ os'.len = os.len - 1 /\ os'.tail = os.tail
        /\ os'.pc = "enter" /\ (os'.moved <=> os_call.fn = "trim_len_cpy")
    BY <1>1, <2>1 DEF OsTypeOK
  <2>3. OsTypeOK'
    <3>1. os.head + 1 \in Nat /\ os.len - 1 \in Nat /\ (os_call.fn = "trim_len_cpy") \in BOOLEAN
      BY <1>2, <1>5
    <3>2. os' \in [pc : {"enter", "tail", "quote", "done"}, head : Nat, tail : Int, len : Nat,
                   moved : BOOLEAN, x : Nat]
      BY <1>1, <2>1, <3>1 DEF OsTypeOK
    <3>. QED  BY <1>1, <2>2, <3>2 DEF OsTypeOK
  <2>4. OsBlankIn(0, os.head)
    BY <1>2, <1>3, <1>5 DEF OsBlankIn
  <2>5. OsScans'
    <3>1. /\ os.head + 1 <= os_call.len /\ os.len - 1 = os.tail - (os.head + 1) + 1
          /\ (os.head + 1) - 1 = os.head /\ os.head + 1 > 0
          /\ ~(os.tail < os_call.len - 1)
      BY <1>2, <1>3, <1>5
    <3>2. OsBlankIn(0, os.head - 1)' /\ OsBlankIn(os.tail + 1, os_call.len - 1)'
      BY <1>1, <1>3, <2>2, <2>4, <3>1 DEF OsBlankIn
    <3>. QED  BY <1>1, <1>3, <2>2, <3>1, <3>2 DEF OsScans
  <2>6. OldCutsAreExact'
    BY <2>2 DEF OldCutsAreExact
  <2>. QED  BY <1>1, <1>4, <2>3, <2>5, <2>6, OldCutSuffices
<1>6. CASE ~(os.len > 0 /\ os_mem[os.head] = OsBlank)
  <2>1. os' = [os EXCEPT !.pc = "tail"]
    BY <1>6 DEF OsHead
  <2>2. /\ os'.head = os.head /\ os'.len = os.len /\ os'.tail = os.tail
        /\ os'.pc = "tail" /\ os'.moved = os.moved
    BY <1>1, <2>1 DEF OsTypeOK
  <2>3. OsTypeOK'
    BY <1>1, <2>1 DEF OsTypeOK
  <2>4. /\ os.len = 0 => os.head = os_call.len
        /\ os.len > 0 => os_call.given[os.head] # OsBlank
    BY <1>2, <1>3, <1>6
  <2>5. OsScans'
    BY <1>1, <1>3, <2>2, <2>4 DEF OsScans, OsBlankIn
  <2>6. OldCutsAreExact'
    BY <2>2 DEF OldCutsAreExact
  <2>. QED  BY <1>1, <1>4, <2>3, <2>5, <2>6, OldCutSuffices
<1>. QED  BY <1>5, <1>6

LEMMA OsTailKeeps == OsIInv /\ OsTail => OsIInv'
<1>. SUFFICES ASSUME OsIInv, OsTail PROVE OsIInv'
  OBVIOUS
<1>1. /\ OsTypeOK /\ OsScans /\ os.pc = "tail" /\ UNCHANGED <<os_call, os_mem>>
      /\ os.len > 0 /\ os_mem[os.tail] = OsBlank
  BY DEF OsIInv, OsTail
<1>2. os_call.fn \in OsTrims /\ os_call.fn \notin OsQuotes
  BY <1>1 DEF OsTypeOK, OsTrims, OsQuotes
<1>3. os_call.len \in Nat /\ os.head \in Nat /\ os.tail \in Int /\ os.len \in Nat
  BY <1>1, OldShape, OldFields
<1>4. /\ os_mem = os_call.given
      /\ os.head <= os_call.len /\ os.tail < os_call.len /\ os.len = os.tail - os.head + 1
      /\ OsBlankIn(0, os.head - 1) /\ OsBlankIn(os.tail + 1, os_call.len - 1)
      /\ os.moved <=> IF os_call.fn = "trim_len_cpy" THEN os.head > 0 ELSE os.tail < os_call.len - 1
      /\ os_call.given[os.head] # OsBlank
  BY <1>1, <1>2 DEF OsScans
<1>5. os' = [os EXCEPT !.tail = @ - 1, !.len = @ - 1, !.moved = @ \/ os_call.fn = "trim_len"]
  BY DEF OsTail
<1>6. /\ os'.head = os.head /\ os'.len = os.len - 1 /\ os'.tail = os.tail - 1
      /\ os'.pc = "tail" /\ (os'.moved <=> os.moved \/ os_call.fn = "trim_len")
  BY <1>1, <1>5 DEF OsTypeOK
<1>7. os.tail # os.head /\ os.len - 1 > 0 /\ os.tail - 1 \in Int /\ os.len - 1 \in Nat
  <2>1. os.tail # os.head
    BY <1>1, <1>4, Zenon
  <2>2. \A l \in Nat, h \in Nat, t \in Int :
            l > 0 /\ t # h /\ l = t - h + 1 => l - 1 > 0 /\ t - 1 \in Int /\ l - 1 \in Nat
    OBVIOUS
  <2>. QED  BY <1>1, <1>3, <1>4, <2>1, <2>2, Zenon
<1>8. OsTypeOK'
  BY <1>1, <1>5, <1>7 DEF OsTypeOK
<1>9. OsBlankIn(os.tail, os_call.len - 1)
  BY <1>1, <1>3, <1>4 DEF OsBlankIn
<1>10. /\ os.tail - 1 < os_call.len - 1 /\ os.tail - 1 < os_call.len
       /\ os.len - 1 = (os.tail - 1) - os.head + 1 /\ (os.tail - 1) + 1 = os.tail
  BY <1>3, <1>4
<1>11. OsScans'
  <2>1. OsBlankIn(0, os.head - 1)' /\ OsBlankIn(os.tail + 1, os_call.len - 1)'
    BY <1>1, <1>4, <1>6, <1>9, <1>10 DEF OsBlankIn
  <2>2. os'.moved <=> IF os_call.fn = "trim_len_cpy" THEN os.head > 0 ELSE os.tail - 1 < os_call.len - 1
    BY <1>2, <1>4, <1>6, <1>10 DEF OsTrims
  <2>3. os'.len # 0
    BY <1>6, <1>7
  <2>. QED  BY <1>1, <1>4, <1>6, <1>10, <2>1, <2>2, <2>3 DEF OsScans
<1>12. OldCutsAreExact'
  BY <1>6 DEF OldCutsAreExact
<1>. QED  BY <1>1, <1>2, <1>8, <1>11, <1>12, OldCutSuffices

(* What the scans of a trim have found when they end. *)
LEMMA OldTextFound ==
    ASSUME OsTypeOK, OsScans, OsTailEnds
    PROVE  /\ os_call.fn \in OsTrims /\ os_call.fn \notin OsQuotes
           /\ os_mem = os_call.given
           /\ os.tail + 1 = os.head + os.len /\ os.head + os.len <= os_call.len
           /\ OsFirst = os.head /\ OsSize = os.len
           /\ os.head + os.len < os_call.len => os_call.given[os.head + os.len] = OsBlank
           /\ os.moved <=> IF os_call.fn = "trim_len_cpy" THEN os.head > 0
                           ELSE os.head + os.len < os_call.len
<1>1. os.pc = "tail" /\ ~(os.len > 0 /\ os_mem[os.tail] = OsBlank)
  BY DEF OsTailEnds
<1>2. os_call.fn \in OsTrims /\ os_call.fn \notin OsQuotes
  BY <1>1 DEF OsTypeOK, OsTrims, OsQuotes
<1>3. os_call.len \in Nat /\ os.head \in Nat /\ os.tail \in Int /\ os.len \in Nat
  BY OldShape, OldFields
<1>4. /\ os_mem = os_call.given
      /\ os.head <= os_call.len /\ os.tail < os_call.len /\ os.len = os.tail - os.head + 1
      /\ OsBlankIn(0, os.head - 1) /\ OsBlankIn(os.tail + 1, os_call.len - 1)
      /\ os.moved <=> IF os_call.fn = "trim_len_cpy" THEN os.head > 0 ELSE os.tail < os_call.len - 1
      /\ os.len = 0 => os.head = os_call.len
      /\ os.len > 0 => os_call.given[os.head] # OsBlank
  BY <1>1, <1>2 DEF OsScans
<1>5. os.tail + 1 = os.head + os.len /\ os.head + os.len <= os_call.len
  BY <1>3, <1>4
<1>6. os.head + os.len < os_call.len => os_call.given[os.head + os.len] = OsBlank
  <2>1. os.head + os.len < os_call.len => os.head + os.len \in os.tail + 1 .. os_call.len - 1
    BY <1>3, <1>5
  <2>. QED  BY <1>4, <2>1, Zenon DEF OsBlankIn
<1>7. os.tail < os_call.len - 1 <=> os.head + os.len < os_call.len
  <2>1. \A t \in Int, n \in Nat, h \in Nat, l \in Nat :
            t + 1 = h + l => (t < n - 1 <=> h + l < n)
    OBVIOUS
  <2>. QED  BY <1>3, <1>5, <2>1, Zenon
<1>8. OsFirst = os.head /\ OsSize = os.len
  <2>1. CASE os.len = 0
    BY <1>3, <1>4, <2>1, OldNothingSolid
  <2>2. CASE os.len > 0
    <3>1. os.head <= os.tail /\ os.len = os.tail - os.head + 1
      BY <1>3, <1>4, <2>2
    <3>2. os_call.given[os.tail] # OsBlank /\ os_call.given[os.head] # OsBlank
      BY <1>1, <1>4, <2>2
    <3>. QED  BY <1>3, <1>4, <3>1, <3>2, OldTextBounds
  <2>. QED  BY <1>3, <2>1, <2>2
<1>. QED  BY <1>2, <1>4, <1>5, <1>6, <1>7, <1>8

(* What a returning trim must have done. *)
LEMMA OldTrimReturns ==
    ASSUME OsIInv, OsTailEnds, UNCHANGED os_call, NEW at \in Nat, OsReturn(at, os.len),
           at = IF os_call.fn = "trim_len" THEN os.head ELSE 0,
           DOMAIN os_mem' = DOMAIN os_mem,
           \A i \in 0 .. os.len - 1 : os_mem'[at + i] = os_call.given[os.head + i],
           \A i \in DOMAIN os_mem \ (at .. at + os.len) : os_mem'[i] = os_call.given[i],
           os_call.len = OsLen(os_call.given) =>
               (os_mem'[at + os.len] = OsNUL
                   <=> ~(os_call.fn = "trim_len_cpy" /\ os.head = 0 /\ os.len < os_call.len))
    PROVE  OsIInv'
<1>1. OsTypeOK /\ OsScans /\ os.pc = "tail"
  BY DEF OsIInv, OsTailEnds
<1>2. /\ os_call.fn \in OsTrims /\ os_call.fn \notin OsQuotes /\ os_call.fn # "trunc_str"
      /\ OsFirst = os.head /\ OsSize = os.len
  BY <1>1, OldTextFound DEF OsTrims
<1>3. OsFirst' = os.head /\ OsSize' = os.len
  BY <1>2, OldTextStays
<1>4. os' = [os EXCEPT !.pc = "done"] /\ os_ret' = [start |-> at, len |-> os.len]
  BY DEF OsReturn
<1>5. os'.pc = "done" /\ os_ret'.start = at
  BY <1>1, <1>4 DEF OsTypeOK
<1>6. OsTypeOK'
  BY <1>1, <1>4, <1>5 DEF OsTypeOK
<1>7. OsScans'
  BY <1>5 DEF OsScans
<1>8. OnlyBehind' <=> os.head = 0 /\ os.len < os_call.len
  BY <1>3 DEF OnlyBehind
<1>9. OldCutsAreExact'
  <2>1. os_ret' = [start |-> IF os_call.fn = "trim_len" THEN OsFirst' ELSE 0, len |-> OsSize']
    BY <1>3, <1>4
  <2>2. \A i \in 0 .. OsSize' - 1 : os_mem'[os_ret'.start + i] = os_call.given[OsFirst' + i]
    BY <1>3, <1>5
  <2>3. \A i \in DOMAIN os_mem' \ (os_ret'.start .. os_ret'.start + OsSize') :
            os_mem'[i] = os_call.given[i]
    BY <1>3, <1>5
  <2>4. os_call.len = OsLen(os_call.given) =>
            (os_mem'[os_ret'.start + OsSize'] = OsNUL
                <=> ~(os_call.fn = "trim_len_cpy" /\ OnlyBehind'))
    BY <1>3, <1>5, <1>8
  <2>. QED  BY <1>2, <1>5, <2>1, <2>2, <2>3, <2>4 DEF OldCutsAreExact
<1>. QED  BY <1>1, <1>2, <1>6, <1>7, <1>9, OldCutSuffices

LEMMA OsTrimInPlaceKeeps == OsIInv /\ OsTrimInPlace => OsIInv'
<1>. SUFFICES ASSUME OsIInv, OsTrimInPlace PROVE OsIInv'
  OBVIOUS
<1>1. /\ OsTypeOK /\ OsScans /\ OsTailEnds /\ os_call.fn = "trim_len" /\ UNCHANGED os_call
      /\ OsReturn(os.head, os.len)
  BY DEF OsIInv, OsTrimInPlace
<1>2. /\ os_mem = os_call.given
      /\ os.tail + 1 = os.head + os.len /\ os.head + os.len <= os_call.len
      /\ os.moved <=> os.head + os.len < os_call.len
  BY <1>1, OldTextFound
<1>3. /\ OsLen(os_call.given) \in Nat /\ DOMAIN os_call.given = 0 .. OsLen(os_call.given)
      /\ os_call.given[OsLen(os_call.given)] = OsNUL /\ os_call.len \in Nat
      /\ os_call.len <= OsLen(os_call.given)
      /\ os.head \in Nat /\ os.len \in Nat
  BY <1>1, OldShape, OldFields
<1>4. os_mem' = IF os.len > 0 /\ os.moved THEN [os_mem EXCEPT ![os.head + os.len] = OsNUL] ELSE os_mem
  BY <1>2 DEF OsTrimInPlace
<1>5. DOMAIN os_mem' = DOMAIN os_mem
  BY <1>4
<1>6. \A i \in DOMAIN os_mem : i # os.head + os.len => os_mem'[i] = os_call.given[i]
  BY <1>2, <1>4
<1>7. \A i \in 0 .. os.len - 1 : os_mem'[os.head + i] = os_call.given[os.head + i]
  <2>1. \A i \in 0 .. os.len - 1 : os.head + i \in DOMAIN os_mem /\ os.head + i # os.head + os.len
    BY <1>2, <1>3
  <2>. QED  BY <1>6, <2>1
<1>8. \A i \in DOMAIN os_mem \ (os.head .. os.head + os.len) : os_mem'[i] = os_call.given[i]
  <2>1. os.head + os.len \in os.head .. os.head + os.len
    BY <1>3
  <2>. QED  BY <1>6, <2>1
<1>9. os_call.len = OsLen(os_call.given) => os_mem'[os.head + os.len] = OsNUL
  <2>. SUFFICES ASSUME os_call.len = OsLen(os_call.given) PROVE os_mem'[os.head + os.len] = OsNUL
    OBVIOUS
  <2>1. CASE os.len > 0 /\ os.moved
    <3>1. os.head + os.len \in DOMAIN os_mem
      BY <1>2, <1>3
    <3>. QED  BY <1>4, <2>1, <3>1
  <2>2. CASE os.len > 0 /\ ~os.moved
    <3>1. os.head + os.len = OsLen(os_call.given)
      BY <1>2, <1>3, <2>2
    <3>. QED  BY <1>2, <1>3, <1>4, <2>2, <3>1
  <2>3. CASE os.len = 0
    <3>1. OsSize = 0 /\ OsFirst = os.head
      BY <1>1, <2>3, OldTextFound
    <3>2. os.head + os.len = os_call.len
      BY <1>1, <1>2, <1>3, <2>3 DEF OsScans, OsTailEnds, OsTrims
    <3>. QED  BY <1>2, <1>3, <1>4, <2>3, <3>2
  <2>. QED  BY <1>3, <2>1, <2>2, <2>3
<1>. QED  BY <1>1, <1>3, <1>5, <1>7, <1>8, <1>9, OldTrimReturns

LEMMA OsTrimAndMoveKeeps == OsIInv /\ OsTrimAndMove => OsIInv'
<1>. SUFFICES ASSUME OsIInv, OsTrimAndMove PROVE OsIInv'
  OBVIOUS
<1>1. /\ OsTypeOK /\ OsScans /\ OsTailEnds /\ os_call.fn = "trim_len_cpy" /\ UNCHANGED os_call
      /\ OsReturn(0, os.len)
  BY DEF OsIInv, OsTrimAndMove
<1>2. /\ os_mem = os_call.given
      /\ os.head + os.len <= os_call.len
      /\ os.moved <=> os.head > 0
      /\ os.head + os.len < os_call.len => os_call.given[os.head + os.len] = OsBlank
  BY <1>1, OldTextFound
<1>3. /\ OsLen(os_call.given) \in Nat /\ DOMAIN os_call.given = 0 .. OsLen(os_call.given)
      /\ os_call.given[OsLen(os_call.given)] = OsNUL /\ os_call.len \in Nat
      /\ os_call.len <= OsLen(os_call.given)
      /\ os.head \in Nat /\ os.len \in Nat
  BY <1>1, OldShape, OldFields
<1>4. CASE os.moved
  <2>1. os_mem' = [i \in DOMAIN os_mem |-> OsMoved(i)] /\ os.head > 0
    BY <1>2, <1>4 DEF OsTrimAndMove
  <2>2. \A i \in 0 .. os.len - 1 : os_mem'[0 + i] = os_call.given[os.head + i]
    <3>1. \A i \in 0 .. os.len - 1 : i \in DOMAIN os_mem /\ i < os.len /\ 0 + i = i
      BY <1>2, <1>3
    <3>2. \A i \in 0 .. os.len - 1 : os_mem'[i] = os_mem[os.head + i]
      BY <2>1, <3>1 DEF OsMoved
    <3>. QED  BY <1>2, <3>1, <3>2
  <2>3. \A i \in DOMAIN os_mem \ (0 .. 0 + os.len) : os_mem'[i] = os_call.given[i]
    <3>1. \A i \in DOMAIN os_mem \ (0 .. 0 + os.len) : ~(i < os.len) /\ i # os.len
      BY <1>2, <1>3
    <3>. QED  BY <1>2, <2>1, <3>1 DEF OsMoved
  <2>4. os_mem'[0 + os.len] = OsNUL
    <3>1. os.len \in DOMAIN os_mem /\ ~(os.len < os.len) /\ 0 + os.len = os.len
      BY <1>2, <1>3
    <3>. QED  BY <2>1, <3>1 DEF OsMoved
  <2>5. DOMAIN os_mem' = DOMAIN os_mem /\ os.head # 0
    BY <1>3, <2>1
  <2>. QED  BY <1>1, <2>2, <2>3, <2>4, <2>5, OldTrimReturns
<1>5. CASE ~os.moved
  <2>1. os_mem' = os_mem /\ os.head = 0
    BY <1>2, <1>3, <1>5 DEF OsTrimAndMove
  <2>2. 0 + os.len = os.len /\ os.head + os.len = os.len
    BY <1>3, <2>1
  <2>3. os_call.len = OsLen(os_call.given) =>
            (os_mem'[0 + os.len] = OsNUL <=> ~(os.len < os_call.len))
    <3>1. ~(os.len < os_call.len) => os.len = os_call.len
      BY <1>2, <1>3, <2>2
    <3>2. OsBlank # OsNUL
      BY DEF OsBlank, OsNUL
    <3>. QED  BY <1>2, <1>3, <2>1, <2>2, <3>1, <3>2
  <2>4. \A i \in 0 .. os.len - 1 : os_mem'[0 + i] = os_call.given[os.head + i]
    BY <1>2, <2>1
  <2>. QED  BY <1>1, <1>2, <2>1, <2>3, <2>4, OldTrimReturns
<1>. QED  BY <1>4, <1>5

LEMMA TruncKeeps == OsIInv /\ trunc_str => OsIInv'
<1>. SUFFICES ASSUME OsIInv, trunc_str PROVE OsIInv'
  OBVIOUS
<1>1. /\ OsTypeOK /\ os.pc = "enter" /\ os_call.fn = "trunc_str" /\ UNCHANGED os_call
      /\ OsReturn(0, 0)
  BY DEF OsIInv, trunc_str
<1>2. os_mem = os_call.given
  BY <1>1 DEF OsTypeOK
<1>3. /\ OsLen(os_call.given) \in Nat /\ DOMAIN os_call.given = 0 .. OsLen(os_call.given)
      /\ os_call.len \in Nat
  BY <1>1, OldShape
<1>4. os' = [os EXCEPT !.pc = "done"]
  BY <1>1 DEF OsReturn
<1>5. os'.pc = "done"
  BY <1>1, <1>4 DEF OsTypeOK
<1>6. OsTypeOK'
  BY <1>1, <1>4, <1>5 DEF OsTypeOK
<1>7. os_call.fn \notin OsTrims /\ os_call.fn \notin OsQuotes
  BY <1>1 DEF OsTrims, OsQuotes
<1>8. os_mem' = IF os_call.len <= OsLen(os_call.given)
                THEN [os_call.given EXCEPT ![os_call.len] = OsNUL] ELSE os_call.given
  BY <1>2 DEF trunc_str
<1>9. \A i \in DOMAIN os_mem' : os_mem'[i] = IF i = os_call.len THEN OsNUL ELSE os_call.given[i]
  BY <1>3, <1>8
<1>10. OldCutsAreExact'
  BY <1>1, <1>7, <1>9 DEF OldCutsAreExact
<1>11. OsScans'
  BY <1>1, <1>7 DEF OsScans
<1>. QED  BY <1>1, <1>6, <1>7, <1>10, <1>11, OldCutSuffices

-----------------------------------------------------------------------------
(* The older tree: escapeshellarg and urlencode, read back.                *)

At(mode, text) == [mode |-> mode, text |-> text]

(* r is what a reader goes through over the output `out`, from its start. *)
Reading(r, out) ==
    /\ r = [k \in 0 .. Len(out) |-> r[k]]
    /\ r[0] = At("bare", <<>>)
    /\ \A k \in 1 .. Len(out) : r[k] = Reader(r[k - 1], out[k])

Reads(out, state) == \E r : Reading(r, out) /\ r[Len(out)] = state

LEMMA ReadsNothing == Reads(<<>>, At("bare", <<>>))
<1>1. PICK r : r = [k \in 0 .. 0 |-> At("bare", <<>>)]
  OBVIOUS
<1>2. Len(<<>>) = 0
  OBVIOUS
<1>3. r[0] = At("bare", <<>>) /\ r = [k \in 0 .. 0 |-> r[k]]
  BY <1>1
<1>4. Reading(r, <<>>)
  BY <1>2, <1>3 DEF Reading
<1>. QED  BY <1>2, <1>3, <1>4 DEF Reads

(* A byte more, and the reader is one step further. *)
LEMMA ReadsOn ==
    ASSUME NEW S, NEW out \in Seq(S), NEW b \in S, NEW state, Reads(out, state)
    PROVE  Append(out, b) \in Seq(S) /\ Reads(Append(out, b), Reader(state, b))
<1>. DEFINE n == Len(out)
            more == Append(out, b)
<1>1. PICK r : Reading(r, out) /\ r[n] = state
  BY DEF Reads
<1>2. /\ n \in Nat /\ more \in Seq(S) /\ Len(more) = n + 1 /\ more[n + 1] = b
      /\ \A i \in 1 .. n : more[i] = out[i]
  BY AppendProperties, LenProperties
<1>. HIDE DEF n, more
<1>3. PICK r2 : r2 = [k \in 0 .. n + 1 |-> IF k = n + 1 THEN Reader(state, b) ELSE r[k]]
  OBVIOUS
<1>4. \A k \in 0 .. n : r2[k] = r[k]
  BY <1>2, <1>3
<1>5. r2[n + 1] = Reader(state, b)
  BY <1>2, <1>3
<1>6. r[0] = At("bare", <<>>) /\ \A k \in 1 .. n : r[k] = Reader(r[k - 1], out[k])
  BY <1>1 DEF Reading, n
<1>7. r2[0] = At("bare", <<>>)
  BY <1>2, <1>4, <1>6
<1>8. ASSUME NEW k \in 1 .. n + 1 PROVE r2[k] = Reader(r2[k - 1], more[k])
  <2>1. CASE k = n + 1
    <3>1. k - 1 = n /\ n \in 0 .. n
      BY <1>2, <2>1
    <3>2. r2[k - 1] = state
      BY <1>1, <1>4, <3>1 DEF n
    <3>. QED  BY <1>2, <1>5, <2>1, <3>2
  <2>2. CASE k # n + 1
    <3>1. k \in 1 .. n /\ k \in 0 .. n /\ k - 1 \in 0 .. n
      BY <1>2, <2>2
    <3>. QED  BY <1>2, <1>4, <1>6, <3>1
  <2>. QED  BY <2>1, <2>2
<1>9. r2 = [k \in 0 .. n + 1 |-> r2[k]]
  BY <1>3
<1>10. Reading(r2, more)
  BY <1>2, <1>7, <1>8, <1>9 DEF Reading
<1>. QED  BY <1>2, <1>5, <1>10 DEF Reads, more

(* The recursion of ReadUpTo goes through the same states. *)
ReadUpToReads ==
    \A state : Len(os_out) \in Nat /\ Reads(os_out, state) =>
        /\ ReadUpTo[0] = At("bare", <<>>)
        /\ \A k \in 1 .. Len(os_out) : ReadUpTo[k] = Reader(ReadUpTo[k - 1], os_out[k])
        /\ ReadUpTo[Len(os_out)] = state

LEMMA ReaderReads == ReadUpToReads
<1>. SUFFICES ASSUME NEW state, Len(os_out) \in Nat, Reads(os_out, state)
              PROVE  /\ ReadUpTo[0] = At("bare", <<>>)
                     /\ \A k \in 1 .. Len(os_out) : ReadUpTo[k] = Reader(ReadUpTo[k - 1], os_out[k])
                     /\ ReadUpTo[Len(os_out)] = state
  BY DEF ReadUpToReads
<1>. DEFINE n == Len(os_out)
            Unfolds(g) ==
                g = [k \in 0 .. n |-> IF k = 0 THEN At("bare", <<>>) ELSE Reader(g[k - 1], os_out[k])]
<1>1. PICK r : Reading(r, os_out) /\ r[n] = state
  BY DEF Reads
<1>2. ReadUpTo = CHOOSE g : Unfolds(g)
  BY DEF ReadUpTo, At
<1>3. n \in Nat
  OBVIOUS
<1>4. /\ r = [k \in 0 .. n |-> r[k]] /\ r[0] = At("bare", <<>>)
      /\ \A k \in 1 .. n : r[k] = Reader(r[k - 1], os_out[k])
  BY <1>1 DEF Reading
<1>. HIDE DEF n
<1>5. Unfolds(r)
  <2>1. \A k \in 0 .. n :
            r[k] = IF k = 0 THEN At("bare", <<>>) ELSE Reader(r[k - 1], os_out[k])
    <3>1. \A k \in 0 .. n : k # 0 => k \in 1 .. n
      BY <1>3
    <3>. QED  BY <1>4, <3>1, Zenon
  <2>. QED  BY <1>4, <2>1, Zenon
<1>6. Unfolds(ReadUpTo)
  BY <1>2, <1>5, Zenon
<1>7. \A k \in 0 .. n :
          ReadUpTo[k] = IF k = 0 THEN At("bare", <<>>) ELSE Reader(ReadUpTo[k - 1], os_out[k])
  BY <1>6, Zenon
<1>. HIDE DEF Unfolds
<1>8. ReadUpTo[0] = At("bare", <<>>)
  BY <1>3, <1>7
<1>9. \A k \in 1 .. n : ReadUpTo[k] = Reader(ReadUpTo[k - 1], os_out[k])
  <2>1. \A k \in 1 .. n : k \in 0 .. n /\ k # 0
    BY <1>3
  <2>. QED  BY <1>7, <2>1, Zenon
<1>. DEFINE Apart == {k \in 0 .. n : ReadUpTo[k] # r[k]}
<1>10. Apart = {}
  <2>1. SUFFICES ASSUME Apart # {} PROVE FALSE
    OBVIOUS
  <2>2. Apart \in SUBSET Nat
    BY <1>3
  <2>. HIDE DEF Apart
  <2>3. PICK m \in Apart : \A k \in Apart : m <= k
    BY <2>1, <2>2, LeastNatural
  <2>4. m \in 0 .. n /\ ReadUpTo[m] # r[m]
    BY DEF Apart
  <2>5. m # 0
    BY <1>4, <1>8, <2>4
  <2>6. m \in 1 .. n /\ m - 1 \in 0 .. n /\ ~(m <= m - 1)
    BY <1>3, <2>4, <2>5
  <2>7. ReadUpTo[m - 1] = r[m - 1]
    BY <2>3, <2>6 DEF Apart
  <2>. QED  BY <1>4, <1>9, <2>4, <2>6, <2>7, Zenon
<1>11. ReadUpTo[n] = r[n]
  BY <1>3, <1>10
<1>. QED  BY <1>1, <1>8, <1>9, <1>11 DEF n

LEMMA ReaderReadsNext == ReadUpToReads'
BY ReaderReads, PTL

LEMMA ReaderStays ==
    ASSUME UNCHANGED os_call, NEW state, NEW b
    PROVE  Reader(state, b)' = Reader(state, b)
BY DEF Reader, ShellReads, UrlReads, Unreserved

(* The readers, byte by byte. *)
LEMMA ShellReader ==
    ASSUME os_call.fn = "escapeshellarg", NEW t
    PROVE  /\ Reader(At("bare", t), <<"'">>) = At("quoted", t)
           /\ Reader(At("bare", t), <<"\\">>) = At("escaped", t)
           /\ Reader(At("quoted", t), <<"'">>) = At("bare", t)
           /\ Reader(At("escaped", t), <<"'">>) = At("bare", Append(t, "'"))
           /\ \A c : c # "'" => Reader(At("quoted", t), <<c>>) = At("quoted", Append(t, c))
<1>1. \A state, b : Reader(state, b) = ShellReads(state, b)
  BY DEF Reader
<1>2. /\ ShellReads(At("bare", t), <<"'">>) = At("quoted", t)
      /\ ShellReads(At("bare", t), <<"\\">>) = At("escaped", t)
      /\ ShellReads(At("quoted", t), <<"'">>) = At("bare", t)
      /\ ShellReads(At("escaped", t), <<"'">>) = At("bare", Append(t, "'"))
  BY DEF ShellReads, At
<1>3. ASSUME NEW c, c # "'" PROVE ShellReads(At("quoted", t), <<c>>) = At("quoted", Append(t, c))
  BY <1>3 DEF ShellReads, At
<1>. QED  BY <1>1, <1>2, <1>3

LEMMA UrlReader ==
    ASSUME os_call.fn = "urlencode", NEW t
    PROVE  /\ ~os_call.raw => Reader(At("bare", t), <<"+">>) = At("bare", Append(t, " "))
           /\ Reader(At("bare", t), <<"%">>) = At("high", t)
           /\ \A c : Unreserved(c) => Reader(At("bare", t), <<c>>) = At("bare", Append(t, c))
           /\ \A c : Reader(At("high", t), <<"high", c>>) = At("low", t)
           /\ \A c : Reader(At("low", t), <<"low", c>>) = At("bare", Append(t, c))
<1>1. \A state, b : Reader(state, b) = UrlReads(state, b)
  BY DEF Reader
<1>2. /\ ~os_call.raw => UrlReads(At("bare", t), <<"+">>) = At("bare", Append(t, " "))
      /\ UrlReads(At("bare", t), <<"%">>) = At("high", t)
  <2>1. /\ <<"+">> # <<"%">> /\ <<"+">>[1] = "+" /\ <<"%">>[1] = "%"
        /\ ~Unreserved("+") /\ ~Unreserved("%")
    BY DEF Unreserved
  <2>2. ~os_call.raw => UrlReads(At("bare", t), <<"+">>) = At("bare", Append(t, " "))
    BY <2>1 DEF UrlReads, At
  <2>3. UrlReads(At("bare", t), <<"%">>) = At("high", t)
    BY <2>1 DEF UrlReads, At
  <2>. QED  BY <2>2, <2>3
<1>3. ASSUME NEW c, Unreserved(c) PROVE UrlReads(At("bare", t), <<c>>) = At("bare", Append(t, c))
  <2>1. <<c>> # <<"%">> /\ <<c>> # <<"+">> /\ Len(<<c>>) = 1 /\ <<c>>[1] = c
    BY <1>3 DEF Unreserved
  <2>. QED  BY <1>3, <2>1 DEF UrlReads, At
<1>4. ASSUME NEW c PROVE UrlReads(At("high", t), <<"high", c>>) = At("low", t)
  <2>1. Len(<<"high", c>>) = 2 /\ <<"high", c>>[1] = "high"
    OBVIOUS
  <2>. QED  BY <2>1 DEF UrlReads, At
<1>5. ASSUME NEW c PROVE UrlReads(At("low", t), <<"low", c>>) = At("bare", Append(t, c))
  <2>1. Len(<<"low", c>>) = 2 /\ <<"low", c>>[1] = "low" /\ <<"low", c>>[2] = c
    OBVIOUS
  <2>. QED  BY <2>1 DEF UrlReads, At
<1>. QED  BY <1>1, <1>2, <1>3, <1>4, <1>5

LEMMA GivenGrows ==
    /\ GivenUpTo(0) = <<>>
    /\ \A k \in Nat : Append(GivenUpTo(k), os_call.given[k]) = GivenUpTo(k + 1)
<1>1. GivenUpTo(0) = <<>>
  BY DEF GivenUpTo
<1>2. ASSUME NEW k \in Nat PROVE Append(GivenUpTo(k), os_call.given[k]) = GivenUpTo(k + 1)
  <2>. DEFINE S == {os_call.given[i] : i \in Nat}
  <2>1. GivenUpTo(k) \in Seq(S) /\ Len(GivenUpTo(k)) = k
    BY DEF GivenUpTo
  <2>2. os_call.given[k] \in S
    OBVIOUS
  <2>. HIDE DEF S
  <2>3. /\ Append(GivenUpTo(k), os_call.given[k]) \in Seq(S)
        /\ Len(Append(GivenUpTo(k), os_call.given[k])) = k + 1
        /\ \A i \in 1 .. k : Append(GivenUpTo(k), os_call.given[k])[i] = GivenUpTo(k)[i]
        /\ Append(GivenUpTo(k), os_call.given[k])[k + 1] = os_call.given[k]
    BY <2>1, <2>2, AppendProperties
  <2>4. Append(GivenUpTo(k), os_call.given[k])
            = [i \in 1 .. k + 1 |-> Append(GivenUpTo(k), os_call.given[k])[i]]
    BY <2>3
  <2>5. ASSUME NEW i \in 1 .. k + 1
        PROVE  Append(GivenUpTo(k), os_call.given[k])[i] = os_call.given[i - 1]
    <3>1. CASE i = k + 1
      BY <2>3, <3>1
    <3>2. CASE i # k + 1
      <4>1. i \in 1 .. k
        BY <3>2
      <4>. QED  BY <2>3, <4>1 DEF GivenUpTo
    <3>. QED  BY <3>1, <3>2
  <2>. QED  BY <2>4, <2>5 DEF GivenUpTo
<1>. QED  BY <1>1, <1>2

(* What a step of a quoting function has to show. *)
LEMMA OldQuoteSuffices ==
    ASSUME OsTypeOK, os_call.fn \in OsQuotes, UNCHANGED os_call, OsTypeOK',
           os_out' \in Seq(OsBytes), NEW state, Reads(os_out', state),
           os'.x <= os'.len, os'.len <= OsLen(os_call.given),
           os_call.fn = "escapeshellarg" /\ os'.pc = "enter" => os'.x = 0 /\ os_out' = <<>>,
           os_call.fn = "urlencode" => Len(os_out') <= 3 * os'.x,
           os'.pc = "quote" => ShellSize(os'.x, Len(os_out')),
           os'.pc = "done" => (Len(os_out') < OsAllocated'
                                   <=> os_call.fn = "urlencode" \/ ~OnlyQuotes(os'.len)),
           os'.pc # "done" =>
               state = At(IF os'.pc = "quote" THEN "quoted" ELSE "bare", GivenUpTo(os'.x)),
           os'.pc = "done" => state = At("bare", GivenUpTo(os'.len)) /\ os_ret'.len = Len(os_out')
    PROVE  OsIInv'
<1>1. os_call.fn \notin OsTrims /\ os_call.fn # "trunc_str"
  BY DEF OsTrims, OsQuotes
<1>2. Len(os_out') \in Nat
  BY LenProperties
<1>3. Reads(os_out, state)'
  <2>1. PICK r : Reading(r, os_out') /\ r[Len(os_out')] = state
    BY DEF Reads
  <2>2. /\ r = [k \in 0 .. Len(os_out') |-> r[k]] /\ r[0] = At("bare", <<>>)
        /\ \A k \in 1 .. Len(os_out') : r[k] = Reader(r[k - 1], os_out'[k])
    BY <2>1 DEF Reading
  <2>3. \A st, b : Reader(st, b)' = Reader(st, b)
    BY ReaderStays
  <2>4. \A k \in 1 .. Len(os_out') : r[k] = Reader(r[k - 1], os_out[k])'
    BY <2>2, <2>3
  <2>5. Reading(r, os_out)'
    BY <2>2, <2>4 DEF Reading, At
  <2>. QED  BY <2>1, <2>5 DEF Reads
<1>4. /\ ReadUpTo'[0] = At("bare", <<>>)
      /\ \A k \in 1 .. Len(os_out') : ReadUpTo'[k] = Reader(ReadUpTo[k - 1], os_out[k])'
      /\ ReadUpTo'[Len(os_out')] = state
  BY <1>2, <1>3, ReaderReadsNext DEF ReadUpToReads, At
<1>5. OsBytes' = OsBytes
  BY DEF OsBytes
<1>6. \A k : GivenUpTo(k)' = GivenUpTo(k)
  BY DEF GivenUpTo
<1>7. OsReads' /\ OsSizes'
  <2>1. OsReads'
    BY <1>4, <1>5, <1>6 DEF OsReads, At
  <2>2. OsSizes'
    BY DEF OsSizes, ShellSize, OnlyQuotes
  <2>. QED  BY <2>1, <2>2
<1>8. QuotesDecode'
  <2>1. OnlyQuotes(os.len)' <=> OnlyQuotes(os'.len)
    BY DEF OnlyQuotes
  <2>. QED  BY <1>4, <1>6, <2>1 DEF QuotesDecode, At
<1>9. OsScans' /\ OldCutsAreExact'
  BY <1>1 DEF OsScans, OldCutsAreExact
<1>. QED  BY <1>7, <1>8, <1>9 DEF OsIInv

(* Several bytes at once. *)
LEMMA PutBytes ==
    ASSUME NEW S, NEW s \in Seq(S), NEW a \in S, NEW b \in S, NEW c \in S, NEW d \in S
    PROVE  /\ s \o <<a>> = Append(s, a)
           /\ s \o <<a, b, c>> = Append(Append(Append(s, a), b), c)
           /\ s \o <<a, b, c, d>> = Append(Append(Append(Append(s, a), b), c), d)
<1>1. s \o <<a>> = Append(s, a)
  BY AppendIsConcat
<1>2. s \o <<a, b, c>> = Append(Append(Append(s, a), b), c)
  OBVIOUS
<1>3. s \o <<a, b, c, d>> = Append(Append(Append(Append(s, a), b), c), d)
  OBVIOUS
<1>. QED  BY <1>1, <1>2, <1>3

(* The reader follows one byte, three bytes and four. *)
LEMMA ReadsOneMore ==
    ASSUME NEW S, NEW s \in Seq(S), NEW st, Reads(s, st), NEW a \in S
    PROVE  /\ s \o <<a>> \in Seq(S) /\ Len(s \o <<a>>) = Len(s) + 1
           /\ Reads(s \o <<a>>, Reader(st, a))
<1>1. /\ Append(s, a) \in Seq(S) /\ Len(Append(s, a)) = Len(s) + 1
      /\ Reads(Append(s, a), Reader(st, a))
  BY ReadsOn, AppendProperties
<1>2. s \o <<a>> = Append(s, a)
  BY PutBytes
<1>. QED  BY <1>1, <1>2

LEMMA ReadsThreeMore ==
    ASSUME NEW S, NEW s \in Seq(S), NEW st, Reads(s, st), NEW a \in S, NEW b \in S, NEW c \in S
    PROVE  /\ s \o <<a, b, c>> \in Seq(S) /\ Len(s \o <<a, b, c>>) = Len(s) + 3
           /\ Reads(s \o <<a, b, c>>, Reader(Reader(Reader(st, a), b), c))
<1>. DEFINE s1 == Append(s, a)
            s2 == Append(s1, b)
            s3 == Append(s2, c)
<1>1. s1 \in Seq(S) /\ Reads(s1, Reader(st, a)) /\ Len(s1) = Len(s) + 1
  BY ReadsOn, AppendProperties
<1>. HIDE DEF s1
<1>2. s2 \in Seq(S) /\ Reads(s2, Reader(Reader(st, a), b)) /\ Len(s2) = Len(s1) + 1
  BY <1>1, ReadsOn, AppendProperties
<1>. HIDE DEF s2
<1>3. s3 \in Seq(S) /\ Reads(s3, Reader(Reader(Reader(st, a), b), c)) /\ Len(s3) = Len(s2) + 1
  BY <1>2, ReadsOn, AppendProperties
<1>. HIDE DEF s3
<1>4. s \o <<a, b, c>> = s3
  BY PutBytes DEF s1, s2, s3
<1>5. Len(s3) = Len(s) + 3
  <2>1. Len(s) \in Nat
    BY LenProperties
  <2>. QED  BY <1>1, <1>2, <1>3, <2>1
<1>. QED  BY <1>3, <1>4, <1>5

LEMMA ReadsFourMore ==
    ASSUME NEW S, NEW s \in Seq(S), NEW st, Reads(s, st),
           NEW a \in S, NEW b \in S, NEW c \in S, NEW d \in S
    PROVE  /\ s \o <<a, b, c, d>> \in Seq(S) /\ Len(s \o <<a, b, c, d>>) = Len(s) + 4
           /\ Reads(s \o <<a, b, c, d>>, Reader(Reader(Reader(Reader(st, a), b), c), d))
<1>. DEFINE s3 == s \o <<a, b, c>>
            s4 == Append(s3, d)
<1>1. /\ s3 \in Seq(S) /\ Len(s3) = Len(s) + 3
      /\ Reads(s3, Reader(Reader(Reader(st, a), b), c))
  BY ReadsThreeMore
<1>2. s \o <<a, b, c, d>> = s4
  BY PutBytes
<1>. HIDE DEF s3
<1>3. /\ s4 \in Seq(S) /\ Len(s4) = Len(s3) + 1
      /\ Reads(s4, Reader(Reader(Reader(Reader(st, a), b), c), d))
  BY <1>1, ReadsOn, AppendProperties
<1>. HIDE DEF s4
<1>4. Len(s4) = Len(s) + 4
  <2>1. Len(s) \in Nat
    BY LenProperties
  <2>. QED  BY <1>1, <1>3, <2>1
<1>. QED  BY <1>2, <1>3, <1>4

(* What the invariant says of a quoting function. *)
LEMMA OldQuoteFacts ==
    ASSUME OsIInv, os_call.fn \in OsQuotes
    PROVE  /\ OsTypeOK /\ os_out \in Seq(OsBytes) /\ Len(os_out) \in Nat
           /\ os.x \in Nat /\ os.len \in Nat /\ os.x <= os.len /\ os.len <= OsLen(os_call.given)
           /\ os_call.fn = "urlencode" => Len(os_out) <= 3 * os.x
           /\ os.pc = "quote" => ShellSize(os.x, Len(os_out))
           /\ os.pc = "done" => (Len(os_out) < OsAllocated
                                     <=> os_call.fn = "urlencode" \/ ~OnlyQuotes(os.len))
           /\ os.pc # "done" =>
                  Reads(os_out, At(IF os.pc = "quote" THEN "quoted" ELSE "bare", GivenUpTo(os.x)))
           /\ os.pc = "done" =>
                  Reads(os_out, At("bare", GivenUpTo(os.len))) /\ os_ret.len = Len(os_out)
           /\ os_call.fn = "escapeshellarg" /\ os.pc = "enter" => os.x = 0 /\ os_out = <<>>
<1>1. OsTypeOK /\ OsReads /\ QuotesDecode
  BY DEF OsIInv
<1>2. os_out \in Seq(OsBytes) /\ Len(os_out) \in Nat
  BY <1>1, LenProperties DEF OsReads
<1>3. PICK r : r = [k \in 0 .. Len(os_out) |-> ReadUpTo[k]]
  OBVIOUS
<1>4. Reading(r, os_out)
  <2>1. r[0] = At("bare", <<>>)
    BY <1>1, <1>2, <1>3 DEF OsReads, At
  <2>2. \A k \in 1 .. Len(os_out) : r[k] = ReadUpTo[k] /\ r[k - 1] = ReadUpTo[k - 1]
    BY <1>2, <1>3
  <2>3. \A k \in 1 .. Len(os_out) : ReadUpTo[k] = Reader(ReadUpTo[k - 1], os_out[k])
    BY <1>1 DEF OsReads
  <2>4. r = [k \in 0 .. Len(os_out) |-> r[k]]
    BY <1>3
  <2>. QED  BY <2>1, <2>2, <2>3, <2>4, Zenon DEF Reading
<1>5. Reads(os_out, ReadUpTo[Len(os_out)])
  <2>1. r[Len(os_out)] = ReadUpTo[Len(os_out)]
    BY <1>2, <1>3
  <2>. QED  BY <1>4, <2>1 DEF Reads
<1>6. os.pc # "done" =>
          ReadUpTo[Len(os_out)] = At(IF os.pc = "quote" THEN "quoted" ELSE "bare", GivenUpTo(os.x))
  BY <1>1 DEF OsReads, At
<1>7. os.x \in Nat /\ os.len \in Nat
  BY <1>1, OldFields
<1>8. /\ os_call.fn = "urlencode" => Len(os_out) <= 3 * os.x
      /\ os.pc = "quote" => ShellSize(os.x, Len(os_out))
  BY DEF OsIInv, OsSizes
<1>9. os.pc = "done" =>
          /\ ReadUpTo[Len(os_out)] = At("bare", GivenUpTo(os.len)) /\ os_ret.len = Len(os_out)
          /\ Len(os_out) < OsAllocated <=> (os_call.fn = "urlencode" \/ ~OnlyQuotes(os.len))
  BY <1>1 DEF QuotesDecode, At
<1>. QED  BY <1>1, <1>2, <1>5, <1>6, <1>7, <1>8, <1>9 DEF OsReads, QuotesDecode

LEMMA QuoteBytes ==
    ASSUME OsTypeOK, os.x \in Nat, os.x < OsLen(os_call.given)
    PROVE  /\ <<OsNext>> \in OsBytes /\ <<"high", OsNext>> \in OsBytes /\ <<"low", OsNext>> \in OsBytes
           /\ <<"'">> \in OsBytes /\ <<"\\">> \in OsBytes /\ <<"%">> \in OsBytes /\ <<"+">> \in OsBytes
<1>1. os.x \in DOMAIN os_call.given
  BY OldShape
<1>. QED  BY <1>1 DEF OsBytes, OsNext

LEMMA UrlTurnKeeps == OsIInv /\ UrlTurn => OsIInv'
<1>. SUFFICES ASSUME OsIInv, UrlTurn PROVE OsIInv'
  OBVIOUS
<1>1. /\ os_call.fn = "urlencode" /\ os_call.fn \in OsQuotes /\ os_call.fn # "escapeshellarg"
      /\ os.pc = "enter" /\ os.x < os.len /\ UNCHANGED os_call
  BY DEF UrlTurn, OsQuotes
<1>2. /\ OsTypeOK /\ os_out \in Seq(OsBytes) /\ Len(os_out) \in Nat
      /\ os.x \in Nat /\ os.len \in Nat /\ os.len <= OsLen(os_call.given)
      /\ Len(os_out) <= 3 * os.x
      /\ Reads(os_out, At("bare", GivenUpTo(os.x)))
  BY <1>1, OldQuoteFacts
<1>3. os_out' = os_out \o UrlQuoted /\ os' = [os EXCEPT !.x = @ + 1]
  BY DEF UrlTurn, OsPut
<1>4. os'.x = os.x + 1 /\ os'.len = os.len /\ os'.pc = "enter"
  BY <1>1, <1>2, <1>3 DEF OsTypeOK
<1>5. OsTypeOK'
  <2>1. os' \in [pc : {"enter", "tail", "quote", "done"}, head : Nat, tail : Int, len : Nat,
                 moved : BOOLEAN, x : Nat]
    <3>1. os.x + 1 \in Nat
      BY <1>2
    <3>. QED  BY <1>2, <1>3, <3>1 DEF OsTypeOK
  <2>2. os_mem' = os_call.given
    BY <1>1, <1>2 DEF UrlTurn, OsTypeOK
  <2>. QED  BY <1>1, <1>2, <1>4, <2>1, <2>2 DEF OsTypeOK
<1>6. /\ <<OsNext>> \in OsBytes /\ <<"high", OsNext>> \in OsBytes /\ <<"low", OsNext>> \in OsBytes
      /\ <<"%">> \in OsBytes /\ <<"+">> \in OsBytes
  <2>1. os.x < OsLen(os_call.given)
    BY <1>1, <1>2, OldShape
  <2>. QED  BY <1>2, <2>1, QuoteBytes
<1>7. Append(GivenUpTo(os.x), OsNext) = GivenUpTo(os'.x)
  BY <1>2, <1>4, GivenGrows DEF OsNext
<1>8. /\ os_out' \in Seq(OsBytes) /\ Len(os_out') <= Len(os_out) + 3
      /\ Reads(os_out', At("bare", GivenUpTo(os'.x)))
  <2>1. CASE OsNext = " " /\ ~os_call.raw
    <3>1. UrlQuoted = <<<<"+">>>>
      BY <2>1 DEF UrlQuoted
    <3>2. Reader(At("bare", GivenUpTo(os.x)), <<"+">>) = At("bare", GivenUpTo(os'.x))
      BY <1>1, <1>7, <2>1, UrlReader
    <3>3. os_out' = os_out \o <<<<"+">>>>
      BY <1>3, <3>1
    <3>4. /\ os_out \o <<<<"+">>>> \in Seq(OsBytes)
          /\ Len(os_out \o <<<<"+">>>>) = Len(os_out) + 1
          /\ Reads(os_out \o <<<<"+">>>>,
                   Reader(At("bare", GivenUpTo(os.x)), <<"+">>))
      BY <1>2, <1>6, ReadsOneMore
    <3>. QED  BY <1>2, <3>2, <3>3, <3>4
  <2>2. CASE ~(OsNext = " " /\ ~os_call.raw) /\ Unreserved(OsNext)
    <3>1. UrlQuoted = <<<<OsNext>>>>
      BY <2>2 DEF UrlQuoted
    <3>2. Reader(At("bare", GivenUpTo(os.x)), <<OsNext>>) = At("bare", GivenUpTo(os'.x))
      <4>1. Reader(At("bare", GivenUpTo(os.x)), <<OsNext>>)
                = At("bare", Append(GivenUpTo(os.x), OsNext))
        BY <1>1, <2>2, UrlReader, Zenon
      <4>. QED  BY <1>7, <4>1
    <3>3. os_out' = os_out \o <<<<OsNext>>>>
      BY <1>3, <3>1
    <3>4. /\ os_out \o <<<<OsNext>>>> \in Seq(OsBytes)
          /\ Len(os_out \o <<<<OsNext>>>>) = Len(os_out) + 1
          /\ Reads(os_out \o <<<<OsNext>>>>,
                   Reader(At("bare", GivenUpTo(os.x)), <<OsNext>>))
      BY <1>2, <1>6, ReadsOneMore
    <3>. QED  BY <1>2, <3>2, <3>3, <3>4
  <2>3. CASE ~(OsNext = " " /\ ~os_call.raw) /\ ~Unreserved(OsNext)
    <3>1. UrlQuoted = <<<<"%">>, <<"high", OsNext>>, <<"low", OsNext>>>>
      BY <2>3 DEF UrlQuoted, Percent
    <3>2. Reader(Reader(Reader(At("bare", GivenUpTo(os.x)), <<"%">>), <<"high", OsNext>>), <<"low", OsNext>>)
              = At("bare", GivenUpTo(os'.x))
      <4>1. Reader(At("bare", GivenUpTo(os.x)), <<"%">>) = At("high", GivenUpTo(os.x))
        BY <1>1, UrlReader, Zenon
      <4>2. Reader(At("high", GivenUpTo(os.x)), <<"high", OsNext>>) = At("low", GivenUpTo(os.x))
        BY <1>1, UrlReader, Zenon
      <4>3. Reader(At("low", GivenUpTo(os.x)), <<"low", OsNext>>)
                = At("bare", Append(GivenUpTo(os.x), OsNext))
        BY <1>1, UrlReader, Zenon
      <4>. QED  BY <1>7, <4>1, <4>2, <4>3
    <3>3. os_out' = os_out \o <<<<"%">>, <<"high", OsNext>>, <<"low", OsNext>>>>
      BY <1>3, <3>1
    <3>4. /\ os_out \o <<<<"%">>, <<"high", OsNext>>, <<"low", OsNext>>>> \in Seq(OsBytes)
          /\ Len(os_out \o <<<<"%">>, <<"high", OsNext>>, <<"low", OsNext>>>>) = Len(os_out) + 3
          /\ Reads(os_out \o <<<<"%">>, <<"high", OsNext>>, <<"low", OsNext>>>>,
                   Reader(Reader(Reader(At("bare", GivenUpTo(os.x)), <<"%">>), <<"high", OsNext>>), <<"low", OsNext>>))
      <4>. DEFINE a == <<"%">>
                  b == <<"high", OsNext>>
                  c == <<"low", OsNext>>
                  state == At("bare", GivenUpTo(os.x))
      <4>1. a \in OsBytes /\ b \in OsBytes /\ c \in OsBytes /\ Reads(os_out, state)
        BY <1>2, <1>6
      <4>. HIDE DEF a, b, c, state
      <4>2. /\ os_out \o <<a, b, c>> \in Seq(OsBytes)
            /\ Len(os_out \o <<a, b, c>>) = Len(os_out) + 3
            /\ Reads(os_out \o <<a, b, c>>, Reader(Reader(Reader(state, a), b), c))
        BY <1>2, <4>1, ReadsThreeMore
      <4>. QED  BY <4>2 DEF a, b, c, state
    <3>. QED  BY <1>2, <3>2, <3>3, <3>4
  <2>. QED  BY <2>1, <2>2, <2>3
<1>9. os'.x <= os'.len /\ os'.len <= OsLen(os_call.given) /\ Len(os_out') <= 3 * os'.x
  <2>1. Len(os_out') \in Nat
    BY <1>8, LenProperties
  <2>. QED  BY <1>1, <1>2, <1>4, <1>8, <2>1
<1>. QED  BY <1>1, <1>2, <1>4, <1>5, <1>8, <1>9, OldQuoteSuffices

LEMMA UrlEndsKeeps == OsIInv /\ UrlEnds => OsIInv'
<1>. SUFFICES ASSUME OsIInv, UrlEnds PROVE OsIInv'
  OBVIOUS
<1>1. /\ os_call.fn = "urlencode" /\ os_call.fn \in OsQuotes /\ os_call.fn # "escapeshellarg"
      /\ os.pc = "enter" /\ os.x = os.len /\ UNCHANGED <<os_call, os_out>>
      /\ OsReturn(0, Len(os_out))
  BY DEF UrlEnds, OsQuotes
<1>2. /\ OsTypeOK /\ os_out \in Seq(OsBytes)
      /\ os.len \in Nat /\ os.len <= OsLen(os_call.given) /\ os.x <= os.len
      /\ Len(os_out) <= 3 * os.x
      /\ Reads(os_out, At("bare", GivenUpTo(os.x)))
  BY <1>1, OldQuoteFacts
<1>3. os' = [os EXCEPT !.pc = "done"] /\ os_ret' = [start |-> 0, len |-> Len(os_out)]
  BY <1>1 DEF OsReturn
<1>4. os'.x = os.x /\ os'.len = os.len /\ os'.pc = "done" /\ os_ret'.len = Len(os_out)
  BY <1>2, <1>3 DEF OsTypeOK
<1>5. OsTypeOK'
  BY <1>1, <1>2, <1>3, <1>4 DEF OsTypeOK
<1>6. Len(os_out') < OsAllocated'
  <2>1. OsAllocated' = 3 * os.x + 1
    BY <1>1, <1>4 DEF OsAllocated
  <2>2. Len(os_out) \in Nat
    BY <1>2, LenProperties
  <2>. QED  BY <1>1, <1>2, <2>1, <2>2
<1>. QED  BY <1>1, <1>2, <1>4, <1>5, <1>6, OldQuoteSuffices

LEMMA ShellOpensKeeps == OsIInv /\ ShellOpens => OsIInv'
<1>. SUFFICES ASSUME OsIInv, ShellOpens PROVE OsIInv'
  OBVIOUS
<1>1. /\ os_call.fn = "escapeshellarg" /\ os_call.fn \in OsQuotes /\ os_call.fn # "urlencode"
      /\ os.pc = "enter" /\ UNCHANGED os_call
      /\ os_out' = <<<<"'">>>> /\ os' = [os EXCEPT !.pc = "quote"]
  BY DEF ShellOpens, OsQuotes
<1>2. /\ OsTypeOK /\ os.len \in Nat /\ os.len <= OsLen(os_call.given) /\ os.x = 0
  BY <1>1, OldQuoteFacts
<1>3. os'.x = 0 /\ os'.len = os.len /\ os'.pc = "quote"
  BY <1>1, <1>2 DEF OsTypeOK
<1>4. OsTypeOK'
  BY <1>1, <1>2, <1>3 DEF OsTypeOK
<1>5. <<"'">> \in OsBytes
  BY DEF OsBytes
<1>6. os_out' \in Seq(OsBytes) /\ Len(os_out') = 1 /\ os_out' = Append(<<>>, <<"'">>)
  BY <1>1, <1>5
<1>7. Reads(os_out', At("quoted", GivenUpTo(0)))
  <2>1. Reads(Append(<<>>, <<"'">>), Reader(At("bare", <<>>), <<"'">>))
    <3>1. <<>> \in Seq(OsBytes)
      OBVIOUS
    <3>. QED  BY <1>5, <3>1, ReadsNothing, ReadsOn, Zenon
  <2>. QED  BY <1>1, <1>6, <2>1, ShellReader, GivenGrows
<1>8. ShellSize(os'.x, Len(os_out'))
  <2>1. OnlyQuotes(0) /\ 1 = 4 * 0 + 1
    BY DEF OnlyQuotes
  <2>. QED  BY <1>3, <1>6, <2>1 DEF ShellSize
<1>. QED  BY <1>1, <1>2, <1>3, <1>4, <1>6, <1>7, <1>8, OldQuoteSuffices

LEMMA ShellTurnKeeps == OsIInv /\ ShellTurn => OsIInv'
<1>. SUFFICES ASSUME OsIInv, ShellTurn PROVE OsIInv'
  OBVIOUS
<1>1. /\ os_call.fn = "escapeshellarg" /\ os_call.fn \in OsQuotes /\ os_call.fn # "urlencode"
      /\ os.pc = "quote" /\ os.x < os.len /\ UNCHANGED os_call
  BY DEF ShellTurn, OsQuotes
<1>2. /\ OsTypeOK /\ os_out \in Seq(OsBytes) /\ Len(os_out) \in Nat
      /\ os.x \in Nat /\ os.len \in Nat /\ os.len <= OsLen(os_call.given)
      /\ ShellSize(os.x, Len(os_out))
      /\ Reads(os_out, At("quoted", GivenUpTo(os.x)))
  BY <1>1, OldQuoteFacts
<1>3. os_out' = os_out \o ShellQuoted /\ os' = [os EXCEPT !.x = @ + 1]
  BY DEF ShellTurn, OsPut
<1>4. os'.x = os.x + 1 /\ os'.len = os.len /\ os'.pc = "quote"
  BY <1>1, <1>2, <1>3 DEF OsTypeOK
<1>5. OsTypeOK'
  <2>1. os' \in [pc : {"enter", "tail", "quote", "done"}, head : Nat, tail : Int, len : Nat,
                 moved : BOOLEAN, x : Nat]
    <3>1. os.x + 1 \in Nat
      BY <1>2
    <3>. QED  BY <1>2, <1>3, <3>1 DEF OsTypeOK
  <2>. QED  BY <1>1, <1>2, <1>4, <2>1 DEF OsTypeOK
<1>6. <<OsNext>> \in OsBytes /\ <<"'">> \in OsBytes /\ <<"\\">> \in OsBytes
  <2>1. os.x < OsLen(os_call.given)
    BY <1>1, <1>2, OldShape
  <2>. QED  BY <1>2, <2>1, QuoteBytes
<1>7. Append(GivenUpTo(os.x), OsNext) = GivenUpTo(os'.x)
  BY <1>2, <1>4, GivenGrows DEF OsNext
<1>8. /\ os_out' \in Seq(OsBytes)
      /\ Len(os_out') = Len(os_out) + (IF OsNext = "'" THEN 4 ELSE 1)
      /\ Reads(os_out', At("quoted", GivenUpTo(os'.x)))
  <2>1. CASE OsNext = "'"
    <3>1. ShellQuoted = <<<<"'">>, <<"\\">>, <<"'">>, <<"'">>>>
      BY <2>1 DEF ShellQuoted
    <3>2. Reader(Reader(Reader(Reader(At("quoted", GivenUpTo(os.x)), <<"'">>), <<"\\">>), <<"'">>), <<"'">>)
              = At("quoted", GivenUpTo(os'.x))
      <4>1. Reader(At("quoted", GivenUpTo(os.x)), <<"'">>) = At("bare", GivenUpTo(os.x))
        BY <1>1, ShellReader, Zenon
      <4>2. Reader(At("bare", GivenUpTo(os.x)), <<"\\">>) = At("escaped", GivenUpTo(os.x))
        BY <1>1, ShellReader, Zenon
      <4>3. Reader(At("escaped", GivenUpTo(os.x)), <<"'">>) = At("bare", GivenUpTo(os'.x))
        BY <1>1, <1>7, <2>1, ShellReader, Zenon
      <4>4. Reader(At("bare", GivenUpTo(os'.x)), <<"'">>) = At("quoted", GivenUpTo(os'.x))
        BY <1>1, ShellReader, Zenon
      <4>. QED  BY <4>1, <4>2, <4>3, <4>4, Zenon
    <3>3. os_out' = os_out \o <<<<"'">>, <<"\\">>, <<"'">>, <<"'">>>>
      BY <1>3, <3>1
    <3>4. /\ os_out \o <<<<"'">>, <<"\\">>, <<"'">>, <<"'">>>> \in Seq(OsBytes)
          /\ Len(os_out \o <<<<"'">>, <<"\\">>, <<"'">>, <<"'">>>>) = Len(os_out) + 4
          /\ Reads(os_out \o <<<<"'">>, <<"\\">>, <<"'">>, <<"'">>>>,
                   Reader(Reader(Reader(Reader(At("quoted", GivenUpTo(os.x)), <<"'">>), <<"\\">>), <<"'">>), <<"'">>))
      BY <1>2, <1>6, ReadsFourMore
    <3>. QED  BY <1>2, <2>1, <3>2, <3>3, <3>4
  <2>2. CASE OsNext # "'"
    <3>1. ShellQuoted = <<<<OsNext>>>>
      BY <2>2 DEF ShellQuoted
    <3>2. Reader(At("quoted", GivenUpTo(os.x)), <<OsNext>>) = At("quoted", GivenUpTo(os'.x))
      <4>1. Reader(At("quoted", GivenUpTo(os.x)), <<OsNext>>)
                = At("quoted", Append(GivenUpTo(os.x), OsNext))
        BY <1>1, <2>2, ShellReader, Zenon
      <4>. QED  BY <1>7, <4>1
    <3>3. os_out' = os_out \o <<<<OsNext>>>>
      BY <1>3, <3>1
    <3>4. /\ os_out \o <<<<OsNext>>>> \in Seq(OsBytes)
          /\ Len(os_out \o <<<<OsNext>>>>) = Len(os_out) + 1
          /\ Reads(os_out \o <<<<OsNext>>>>,
                   Reader(At("quoted", GivenUpTo(os.x)), <<OsNext>>))
      BY <1>2, <1>6, ReadsOneMore
    <3>. QED  BY <1>2, <2>2, <3>2, <3>3, <3>4
  <2>. QED  BY <2>1, <2>2
<1>9. os'.x <= os'.len /\ os'.len <= OsLen(os_call.given)
  BY <1>1, <1>2, <1>4
<1>10. ShellSize(os'.x, Len(os_out'))
  <2>1. OnlyQuotes(os.x + 1) <=> OnlyQuotes(os.x) /\ OsNext = "'"
    BY <1>2 DEF OnlyQuotes, OsNext
  <2>2. \A x, n \in Nat :
            /\ n = 4 * x + 1 => n + 4 = 4 * (x + 1) + 1
            /\ n = 4 * x + 1 => n + 1 <= 4 * (x + 1) - 2
            /\ n <= 4 * x - 2 => n + 4 <= 4 * (x + 1) - 2 /\ n + 1 <= 4 * (x + 1) - 2
    OBVIOUS
  <2>3. CASE OnlyQuotes(os.x)
    <3>1. Len(os_out) = 4 * os.x + 1
      BY <1>2, <2>3 DEF ShellSize
    <3>. QED  BY <1>2, <1>4, <1>8, <2>1, <2>2, <2>3, <3>1, Zenon DEF ShellSize
  <2>4. CASE ~OnlyQuotes(os.x)
    <3>1. Len(os_out) <= 4 * os.x - 2
      BY <1>2, <2>4 DEF ShellSize
    <3>. QED  BY <1>2, <1>4, <1>8, <2>1, <2>2, <2>4, <3>1, Zenon DEF ShellSize
  <2>. QED  BY <2>3, <2>4
<1>. QED  BY <1>1, <1>2, <1>4, <1>5, <1>8, <1>9, <1>10, OldQuoteSuffices

LEMMA ShellClosesKeeps == OsIInv /\ ShellCloses => OsIInv'
<1>. SUFFICES ASSUME OsIInv, ShellCloses PROVE OsIInv'
  OBVIOUS
<1>1. /\ os_call.fn = "escapeshellarg" /\ os_call.fn \in OsQuotes /\ os_call.fn # "urlencode"
      /\ os.pc = "quote" /\ os.x = os.len /\ UNCHANGED os_call
      /\ os_out' = Append(os_out, <<"'">>) /\ OsReturn(0, Len(os_out'))
  BY DEF ShellCloses, OsQuotes
<1>2. /\ OsTypeOK /\ os_out \in Seq(OsBytes) /\ Len(os_out) \in Nat
      /\ os.x \in Nat /\ os.len \in Nat /\ os.x <= os.len /\ os.len <= OsLen(os_call.given)
      /\ ShellSize(os.x, Len(os_out))
      /\ Reads(os_out, At("quoted", GivenUpTo(os.x)))
  BY <1>1, OldQuoteFacts
<1>3. os' = [os EXCEPT !.pc = "done"] /\ os_ret' = [start |-> 0, len |-> Len(os_out')]
  BY <1>1 DEF OsReturn
<1>4. os'.x = os.x /\ os'.len = os.len /\ os'.pc = "done" /\ os_ret'.len = Len(os_out')
  BY <1>2, <1>3 DEF OsTypeOK
<1>5. OsTypeOK'
  BY <1>1, <1>2, <1>3, <1>4 DEF OsTypeOK
<1>6. <<"'">> \in OsBytes
  BY DEF OsBytes
<1>7. os_out' \in Seq(OsBytes) /\ Len(os_out') = Len(os_out) + 1
  BY <1>1, <1>2, <1>6, AppendProperties
<1>8. Reads(os_out', At("bare", GivenUpTo(os.x)))
  <2>1. Reads(Append(os_out, <<"'">>), Reader(At("quoted", GivenUpTo(os.x)), <<"'">>))
    BY <1>2, <1>6, ReadsOn
  <2>. QED  BY <1>1, <2>1, ShellReader
<1>9. Len(os_out') < OsAllocated' <=> ~OnlyQuotes(os'.len)
  <2>1. OsAllocated' = 4 * os.x + 1
    BY <1>1, <1>4 DEF OsAllocated
  <2>2. CASE OnlyQuotes(os.x)
    <3>1. Len(os_out) = 4 * os.x + 1
      BY <1>2, <2>2 DEF ShellSize
    <3>. QED  BY <1>1, <1>2, <1>4, <1>7, <2>1, <2>2, <3>1
  <2>3. CASE ~OnlyQuotes(os.x)
    <3>1. Len(os_out) <= 4 * os.x - 2
      BY <1>2, <2>3 DEF ShellSize
    <3>. QED  BY <1>1, <1>2, <1>4, <1>7, <2>1, <2>3, <3>1
  <2>. QED  BY <2>2, <2>3
<1>. QED  BY <1>1, <1>2, <1>4, <1>5, <1>7, <1>8, <1>9, OldQuoteSuffices

LEMMA OsInitIsInductive == OsInit => OsIInv
<1>. SUFFICES ASSUME OsInit PROVE OsIInv
  OBVIOUS
<1>1. /\ os_call.given \in CutStrings \cup QuoteStrings
      /\ os_call.fn \in OsTrims \cup OsQuotes \cup {"trunc_str"}
      /\ os_call.fn = "trunc_str" => os_call.len \in Nat
      /\ os_call.fn # "trunc_str" => os_call.len \in 0 .. OsLen(os_call.given)
  <2>1. CASE \E fn \in OsTrims, s \in CutStrings :
                 \E len \in 0 .. OsLen(s) :
                     os_call = [fn |-> fn, given |-> s, len |-> len, raw |-> FALSE]
    BY <2>1 DEF OsTrims
  <2>2. CASE \E s \in CutStrings, n \in CutLengths :
                 os_call = [fn |-> "trunc_str", given |-> s, len |-> n, raw |-> FALSE]
    BY <2>2, OldStringAssumption
  <2>3. CASE \E fn \in OsQuotes, s \in QuoteStrings, raw \in BOOLEAN :
                 \E len \in 0 .. OsLen(s) :
                     os_call = [fn |-> fn, given |-> s, len |-> len, raw |-> raw]
    BY <2>3 DEF OsQuotes
  <2>. QED  BY <2>1, <2>2, <2>3 DEF OsInit
<1>2. /\ os_mem = os_call.given /\ os_out = <<>>
      /\ os.pc = "enter" /\ os.head = 0 /\ os.tail = os_call.len - 1 /\ os.len = OsLength
      /\ os.moved = FALSE /\ os.x = 0
  BY DEF OsInit
<1>3. OsLen(os_call.given) \in Nat
  <2>1. IsFiniteSet(DOMAIN os_call.given) /\ DOMAIN os_call.given # {}
    BY <1>1, OldStringAssumption
  <2>. QED  BY <2>1, FS_CardinalityType, FS_EmptySet DEF OsLen
<1>4. os_call.len \in Nat /\ OsLength \in Nat
  BY <1>1, <1>3 DEF OsLength
<1>5. OsTypeOK
  <2>1. os \in [pc : {"enter", "tail", "quote", "done"}, head : Nat, tail : Int, len : Nat,
                moved : BOOLEAN, x : Nat]
    BY <1>4 DEF OsInit
  <2>. QED  BY <1>1, <1>2, <2>1 DEF OsTypeOK
<1>6. OsScans
  <2>1. OsBlankIn(0, -1) /\ OsBlankIn(os_call.len, os_call.len - 1)
    BY <1>4 DEF OsBlankIn
  <2>2. os_call.fn \in OsTrims => OsLength = os_call.len
    BY DEF OsLength, OsTrims
  <2>. QED  BY <1>2, <1>4, <2>1, <2>2 DEF OsScans
<1>7. Reads(os_out, At("bare", <<>>)) /\ Len(os_out) = 0
  BY <1>2, ReadsNothing
<1>8. ReadUpTo[0] = At("bare", <<>>) /\ GivenUpTo(0) = <<>>
  BY <1>7, ReaderReads, GivenGrows DEF ReadUpToReads
<1>9. os_call.fn \in OsQuotes => OsLength <= OsLen(os_call.given)
  BY <1>1, <1>3 DEF OsLength, OsQuotes
<1>10. OsReads
  BY <1>2, <1>4, <1>7, <1>8, <1>9 DEF OsReads, At
<1>11. OsSizes /\ OldCutsAreExact /\ QuotesDecode
  BY <1>2, <1>7 DEF OsSizes, OldCutsAreExact, QuotesDecode
<1>. QED  BY <1>5, <1>6, <1>10, <1>11 DEF OsIInv

(* A step that leaves everything as it is keeps the reader's states too.   *)
LEMMA OsStutters == OsIInv /\ UNCHANGED osVars => OsIInv'
<1>. SUFFICES ASSUME OsIInv, UNCHANGED osVars PROVE OsIInv'
  OBVIOUS
<1>1. UNCHANGED <<os_call, os_mem, os_out, os, os_ret>>
  BY DEF osVars
<1>2. OsTypeOK' /\ OsScans'
  BY <1>1 DEF OsIInv, OsTypeOK, OsScans, OsBlankIn
<1>3. CASE os_call.fn \in OsQuotes
  <2>1. OsTypeOK /\ os_out \in Seq(OsBytes) /\ os.x <= os.len /\ os.len <= OsLen(os_call.given)
    BY <1>3, OldQuoteFacts
  <2>2. CASE os.pc = "done"
    <3>1. OsAllocated' = OsAllocated
      BY <1>1 DEF OsAllocated
    <3>. QED  BY <1>1, <1>2, <1>3, <2>1, <2>2, <3>1, OldQuoteFacts, OldQuoteSuffices
  <2>3. CASE os.pc # "done"
    BY <1>1, <1>2, <1>3, <2>1, <2>3, OldQuoteFacts, OldQuoteSuffices
  <2>. QED  BY <2>2, <2>3
<1>4. CASE os_call.fn \notin OsQuotes
  <2>1. OsFirst' = OsFirst /\ OsSize' = OsSize
    BY <1>1, OldTextStays
  <2>2. OldCutsAreExact'
    BY <1>1, <2>1 DEF OsIInv, OldCutsAreExact, OnlyBehind
  <2>. QED  BY <1>1, <1>2, <1>4, <2>2, OldCutSuffices DEF OsIInv
<1>. QED  BY <1>3, <1>4

(* The inductive invariant: the blanks that the scans have passed, and the *)
(* state a reader is in behind what has been written.                      *)
LEMMA OsInvariant == OsSpec => []OsIInv
<1>1. OsInit => OsIInv
  BY OsInitIsInductive
<1>2. OsIInv /\ [OsStep]_osVars => OsIInv'
  BY OsHeadKeeps, OsTailKeeps, OsTrimInPlaceKeeps, OsTrimAndMoveKeeps, TruncKeeps,
     ShellOpensKeeps, ShellTurnKeeps, ShellClosesKeeps, UrlTurnKeeps, UrlEndsKeeps, OsStutters
     DEF OsStep
<1>. QED  BY <1>1, <1>2, PTL DEF OsSpec

(* For every C string and every length of it: trim_len and trim_len_cpy of *)
(* the older tree return the text without the blanks around it and its     *)
(* length, and write nowhere else.  Given a whole C string trim_len always *)
(* ends it behind the text, and trim_len_cpy does exactly if there was a   *)
(* blank in front or none behind.  trunc_str changes one byte or none.     *)
THEOREM OldCutsLeaveTheText == OsSpec => []OldCutsAreExact
<1>1. OsIInv => OldCutsAreExact
  BY DEF OsIInv
<1>. QED  BY <1>1, OsInvariant, PTL

(* For every string: a shell reads back from escapeshellarg's output what  *)
(* was given, all of it between the quotes, and a server reads it back     *)
(* from urlencode's.  urlencode's output fits what it allocates, and       *)
(* escapeshellarg's does for exactly the strings with a character that is  *)
(* not a quote.                                                            *)
THEOREM QuotesReadBack == OsSpec => []QuotesDecode
<1>1. OsIInv => QuotesDecode
  BY DEF OsIInv
<1>. QED  BY <1>1, OsInvariant, PTL
=============================================================================
