------------------------------ MODULE Strings -------------------------------
(***************************************************************************)
(* lib/string: the trims, which work in the caller's buffer, and the two   *)
(* htmlspecialchars, which write to a buffer of limited length.  One call  *)
(* runs from its entry to its return, a step for each turn of its loops.   *)
(* Memory is indexed from zero, as in C.                                   *)
(***************************************************************************)
EXTENDS Integers, FiniteSets, SequencesExt

CONSTANTS
    Texts,          \* the strings: functions from 0 .. n to characters
    TextLengths,    \* the len of the trims and the inlen of htmlspecialcharsl
    OutLengths      \* the outlen of both htmlspecialchars

Blank == " "    \* any of the characters isspace accepts
NUL   == "0"

(* html_map: the characters that are replaced, and by what. *)
Escape(c) ==
    CASE c = "<"          -> <<"&", "l", "t", ";">>
      [] c = ">"          -> <<"&", "g", "t", ";">>
      [] c = "&"          -> <<"&", "a", "m", "p", ";">>
      [] c = "quote"      -> <<"&", "q", "u", "o", "t", ";">>
      [] c = "apostrophe" -> <<"&", "#", "0", "3", "9", ";">>
      [] OTHER            -> <<c>>

ASSUME StringsAssumption ==
    /\ \A s \in Texts : /\ IsFiniteSet(DOMAIN s) /\ DOMAIN s # {}
                       /\ DOMAIN s = 0 .. Cardinality(DOMAIN s) - 1
    /\ TextLengths \cup OutLengths \subseteq Nat

Trims == {"strtriml", "strtriml_move"}
Htmls == {"htmlspecialchars", "htmlspecialcharsl"}

VARIABLES
    call,   \* which function was called, and with what: [fn, given, len, outlen]
    mem,    \* the buffer it writes to: str itself, or out
    p,      \* str, or in, as an index
    q,      \* end, or out
    pc,     \* enter, lead, tail, loop, done, or below: it reads in front of
            \*   the buffer
    result  \* what it returned: an index of mem, or a length

strVars == <<call, mem, p, q, pc, result>>

LastOf(s) == Cardinality(DOMAIN s) - 1

Old == "old"    \* what out held before the call

(* A trim has a byte to put its NUL in, and a C string has its own.        *)
(* strtrim is strtriml with the length of the C string.                    *)
StrInit ==
    /\ \E fn \in Trims \cup Htmls, given \in Texts, len \in TextLengths, outlen \in OutLengths :
           /\ fn # "htmlspecialchars" => len <= LastOf(given)
           /\ fn = "htmlspecialchars" => len = 0 /\ given[LastOf(given)] = NUL
           /\ fn \in Trims => outlen = 0
           /\ call = [fn |-> fn, given |-> given, len |-> len, outlen |-> outlen]
           /\ mem = IF fn \in Trims THEN given ELSE [i \in 0 .. outlen + 6 |-> Old]
    /\ p = 0 /\ q = 0 /\ pc = "enter" /\ result = 0

(* No call at all. *)
StrIdle ==
    /\ call = [fn |-> "none", given |-> <<>>, len |-> 0, outlen |-> 0]
    /\ mem = <<>> /\ p = 0 /\ q = 0 /\ pc = "idle" /\ result = 0

Return(r) == result' = r /\ pc' = "done"

(***************************************************************************)
(* strtriml and strtriml_move                                              *)
(***************************************************************************)

Moves == call.fn = "strtriml_move"

TrimEnter ==
    /\ pc = "enter" /\ call.fn \in Trims
    /\ \/ call.len = 0 /\ Return(0) /\ UNCHANGED q
       \/ call.len > 0 /\ q' = call.len - 1 /\ pc' = "lead" /\ UNCHANGED result
    /\ UNCHANGED <<call, mem, p>>

(* Variant: the last character is taken for the one behind it. *)
AtLast == p = q

AtEnd == p = q + 1

(* Nothing is left of the string. *)
TrimAll ==
    /\ mem' = [mem EXCEPT ![IF Moves THEN 0 ELSE p] = NUL]
    /\ Return(IF Moves THEN 0 ELSE p)

TrimLead ==
    /\ pc = "lead"
    /\ mem[p] = Blank
    /\ \/ AtEnd /\ TrimAll /\ UNCHANGED p
       \/ ~AtEnd /\ p' = p + 1 /\ UNCHANGED <<mem, pc, result>>
    /\ UNCHANGED <<call, q>>

TrimLeadEnds ==
    /\ pc = "lead"
    /\ mem[p] # Blank
    /\ IF mem[p] = NUL /\ AtEnd THEN TrimAll ELSE pc' = "tail" /\ UNCHANGED <<mem, result>>
    /\ UNCHANGED <<call, p, q>>

BlankAtTheTail == mem[q] = Blank

(* Nothing stops the scan at the beginning of the buffer. *)
TrimTail ==
    /\ pc = "tail" /\ BlankAtTheTail
    /\ q' = q - 1
    /\ pc' = IF q = 0 THEN "below" ELSE "tail"
    /\ UNCHANGED <<call, mem, p, result>>

(* Variant: the move forgets the terminator. *)
MovedUnterminated(n) == [i \in DOMAIN mem |-> IF i < n THEN mem[p + i] ELSE mem[i]]

(* memmove and the terminator *)
Moved(n) ==
    [i \in DOMAIN mem |-> IF i < n THEN mem[p + i] ELSE IF i = n THEN NUL ELSE mem[i]]

TrimTailEnds ==
    /\ pc = "tail" /\ ~BlankAtTheTail
    /\ \/ Moves /\ mem' = Moved(q - p + 1) /\ Return(0)
       \/ ~Moves /\ mem' = [mem EXCEPT ![q + 1] = NUL] /\ Return(p)
    /\ UNCHANGED <<call, p, q>>

(***************************************************************************)
(* htmlspecialchars and htmlspecialcharsl                                  *)
(***************************************************************************)

InputEnds ==
    IF call.fn = "htmlspecialchars" THEN call.given[p] = NUL ELSE p >= call.len

HtmlEnter ==
    /\ pc = "enter" /\ call.fn \in Htmls
    /\ \/ (call.outlen = 0 \/ InputEnds) /\ Return(0)
       \/ call.outlen > 0 /\ ~InputEnds /\ pc' = "loop" /\ UNCHANGED result
    /\ UNCHANGED <<call, mem, p, q>>

EscapeFits(esc) == q + Len(esc) < call.outlen

(* A plain character is copied, short_memcpy writes an escape. *)
HtmlPut ==
    /\ pc = "loop" /\ ~InputEnds
    /\ LET esc == Escape(call.given[p])
       IN  /\ EscapeFits(esc)
           /\ mem' = [i \in DOMAIN mem |->
                        IF i \in q .. q + Len(esc) - 1 THEN esc[i - q + 1] ELSE mem[i]]
           /\ q' = q + Len(esc)
    /\ p' = p + 1
    /\ UNCHANGED <<call, pc, result>>

(* Variant: what does not fit is left out. *)
HtmlSkip ==
    /\ pc = "loop"
    /\ \/ InputEnds /\ mem' = [mem EXCEPT ![q] = NUL] /\ Return(q) /\ UNCHANGED p
       \/ /\ ~InputEnds /\ ~EscapeFits(Escape(call.given[p]))
          /\ p' = p + 1 /\ UNCHANGED <<mem, pc, result>>
    /\ UNCHANGED <<call, q>>

(* The end of the input, or of the room. *)
HtmlEnds ==
    /\ pc = "loop"
    /\ InputEnds \/ ~EscapeFits(Escape(call.given[p]))
    /\ mem' = [mem EXCEPT ![q] = NUL]
    /\ Return(q)
    /\ UNCHANGED <<call, p, q>>

StrNext ==
    \/ TrimEnter \/ TrimLead \/ TrimLeadEnds \/ TrimTail \/ TrimTailEnds
    \/ HtmlEnter \/ HtmlPut \/ HtmlEnds

StrSpec == StrInit /\ [][StrNext]_strVars

-----------------------------------------------------------------------------

(* What is not blank in the part of the string that is to be trimmed. *)
Solid == {i \in 0 .. call.len - 1 : call.given[i] # Blank}

FirstSolid == CHOOSE i \in Solid : \A j \in Solid : i <= j
FinalSolid == CHOOSE i \in Solid : \A j \in Solid : j <= i

(* A trim leaves what lies between the first and the last character that   *)
(* is not blank, where it was or at the beginning of the buffer, behind it *)
(* a NUL, and every other byte as it was.                                  *)
TrimIsExact ==
    pc = "done" /\ call.fn \in Trims =>
        LET g     == call.given
            size  == IF Solid = {} THEN 0 ELSE FinalSolid - FirstSolid + 1
            start == IF Solid = {} THEN call.len ELSE FirstSolid
        IN  IF call.len = 0 THEN mem = g /\ result = 0
            ELSE /\ result = (IF Moves THEN 0 ELSE start)
                 /\ \A i \in DOMAIN mem :
                        mem[i] = IF i = result + size THEN NUL
                                 ELSE IF i \in result .. result + size - 1 THEN g[start + i - result]
                                 ELSE g[i]

(* The scan for the tail leaves the buffer exactly when the caller breaks  *)
(* the comment's assumption in one way: only blanks before len, and then   *)
(* neither a NUL nor a blank.                                              *)
TrimStaysInside ==
    /\ pc = "below" => Solid = {} /\ call.given[call.len] \notin {NUL, Blank}
    /\ pc = "done" /\ call.fn \in Trims /\ call.len > 0 =>
           Solid # {} \/ call.given[call.len] \in {NUL, Blank}

(* The input as the function sees it, and what its first k characters      *)
(* become.                                                                 *)
InputLength ==
    IF call.fn = "htmlspecialcharsl" THEN call.len
    ELSE CHOOSE n \in DOMAIN call.given :
             call.given[n] = NUL /\ \A i \in 0 .. n - 1 : call.given[i] # NUL

Escaped[k \in 0 .. InputLength] ==
    IF k = 0 THEN <<>> ELSE Escaped[k - 1] \o Escape(call.given[k - 1])

(* What is written is the longest escaped prefix of the input that fits    *)
(* with its terminator: no escape is cut in two, and nothing is written    *)
(* behind it.  An empty input and an empty buffer get nothing, not even    *)
(* the terminator.                                                         *)
HtmlIsLongestPrefix ==
    pc = "done" /\ call.fn \in Htmls =>
        IF call.outlen = 0 \/ InputLength = 0
        THEN result = 0 /\ \A i \in DOMAIN mem : mem[i] = Old
        ELSE \E k \in 0 .. InputLength :
                /\ result = Len(Escaped[k]) /\ result < call.outlen
                /\ \A i \in 1 .. result : mem[i - 1] = Escaped[k][i]
                /\ mem[result] = NUL /\ \A i \in DOMAIN mem : i > result => mem[i] = Old
                /\ k < InputLength => Len(Escaped[k + 1]) >= call.outlen

-----------------------------------------------------------------------------
(***************************************************************************)
(* The inductive invariant                                                 *)
(***************************************************************************)

StringsTypeOK ==
    /\ call.fn \in Trims \cup Htmls
    /\ call.given \in Texts /\ call.len \in TextLengths /\ call.outlen \in OutLengths
    /\ call.fn # "htmlspecialchars" => call.len <= LastOf(call.given)
    /\ call.fn = "htmlspecialchars" => call.given[LastOf(call.given)] = NUL
    /\ p \in Nat
    /\ call.fn \in Trims => pc \in {"enter", "lead", "tail", "done", "below"}
    /\ call.fn \in Htmls => pc \in {"enter", "loop", "done"}

(* What the two scans of a trim have passed is blank. *)
BlankIn(lo, hi) == \A i \in lo .. hi : call.given[i] = Blank

TrimScans ==
    call.fn \in Trims =>
        /\ pc \in {"enter", "lead", "tail"} => mem = call.given
        /\ pc = "enter" => p = 0 /\ result = 0
        /\ pc \in {"lead", "tail"} => call.len > 0 /\ p <= call.len /\ BlankIn(0, p - 1)
        /\ pc = "lead" => q = call.len - 1
        /\ pc = "tail" =>
               /\ q \in 0 .. call.len - 1 /\ BlankIn(q + 1, call.len - 1)
               /\ call.given[p] # Blank
               /\ p = call.len => call.given[p] # NUL

(* What htmlspecialchars has written is what its input so far becomes, and *)
(* nothing behind it is written.                                           *)
HtmlCopies ==
    call.fn \in Htmls =>
        /\ DOMAIN mem = 0 .. call.outlen + 6
        /\ pc \in {"enter", "loop"} =>
               /\ p <= InputLength /\ q = Len(Escaped[p])
               /\ \A i \in 1 .. q : mem[i - 1] = Escaped[p][i]
               /\ \A i \in DOMAIN mem : i >= q => mem[i] = Old
        /\ pc = "enter" => p = 0 /\ result = 0
        /\ pc = "loop" => q < call.outlen /\ InputLength # 0

StringsIInv ==
    /\ StringsTypeOK
    /\ TrimScans
    /\ HtmlCopies
    /\ TrimIsExact
    /\ TrimStaysInside
    /\ HtmlIsLongestPrefix
=============================================================================
