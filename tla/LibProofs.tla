----------------------------- MODULE LibProofs ------------------------------
(***************************************************************************)
(* Proofs about two parts of the library.  Getopt: every argv, short_opt   *)
(* and long_opt.  Arena: every width of size_t, every set of buffers and   *)
(* every length of an object that could exist.                             *)
(***************************************************************************)
EXTENDS Getopt, Arena, WellFoundedInduction, SequenceTheorems, TLAPS

-----------------------------------------------------------------------------
(* lib/getopt.c                                                            *)

(* A nonempty set of naturals has a least element. *)
LEMMA FirstIsLeast ==
    ASSUME NEW T \in SUBSET Nat, T # {}
    PROVE  /\ First(T) \in T /\ \A k \in T : First(T) <= k
           /\ {k \in T : \A j \in T : k <= j} = {First(T)}
<1>. DEFINE Less == {ss \in Nat \X Nat : ss[1] < ss[2]}
<1>1. OpToRel(<, Nat) = Less
  BY Zenon DEF OpToRel
<1>2. IsWellFoundedOn(Less, Nat)
  BY <1>1, NatLessThanWellFounded, Zenon
<1>. HIDE DEF Less
<1>3. PICK m \in T : \A k \in T : ~ (<<k, m>> \in Less)
  BY <1>2, WFMin, Zenon
<1>4. \A k \in T : <<k, m>> \in Less <=> k < m
  BY DEF Less
<1>5. \A k \in T : ~ (k < m)
  BY <1>3, <1>4, Zenon
<1>6. \A k \in T : m <= k
  BY <1>5
<1>7. First(T) \in T /\ \A k \in T : First(T) <= k
  BY <1>6, Zenon DEF First
<1>8. ASSUME NEW k \in T, \A j \in T : k <= j
      PROVE  k = First(T)
  <2>1. k <= First(T) /\ First(T) <= k /\ k \in Nat /\ First(T) \in Nat
    BY <1>7, <1>8
  <2>. QED  BY <2>1
<1>. QED  BY <1>7, <1>8, Zenon

-----------------------------------------------------------------------------
(* What a word of argv means. *)

LEMMA OnlyMeaning ==
    ASSUME NEW i, NEW n, NEW c, Meanings(i) = {[need |-> n, code |-> c]}
    PROVE  Need(i) = n
<1>. DEFINE m == CHOOSE x \in {[need |-> n, code |-> c]} : TRUE
<1>1. m = [need |-> n, code |-> c]
  OBVIOUS
<1>2. Meanings(i) # {}
  OBVIOUS
<1>3. Need(i) = m.need
  BY <1>2, Zenon DEF Need, NeedOf
<1>. QED  BY <1>1, <1>3

LEMMA ShortMeaning ==
    ASSUME GetoptTypeOK, NEW i \in 0 .. argc - 1, WordAt(i).kind = "short",
           short_opt # NULL, NEW o \in short_opt, o.opt = WordAt(i).opt
    PROVE  /\ Meanings(i) = {[need |-> o.arg_req, code |-> o.opt]}
           /\ Need(i) = o.arg_req
           /\ o.arg_req \in ArgReq \ {"EMPTY_STRUCT"} /\ o.opt \notin Codes
<1>1. \A p \in short_opt : p.opt = o.opt => p = o
  BY GetoptAssumption DEF GetoptTypeOK
<1>2. o.arg_req \in ArgReq \ {"EMPTY_STRUCT"} /\ o.opt \notin Codes
  BY GetoptAssumption DEF GetoptTypeOK
<1>3. Meanings(i) = {[need |-> p.arg_req, code |-> p.opt] :
                        p \in {q \in short_opt : q.opt = WordAt(i).opt}}
  BY DEF Meanings
<1>4. {q \in short_opt : q.opt = WordAt(i).opt} = {o}
  BY <1>1
<1>5. Meanings(i) = {[need |-> o.arg_req, code |-> o.opt]}
  BY <1>3, <1>4
<1>6. Need(i) = o.arg_req
  BY <1>5, OnlyMeaning
<1>. QED  BY <1>2, <1>5, <1>6

LEMMA LongMeaning ==
    ASSUME GetoptTypeOK, NEW i \in 0 .. argc - 1, WordAt(i).kind = "long",
           long_opt # NULL
    PROVE  LET same == {k \in DOMAIN long_opt : long_opt[k].opt = WordAt(i).opt}
               o    == long_opt[First(same)]
           IN  /\ same = {} => Meanings(i) = {}
               /\ same # {} => /\ Meanings(i) = {[need |-> o.arg_req, code |-> o.val]}
                               /\ Need(i) = o.arg_req
                               /\ o.arg_req \in ArgReq /\ o.val \notin Codes
<1>. DEFINE same == {k \in DOMAIN long_opt : long_opt[k].opt = WordAt(i).opt}
            o    == long_opt[First(same)]
            least == {j \in same : \A l \in same : j <= l}
<1>1. Meanings(i) = {[need |-> long_opt[k].arg_req, code |-> long_opt[k].val] : k \in least}
  BY DEF Meanings
<1>2. CASE same = {}
  BY <1>1, <1>2
<1>3. CASE same # {}
  <2>1. same \in SUBSET Nat
    BY GetoptAssumption DEF GetoptTypeOK
  <2>2. First(same) \in same /\ least = {First(same)}
    BY <1>3, <2>1, FirstIsLeast
  <2>3. Meanings(i) = {[need |-> o.arg_req, code |-> o.val]}
    BY <1>1, <2>2
  <2>4. Need(i) = o.arg_req
    BY <2>3, OnlyMeaning
  <2>5. o.arg_req \in ArgReq /\ o.val \notin Codes
    BY <2>2, GetoptAssumption DEF GetoptTypeOK
  <2>. QED  BY <1>3, <2>3, <2>4, <2>5
<1>. QED  BY <1>2, <1>3

(* A word without a dash names no option, and a word that names none wants *)
(* no value.                                                               *)
LEMMA NoMeaning ==
    ASSUME NEW i
    PROVE  /\ Meanings(i) = {} => Need(i) = "unknown" /\ ~WantsValue(i) /\ ValueOf(i) = NULL
           /\ ~IsOption(i) => Meanings(i) = {}
           /\ ~Dashed(WordAt(i)) => ~IsOption(i)
<1>1. Meanings(i) = {} => Need(i) = "unknown"
  BY DEF Need, NeedOf
<1>2. Need(i) = "unknown" => ~WantsValue(i)
  BY DEF WantsValue
<1>3. ~WantsValue(i) => ValueOf(i) = NULL
  BY DEF ValueOf
<1>4. ~IsOption(i) => Meanings(i) = {}
  BY DEF IsOption, Meanings
<1>5. ~Dashed(WordAt(i)) => ~IsOption(i)
  BY DEF Dashed, IsOption
<1>. QED  BY <1>1, <1>2, <1>3, <1>4, <1>5

LEMMA IsValueOf ==
    ASSUME GetoptTypeOK, NEW i \in 0 .. argc - 1
    PROVE  /\ IsValue(i + 1) <=> /\ ~Dashed(WordAt(i + 1))
                                 /\ WantsValue(i) /\ ~WordAt(i).inline
           /\ i + 1 > 0
<1>1. argc \in Nat
  BY DEF GetoptTypeOK, argc
<1>2. i \in Nat /\ i + 1 - 1 = i /\ i + 1 > 0
  BY <1>1
<1>. QED  BY <1>2 DEF IsValue

-----------------------------------------------------------------------------
(* What one call does. *)

(* An answer that is right and moves on to a word that is no value. *)
RightStep(r, value, skip) ==
    /\ RightAnswer(cur_idx, r, value) /\ r # "END"
    /\ \/ /\ skip = 1
          /\ cur_idx + 1 < argc => ~IsValue(cur_idx + 1)
          /\ ~(Dangling /\ cur_idx = argc - 1)
       \/ skip = 2 /\ cur_idx + 1 < argc /\ IsValue(cur_idx + 1)

Stops ==
    /\ fault' = TRUE /\ Dangling /\ cur_idx = argc - 1
    /\ UNCHANGED <<given, cur_idx, retval, ret, calls>>

Stepped == Stops \/ \E r, value, skip : Answer(r, value, skip) /\ RightStep(r, value, skip)

(* A word that wants no value is followed by none. *)
LEMMA NoValueFollows ==
    ASSUME GetoptTypeOK, cur_idx < argc, ~WantsValue(cur_idx) \/ WordAt(cur_idx).inline,
           NEW r, NEW value, RightAnswer(cur_idx, r, value), r # "END"
    PROVE  RightStep(r, value, 1)
<1>1. cur_idx \in 0 .. argc - 1 /\ argc \in Nat
  BY DEF GetoptTypeOK, argc
<1>2. ~IsValue(cur_idx + 1)
  BY <1>1, IsValueOf
<1>3. ~(Dangling /\ cur_idx = argc - 1)
  BY DEF Dangling
<1>. QED  BY <1>2, <1>3 DEF RightStep

LEMMA AnswerWithValueIsRight ==
    ASSUME GetoptTypeOK, cur_idx < argc, IsOption(cur_idx), WantsValue(cur_idx),
           NEW code, code \notin Codes,
           Meanings(cur_idx) = {[need |-> Need(cur_idx), code |-> code]},
           NEW required, required <=> Need(cur_idx) = "REQUIRED_VAL",
           AnswerWithValue(code, required)
    PROVE  Stepped
<1>. DEFINE i == cur_idx
<1>1. i \in 0 .. argc - 1 /\ argc \in Nat /\ argc <= MaxArgc /\ i + 1 \in 0 .. MaxArgc
  BY GetoptAssumption DEF GetoptTypeOK, argc
<1>2. Need(i) \in {"REQUIRED_VAL", "OPTIONAL_VAL"}
  BY DEF WantsValue
<1>3. \E m \in Meanings(i) : m.code = code
  OBVIOUS
<1>4. code \notin {"END", "UNKNOWN_OPT", "NON_OPT", "EINVAL", "MISSING_ARG"}
  BY DEF Codes
<1>5. CASE WordAt(i).inline
  <2>1. ValueOf(i) = Inline(i) /\ Inline(i) # NULL
    BY <1>1, <1>5, GetoptAssumption DEF ValueOf
  <2>2. RightAnswer(i, code, Inline(i))
    BY <1>2, <1>3, <1>4, <2>1 DEF RightAnswer
  <2>3. RightStep(code, Inline(i), 1)
    BY <1>4, <1>5, <2>2, NoValueFollows
  <2>4. Answer(code, Inline(i), 1)
    BY <1>5 DEF AnswerWithValue, cur_arg
  <2>. QED  BY <2>3, <2>4 DEF Stepped
<1>6. CASE ~WordAt(i).inline /\ i + 1 < argc /\ AcceptsWord(WordAt(i + 1))
  <2>1. IsValue(i + 1)
    BY <1>1, <1>6, IsValueOf DEF AcceptsWord
  <2>2. ValueOf(i) = Whole(i + 1) /\ Whole(i + 1) # NULL
    BY <1>1, <1>6, <2>1, GetoptAssumption DEF ValueOf
  <2>3. RightAnswer(i, code, Whole(i + 1))
    BY <1>2, <1>3, <1>4, <2>2 DEF RightAnswer
  <2>4. RightStep(code, Whole(i + 1), 2)
    BY <1>4, <1>6, <2>1, <2>3 DEF RightStep
  <2>5. Answer(code, Whole(i + 1), 2)
    BY <1>1, <1>6 DEF AnswerWithValue, cur_arg
  <2>. QED  BY <2>4, <2>5 DEF Stepped
<1>7. CASE ~WordAt(i).inline /\ i + 1 < argc /\ ~AcceptsWord(WordAt(i + 1))
  <2>. DEFINE r == IF required THEN "MISSING_ARG" ELSE code
  <2>1. ~IsValue(i + 1)
    BY <1>1, <1>7, IsValueOf DEF AcceptsWord
  <2>2. ValueOf(i) = NULL
    BY <1>7, <2>1 DEF ValueOf
  <2>3. RightAnswer(i, r, NULL) /\ r # "END"
    <3>1. CASE required
      BY <1>2, <2>2, <3>1 DEF RightAnswer, Codes
    <3>2. CASE ~required
      BY <1>2, <1>3, <1>4, <2>2, <3>2 DEF RightAnswer
    <3>. QED  BY <3>1, <3>2
  <2>4. RightStep(r, NULL, 1)
    <3>1. i # argc - 1
      BY <1>1, <1>7
    <3>. QED  BY <2>1, <2>3, <3>1 DEF RightStep
  <2>5. Answer(r, NULL, 1)
    BY <1>1, <1>7 DEF AnswerWithValue, cur_arg
  <2>. QED  BY <2>4, <2>5 DEF Stepped
<1>8. CASE ~WordAt(i).inline /\ i + 1 = argc
  <2>1. i = argc - 1 /\ argc > 0
    BY <1>1, <1>8
  <2>2. Dangling
    BY <1>8, <2>1 DEF Dangling
  <2>3. /\ fault' = TRUE
        /\ UNCHANGED <<given, cur_idx, retval, ret, calls>>
    BY <1>1, <1>8 DEF AnswerWithValue, cur_arg
  <2>. QED  BY <2>1, <2>2, <2>3 DEF Stepped, Stops
<1>. QED  BY <1>1, <1>5, <1>6, <1>7, <1>8

(* A word that is not looked up is answered as no option. *)
LEMMA NonOptionIsRight ==
    ASSUME GetoptTypeOK, cur_idx < argc, ~IsOption(cur_idx),
           Answer("NON_OPT", Whole(cur_idx), 1)
    PROVE  Stepped
<1>1. /\ Need(cur_idx) = "unknown" /\ ~WantsValue(cur_idx)
  BY NoMeaning
<1>2. RightAnswer(cur_idx, "NON_OPT", Whole(cur_idx))
  BY <1>1 DEF RightAnswer, Codes
<1>3. RightStep("NON_OPT", Whole(cur_idx), 1)
  BY <1>1, <1>2, NoValueFollows
<1>. QED  BY <1>3 DEF Stepped

LEMMA UnknownIsRight ==
    ASSUME GetoptTypeOK, cur_idx < argc, IsOption(cur_idx), Meanings(cur_idx) = {},
           Answer("UNKNOWN_OPT", NULL, 1)
    PROVE  Stepped
<1>1. /\ Need(cur_idx) = "unknown" /\ ~WantsValue(cur_idx) /\ ValueOf(cur_idx) = NULL
  BY NoMeaning
<1>2. RightAnswer(cur_idx, "UNKNOWN_OPT", NULL)
  BY <1>1 DEF RightAnswer, Codes
<1>3. RightStep("UNKNOWN_OPT", NULL, 1)
  BY <1>1, <1>2, NoValueFollows
<1>. QED  BY <1>3 DEF Stepped

(* An option without a value. *)
LEMMA PlainOptionIsRight ==
    ASSUME GetoptTypeOK, cur_idx < argc, IsOption(cur_idx), Need(cur_idx) = "NO_VAL",
           NEW code, code \notin Codes,
           Meanings(cur_idx) = {[need |-> Need(cur_idx), code |-> code]},
           Answer(code, NULL, 1)
    PROVE  Stepped
<1>1. ~WantsValue(cur_idx) /\ ValueOf(cur_idx) = NULL
  BY DEF WantsValue, ValueOf
<1>2. \E m \in Meanings(cur_idx) : m.code = code
  OBVIOUS
<1>3. code \notin {"END", "UNKNOWN_OPT", "NON_OPT", "EINVAL", "MISSING_ARG"}
  BY DEF Codes
<1>4. RightAnswer(cur_idx, code, NULL)
  BY <1>1, <1>2, <1>3 DEF RightAnswer
<1>5. RightStep(code, NULL, 1)
  BY <1>1, <1>3, <1>4, NoValueFollows
<1>. QED  BY <1>5 DEF Stepped

LEMMA ShortIsRight ==
    ASSUME GetoptTypeOK, cur_idx < argc, cur_arg.kind = "short", track_getopt_short
    PROVE  Stepped
<1>1. cur_idx \in 0 .. argc - 1 /\ cur_arg = WordAt(cur_idx)
  BY DEF GetoptTypeOK, argc, cur_arg
<1>2. CASE short_opt = NULL
  <2>1. ~IsOption(cur_idx)
    BY <1>1, <1>2 DEF IsOption
  <2>2. Answer("NON_OPT", Whole(cur_idx), 1)
    BY <1>2 DEF track_getopt_short
  <2>. QED  BY <2>1, <2>2, NonOptionIsRight
<1>3. CASE short_opt # NULL /\ \A o \in short_opt : o.opt # cur_arg.opt
  <2>1. IsOption(cur_idx)
    BY <1>1, <1>3 DEF IsOption
  <2>2. {p \in short_opt : p.opt = WordAt(cur_idx).opt} = {}
    BY <1>1, <1>3
  <2>3. Meanings(cur_idx) = {}
    BY <1>1, <1>3, <2>2 DEF Meanings
  <2>4. Answer("UNKNOWN_OPT", NULL, 1)
    BY <1>3 DEF track_getopt_short
  <2>. QED  BY <2>1, <2>3, <2>4, UnknownIsRight
<1>4. CASE short_opt # NULL /\ \E o \in short_opt : o.opt = cur_arg.opt
  <2>1. PICK o \in short_opt :
            /\ o.opt = cur_arg.opt
            /\ IF TakesValue(o)
               THEN AnswerWithValue(cur_arg.opt, o.arg_req = "REQUIRED_VAL")
               ELSE Answer(cur_arg.opt, NULL, 1)
    BY <1>4 DEF track_getopt_short
  <2>2. /\ Meanings(cur_idx) = {[need |-> o.arg_req, code |-> o.opt]}
        /\ Need(cur_idx) = o.arg_req
        /\ o.arg_req \in ArgReq \ {"EMPTY_STRUCT"} /\ o.opt \notin Codes
    BY <1>1, <1>4, <2>1, ShortMeaning
  <2>3. IsOption(cur_idx)
    BY <1>1, <1>4 DEF IsOption
  <2>4. CASE TakesValue(o)
    <3>1. WantsValue(cur_idx)
      BY <2>2, <2>4 DEF WantsValue, TakesValue, ArgReq
    <3>. QED  BY <2>1, <2>2, <2>3, <2>4, <3>1, AnswerWithValueIsRight
  <2>5. CASE ~TakesValue(o)
    <3>1. Need(cur_idx) = "NO_VAL"
      BY <2>2, <2>5 DEF TakesValue
    <3>. QED  BY <2>1, <2>2, <2>3, <2>5, <3>1, PlainOptionIsRight
  <2>. QED  BY <2>4, <2>5
<1>. QED  BY <1>2, <1>3, <1>4

(* The entries the word is compared with are found by their whole name. *)
LEMMA LongIsRight ==
    ASSUME GetoptTypeOK, cur_idx < argc, cur_arg.kind = "long", track_getopt_long
    PROVE  Stepped
<1>. DEFINE matches == {k \in DOMAIN long_opt : Names(long_opt[k])}
            same == {k \in DOMAIN long_opt : long_opt[k].opt = WordAt(cur_idx).opt}
            o == long_opt[First(same)]
<1>1. cur_idx \in 0 .. argc - 1 /\ cur_arg = WordAt(cur_idx)
  BY DEF GetoptTypeOK, argc, cur_arg
<1>2. CASE long_opt = NULL
  <2>1. ~IsOption(cur_idx)
    BY <1>1, <1>2 DEF IsOption
  <2>2. Answer("NON_OPT", Whole(cur_idx), 1)
    BY <1>2 DEF track_getopt_long
  <2>. QED  BY <2>1, <2>2, NonOptionIsRight
<1>3. CASE long_opt # NULL
  <2>1. IsOption(cur_idx)
    BY <1>1, <1>3 DEF IsOption
  <2>2. \A k \in DOMAIN long_opt : <<long_opt[k].opt, long_opt[k].opt>> \in Prefix
    BY <1>3, GetoptAssumption DEF GetoptTypeOK
  <2>3. matches = same
    BY <1>1, <2>2 DEF Names
  <2>4. /\ same = {} => Meanings(cur_idx) = {}
        /\ same # {} => /\ Meanings(cur_idx) = {[need |-> o.arg_req, code |-> o.val]}
                        /\ Need(cur_idx) = o.arg_req
                        /\ o.arg_req \in ArgReq /\ o.val \notin Codes
    BY <1>1, <1>3, LongMeaning
  <2>5. CASE same = {}
    <3>1. Answer("UNKNOWN_OPT", NULL, 1)
      BY <1>3, <2>3, <2>5 DEF track_getopt_long
    <3>. QED  BY <2>1, <2>4, <2>5, <3>1, UnknownIsRight
  <2>6. CASE same # {}
    <3>1. \/ /\ o.arg_req \in {"REQUIRED_VAL", "OPTIONAL_VAL"}
             /\ AnswerWithValue(o.val, o.arg_req = "REQUIRED_VAL")
          \/ o.arg_req = "NO_VAL" /\ Answer(o.val, NULL, 1)
          \/ o.arg_req = "EMPTY_STRUCT" /\ Answer("EINVAL", retval, 1)
      BY <1>3, <2>3, <2>6 DEF track_getopt_long
    <3>2. CASE /\ o.arg_req \in {"REQUIRED_VAL", "OPTIONAL_VAL"}
               /\ AnswerWithValue(o.val, o.arg_req = "REQUIRED_VAL")
      <4>1. WantsValue(cur_idx)
        BY <2>4, <2>6, <3>2 DEF WantsValue
      <4>. QED  BY <2>1, <2>4, <2>6, <3>2, <4>1, AnswerWithValueIsRight
    <3>3. CASE o.arg_req = "NO_VAL" /\ Answer(o.val, NULL, 1)
      BY <2>1, <2>4, <2>6, <3>3, PlainOptionIsRight
    <3>4. CASE o.arg_req = "EMPTY_STRUCT" /\ Answer("EINVAL", retval, 1)
      <4>1. Need(cur_idx) = "EMPTY_STRUCT" /\ ~WantsValue(cur_idx)
        BY <2>4, <2>6, <3>4 DEF WantsValue
      <4>2. RightAnswer(cur_idx, "EINVAL", retval)
        BY <2>1, <4>1 DEF RightAnswer, Codes
      <4>3. RightStep("EINVAL", retval, 1)
        BY <4>1, <4>2, NoValueFollows
      <4>. QED  BY <3>4, <4>3 DEF Stepped
    <3>. QED  BY <3>1, <3>2, <3>3, <3>4
  <2>. QED  BY <2>5, <2>6
<1>. QED  BY <1>2, <1>3

LEMMA CallIsRight ==
    ASSUME GetoptTypeOK, bt_getopt, cur_idx < argc
    PROVE  Stepped /\ ~fault
<1>1. ~fault /\ ~EndOfWords
  <2>1. argc \in Nat /\ cur_idx \in Nat
    BY DEF GetoptTypeOK, argc
  <2>. QED  BY <2>1 DEF bt_getopt, EndOfWords
<1>2. CASE cur_arg.kind = "long" /\ track_getopt_long
  BY <1>1, <1>2, LongIsRight
<1>3. CASE cur_arg.kind = "short" /\ track_getopt_short
  BY <1>1, <1>3, ShortIsRight
<1>4. CASE cur_arg.kind \in {"plain", "dash"} /\ Answer("NON_OPT", Whole(cur_idx), 1)
  <2>1. ~IsOption(cur_idx)
    BY <1>4 DEF IsOption, cur_arg
  <2>. QED  BY <1>1, <1>4, <2>1, NonOptionIsRight
<1>. QED  BY <1>1, <1>2, <1>3, <1>4 DEF bt_getopt

-----------------------------------------------------------------------------
(* The invariant. *)

(* What argv means does not change while it is scanned. *)
LEMMA MeaningStays ==
    ASSUME UNCHANGED given
    PROVE  /\ argc' = argc /\ argv' = argv
           /\ short_opt' = short_opt /\ long_opt' = long_opt
           /\ \A i : IsValue(i)' = IsValue(i)
           /\ \A i, r, value : RightAnswer(i, r, value)' = RightAnswer(i, r, value)
           /\ Dangling' = Dangling
<1>1. argv' = argv /\ short_opt' = short_opt /\ long_opt' = long_opt
  BY DEF given
<1>2. argc' = argc
  BY <1>1 DEF argc
<1>3. \A i : WordAt(i)' = WordAt(i)
  BY <1>1 DEF WordAt
<1>4. \A i : Meanings(i)' = Meanings(i)
  BY <1>1, <1>3 DEF Meanings
<1>5. \A i : Need(i)' = Need(i) /\ WantsValue(i)' = WantsValue(i)
  BY <1>4 DEF Need, WantsValue
<1>6. \A i : IsValue(i)' = IsValue(i)
  BY <1>3, <1>5 DEF IsValue
<1>7. \A i : ValueOf(i)' = ValueOf(i) /\ IsOption(i)' = IsOption(i)
  BY <1>1, <1>2, <1>3, <1>5, <1>6 DEF ValueOf, IsOption
<1>8. \A i, r, value : RightAnswer(i, r, value)' = RightAnswer(i, r, value)
  BY <1>4, <1>5, <1>7 DEF RightAnswer
<1>9. Dangling' = Dangling
  BY <1>2, <1>3, <1>5 DEF Dangling
<1>. QED  BY <1>1, <1>2, <1>6, <1>8, <1>9

LEMMA GetoptInitIsInductive == GoInit => GetoptIInv
<1>. SUFFICES ASSUME GoInit PROVE GetoptIInv
  OBVIOUS
<1>1. PICK n \in 0 .. MaxArgc : argv \in [1 .. n -> Words]
  BY DEF GoInit
<1>2. argv \in Seq(Words) /\ argc = n /\ n \in Nat /\ n <= MaxArgc
  BY <1>1, GetoptAssumption DEF argc
<1>3. GetoptTypeOK
  <2>1. calls \in Seq({})
    BY DEF GoInit
  <2>. QED  BY <1>2, <2>1 DEF GoInit, GetoptTypeOK
<1>4. AtAWord
  BY <1>2 DEF GoInit, AtAWord, IsValue, Dangling
<1>5. EachWordOnce /\ AnswersAreRight
  BY DEF GoInit, EachWordOnce, AnswersAreRight
<1>6. FaultIsAtTheEnd
  BY <1>2 DEF GoInit, FaultIsAtTheEnd
<1>. QED  BY <1>3, <1>4, <1>5, <1>6 DEF GetoptIInv

LEMMA StopKeeps ==
    ASSUME GetoptIInv, cur_idx < argc, ~fault, Stops
    PROVE  GetoptIInv'
<1>1. /\ GetoptTypeOK /\ AtAWord
      /\ EachWordOnce /\ AnswersAreRight /\ FaultIsAtTheEnd
  BY DEF GetoptIInv
<1>2. UNCHANGED given /\ cur_idx' = cur_idx /\ calls' = calls /\ ret' = ret
  BY DEF Stops
<1>3. GetoptTypeOK'
  BY <1>1, <1>2, MeaningStays DEF GetoptTypeOK
<1>4. AtAWord'
  BY <1>1, <1>2, MeaningStays DEF AtAWord
<1>5. EachWordOnce'
  BY <1>1, <1>2, MeaningStays DEF EachWordOnce
<1>6. AnswersAreRight'
  BY <1>1, <1>2, MeaningStays DEF AnswersAreRight
<1>7. FaultIsAtTheEnd'
  BY <1>1, <1>2, MeaningStays DEF FaultIsAtTheEnd, Stops
<1>. QED  BY <1>3, <1>4, <1>5, <1>6, <1>7 DEF GetoptIInv

LEMMA AnswerKeeps ==
    ASSUME GetoptIInv, cur_idx < argc, ~fault,
           NEW r, NEW value, NEW skip, Answer(r, value, skip), RightStep(r, value, skip)
    PROVE  GetoptIInv'
<1>. DEFINE c == [at |-> cur_idx, ret |-> r, retval |-> value]
            n == Len(calls)
<1>1. /\ GetoptTypeOK /\ AtAWord
      /\ EachWordOnce /\ AnswersAreRight /\ FaultIsAtTheEnd
  BY DEF GetoptIInv
<1>2. /\ UNCHANGED <<given, fault>> /\ cur_idx' = cur_idx + skip
      /\ calls' = Append(calls, c) /\ ret' = r
  BY DEF Answer
<1>3. /\ argc \in Nat /\ cur_idx \in 0 .. argc - 1
      /\ argc' = argc /\ argv' = argv
  BY <1>1, <1>2, MeaningStays DEF GetoptTypeOK, argc
<1>4. PICK S : calls \in Seq(S)
  BY <1>1 DEF GetoptTypeOK
<1>5. calls \in Seq(S \cup {c})
  BY <1>4
<1>6. /\ calls' \in Seq(S \cup {c}) /\ n \in Nat
      /\ DOMAIN calls = 1 .. n /\ DOMAIN calls' = 1 .. n + 1
      /\ \A k \in 1 .. n : calls'[k] = calls[k]
      /\ calls'[n + 1] = c
  BY <1>2, <1>5
<1>7. /\ skip \in {1, 2} /\ cur_idx' \in 0 .. argc
      /\ skip = 2 => cur_idx + 1 < argc
  BY <1>2, <1>3 DEF RightStep
<1>8. GetoptTypeOK'
  BY <1>1, <1>2, <1>3, <1>6, <1>7, MeaningStays DEF GetoptTypeOK
<1>9. AtAWord'
  <2>1. CASE skip = 1
    <3>1. /\ cur_idx + 1 < argc => ~IsValue(cur_idx + 1)
          /\ ~(Dangling /\ cur_idx = argc - 1)
      BY <2>1 DEF RightStep
    <3>2. cur_idx + 1 < argc <=> cur_idx # argc - 1
      BY <1>3
    <3>3. cur_idx' = cur_idx + 1
      BY <1>2, <2>1
    <3>. QED  BY <1>2, <3>1, <3>2, <3>3, MeaningStays DEF AtAWord
  <2>2. CASE skip = 2
    <3>1. cur_idx + 1 < argc /\ IsValue(cur_idx + 1)
      BY <2>2 DEF RightStep
    <3>2. ~Dashed(WordAt(cur_idx + 1)) /\ cur_idx + 1 \in 0 .. argc - 1
      BY <1>1, <1>3, <3>1, IsValueOf
    <3>3. ~WantsValue(cur_idx + 1)
      BY <3>2, NoMeaning
    <3>4. ~IsValue((cur_idx + 1) + 1)
      BY <1>1, <3>2, <3>3, IsValueOf
    <3>5. cur_idx' = (cur_idx + 1) + 1
      BY <1>2, <1>3, <2>2
    <3>6. Dangling => argc - 1 # cur_idx + 1
      BY <3>3 DEF Dangling
    <3>7. Dangling => cur_idx' < argc
      BY <1>3, <3>1, <3>5, <3>6
    <3>. QED  BY <1>2, <3>4, <3>5, <3>7, MeaningStays DEF AtAWord
  <2>. QED  BY <1>7, <2>1, <2>2
<1>10. EachWordOnce'
  <2>1. {calls[k].at : k \in 1 .. n} = {i \in 0 .. cur_idx - 1 : ~IsValue(i)}
    BY <1>1, <1>6 DEF EachWordOnce
  <2>2. \A k \in 1 .. n : calls[k].at \in 0 .. cur_idx - 1
    BY <2>1
  <2>3. ASSUME NEW j \in 1 .. n + 1, NEW k \in 1 .. n + 1, j < k
        PROVE  calls'[j].at < calls'[k].at
    <3>1. j \in 1 .. n
      BY <1>6, <2>3
    <3>2. CASE k \in 1 .. n
      BY <1>1, <1>6, <2>3, <3>1, <3>2 DEF EachWordOnce
    <3>3. CASE k = n + 1
      BY <1>3, <1>6, <2>2, <3>1, <3>3
    <3>. QED  BY <1>6, <3>2, <3>3
  <2>4. {calls'[k].at : k \in 1 .. n + 1} = {calls[k].at : k \in 1 .. n} \cup {cur_idx}
    BY <1>6
  <2>5. ~IsValue(cur_idx)
    BY <1>1 DEF AtAWord
  <2>6. {i \in 0 .. cur_idx' - 1 : ~IsValue(i)}
            = {i \in 0 .. cur_idx - 1 : ~IsValue(i)} \cup {cur_idx}
    <3>1. CASE skip = 1
      <4>1. 0 .. cur_idx' - 1 = 0 .. cur_idx - 1 \cup {cur_idx}
        BY <1>2, <1>3, <3>1
      <4>. QED  BY <2>5, <4>1
    <3>2. CASE skip = 2
      <4>1. 0 .. cur_idx' - 1 = 0 .. cur_idx - 1 \cup {cur_idx, cur_idx + 1}
        BY <1>2, <1>3, <3>2
      <4>2. IsValue(cur_idx + 1)
        BY <3>2 DEF RightStep
      <4>. QED  BY <2>5, <4>1, <4>2
    <3>. QED  BY <1>7, <3>1, <3>2
  <2>7. {calls'[k].at : k \in 1 .. n + 1} = {i \in 0 .. cur_idx' - 1 : ~IsValue(i)'}
    BY <1>2, <2>1, <2>4, <2>6, MeaningStays
  <2>. QED  BY <1>6, <2>3, <2>7 DEF EachWordOnce
<1>11. AnswersAreRight'
  <2>1. RightAnswer(c.at, c.ret, c.retval)
    BY DEF RightStep
  <2>2. ASSUME NEW k \in 1 .. n + 1
        PROVE  RightAnswer(calls'[k].at, calls'[k].ret, calls'[k].retval)
    <3>1. CASE k \in 1 .. n
      BY <1>1, <1>6, <3>1 DEF AnswersAreRight
    <3>2. CASE k = n + 1
      BY <1>6, <2>1, <3>2
    <3>. QED  BY <1>6, <3>1, <3>2
  <2>3. \A k \in 1 .. n + 1 : RightAnswer(calls[k].at, calls[k].ret, calls[k].retval)'
    BY <1>2, <2>2, MeaningStays
  <2>. QED  BY <1>6, <2>3 DEF AnswersAreRight
<1>12. FaultIsAtTheEnd'
  BY <1>2, <1>3, <1>7, MeaningStays DEF FaultIsAtTheEnd, RightStep
<1>. QED  BY <1>8, <1>9, <1>10, <1>11, <1>12 DEF GetoptIInv

(* The scan reports the end behind the last word: a dangling option would  *)
(* still be in front of it.                                                *)
LEMMA EndKeeps ==
    ASSUME GetoptIInv, EndOfWords, ~fault
    PROVE  GetoptIInv'
<1>1. /\ GetoptTypeOK /\ AtAWord
      /\ EachWordOnce /\ AnswersAreRight /\ FaultIsAtTheEnd
  BY DEF GetoptIInv
<1>2. UNCHANGED given /\ cur_idx' = cur_idx /\ calls' = calls /\ fault' = fault
  BY DEF EndOfWords
<1>3. ~Dangling
  <2>1. argc \in Nat /\ cur_idx \in Nat
    BY <1>1 DEF GetoptTypeOK, argc
  <2>. QED  BY <1>1, <2>1 DEF AtAWord, EndOfWords
<1>4. GetoptTypeOK'
  BY <1>1, <1>2, MeaningStays DEF GetoptTypeOK
<1>5. AtAWord'
  BY <1>1, <1>2, MeaningStays DEF AtAWord
<1>6. EachWordOnce'
  BY <1>1, <1>2, MeaningStays DEF EachWordOnce
<1>7. AnswersAreRight'
  BY <1>1, <1>2, MeaningStays DEF AnswersAreRight
<1>8. FaultIsAtTheEnd'
  BY <1>1, <1>2, <1>3, MeaningStays DEF FaultIsAtTheEnd
<1>. QED  BY <1>4, <1>5, <1>6, <1>7, <1>8 DEF GetoptIInv

LEMMA GetoptStepKeeps == GetoptIInv /\ [bt_getopt]_goVars => GetoptIInv'
<1>. SUFFICES ASSUME GetoptIInv, [bt_getopt]_goVars PROVE GetoptIInv'
  OBVIOUS
<1>1. CASE UNCHANGED goVars
  <2>1. UNCHANGED given /\ cur_idx' = cur_idx /\ calls' = calls /\ fault' = fault /\ ret' = ret
    BY <1>1 DEF goVars, given
  <2>2. /\ GetoptTypeOK /\ AtAWord
        /\ EachWordOnce /\ AnswersAreRight /\ FaultIsAtTheEnd
    BY DEF GetoptIInv
  <2>3. GetoptTypeOK' /\ AtAWord'
    BY <2>1, <2>2, MeaningStays DEF GetoptTypeOK, AtAWord
  <2>4. EachWordOnce' /\ AnswersAreRight'
    BY <2>1, <2>2, MeaningStays DEF EachWordOnce, AnswersAreRight
  <2>5. FaultIsAtTheEnd'
    BY <2>1, <2>2, MeaningStays DEF FaultIsAtTheEnd
  <2>. QED  BY <2>3, <2>4, <2>5 DEF GetoptIInv
<1>2. CASE bt_getopt /\ cur_idx < argc
  <2>1. GetoptTypeOK
    BY DEF GetoptIInv
  <2>2. Stepped /\ ~fault
    BY <1>2, <2>1, CallIsRight
  <2>. QED  BY <1>2, <2>2, StopKeeps, AnswerKeeps DEF Stepped
<1>3. CASE bt_getopt /\ ~(cur_idx < argc)
  BY <1>3, EndKeeps DEF bt_getopt
<1>. QED  BY <1>1, <1>2, <1>3

LEMMA GetoptInvariant == GoSpec => []GetoptIInv
  BY GetoptInitIsInductive, GetoptStepKeeps, PTL DEF GoSpec

(* bt_getopt: for every argv and every table, each word is answered once   *)
(* and in order, and the only words without an answer are the values.      *)
THEOREM GetoptAnswersEachWordOnce == GoSpec => []EachWordOnce
<1>1. GetoptIInv => EachWordOnce
  BY DEF GetoptIInv
<1>. QED  BY <1>1, GetoptInvariant, PTL

(* bt_getopt: for every argv and every table, the answer to a word is the  *)
(* one the first entry of its option asks for, with the value that belongs *)
(* to it.                                                                  *)
THEOREM GetoptAnswersAreRight == GoSpec => []AnswersAreRight
<1>1. GetoptIInv => AnswersAreRight
  BY DEF GetoptIInv
<1>. QED  BY <1>1, GetoptInvariant, PTL

(* bt_getopt: for every argv and every table, the NULL behind argv is      *)
(* dereferenced at a last option that lacks its value, and only there; the *)
(* end is reported exactly when there is none.                             *)
THEOREM GetoptFaultIsAtTheEnd == GoSpec => []FaultIsAtTheEnd
<1>1. GetoptIInv => FaultIsAtTheEnd
  BY DEF GetoptIInv
<1>. QED  BY <1>1, GetoptInvariant, PTL

-----------------------------------------------------------------------------
(* lib/arena.c                                                             *)

USE ArenaAssumption DEF Blocks

(* A length of an object is rounded up to the next multiple of 16, without *)
(* wrapping: what the mask in internal_ar_alloc does.                      *)
LEMMA Rounding ==
    ASSUME NEW len \in 0 .. (Word - 16)
    PROVE  /\ RoundUp(len) \in Nat
           /\ RoundUp(len) % 16 = 0
           /\ len <= RoundUp(len) /\ RoundUp(len) < len + 16
<1> DEFINE n == len + 15
<1>1. n \in Nat /\ n < Word /\ Word \in Nat
  OBVIOUS
<1>2. n % Word = n
  <2> HIDE DEF n
  <2> QED BY <1>1
<1>3. RoundUp(len) = (n \div 16) * 16
  BY <1>2 DEF RoundUp
<1>4. n = (n \div 16) * 16 + (n % 16) /\ n % 16 \in 0 .. 15 /\ n \div 16 \in Nat
  <2> HIDE DEF n
  <2> QED BY <1>1
<1>5. \A k \in Nat : (k * 16) % 16 = 0
  OBVIOUS
<1>6. n - 15 = len
  OBVIOUS
<1> DEFINE q == n \div 16
<1> HIDE DEF n
<1>7. q \in Nat /\ n = q * 16 + (n % 16) /\ n % 16 \in 0 .. 15
  BY <1>4
<1>8. RoundUp(len) = q * 16
  BY <1>3
<1> HIDE DEF q
<1>9. (q * 16) % 16 = 0 /\ q * 16 \in Nat
  BY <1>5, <1>7
<1> QED
  BY <1>1, <1>6, <1>7, <1>8, <1>9

(* Of two multiples of 16 the smaller is smaller by 16, and their sum is a *)
(* multiple.                                                               *)
LEMMA Multiples ==
    ASSUME NEW a \in Nat, NEW b \in Nat, a % 16 = 0, b % 16 = 0
    PROVE  /\ a < b => a + 16 <= b
           /\ (a + b) % 16 = 0
OBVIOUS

LEMMA ArInitIsInductive == ArInit => ArIInv
BY DEF ArInit, ArIInv, ArTypeOK, BlocksAreApart, RefusesOnlyWhenFull, Packed, FormerOutside

(* A new buffer: what is kept of the former blocks is outside it. *)
LEMMA HandOver ==
    ASSUME ArIInv, NEW b \in Buffers, ar_init(b)
    PROVE  ArIInv'
<1>1. ArTypeOK /\ BlocksAreApart /\ RefusesOnlyWhenFull /\ Packed /\ FormerOutside
  BY DEF ArIInv
<1>2. b \in [at : 0 .. (Word - 1), size : 0 .. (Word - 1)] /\ b.at + b.size < Word
  OBVIOUS
<1>3. CASE Accepts(b)
  <2>1. /\ buf' = b.at /\ size' = b.size /\ used' = 0 /\ blocks' = {}
        /\ kept' = {k \in blocks \cup kept : Outside(k, b.at, b.size)}
        /\ res' = [asked |-> 0, ret |-> "ok"]
    BY <1>3 DEF ar_init
  <2>2. b.at % 16 = 0 /\ b.size % 16 = 0
    BY <1>3 DEF Accepts
  <2>3. ArTypeOK'
    BY <1>1, <1>2, <2>1 DEF ArTypeOK
  <2>4. BlocksAreApart'
    <3>1. \A k \in kept' : k \in blocks \cup kept
      BY <2>1
    <3>2. \A k, c \in blocks \cup kept : k # c => Outside(k, c.at, c.len)
      BY <1>1 DEF BlocksAreApart
    <3>3. \A k, c \in kept' : k # c => Outside(k, c.at, c.len)
      BY <3>1, <3>2
    <3>4. (blocks \cup kept)' = kept' /\ blocks' = {}
      BY <2>1
    <3> QED
      BY <3>3, <3>4 DEF BlocksAreApart, Outside
  <2>5. RefusesOnlyWhenFull'
    BY <2>1 DEF RefusesOnlyWhenFull
  <2>6. Packed'
    <3>1. b.at \in Nat /\ b.size \in Nat /\ 0 % 16 = 0
      BY <1>2
    <3>2. ~\E p \in 0 .. (Word - 1) : b.at <= p /\ p < b.at + 0
      BY <3>1
    <3> QED
      BY <1>2, <2>1, <2>2, <3>1, <3>2 DEF Packed
  <2>7. FormerOutside'
    BY <2>1 DEF FormerOutside, Outside
  <2> QED
    BY <2>3, <2>4, <2>5, <2>6, <2>7 DEF ArIInv
<1>4. CASE ~Accepts(b)
  <2>1. /\ res' = [asked |-> 0, ret |-> "EINVAL"]
        /\ UNCHANGED <<buf, size, used, blocks, kept>>
    BY <1>4 DEF ar_init
  <2>2. ArTypeOK'
    BY <1>1, <2>1 DEF ArTypeOK
  <2>3. RefusesOnlyWhenFull'
    BY <2>1 DEF RefusesOnlyWhenFull
  <2>4. BlocksAreApart' /\ Packed' /\ FormerOutside'
    BY <1>1, <2>1 DEF BlocksAreApart, Packed, FormerOutside, Outside
  <2> QED
    BY <2>2, <2>3, <2>4 DEF ArIInv
<1> QED
  BY <1>3, <1>4

(* A refusal is the truth: every 16 bytes below `used` hold a byte of a    *)
(* block, and what is left above is a multiple of 16 below the rounded     *)
(* length, hence below the length.                                         *)
LEMMA Refusal ==
    ASSUME ArIInv, NEW len \in 0 .. (Word - 16), ar_capacity < RoundUp(len)
    PROVE  \A p \in 0 .. (Word - 1) : ~Fits(p, len)
<1> SUFFICES ASSUME NEW p \in 0 .. (Word - 1), Fits(p, len)
             PROVE  FALSE
  OBVIOUS
<1> DEFINE r == RoundUp(len)
<1>1. r \in Nat /\ r % 16 = 0 /\ len <= r /\ r < len + 16
  BY Rounding
<1>2. ArTypeOK /\ Packed
  BY DEF ArIInv
<1>3. size - used < r
  BY DEF ar_capacity
<1> HIDE DEF r
<1>4. len > 0
  <2>2. size - used \in Nat /\ (size - used) % 16 = 0
    BY <1>2 DEF ArTypeOK, Packed
  <2>3. (size - used) + 16 <= r
    BY <1>1, <1>3, <2>2, Multiples
  <2> QED
    BY <1>1, <2>2, <2>3
<1>5. CASE p < buf + used
  <2>1. PICK b \in blocks : b.at <= p /\ p < b.at + b.len
    BY <1>2, <1>5 DEF Packed, Fits
  <2>2. Outside(b, p, len)
    BY <2>1 DEF Fits
  <2>3. b.at \in Nat /\ b.len \in Nat
    BY <1>2 DEF ArTypeOK
  <2> QED
    BY <1>4, <2>1, <2>2, <2>3 DEF Outside
<1>6. CASE p >= buf + used
  <2>1. p + len <= buf + size
    BY DEF Fits
  <2>2. size - used \in Nat /\ (size - used) % 16 = 0
    BY <1>2 DEF ArTypeOK, Packed
  <2>3. (size - used) + 16 <= r
    BY <1>1, <1>3, <2>2, Multiples
  <2> QED
    BY <1>1, <1>2, <1>6, <2>1, <2>2, <2>3 DEF ArTypeOK
<1> QED
  BY <1>2, <1>5, <1>6 DEF ArTypeOK

(* An allocation appends a block right at `used`, where all others end. *)
LEMMA Allocation ==
    ASSUME ArIInv, NEW len \in 0 .. (Word - 16), Allocate(len)
    PROVE  ArIInv'
<1> DEFINE r == RoundUp(len)
<1> DEFINE nb == [at |-> buf + used, len |-> len]
<1>1. ArTypeOK /\ BlocksAreApart /\ RefusesOnlyWhenFull /\ Packed /\ FormerOutside
  BY DEF ArIInv
<1>2. r \in Nat /\ r % 16 = 0 /\ len <= r /\ r < len + 16
  BY Rounding
<1>3. CASE ar_capacity < r
  <2>1. /\ res' = [asked |-> len, ret |-> "ENOMEM"]
        /\ UNCHANGED <<buf, size, used, blocks, kept>>
    BY <1>3 DEF Allocate
  <2>2. ArTypeOK'
    BY <1>1, <2>1 DEF ArTypeOK
  <2>3. \A p \in 0 .. (Word - 1) : ~Fits(p, len)
    BY <1>3, Refusal
  <2>4. RefusesOnlyWhenFull'
    BY <2>1, <2>3 DEF RefusesOnlyWhenFull, Fits, Outside
  <2>5. BlocksAreApart' /\ Packed' /\ FormerOutside'
    BY <1>1, <2>1 DEF BlocksAreApart, Packed, FormerOutside, Outside
  <2> QED
    BY <2>2, <2>4, <2>5 DEF ArIInv
<1>4. CASE ~(ar_capacity < r)
  <2>1. /\ blocks' = blocks \cup {nb} /\ used' = used + r
        /\ res' = [asked |-> len, ret |-> "ok"]
        /\ buf' = buf /\ size' = size /\ kept' = kept
    BY <1>4 DEF Allocate
  <2>2. /\ buf \in Nat /\ size \in Nat /\ used \in Nat /\ used <= size /\ buf + size < Word
        /\ blocks \subseteq Blocks /\ kept \subseteq Blocks
    BY <1>1 DEF ArTypeOK, Packed
  <2>3. used + r <= size
    BY <1>2, <1>4, <2>2 DEF ar_capacity
  <2> HIDE DEF r
  <2>4. nb \in Blocks /\ nb.at = buf + used /\ nb.len = len
    BY <2>2
  <2> HIDE DEF nb
  <2>5. ArTypeOK'
    BY <1>1, <1>2, <2>1, <2>2, <2>3, <2>4 DEF ArTypeOK
  <2>6. RefusesOnlyWhenFull'
    BY <2>1 DEF RefusesOnlyWhenFull
  <2>7. FormerOutside'
    BY <1>1, <2>1 DEF FormerOutside, Outside
  <2>8. BlocksAreApart'
    <3>1. nb.at % 16 = 0
      BY <1>1, <2>2, <2>4, Multiples DEF Packed
    <3>2. \A b \in blocks' : b.at % 16 = 0 /\ buf' <= b.at /\ b.at + b.len <= buf' + size'
      BY <1>1, <1>2, <2>1, <2>2, <2>3, <2>4, <3>1 DEF BlocksAreApart
    <3>3. \A b \in blocks : Outside(b, nb.at, nb.len) /\ Outside(nb, b.at, b.len)
      BY <1>1, <2>2, <2>4 DEF Packed, Outside
    <3>4. \A k \in kept : Outside(k, nb.at, nb.len) /\ Outside(nb, k.at, k.len)
      BY <1>1, <1>2, <2>2, <2>3, <2>4 DEF FormerOutside, Outside
    <3>5. \A b, c \in blocks \cup kept : b # c => Outside(b, c.at, c.len)
      BY <1>1 DEF BlocksAreApart
    <3>6. (blocks \cup kept)' = blocks \cup kept \cup {nb}
      BY <2>1
    <3>7. \A b, c \in (blocks \cup kept)' : b # c => Outside(b, c.at, c.len)
      BY <3>3, <3>4, <3>5, <3>6
    <3> QED
      BY <3>2, <3>7 DEF BlocksAreApart, Outside
  <2>9. Packed'
    <3>1. used' % 16 = 0
      BY <1>1, <1>2, <2>1, <2>2, Multiples DEF Packed
    <3>2. \A b \in blocks' : b.at + b.len <= buf + used'
      BY <1>1, <1>2, <2>1, <2>2, <2>4 DEF Packed
    <3>3. ASSUME NEW p \in 0 .. (Word - 1), p % 16 = 0, buf <= p, p < buf + used'
          PROVE  \E b \in blocks' : b.at <= p /\ p < b.at + b.len
      <4>1. CASE p < buf + used
        BY <1>1, <2>1, <3>3, <4>1 DEF Packed
      <4>2. CASE buf + used <= p
        <5>1. buf + used \in Nat /\ (buf + used) % 16 = 0 /\ buf + used + r \in Nat
              /\ (buf + used + r) % 16 = 0
          BY <1>1, <1>2, <2>2, Multiples DEF Packed
        <5>2. p + 16 <= buf + used + r
          BY <1>2, <2>1, <2>2, <3>3, <5>1, Multiples
        <5>3. nb.at <= p /\ p < nb.at + nb.len
          BY <1>2, <2>2, <2>4, <4>2, <5>2
        <5> QED
          BY <2>1, <5>3
      <4> QED
        BY <2>2, <4>1, <4>2
    <3> QED
      BY <1>1, <2>1, <3>1, <3>2, <3>3 DEF Packed
  <2> QED
    BY <2>5, <2>6, <2>7, <2>8, <2>9 DEF ArIInv
<1> QED
  BY <1>3, <1>4

(* Every call and every stuttering step preserves the invariant. *)
LEMMA ArNextIsInductive == ArIInv /\ [ArNext]_arVars => ArIInv'
<1> SUFFICES ASSUME ArIInv, [ArNext]_arVars
             PROVE  ArIInv'
  OBVIOUS
<1>1. ASSUME NEW b \in Buffers, ar_init(b)
      PROVE  ArIInv'
  BY <1>1, HandOver
<1>2. ASSUME NEW len \in Lengths, ar_alloc(len)
      PROVE  ArIInv'
  <2>1. len \in 0 .. (Word - 16)
    OBVIOUS
  <2> QED
    BY <1>2, <2>1, Allocation DEF ar_alloc
<1>3. ASSUME NEW n \in StringLengths, ar_strdup(n)
      PROVE  ArIInv'
  <2>1. n + 1 \in 0 .. (Word - 16)
    OBVIOUS
  <2> QED
    BY <1>3, <2>1, Allocation DEF ar_strdup
<1>4. ASSUME NEW n \in StringLengths, NEW inlen \in Lengths, ar_strndup(n, inlen)
      PROVE  ArIInv'
  <2> DEFINE len == (IF n < inlen THEN n ELSE inlen) + 1
  <2>1. len \in 0 .. (Word - 16)
    OBVIOUS
  <2>2. Allocate(len)
    BY <1>4 DEF ar_strndup
  <2> HIDE DEF len
  <2> QED
    BY <2>1, <2>2, Allocation
<1>5. CASE UNCHANGED arVars
  BY <1>5 DEF arVars, ArIInv, ArTypeOK, BlocksAreApart, RefusesOnlyWhenFull, Fits, Packed,
              FormerOutside, Outside
<1> QED
  BY <1>1, <1>2, <1>3, <1>4, <1>5 DEF ArNext

(* The strengthened invariant holds throughout. *)
LEMMA ArenaInvariant == ArSpec => []ArIInv
BY ArInitIsInductive, ArNextIsInductive, PTL DEF ArSpec

(* BlocksAreApart: blocks are aligned, inside their buffer and disjoint,   *)
(* whatever buffers follow each other and however they overlap.            *)
THEOREM ArenaBlocksAreApart == ArSpec => []BlocksAreApart
<1>1. ArIInv => BlocksAreApart
  BY DEF ArIInv
<1> QED
  BY ArenaInvariant, <1>1, PTL

(* RefusesOnlyWhenFull: no request is refused that some aligned place in   *)
(* the buffer could still serve.                                           *)
THEOREM ArenaRefusesOnlyWhenFull == ArSpec => []RefusesOnlyWhenFull
<1>1. ArIInv => RefusesOnlyWhenFull
  BY DEF ArIInv
<1> QED
  BY ArenaInvariant, <1>1, PTL

==============================================================================
