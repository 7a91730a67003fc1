------------------------------- MODULE Getopt -------------------------------
(***************************************************************************)
(* lib/getopt.c: each call of bt_getopt classifies the word of argv at     *)
(* cur_idx, and may take the next word as its value.  A word is what the   *)
(* code tells apart: whether it begins with a dash, which option it names  *)
(* and whether it carries a value itself (-Hvalue, --addr=value).          *)
(***************************************************************************)
EXTENDS Integers, Sequences, FiniteSets

CONSTANTS
    Words,      \* [kind, opt, inline]; kinds: plain, dash ("-"), short, long
    MaxArgc,    \* the longest argv
    ShortOpts,  \* the short_opt strings: sets of [opt, arg_req], or NULL
    LongOpts,   \* the long_opt tables: sequences of [opt, arg_req, val], or NULL
    NULL,
    Prefix      \* the pairs of names of which the first begins the second

(* bt_getopt_req_arg *)
ArgReq == {"EMPTY_STRUCT", "REQUIRED_VAL", "OPTIONAL_VAL", "NO_VAL"}

(* The answers that are no option; negative numbers in the code, while an  *)
(* option's letter and val are unsigned chars.                             *)
Codes == {"END", "UNKNOWN_OPT", "NON_OPT", "EINVAL", "MISSING_ARG"}

(* Pointers into argv: a word, or the value a word carries. *)
Whole(i)  == [word |-> i, part |-> "all"]
Inline(i) == [word |-> i, part |-> "value"]

ASSUME GetoptAssumption ==
    /\ MaxArgc \in Nat
    /\ \A w \in Words :
           w.kind \in {"plain", "dash", "short", "long"} /\ w.inline \in BOOLEAN
    /\ \A i \in 0 .. MaxArgc : Whole(i) # NULL /\ Inline(i) # NULL
    /\ \A table \in ShortOpts \ {NULL} : \A o \in table :
           /\ o.arg_req \in ArgReq \ {"EMPTY_STRUCT"} /\ o.opt \notin Codes
           /\ \A p \in table : p.opt = o.opt => p = o
    /\ \A table \in LongOpts \ {NULL} :
           /\ DOMAIN table = 1 .. Len(table) /\ Len(table) \in Nat
           /\ \A k \in DOMAIN table :
                  /\ table[k].arg_req \in ArgReq /\ table[k].val \notin Codes
                  /\ <<table[k].opt, table[k].opt>> \in Prefix

VARIABLES
    argv, short_opt, long_opt,  \* what the caller filled in
    cur_idx,    \* the index of the next word
    retval,     \* NULL, or a pointer into argv: which word, and "all" of it or
                \*   its inline "value"
    ret,        \* what the last call returned
    calls,      \* the answers so far: [at, ret, retval]
    fault       \* whether the NULL after the last word was dereferenced

given  == <<argv, short_opt, long_opt>>
goVars  == <<argv, short_opt, long_opt, cur_idx, retval, ret, calls, fault>>

argc == Len(argv)

WordAt(i) == argv[i + 1]

GoInit ==
    /\ argv \in UNION {[1 .. n -> Words] : n \in 0 .. MaxArgc}
    /\ short_opt \in ShortOpts
    /\ long_opt \in LongOpts
    /\ cur_idx = 0 /\ retval = NULL /\ ret = "none"
    /\ calls = <<>> /\ fault = FALSE

(* No command line at all. *)
GoIdle ==
    /\ argv = <<>> /\ short_opt = NULL /\ long_opt = NULL
    /\ cur_idx = 0 /\ retval = NULL /\ ret = "none"
    /\ calls = <<>> /\ fault = FALSE

cur_arg == WordAt(cur_idx)

(* *take_arg == '-' *)
Dashed(w) == w.kind # "plain"

(* What a call returns, and what it leaves in wr. *)
Answer(r, value, skip) ==
    /\ ret' = r
    /\ retval' = value
    /\ cur_idx' = cur_idx + skip
    /\ calls' = Append(calls, [at |-> cur_idx, ret |-> r, retval |-> value])
    /\ UNCHANGED <<given, fault>>

(* Variant: the next word is a value whatever it looks like. *)
AcceptsAnyWord(w) == TRUE

AcceptsWord(w) == ~Dashed(w)

(* An option with a value: its own, or the next word, which is read        *)
(* without asking whether there is one.                                    *)
AnswerWithValue(code, required) ==
    \/ /\ cur_arg.inline
       /\ Answer(code, Inline(cur_idx), 1)
    \/ /\ ~cur_arg.inline
       /\ cur_idx + 1 < argc
       /\ AcceptsWord(WordAt(cur_idx + 1))
       /\ Answer(code, Whole(cur_idx + 1), 2)
    \/ /\ ~cur_arg.inline
       /\ cur_idx + 1 < argc
       /\ ~AcceptsWord(WordAt(cur_idx + 1))
       /\ Answer(IF required THEN "MISSING_ARG" ELSE code, NULL, 1)
    \/ /\ ~cur_arg.inline
       /\ cur_idx + 1 = argc
       /\ fault' = TRUE
       /\ UNCHANGED <<given, cur_idx, retval, ret, calls>>

(* Variant: what follows the name in the word is not looked at. *)
BeginsName(o) == <<o.opt, cur_arg.opt>> \in Prefix

(* strncmp finds the option's name at the beginning of the word's, and the *)
(* word ends there or goes on with an equals sign.                         *)
Names(o) ==
    /\ <<o.opt, cur_arg.opt>> \in Prefix
    /\ o.opt = cur_arg.opt

First(entries) == CHOOSE k \in entries : \A j \in entries : k <= j

track_getopt_long ==
    LET matches == {k \in DOMAIN long_opt : Names(long_opt[k])}
        o       == long_opt[First(matches)]
    IN  \/ /\ long_opt = NULL
           /\ Answer("NON_OPT", Whole(cur_idx), 1)
        \/ /\ long_opt # NULL
           /\ matches = {}
           /\ Answer("UNKNOWN_OPT", NULL, 1)
        \/ /\ long_opt # NULL
           /\ matches # {}
           /\ \/ /\ o.arg_req \in {"REQUIRED_VAL", "OPTIONAL_VAL"}
                 /\ AnswerWithValue(o.val, o.arg_req = "REQUIRED_VAL")
              \/ /\ o.arg_req = "NO_VAL"
                 /\ Answer(o.val, NULL, 1)
              \/ /\ o.arg_req = "EMPTY_STRUCT"
                 /\ Answer("EINVAL", retval, 1)

(* Variant: every letter is followed by a colon. *)
EveryLetterTakesAValue(o) == TRUE

(* One colon after the letter: a required value, two: an optional one. *)
TakesValue(o) == o.arg_req # "NO_VAL"

track_getopt_short ==
    \/ /\ short_opt = NULL
       /\ Answer("NON_OPT", Whole(cur_idx), 1)
    \/ /\ short_opt # NULL
       /\ \A o \in short_opt : o.opt # cur_arg.opt
       /\ Answer("UNKNOWN_OPT", NULL, 1)
    \/ /\ short_opt # NULL
       /\ \E o \in short_opt :
             /\ o.opt = cur_arg.opt
             /\ IF TakesValue(o)
                THEN AnswerWithValue(cur_arg.opt, o.arg_req = "REQUIRED_VAL")
                ELSE Answer(cur_arg.opt, NULL, 1)

EndOfWords ==
    /\ cur_idx >= argc
    /\ ret' = "END"
    /\ retval' = NULL
    /\ UNCHANGED <<given, cur_idx, calls, fault>>

bt_getopt ==
    /\ ~fault
    /\ \/ EndOfWords
       \/ /\ cur_idx < argc
          /\ \/ cur_arg.kind = "long"  /\ track_getopt_long
             \/ cur_arg.kind = "short" /\ track_getopt_short
             \/ /\ cur_arg.kind \in {"plain", "dash"}
                /\ Answer("NON_OPT", Whole(cur_idx), 1)

GoSpec == GoInit /\ [][bt_getopt]_goVars

-----------------------------------------------------------------------------

(***************************************************************************)
(* What argv means, said without a parser: the need of the option a word   *)
(* names, and which words are values.                                      *)
(***************************************************************************)

(* What the option of word i needs and how it is reported, the entry that  *)
(* comes first in the table, if there is one.                              *)
Meanings(i) ==
    CASE WordAt(i).kind = "short" /\ short_opt # NULL ->
             {[need |-> o.arg_req, code |-> o.opt] : o \in {p \in short_opt : p.opt = WordAt(i).opt}}
      [] WordAt(i).kind = "long" /\ long_opt # NULL ->
             LET same == {k \in DOMAIN long_opt : long_opt[k].opt = WordAt(i).opt}
             IN  {[need |-> long_opt[k].arg_req, code |-> long_opt[k].val] :
                     k \in {j \in same : \A l \in same : j <= l}}
      [] OTHER -> {}

NeedOf(meanings) == IF meanings = {} THEN "unknown" ELSE (CHOOSE m \in meanings : TRUE).need

Need(i) == NeedOf(Meanings(i))

WantsValue(i) == Need(i) \in {"REQUIRED_VAL", "OPTIONAL_VAL"}

(* A value in a word of its own: it has no dash, and the word before it is *)
(* an option that wants a value and has none of its own.                   *)
IsValue(i) ==
    /\ i > 0
    /\ ~Dashed(WordAt(i))
    /\ WantsValue(i - 1) /\ ~WordAt(i - 1).inline

(* Every word is answered once, in order, and the words without an answer  *)
(* are exactly the values.                                                 *)
EachWordOnce ==
    /\ \A j \in DOMAIN calls, k \in DOMAIN calls : j < k => calls[j].at < calls[k].at
    /\ {calls[k].at : k \in DOMAIN calls} = {i \in 0 .. (cur_idx - 1) : ~IsValue(i)}

(* An option gets the value that belongs to it: its own, else the word     *)
(* after it if that is a value.  One that must have a value and has none   *)
(* is a missing argument, and a word that names no option is unknown or,   *)
(* without a table, no option.                                             *)
ValueOf(i) ==
    CASE ~WantsValue(i) -> NULL
      [] WantsValue(i) /\ WordAt(i).inline -> Inline(i)
      [] OTHER -> IF i + 1 < argc /\ IsValue(i + 1) THEN Whole(i + 1) ELSE NULL

IsOption(i) ==
    \/ WordAt(i).kind = "short" /\ short_opt # NULL
    \/ WordAt(i).kind = "long" /\ long_opt # NULL

RightAnswer(i, r, value) ==
    /\ ~IsOption(i) => r = "NON_OPT" /\ value = Whole(i)
    /\ IsOption(i) /\ r # "EINVAL" => value = ValueOf(i)
    /\ r = "UNKNOWN_OPT" <=> IsOption(i) /\ Need(i) = "unknown"
    /\ r = "MISSING_ARG" <=> Need(i) = "REQUIRED_VAL" /\ ValueOf(i) = NULL
    /\ r = "EINVAL" <=> Need(i) = "EMPTY_STRUCT"
    /\ r \notin Codes => \E m \in Meanings(i) : r = m.code

AnswersAreRight ==
    \A k \in DOMAIN calls : RightAnswer(calls[k].at, calls[k].ret, calls[k].retval)

(* The last word is an option that may take a value and carries none. *)
Dangling ==
    argc > 0 /\ WantsValue(argc - 1) /\ ~WordAt(argc - 1).inline

(* The NULL behind argv is dereferenced for a dangling option and for      *)
(* nothing else, whatever came before it: the scan faults at that word or, *)
(* when there is none, answers all of argv and reports the end.            *)
FaultIsAtTheEnd ==
    /\ fault => Dangling /\ cur_idx = argc - 1
    /\ ret = "END" => ~Dangling
    /\ cur_idx <= argc

(***************************************************************************)
(* The inductive invariant behind the three: the scan never stands at a    *)
(* value, and a dangling option is never jumped over.                      *)
(***************************************************************************)
GetoptTypeOK ==
    /\ argv \in Seq(Words) /\ argc <= MaxArgc
    /\ short_opt \in ShortOpts /\ long_opt \in LongOpts
    /\ cur_idx \in 0 .. argc
    /\ \E S : calls \in Seq(S)

AtAWord ==
    /\ cur_idx < argc => ~IsValue(cur_idx)
    /\ Dangling => cur_idx < argc

GetoptIInv ==
    /\ GetoptTypeOK /\ AtAWord
    /\ EachWordOnce /\ AnswersAreRight /\ FaultIsAtTheEnd
=============================================================================
