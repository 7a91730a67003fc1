------------------------------ MODULE MCParts -------------------------------
(* Every part on a small instance. *)
EXTENDS Parts, MCOldString

(* Two buffers that overlap, and three that are refused. *)
SomeBuffers == { [at |-> 16, size |-> 48], [at |-> 48, size |-> 32],
                 [at |-> 24, size |-> 16], [at |-> 16, size |-> 0], [at |-> 16, size |-> 24] }

Options == {"r", "o", "n", "u"}

LongNames == {"req", "opt", "no", "require", "empty"}

SomeWords ==
    {[kind |-> k, opt |-> "", inline |-> FALSE] : k \in {"plain", "dash"}}
        \cup [kind : {"short"}, opt : Options, inline : BOOLEAN]
        \cup [kind : {"long"}, opt : LongNames, inline : BOOLEAN]

(* "r:o::n" *)
SomeShort == { NULL, { [opt |-> "r", arg_req |-> "REQUIRED_VAL"],
                       [opt |-> "o", arg_req |-> "OPTIONAL_VAL"],
                       [opt |-> "n", arg_req |-> "NO_VAL"] } }

(* The second "req" is never reached; "require" is in no table. *)
SomeLong == { NULL, << [opt |-> "req", arg_req |-> "REQUIRED_VAL", val |-> "r"],
                       [opt |-> "opt", arg_req |-> "OPTIONAL_VAL", val |-> "o"],
                       [opt |-> "req", arg_req |-> "NO_VAL", val |-> "n"],
                       [opt |-> "no", arg_req |-> "NO_VAL", val |-> "n"],
                       [opt |-> "empty", arg_req |-> "EMPTY_STRUCT", val |-> "e"] >> }

SomePrefix == {<<n, n>> : n \in LongNames} \cup {<<"req", "require">>}

(* The string functions on short strings of all shapes. *)
ToTrim == UNION {[0 .. n -> {Blank, "a", "b", NUL}] : n \in 0 .. 4}

ToEscape == UNION {[0 .. n -> {"a", "<", "&", "apostrophe", NUL}] : n \in 0 .. 2}

SomeTexts == ToTrim \cup ToEscape

(* An entry with one assertion and one with two. *)
OldSuite == <<1, 2>>
=============================================================================
