------------------------------ MODULE OldString ------------------------------
(***************************************************************************)
(* The older tree's lib/string.c: trims and a cut in the caller's buffer,  *)
(* and two functions that quote a string, for a shell and for a URL.  One  *)
(* call runs from its entry to its return, a step for each turn of a loop. *)
(* Memory is indexed from zero, as in C.                                   *)
(***************************************************************************)
EXTENDS Integers, FiniteSets, SequencesExt

CONSTANTS
    CutStrings,     \* C strings for the trims and trunc_str: functions from
                    \*   0 .. n to characters, the last one the NUL
    QuoteStrings,   \* C strings to quote
    CutLengths      \* the n of trunc_str

OsBlank == " "      \* space, newline, carriage return, vertical tab
OsNUL   == "0"

OsLen(s) == Cardinality(DOMAIN s) - 1

ASSUME OldStringAssumption ==
    /\ \A s \in CutStrings \cup QuoteStrings :
           /\ IsFiniteSet(DOMAIN s) /\ DOMAIN s # {}
           /\ DOMAIN s = 0 .. OsLen(s) /\ s[OsLen(s)] = OsNUL
    /\ CutLengths \subseteq Nat

VARIABLES
    os_call,    \* which function was called, and with what: [fn, given, len, raw]
    os_mem,     \* str, the caller's buffer
    os_out,     \* cmd or start, what a quoting function has written, a tuple
                \*   for each byte: <<c>>, or <<"high", c>> and <<"low", c>>
                \*   for the hexadecimal digits of c
    os,         \* pc, and the locals: head, tail, len, moved (move_t, move_h)
                \*   and x, the next character to quote
    os_ret      \* the result: [start, len], an index of os_mem and res_len

osVars == <<os_call, os_mem, os_out, os, os_ret>>

OsTrims  == {"trim_len", "trim_len_cpy"}
OsQuotes == {"escapeshellarg", "urlencode"}

Unset == [start |-> 0, len |-> 0]

(* Without a length escapeshellarg takes the whole C string. *)
OsLength ==
    IF os_call.fn = "escapeshellarg" /\ os_call.len = 0 THEN OsLen(os_call.given)
    ELSE os_call.len

(* trim and trim_cpy call the other two with the length of the C string.   *)
OsInit ==
    /\ \/ \E fn \in OsTrims, s \in CutStrings :
              \E len \in 0 .. OsLen(s) :
                  os_call = [fn |-> fn, given |-> s, len |-> len, raw |-> FALSE]
       \/ \E s \in CutStrings, n \in CutLengths :
              os_call = [fn |-> "trunc_str", given |-> s, len |-> n, raw |-> FALSE]
       \/ \E fn \in OsQuotes, s \in QuoteStrings, raw \in BOOLEAN :
              \E len \in 0 .. OsLen(s) :
                  /\ raw => fn = "urlencode"
                  /\ os_call = [fn |-> fn, given |-> s, len |-> len, raw |-> raw]
    /\ os_mem = os_call.given /\ os_out = <<>>
    /\ os = [pc |-> "enter", head |-> 0, tail |-> os_call.len - 1, len |-> OsLength,
             moved |-> FALSE, x |-> 0]
    /\ os_ret = Unset

(* No call at all. *)
OsIdle ==
    /\ os_call = [fn |-> "none", given |-> [i \in {0} |-> OsNUL], len |-> 0, raw |-> FALSE]
    /\ os_mem = os_call.given /\ os_out = <<>>
    /\ os = [pc |-> "done", head |-> 0, tail |-> -1, len |-> 0, moved |-> FALSE, x |-> 0]
    /\ os_ret = Unset

OsReturn(start, len) ==
    /\ os' = [os EXCEPT !.pc = "done"]
    /\ os_ret' = [start |-> start, len |-> len]

(***************************************************************************)
(* trim_len, trim_len_cpy and trunc_str                                    *)
(***************************************************************************)

OsHead ==
    /\ os.pc = "enter" /\ os_call.fn \in OsTrims
    /\ os' = IF os.len > 0 /\ os_mem[os.head] = OsBlank
             THEN [os EXCEPT !.head = @ + 1, !.len = @ - 1,
                             !.moved = os_call.fn = "trim_len_cpy"]
             ELSE [os EXCEPT !.pc = "tail"]
    /\ UNCHANGED <<os_call, os_mem, os_out, os_ret>>

OsTail ==
    /\ os.pc = "tail"
    /\ os.len > 0 /\ os_mem[os.tail] = OsBlank
    /\ os' = [os EXCEPT !.tail = @ - 1, !.len = @ - 1,
                        !.moved = @ \/ os_call.fn = "trim_len"]
    /\ UNCHANGED <<os_call, os_mem, os_out, os_ret>>

OsTailEnds == os.pc = "tail" /\ ~(os.len > 0 /\ os_mem[os.tail] = OsBlank)

(* trim_len cuts behind the text if it has passed a blank there. *)
OsTrimInPlace ==
    /\ OsTailEnds /\ os_call.fn = "trim_len"
    /\ os_mem' = IF os.len > 0 /\ os.moved THEN [os_mem EXCEPT ![os.tail + 1] = OsNUL]
                 ELSE os_mem
    /\ OsReturn(os.head, os.len)
    /\ UNCHANGED <<os_call, os_out>>

(* Variant: the terminator is put where the text ended before the move. *)
OsMovedTail(i) ==
    IF i < os.len THEN os_mem[os.head + i]
    ELSE IF i = os.tail + 1 THEN OsNUL ELSE os_mem[i]

OsMoved(i) ==
    IF i < os.len THEN os_mem[os.head + i] ELSE IF i = os.len THEN OsNUL ELSE os_mem[i]

(* trim_len_cpy writes only if it has passed a blank in front of the text. *)
OsTrimAndMove ==
    /\ OsTailEnds /\ os_call.fn = "trim_len_cpy"
    /\ os_mem' = IF os.moved THEN [i \in DOMAIN os_mem |-> OsMoved(i)] ELSE os_mem
    /\ OsReturn(0, os.len)
    /\ UNCHANGED <<os_call, os_out>>

(* strnlen looks at n characters and no further. *)
trunc_str ==
    /\ os.pc = "enter" /\ os_call.fn = "trunc_str"
    /\ os_mem' = IF os_call.len <= OsLen(os_mem) THEN [os_mem EXCEPT ![os_call.len] = OsNUL]
                 ELSE os_mem
    /\ OsReturn(0, 0)
    /\ UNCHANGED <<os_call, os_out>>

(***************************************************************************)
(* escapeshellarg and urlencode                                            *)
(***************************************************************************)

OsNext == os_call.given[os.x]

OsPut(what) ==
    /\ os_out' = os_out \o what
    /\ os' = [os EXCEPT !.x = @ + 1]

ShellOpens ==
    /\ os.pc = "enter" /\ os_call.fn = "escapeshellarg"
    /\ os_out' = <<<<"'">>>>
    /\ os' = [os EXCEPT !.pc = "quote"]
    /\ UNCHANGED <<os_call, os_mem, os_ret>>

(* Variant: a backslash is enough. *)
ShellBackslash == IF OsNext = "'" THEN <<<<"\\">>, <<"'">>>> ELSE <<<<OsNext>>>>

(* A quote is written by leaving the quotes, a backslash and coming back. *)
ShellQuoted ==
    IF OsNext = "'" THEN <<<<"'">>, <<"\\">>, <<"'">>, <<"'">>>> ELSE <<<<OsNext>>>>

ShellTurn ==
    /\ os.pc = "quote" /\ os_call.fn = "escapeshellarg"
    /\ os.x < os.len
    /\ OsPut(ShellQuoted)
    /\ UNCHANGED <<os_call, os_mem, os_ret>>

ShellCloses ==
    /\ os.pc = "quote" /\ os_call.fn = "escapeshellarg"
    /\ os.x = os.len
    /\ os_out' = Append(os_out, <<"'">>)
    /\ OsReturn(0, Len(os_out'))
    /\ UNCHANGED <<os_call, os_mem>>

(* The letters, the digits, minus, dot and underscore; the tilde is one of *)
(* them in a raw encoding only.                                            *)
Unreserved(c) == c \in {"a", "_"} \/ (c = "~" /\ os_call.raw)

(* hexchars[c >> 4] and hexchars[c & 15] *)
Percent(c) == <<<<"%">>, <<"high", c>>, <<"low", c>>>>

UrlQuoted ==
    IF OsNext = " " /\ ~os_call.raw THEN <<<<"+">>>>
    ELSE IF Unreserved(OsNext) THEN <<<<OsNext>>>>
    ELSE Percent(OsNext)

UrlTurn ==
    /\ os.pc = "enter" /\ os_call.fn = "urlencode"
    /\ os.x < os.len
    /\ OsPut(UrlQuoted)
    /\ UNCHANGED <<os_call, os_mem, os_ret>>

UrlEnds ==
    /\ os.pc = "enter" /\ os_call.fn = "urlencode"
    /\ os.x = os.len
    /\ OsReturn(0, Len(os_out))
    /\ UNCHANGED <<os_call, os_mem, os_out>>

OsStep ==
    \/ OsHead \/ OsTail \/ OsTrimInPlace \/ OsTrimAndMove \/ trunc_str
    \/ ShellOpens \/ ShellTurn \/ ShellCloses \/ UrlTurn \/ UrlEnds

OsSpec == OsInit /\ [][OsStep]_osVars

-----------------------------------------------------------------------------

(* What was to be trimmed: its characters that are not blank. *)
OsSolid == {i \in 0 .. os_call.len - 1 : os_call.given[i] # OsBlank}

OsFirst == IF OsSolid = {} THEN os_call.len
           ELSE CHOOSE i \in OsSolid : \A j \in OsSolid : i <= j

OsSize == IF OsSolid = {} THEN 0
          ELSE (CHOOSE i \in OsSolid : \A j \in OsSolid : j <= i) - OsFirst + 1

(* The only blanks are behind the text. *)
OnlyBehind == OsFirst = 0 /\ OsSize < os_call.len

(* A trim returns the text between the first and the last character that   *)
(* is not blank and its length, and touches nothing outside.  Of a whole C *)
(* string trim_len leaves a C string that ends with the text; trim_len_cpy *)
(* does if there was a blank in front, and else leaves the blanks behind   *)
(* the text where they are.  The cut changes one byte.                     *)
OldCutsAreExact ==
    LET given == os_call.given
        n     == os_call.len
        at    == os_ret.start
    IN  /\ os.pc = "done" /\ os_call.fn \in OsTrims =>
               /\ os_ret = [start |-> IF os_call.fn = "trim_len" THEN OsFirst ELSE 0,
                            len |-> OsSize]
               /\ \A i \in 0 .. OsSize - 1 : os_mem[at + i] = given[OsFirst + i]
               /\ \A i \in DOMAIN os_mem \ (at .. at + OsSize) : os_mem[i] = given[i]
               /\ n = OsLen(given) =>
                      (os_mem[at + OsSize] = OsNUL
                          <=> ~(os_call.fn = "trim_len_cpy" /\ OnlyBehind))
        /\ os.pc = "done" /\ os_call.fn = "trunc_str" =>
               \A i \in DOMAIN os_mem : os_mem[i] = IF i = n THEN OsNUL ELSE given[i]

(* trim_len_cpy is "Same as trim_len", says the header: of a whole C string *)
(* either leaves a C string that ends where the length it returns says.    *)
SameAsTrimLen ==
    os.pc = "done" /\ os_call.fn \in OsTrims /\ os_call.len = OsLen(os_call.given) =>
        os_mem[os_ret.start + os_ret.len] = OsNUL

(* How a shell reads a word, byte by byte. *)
ShellReads(state, byte) ==
    LET c == byte[1]
    IN  CASE state.mode = "escaped" -> [mode |-> "bare", text |-> Append(state.text, c)]
          [] state.mode = "bare" /\ c = "'"   -> [state EXCEPT !.mode = "quoted"]
          [] state.mode = "bare" /\ c = "\\"  -> [state EXCEPT !.mode = "escaped"]
          [] state.mode = "quoted" /\ c = "'" -> [state EXCEPT !.mode = "bare"]
          [] state.mode = "quoted" /\ c # "'" -> [state EXCEPT !.text = Append(@, c)]
          [] OTHER                            -> [state EXCEPT !.mode = "exposed"]

(* How a server reads a part of a URL: two hexadecimal digits of the same  *)
(* character behind a percent sign and, unless the encoding is raw, a plus *)
(* sign for a space.                                                       *)
UrlReads(state, byte) ==
    LET reads(c) == [state EXCEPT !.mode = "bare", !.text = Append(@, c)]
    IN  CASE state.mode = "bare" /\ byte = <<"%">> -> [state EXCEPT !.mode = "high"]
          [] state.mode = "bare" /\ byte = <<"+">> /\ ~os_call.raw -> reads(" ")
          [] state.mode = "bare" /\ Len(byte) = 1 /\ Unreserved(byte[1]) -> reads(byte[1])
          [] state.mode = "high" /\ Len(byte) = 2 /\ byte[1] = "high" ->
                 [state EXCEPT !.mode = "low"]
          [] state.mode = "low" /\ Len(byte) = 2 /\ byte[1] = "low" -> reads(byte[2])
          [] OTHER -> [state EXCEPT !.mode = "exposed"]

Reader(state, byte) ==
    IF os_call.fn = "urlencode" THEN UrlReads(state, byte) ELSE ShellReads(state, byte)

(* What has been read after k bytes of the output. *)
ReadUpTo[k \in 0 .. Len(os_out)] ==
    IF k = 0 THEN [mode |-> "bare", text |-> <<>>] ELSE Reader(ReadUpTo[k - 1], os_out[k])

(* The first k characters that were given. *)
GivenUpTo(k) == [i \in 1 .. k |-> os_call.given[i - 1]]

OnlyQuotes(k) == \A i \in 0 .. k - 1 : os_call.given[i] = "'"

(* What the function asks malloc for if the caller brings no buffer.  A    *)
(* write behind it does not stop the model, nor the process with glibc,    *)
(* which rounds the size up by enough.                                     *)
OsAllocated == IF os_call.fn = "urlencode" THEN 3 * os.len + 1 ELSE 4 * os.len + 1

(* Whoever reads the quoted string gets back the string that was given, to *)
(* the last character and with nothing left open.  The output, with its    *)
(* NUL, fits into what the function allocates, unless it is for a shell    *)
(* and there is nothing but quotes to quote, or nothing at all.            *)
QuotesDecode ==
    os.pc = "done" /\ os_call.fn \in OsQuotes =>
        /\ os_ret.len = Len(os_out)
        /\ ReadUpTo[Len(os_out)] = [mode |-> "bare", text |-> GivenUpTo(os.len)]
        /\ (Len(os_out) < OsAllocated <=> os_call.fn = "urlencode" \/ ~OnlyQuotes(os.len))

(* escapeshellarg's comment on its allocation, "Worst case": no string has *)
(* an output that does not fit.                                            *)
WorstCaseFits ==
    os.pc = "done" /\ os_call.fn = "escapeshellarg" => Len(os_out) < OsAllocated

-----------------------------------------------------------------------------
(***************************************************************************)
(* The inductive invariant                                                 *)
(***************************************************************************)

OsTypeOK ==
    /\ os_call.fn \in OsTrims \cup OsQuotes \cup {"trunc_str"}
    /\ os_call.given \in CutStrings \cup QuoteStrings
    /\ os_call.fn = "trunc_str" => os_call.len \in Nat
    /\ os_call.fn # "trunc_str" => os_call.len \in 0 .. OsLen(os_call.given)
    /\ os \in [pc : {"enter", "tail", "quote", "done"}, head : Nat, tail : Int, len : Nat,
               moved : BOOLEAN, x : Nat]
    /\ os.pc = "tail" => os_call.fn \in OsTrims
    /\ os.pc = "quote" => os_call.fn = "escapeshellarg"
    /\ os.pc = "enter" => os_mem = os_call.given

(* What the two scans of a trim have passed is blank. *)
OsBlankIn(lo, hi) == \A i \in lo .. hi : os_call.given[i] = OsBlank

OsScans ==
    os_call.fn \in OsTrims /\ os.pc \in {"enter", "tail"} =>
        /\ os_mem = os_call.given
        /\ os.head <= os_call.len /\ os.tail < os_call.len /\ os.len = os.tail - os.head + 1
        /\ OsBlankIn(0, os.head - 1) /\ OsBlankIn(os.tail + 1, os_call.len - 1)
        /\ os.moved <=> IF os_call.fn = "trim_len_cpy" THEN os.head > 0
                        ELSE os.tail < os_call.len - 1
        /\ os.pc = "enter" => os.tail = os_call.len - 1
        /\ os.pc = "tail" /\ os.len = 0 => os.head = os_call.len
        /\ os.pc = "tail" /\ os.len > 0 => os_call.given[os.head] # OsBlank

OsBytes ==
    LET chars == {os_call.given[i] : i \in DOMAIN os_call.given} \cup {"'", "\\", "%", "+"}
    IN  {<<c>> : c \in chars} \cup {<<"high", c>> : c \in chars} \cup {<<"low", c>> : c \in chars}

(* The reader has what was taken from the input, between its quotes. *)
OsReads ==
    os_call.fn \in OsQuotes =>
        /\ os_out \in Seq(OsBytes)
        /\ os.x <= os.len /\ os.len <= OsLen(os_call.given)
        /\ ReadUpTo[0] = [mode |-> "bare", text |-> <<>>]
        /\ \A k \in 1 .. Len(os_out) : ReadUpTo[k] = Reader(ReadUpTo[k - 1], os_out[k])
        /\ os_call.fn = "escapeshellarg" /\ os.pc = "enter" => os.x = 0 /\ os_out = <<>>
        /\ os.pc # "done" =>
               ReadUpTo[Len(os_out)] = [mode |-> IF os.pc = "quote" THEN "quoted" ELSE "bare",
                                        text |-> GivenUpTo(os.x)]

(* k characters of a string for a shell, behind the opening quote. *)
ShellSize(k, size) == IF OnlyQuotes(k) THEN size = 4 * k + 1 ELSE size <= 4 * k - 2

OsSizes ==
    /\ os_call.fn = "urlencode" => Len(os_out) <= 3 * os.x
    /\ os.pc = "quote" => ShellSize(os.x, Len(os_out))

OsIInv == OsTypeOK /\ OsScans /\ OsReads /\ OsSizes /\ OldCutsAreExact /\ QuotesDecode
=============================================================================
