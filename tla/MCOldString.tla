---------------------------- MODULE MCOldString -----------------------------
(* OldString on short strings. *)
EXTENDS OldString

(* C strings over some characters, of at most so many. *)
CStrings(chars, longest) ==
    UNION {{[i \in 0 .. n |-> IF i < n THEN s[i + 1] ELSE OsNUL] : s \in [1 .. n -> chars]} :
              n \in 0 .. longest}

ToCut   == CStrings({OsBlank, "a", "b"}, 4)
ToQuote == CStrings({"'", "\\", "a", " ", "~", "+", "%"}, 3)
=============================================================================
