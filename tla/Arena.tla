------------------------------- MODULE Arena --------------------------------
(***************************************************************************)
(* lib/arena.c: a bump allocator over a buffer of the caller's.  An        *)
(* allocation is rounded up to 16 bytes; nothing is ever given back, but   *)
(* ar_init may hand over another buffer, or the same one again.            *)
(***************************************************************************)
EXTENDS Integers

CONSTANTS
    Word,           \* the values of size_t and uintptr_t are 0 .. Word - 1
    Buffers,        \* the arguments of ar_init: [at : address, size : length]
    Lengths,        \* the lengths callers pass
    StringLengths   \* the lengths of the strings they duplicate

(* A length is that of an object that could exist: it is not within 15 of  *)
(* the end of size_t, where the rounding wraps to zero.  A buffer ar_init  *)
(* may accept lies in the address space.                                   *)
ASSUME ArenaAssumption ==
    /\ Word \in Nat /\ Word >= 32 /\ Word % 16 = 0
    /\ Buffers \subseteq [at : 0 .. (Word - 1), size : 0 .. (Word - 1)]
    /\ \A b \in Buffers : b.at + b.size < Word
    /\ Lengths \subseteq 0 .. (Word - 16)
    /\ StringLengths \subseteq 0 .. (Word - 17)

VARIABLES
    buf,        \* __ar_buf
    size,       \* __ar_size
    used,       \* __ar_used
    blocks,     \* what was allocated from this buffer, [at, len], len as asked
    kept,       \* what was allocated from former buffers and not overwritten
    res         \* the last call: what it asked for, and "ok", "ENOMEM" or "EINVAL"

arVars == <<buf, size, used, blocks, kept, res>>

ArInit ==
    /\ buf = 0 /\ size = 0 /\ used = 0
    /\ blocks = {} /\ kept = {}
    /\ res = [asked |-> 0, ret |-> "ok"]

(* No byte of b is a byte of the n bytes from address at. *)
Outside(b, at, n) == b.at + b.len <= at \/ at + n <= b.at

Accepts(b) == b.size # 0 /\ b.size % 16 = 0 /\ b.at % 16 = 0

(* Who hands over a buffer gives up what was allocated from it before. *)
ar_init(b) ==
    IF Accepts(b)
    THEN /\ buf' = b.at /\ size' = b.size /\ used' = 0
         /\ kept' = {k \in blocks \cup kept : Outside(k, b.at, b.size)}
         /\ blocks' = {}
         /\ res' = [asked |-> 0, ret |-> "ok"]
    ELSE /\ res' = [asked |-> 0, ret |-> "EINVAL"]
         /\ UNCHANGED <<buf, size, used, blocks, kept>>

ar_capacity == size - used

(* Variant: a multiple of 16 gets 16 bytes more. *)
RoundPast(len) == (((len + 16) % Word) \div 16) * 16

(* (len + 0xf) & ~0xf in size_t. *)
RoundUp(len) == (((len + 15) % Word) \div 16) * 16

(* internal_ar_alloc *)
Allocate(len) ==
    IF ar_capacity < RoundUp(len)
    THEN /\ res' = [asked |-> len, ret |-> "ENOMEM"]
         /\ UNCHANGED <<buf, size, used, blocks, kept>>
    ELSE /\ blocks' = blocks \cup {[at |-> buf + used, len |-> len]}
         /\ used' = used + RoundUp(len)
         /\ res' = [asked |-> len, ret |-> "ok"]
         /\ UNCHANGED <<buf, size, kept>>

ar_alloc(len) == Allocate(len)

(* Variant: no room for the terminating zero is asked for, but it is       *)
(* written.                                                                *)
StrDupUnterminated(n) ==
    IF ar_capacity < RoundUp(n)
    THEN /\ res' = [asked |-> n + 1, ret |-> "ENOMEM"]
         /\ UNCHANGED <<buf, size, used, blocks, kept>>
    ELSE /\ blocks' = blocks \cup {[at |-> buf + used, len |-> n + 1]}
         /\ used' = used + RoundUp(n)
         /\ res' = [asked |-> n + 1, ret |-> "ok"]
         /\ UNCHANGED <<buf, size, kept>>

(* The string and its terminating zero are written into the whole block. *)
ar_strdup(n) == Allocate(n + 1)

ar_strndup(n, inlen) == Allocate((IF n < inlen THEN n ELSE inlen) + 1)

ArNext ==
    \/ \E b \in Buffers : ar_init(b)
    \/ \E len \in Lengths : ar_alloc(len)
    \/ \E n \in StringLengths : ar_strdup(n)
    \/ \E n \in StringLengths, inlen \in Lengths : ar_strndup(n, inlen)

ArSpec == ArInit /\ [][ArNext]_arVars

-----------------------------------------------------------------------------

Blocks == [at : Nat, len : Nat]

ArTypeOK ==
    /\ buf \in 0 .. (Word - 1)
    /\ size \in 0 .. (Word - 1)
    /\ used \in 0 .. size
    /\ blocks \subseteq Blocks
    /\ kept \subseteq Blocks
    /\ res \in [asked : Nat, ret : {"ok", "ENOMEM", "EINVAL"}]

(* Every block lies inside its buffer and begins at a multiple of 16, and  *)
(* no two blocks share a byte, those of former buffers included: what a    *)
(* caller writes into its block, and what the string functions write       *)
(* there, changes no other.                                                *)
BlocksAreApart ==
    /\ \A b \in blocks : /\ b.at % 16 = 0
                         /\ buf <= b.at /\ b.at + b.len <= buf + size
    /\ \A b, c \in blocks \cup kept : b # c => Outside(b, c.at, c.len)

(* An address where a block of len bytes could lie in the buffer. *)
Fits(p, len) ==
    /\ p % 16 = 0
    /\ buf <= p /\ p + len <= buf + size
    /\ \A b \in blocks : Outside(b, p, len)

(* ENOMEM is the truth: nowhere in the buffer is there an aligned place    *)
(* for what the call asked for.                                            *)
RefusesOnlyWhenFull ==
    res.ret = "ENOMEM" => \A p \in 0 .. (Word - 1) : ~Fits(p, res.asked)

-----------------------------------------------------------------------------
(***************************************************************************)
(* The inductive invariant                                                 *)
(***************************************************************************)

(* The blocks fill the buffer from its start up to `used`, and every 16    *)
(* bytes of that part hold a byte of a block.                              *)
Packed ==
    /\ buf % 16 = 0 /\ size % 16 = 0 /\ used % 16 = 0
    /\ buf + size < Word
    /\ \A b \in blocks : b.at + b.len <= buf + used
    /\ \A p \in 0 .. (Word - 1) :
           p % 16 = 0 /\ buf <= p /\ p < buf + used
               => \E b \in blocks : b.at <= p /\ p < b.at + b.len

(* The blocks of former buffers are not in this one. *)
FormerOutside == \A k \in kept : Outside(k, buf, size)

ArIInv ==
    /\ ArTypeOK
    /\ BlocksAreApart
    /\ RefusesOnlyWhenFull
    /\ Packed
    /\ FormerOutside
=============================================================================
