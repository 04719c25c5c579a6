---------------------------- MODULE StringBuffer ----------------------------
(***************************************************************************)
(* A mutable string of datum.c, as the lexer uses one: UTF-16 units in a   *)
(* buffer, a length, and the hash code once it was asked for.  A cached    *)
(* hash code is represented by the text it was computed from.              *)
(***************************************************************************)
EXTENDS Integers, Sequences

CONSTANTS
    Units,    \* UTF-16 units
    Chars,    \* characters: sequences of one or two units
    NoHash,   \* no hash code is cached
    Initial,  \* the capacity at first
    MaxText   \* bound: length of the text

ASSUME StringAssumption ==
    /\ Initial \in Nat /\ MaxText \in Nat /\ 2 <= MaxText
    /\ \A ch \in Chars : ch \in Seq(Units) /\ Len(ch) \in 1..2

VARIABLES
    text,   \* the units up to the length
    capac,  \* units the buffer has room for, besides the terminator
    hash,   \* the cached hash code
    spill   \* the most units written past the buffer

svars == <<text, capac, hash, spill>>

(* A buffer of capacity k has k + 1 units: what is written when n units    *)
(* and the terminator are.                                                 *)
Spilled(n, k) == IF n > k THEN n - k ELSE 0
MaxOf(m, n) == IF m > n THEN m ELSE n

SInit ==
    /\ text = <<>>
    /\ capac = Initial
    /\ hash = NoHash
    /\ spill = 0

(* Faulty Full: grows only once the text is longer than the capacity.      *)
FullLate == Len(text) > capac

(* ss_enlarge to 2 * (k + 8) bytes; one unit of them is the terminator's.  *)
Full == Len(text) >= capac
Enlarged(k) == k + 7

Changed(t) == text' = t /\ hash' = NoHash

SsAdd(ch) ==
    /\ Len(text) + Len(ch) <= MaxText
    /\ Changed(text \o ch)
    /\ capac' = IF Full THEN Enlarged(capac) ELSE capac
    /\ spill' = MaxOf(spill, Spilled(Len(text) + Len(ch), capac'))

(* Faulty SsDec: the cached hash code stays.                               *)
SsDecKeepingHash(n) ==
    /\ n <= Len(text)
    /\ text' = SubSeq(text, 1, Len(text) - n)
    /\ UNCHANGED <<hash, capac, spill>>

SsDec(n) ==
    /\ n <= Len(text)
    /\ Changed(SubSeq(text, 1, Len(text) - n))
    /\ UNCHANGED <<capac, spill>>

SsClear ==
    /\ Changed(<<>>)
    /\ UNCHANGED <<capac, spill>>

(* ss_set_u cuts what the buffer has no room for.                          *)
SsSet(t) ==
    /\ Changed(SubSeq(t, 1, IF Len(t) <= capac THEN Len(t) ELSE capac))
    /\ UNCHANGED <<capac, spill>>

SsHashCode ==
    /\ hash = NoHash
    /\ hash' = text
    /\ UNCHANGED <<text, capac, spill>>

SNext ==
    \/ \E ch \in Chars : SsAdd(ch)
    \/ \E n \in 1..2 : SsDec(n)
    \/ SsClear
    \/ \E ch \in Chars : SsSet(ch)
    \/ SsHashCode

SSpec == SInit /\ [][SNext]_svars

-----------------------------------------------------------------------------
STypeOK ==
    /\ Len(text) \in 0..MaxText
    /\ capac \in Nat /\ spill \in Nat

(* A cached hash code is that of the text as it is: a name is looked up   *)
(* under the code of the buffer it was read into, whatever the lexer did   *)
(* with the buffer before.                                                 *)
HashIsOfText == hash # NoHash => hash = text

(* ss_add tests for room for one unit: at the end of the buffer a          *)
(* character of two units pushes the terminator one unit past it, and      *)
(* nothing is ever written further.                                        *)
SpillsOneUnit == spill <= 1
=============================================================================
