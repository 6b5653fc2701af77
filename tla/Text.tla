-------------------------------- MODULE Text --------------------------------
(***************************************************************************)
(* Texts as the codecs and the command parser of src/src/varicode/mod.rs   *)
(* and src/src/command.rs see them: a string is the sequence of its        *)
(* characters, a position counts from 1, and a missing character is "".    *)
(* All text is in upper case, as BuildFramesOptions::new makes it.         *)
(***************************************************************************)
EXTENDS Integers, Sequences, FiniteSets

(* The characters at positions i to j, as far as the text goes.            *)
Sub(s, i, j) == SubSeq(s, i, IF j > Len(s) THEN Len(s) ELSE j)

Char(s, i) == IF i \in 1..Len(s) THEN SubSeq(s, i, i) ELSE ""

Rest(s, i) == Sub(s, i, Len(s))

CharsOf(s) == {Char(s, i) : i \in 1..Len(s)}

Digits  == "0123456789"
Letters == "ABCDEFGHIJKLMNOPQRSTUVWXYZ"

Tick == "~"  \* stands for the backquote, which a TLA+ string cannot hold

Digit  == CharsOf(Digits)
Letter == CharsOf(Letters)
Alnum  == Digit \cup Letter
White  == {" ", "\t", "\n"}

(* The position of character c in an alphabet, counted from 0.             *)
IndexIn(alphabet, c) ==
  (CHOOSE i \in 1..Len(alphabet) : SubSeq(alphabet, i, i) = c) - 1

DigitValue == [c \in Digit |-> IndexIn(Digits, c)]

AllIn(s, S) == \A i \in 1..Len(s) : SubSeq(s, i, i) \in S

StartsAt(s, i, prefix) == Sub(s, i, i + Len(prefix) - 1) = prefix

StartsWith(s, prefix) == StartsAt(s, 1, prefix)

Contains(s, part) == \E i \in 1..Len(s) : StartsAt(s, i, part)

(* The first position from i on whose character is not in S.               *)
RunEnd(s, i, S) ==
  CHOOSE j \in i..(IF i > Len(s) THEN i ELSE Len(s) + 1) :
    Char(s, j) \notin S /\ \A k \in i..(j - 1) : Char(s, k) \in S

TrimStart(s) == Rest(s, RunEnd(s, 1, White))

TrimEnd(s) ==
  Sub(s, 1, CHOOSE j \in 0..Len(s) :
              /\ \A k \in (j + 1)..Len(s) : Char(s, k) \in White
              /\ j > 0 => Char(s, j) \notin White)

Trim(s) == TrimEnd(TrimStart(s))

(* The value of a decimal number with an optional sign; every number that  *)
(* is packed has at most two digits.                                       *)
IsNumber(s) ==
  LET digits == IF Char(s, 1) \in {"+", "-"} THEN Rest(s, 2) ELSE s
  IN  digits # "" /\ AllIn(digits, Digit)

Number(s) ==
  LET digits == IF Char(s, 1) \in {"+", "-"} THEN Rest(s, 2) ELSE s
      value[i \in 0..Len(digits)] ==
        IF i = 0 THEN 0 ELSE 10 * value[i - 1] + DigitValue[Char(digits, i)]
  IN  IF Char(s, 1) = "-" THEN - value[Len(digits)] ELSE value[Len(digits)]

(* The w low bits of n, the highest first, and back.                       *)
Bits(n, w) == [i \in 1..w |-> (n \div 2^(w - i)) % 2]

BitsValue(bits) ==
  LET value[i \in 0..Len(bits)] == IF i = 0 THEN 0 ELSE 2 * value[i - 1] + bits[i]
  IN  value[Len(bits)]
=============================================================================
