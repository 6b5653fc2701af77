-------------------------------- MODULE Jsc --------------------------------
(***************************************************************************)
(* Texts in bits: the dictionary code of src/src/varicode/jsc.rs and the   *)
(* Huffman code it replaced.  The dictionary itself is a table of a        *)
(* quarter of a million words; Ranked holds those a model needs, in the    *)
(* order in which a lookup prefers them, with their index in the real one. *)
(***************************************************************************)
EXTENDS Text

CONSTANT Ranked  \* a sequence of [text, index]

ASSUME RankedAssumption ==
  \A i \in DOMAIN Ranked : Ranked[i].text # "" /\ Ranked[i].index \in Nat

FrameBits == 72

ShortCodes == 7  \* a nibble below it ends a word
LongCodes  == 9  \* the other nibbles continue it

RECURSIVE Continuation(_)
Continuation(x) ==
  IF x = 0 THEN << >>
  ELSE Continuation((x - 1) \div LongCodes) \o Bits(((x - 1) % LongCodes) + ShortCodes, 4)

(* Mutant: the space bit is the first of the last nibble.                  *)
CodewordSpaceFirst(index, separate) ==
  Continuation(index \div ShortCodes)
    \o Bits((index % ShortCodes) + (IF separate THEN 16 ELSE 0), 5)

(* The bits of a word; the last says whether a space follows it.           *)
Codeword(index, separate) ==
  Continuation(index \div ShortCodes)
    \o Bits(2 * (index % ShortCodes) + (IF separate THEN 1 ELSE 0), 5)

(* The best word a text begins with.                                       *)
WordsAt(s, p) == {i \in DOMAIN Ranked : StartsAt(s, p, Ranked[i].text)}

LookupBytes(s, p) == Ranked[CHOOSE i \in WordsAt(s, p) : \A j \in WordsAt(s, p) : i <= j]

(* The pieces of one word of the text.  A character that is in no word     *)
(* ends this word, and nothing else.                                       *)
RECURSIVE WordPieces(_, _, _)
WordPieces(word, p, isLastWord) ==
  IF p > Len(word) \/ WordsAt(word, p) = {} THEN << >>
  ELSE LET size == Len(LookupBytes(word, p).text)
       IN  << [index |-> LookupBytes(word, p).index, size |-> size,
               separate |-> ~ isLastWord /\ p + size > Len(word)] >>
             \o WordPieces(word, p + size, isLastWord)

(* A text is split at its spaces; a space too many is a word of its own.   *)
RECURSIVE Pieces(_, _)
Pieces(s, p) ==
  LET spaceAt == RunEnd(s, p, CharsOf(s) \ {" "})
      spaces  == WordsAt(" ", 1)
  IN  IF spaceAt > Len(s) THEN WordPieces(Rest(s, p), 1, TRUE)
      ELSE (IF spaceAt > p THEN WordPieces(Sub(s, p, spaceAt - 1), 1, FALSE)
            ELSE IF spaces = {} THEN << >>
            ELSE << [index |-> LookupBytes(" ", 1).index, size |-> 1, separate |-> FALSE] >>)
           \o Pieces(s, spaceAt + 1)

(* One zero, then ones: what the receiver takes off again.                 *)
Padded(bits) == bits \o [i \in 1..(FrameBits - Len(bits)) |-> IF i = 1 THEN 0 ELSE 1]

(* The frame takes pieces while a bit is left for the padding.             *)
FramePieces(pieces, prefix) ==
  LET code[n \in 0..Len(pieces)] ==
        IF n = 0 THEN prefix ELSE code[n - 1] \o Codeword(pieces[n].index, pieces[n].separate)
      used[n \in 0..Len(pieces)] ==
        IF n = 0 THEN 0 ELSE used[n - 1] + pieces[n].size + (IF pieces[n].separate THEN 1 ELSE 0)
      n == CHOOSE k \in 0..Len(pieces) :
             /\ Len(code[k]) < FrameBits
             /\ k < Len(pieces) => Len(code[k + 1]) >= FrameBits
  IN  [bits |-> Padded(code[n]), consumed |-> used[n]]

CompressFrame(s, prefix) == FramePieces(Pieces(s, 1), prefix)
-----------------------------------------------------------------------------
(***************************************************************************)
(* Back to text.  Base(k) words have less than k continuing nibbles; an    *)
(* index the dictionary lacks ends the text.                               *)
(***************************************************************************)
Base(k) == ShortCodes * ((LongCodes^k - 1) \div (LongCodes - 1))

MostContinued == 7  \* base has no more entries, and no index as many nibbles

RECURSIVE DecompressFrom(_, _, _, _)
DecompressFrom(bits, i, j, k) ==
  LET nibble == BitsValue(SubSeq(bits, i, i + 3))
      index  == j * ShortCodes + nibble + Base(k)
      known  == {w \in DOMAIN Ranked : Ranked[w].index = index}
  IN  IF i + 3 > Len(bits) \/ k > MostContinued THEN ""
      ELSE IF nibble >= ShortCodes
      THEN DecompressFrom(bits, i + 4, j * LongCodes + nibble - ShortCodes, k + 1)
      ELSE IF known = {} THEN ""
      ELSE Ranked[CHOOSE w \in known : TRUE].text
             \o (IF i + 4 <= Len(bits) /\ bits[i + 4] = 1 THEN " " ELSE "")
             \o DecompressFrom(bits, i + 5, 0, 0)

Decompress(bits) == DecompressFrom(bits, 1, 0, 0)
-----------------------------------------------------------------------------
(***************************************************************************)
(* The Huffman code of the data frames before version 2.2.                 *)
(***************************************************************************)
HuffTable ==
  << << " ", "01" >>, << "E", "100" >>, << "T", "1101" >>, << "A", "0011" >>,
     << "O", "11111" >>, << "I", "11100" >>, << "N", "10111" >>, << "S", "10100" >>,
     << "H", "00011" >>, << "R", "00000" >>, << "D", "111011" >>, << "L", "110011" >>,
     << "C", "110001" >>, << "U", "101101" >>, << "M", "101011" >>, << "W", "001011" >>,
     << "F", "001001" >>, << "G", "000101" >>, << "Y", "000011" >>, << "P", "1111011" >>,
     << "B", "1111001" >>, << ".", "1110100" >>, << "V", "1100101" >>, << "K", "1100100" >>,
     << "-", "1100001" >>, << "+", "1100000" >>, << "?", "1011001" >>, << "!", "1011000" >>,
     << "\"", "1010101" >>, << "X", "1010100" >>, << "0", "0010101" >>, << "J", "0010100" >>,
     << "1", "0010001" >>, << "Q", "0010000" >>, << "2", "0001001" >>, << "Z", "0001000" >>,
     << "3", "0000101" >>, << "5", "0000100" >>, << "4", "11110101" >>, << "9", "11110100" >>,
     << "8", "11110001" >>, << "6", "11110000" >>, << "7", "11101011" >>, << "/", "11101010" >> >>

HuffCode == [i \in DOMAIN HuffTable |->
              LET digits == HuffTable[i][2] IN [b \in 1..Len(digits) |-> DigitValue[Char(digits, b)]]]

HuffIndex(c) == {i \in DOMAIN HuffTable : HuffTable[i][1] = c}

(* A character without a code, met before the frame is full, leaves the    *)
(* whole frame unpacked.                                                   *)
RECURSIVE HuffFrom(_, _, _)
HuffFrom(s, i, bits) ==
  LET code == HuffCode[CHOOSE h \in HuffIndex(Char(s, i)) : TRUE]
  IN  IF i > Len(s) THEN [bits |-> Padded(bits), consumed |-> i - 1]
      ELSE IF HuffIndex(Char(s, i)) = {} THEN [bits |-> << >>, consumed |-> 0]
      ELSE IF Len(bits) + Len(code) >= FrameBits THEN [bits |-> Padded(bits), consumed |-> i - 1]
      ELSE HuffFrom(s, i + 1, bits \o code)

PackHuffMessage(s, prefix) == HuffFrom(s, 1, prefix)

RECURSIVE HuffDecode(_)
HuffDecode(bits) ==
  LET next == {i \in DOMAIN HuffCode :
                 /\ Len(HuffCode[i]) <= Len(bits)
                 /\ SubSeq(bits, 1, Len(HuffCode[i])) = HuffCode[i]}
      i == CHOOSE h \in next : TRUE
  IN  IF next = {} THEN ""
      ELSE HuffTable[i][1] \o HuffDecode(SubSeq(bits, Len(HuffCode[i]) + 1, Len(bits)))
=============================================================================
