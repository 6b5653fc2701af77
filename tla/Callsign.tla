------------------------------ MODULE Callsign ------------------------------
(***************************************************************************)
(* Callsigns: which texts are calls (src/src/command.rs), and how a call,  *)
(* a grid or a number is packed into the bits of a frame and read back     *)
(* (src/src/varicode/mod.rs).                                              *)
(***************************************************************************)
EXTENDS Text

(***************************************************************************)
(* The shape of a call.                                                    *)
(***************************************************************************)
IsAffix(s) == Len(s) \in 1..4 /\ AllIn(s, Alnum)

(* One or two characters, of which the next is a digit, and up to three    *)
(* letters.                                                                *)
IsBaseCall(call) ==
  /\ Len(call) \in 2..6
  /\ \E d \in {2, 3} :
       /\ Char(call, d) \in Digit
       /\ AllIn(Sub(call, 1, d - 1), Alnum)
       /\ AllIn(Rest(call, d + 1), Letter)
       /\ Len(call) - d <= 3

HasLetterDigitPair(call) ==
  \E i \in 1..(Len(call) - 1) :
    << Char(call, i), Char(call, i + 1) >> \in (Digit \X Letter) \cup (Letter \X Digit)

Hidden == "<....>"  \* stands for a call that is sent in a frame of its own

NBaseCall == 37 * 36 * 10 * 27 * 27 * 27

(* Calls with a code of their own: BaseCalls[i] is packed as NBaseCall + i.*)
BaseCalls ==
  << Hidden, "@ALLCALL", "@JS8NET", "@DX/NA", "@DX/SA", "@DX/EU", "@DX/AS",
     "@DX/AF", "@DX/OC", "@DX/AN", "@REGION/1", "@REGION/2", "@REGION/3",
     "@GROUP/0", "@GROUP/1", "@GROUP/2", "@GROUP/3", "@GROUP/4", "@GROUP/5",
     "@GROUP/6", "@GROUP/7", "@GROUP/8", "@GROUP/9", "@COMMAND", "@CONTROL",
     "@NET", "@NTS", "@RESERVE/0", "@RESERVE/1", "@RESERVE/2", "@RESERVE/3",
     "@RESERVE/4", "@APRSIS", "@RAGCHEW", "@JS8", "@EMCOMM", "@ARES", "@MARS",
     "@AMRRON", "@RACES", "@RAYNET", "@RADAR", "@SKYWARN", "@CQ", "@HB", "@QSO",
     "@QSOPARTY", "@CONTEST", "@FIELDDAY", "@SOTA", "@IOTA", "@POTA", "@QRP",
     "@QRO" >>

BaseCallSet == {BaseCalls[i] : i \in DOMAIN BaseCalls}

WithoutPortable(call) ==
  IF Len(call) >= 2 /\ Rest(call, Len(call) - 1) = "/P"
  THEN Sub(call, 1, Len(call) - 2) ELSE call

IsValidBase(call) ==
  LET base == WithoutPortable(call)
  IN  IsBaseCall(base) /\ Len(base) > 2 /\ HasLetterDigitPair(base)

(* At most nine characters besides the slashes; what stands before the     *)
(* first slash is not a call with a code of its own.                       *)
IsValidCompound(call) ==
  LET slashes == {i \in 1..Len(call) : Char(call, i) = "/"}
  IN  /\ Len(call) - Cardinality(slashes) <= 9
      /\ IF slashes # {}
         THEN Sub(call, 1, (CHOOSE i \in slashes : \A j \in slashes : i <= j) - 1)
                \notin BaseCallSet
         ELSE Char(call, 1) = "@" \/ (Len(call) > 2 /\ HasLetterDigitPair(call))

(* Up to three groups of at most three characters, the first not empty,    *)
(* with or without a slash between them; an @ may stand in front, twice.   *)
HasCompoundShape(call) ==
  \E body \in {call} \cup (IF Char(call, 1) = "@" THEN {Rest(call, 2)} ELSE {}) :
    /\ Char(body, Len(body)) \in Alnum
    /\ \A i \in 1..Len(body) : Char(body, i) \in Alnum \cup {"/"} \cup (IF i = 1 THEN {"@"} ELSE {})
    /\ \E a \in 1..3, b \in 0..3, slashA, slashB \in 0..1 :
         /\ a <= Len(body)
         /\ slashA = 1 => Char(body, a + 1) = "/"
         /\ slashB = 1 => Char(body, a + slashA + b + 1) = "/"
         /\ Len(body) - (a + slashA + b + slashB) \in 0..3

IsValidCall(call) ==
  \/ call = Hidden
  \/ IsValidBase(call)
  \/ IsValidCompound(call) /\ HasCompoundShape(call)

IsCompoundCall(call) ==
  /\ Char(call, 1) = "@" \/ ~ IsValidBase(call)
  /\ IsValidCompound(call) /\ HasCompoundShape(call)

(* Four, six, ... twelve characters: letters and digits by pairs.          *)
IsGrid(s) ==
  /\ Len(s) \in {4, 6, 8, 10, 12}
  /\ \A i \in 1..Len(s) :
       LET pair == (i - 1) \div 2
       IN  IF pair % 2 = 1 THEN Char(s, i) \in Digit
           ELSE Char(s, i) \in CharsOf(Sub(Letters, 1, IF pair = 0 THEN 18 ELSE 24))
-----------------------------------------------------------------------------
(***************************************************************************)
(* A base call in 28 bits and a bit for "/P".  Six characters, the third a *)
(* digit: a call whose digit is the second gets a space in front.          *)
(***************************************************************************)
Alphanumeric == Digits \o Letters \o " /@"

AlnumIdx == [c \in CharsOf(Alphanumeric) |-> IndexIn(Alphanumeric, c)]

AlnumChar(i) == Char(Alphanumeric, i + 1)

Unpackable == 0

(* Calls that the six characters have no room for borrow the name of calls *)
(* that are not issued.                                                    *)
Alias(call) ==
  LET short == IF StartsWith(call, "3DA0") THEN "3D0" \o Rest(call, 5) ELSE call
  IN  IF StartsWith(short, "3X") /\ Char(short, 3) \in Letter
      THEN "Q" \o Rest(short, 3) ELSE short

Unalias(word) ==
  IF StartsWith(word, "3D0") THEN "3DA0" \o Rest(word, 4)
  ELSE IF Char(word, 1) = "Q" /\ Char(word, 2) \in Letter THEN "3X" \o Rest(word, 2)
  ELSE word

(* The digit comes third: a call with its digit second is moved by one.    *)
SixCharacters(call) ==
  Sub((IF Char(call, 3) \in Digit THEN call
       ELSE IF Len(call) <= 5 /\ Char(call, 2) \in Digit THEN " " \o call ELSE "")
      \o "      ", 1, 6)

PackWord(word) ==
  LET letter(i) == AlnumIdx[Char(word, i)] - 10
  IN  IF \/ Char(word, 1) \notin Alnum \cup {" "} \/ Char(word, 2) \notin Alnum
         \/ ~ AllIn(Rest(word, 4), Letter \cup {" "})
      THEN Unpackable
      ELSE ((((AlnumIdx[Char(word, 1)] * 36 + AlnumIdx[Char(word, 2)]) * 10
               + AlnumIdx[Char(word, 3)]) * 27 + letter(4)) * 27 + letter(5)) * 27 + letter(6)

PackBase(base) ==
  IF Len(base) > 7 \/ Len(Alias(base)) \notin 2..6 THEN Unpackable
  ELSE PackWord(SixCharacters(Alias(base)))

PackCallsign(value) ==
  LET call == Trim(value)
      base == WithoutPortable(call)
  IN  IF call \in BaseCallSet
      THEN [packed |-> NBaseCall + (CHOOSE i \in DOMAIN BaseCalls : BaseCalls[i] = call),
            portable |-> FALSE]
      ELSE [packed |-> PackBase(base), portable |-> base # call]

UnpackCallsign(value, portable) ==
  IF value - NBaseCall \in DOMAIN BaseCalls THEN BaseCalls[value - NBaseCall]
  ELSE LET v(n) == value \div n
           letter(n) == AlnumChar((v(n) % 27) + 10)
           word == AlnumChar(v(36 * 10 * 27 * 27 * 27)) \o AlnumChar(v(10 * 27 * 27 * 27) % 36)
                   \o AlnumChar(v(27 * 27 * 27) % 10)
                   \o letter(27 * 27) \o letter(27) \o letter(1)
       IN  Trim(Unalias(word)) \o (IF portable THEN "/P" ELSE "")
-----------------------------------------------------------------------------
(***************************************************************************)
(* Any call in 50 bits: eleven characters in three groups, the fourth and  *)
(* the eighth a slash or nothing.  A 50-bit number is a pair of 25-bit     *)
(* limbs, the higher first.                                                *)
(***************************************************************************)
Radices == << 39, 38, 38, 2, 38, 38, 38, 2, 38, 38, 38 >>

Limb == 2^25

(* Moves the characters from position i on by one, unless a slash is there.*)
OpenSlot(word, i) ==
  IF Len(word) >= i /\ Char(word, i) # "/"
  THEN Sub(word, 1, i - 1) \o " " \o Sub(word, i, 10) ELSE word

Layout50(call) ==
  LET chars == {i \in 1..Len(call) : Char(call, i) \in CharsOf(Alphanumeric)}
      kept[i \in 0..Len(call)] ==
        IF i = 0 THEN "" ELSE IF i \in chars THEN kept[i - 1] \o Char(call, i) ELSE kept[i - 1]
  IN  Sub(OpenSlot(OpenSlot(Sub(kept[Len(call)], 1, 11), 4), 8) \o "           ", 1, 11)

PackAlphaNumeric50(call) ==
  LET word     == Layout50(call)
      digit(i) == IF i \in {4, 8} THEN (IF Char(word, i) = "/" THEN 1 ELSE 0)
                  ELSE AlnumIdx[Char(word, i)]
      horner[i \in 0..11] ==
        IF i = 0 THEN << 0, 0 >>
        ELSE LET high == horner[i - 1]
                 low  == high[2] * Radices[i] + digit(i)
             IN  << high[1] * Radices[i] + low \div Limb, low % Limb >>
  IN  horner[11]

UnpackAlphaNumeric50(packed) ==
  LET quotient[i \in 1..12] ==  \* what is left when the digits from i on are off
        IF i = 12 THEN packed
        ELSE LET q == quotient[i + 1]
             IN  << q[1] \div Radices[i],
                    ((q[1] % Radices[i]) * Limb + q[2]) \div Radices[i] >>
      digit(i) == ((quotient[i + 1][1] % Radices[i]) * Limb + quotient[i + 1][2]) % Radices[i]
      char(i)  == IF i \in {4, 8} THEN (IF digit(i) = 1 THEN "/" ELSE " ") ELSE AlnumChar(digit(i))
      text[i \in 0..11] ==
        IF i = 0 THEN "" ELSE text[i - 1] \o (IF char(i) = " " THEN "" ELSE char(i))
  IN  text[11]
-----------------------------------------------------------------------------
(***************************************************************************)
(* Grids and numbers.                                                      *)
(***************************************************************************)
NBaseGrid == 180 * 180
NUserGrid == NBaseGrid + 10
NMaxGrid  == 2^15 - 1

PackGrid(grid) ==
  LET a == IndexIn(Letters, Char(grid, 1))
      b == IndexIn(Letters, Char(grid, 2))
      ilong == 178 - 20 * a - 2 * DigitValue[Char(grid, 3)] + (IF a >= 9 THEN 1 ELSE 0)
  IN  ((ilong + 180) \div 2) * 180 + 10 * b + DigitValue[Char(grid, 4)]

UnpackGrid(value) ==
  LET lat == value % 180
      lon == 179 - value \div 180
  IN  IF value > NBaseGrid THEN ""
      ELSE IF value = NBaseGrid THEN "RA90"
      ELSE Char(Letters, lon \div 10 + 1) \o Char(Letters, lat \div 10 + 1)
           \o Char(Digits, (lon % 10) + 1) \o Char(Digits, (lat % 10) + 1)

(* Mutant: a report is clamped to what the receiver shows, not to what the *)
(* bits hold.                                                              *)
PackNumShown(num) ==
  IF ~ IsNumber(num) THEN (IF num = "" THEN 0 ELSE 31)
  ELSE (IF Number(num) > 20 THEN 20 ELSE Number(num)) + 31

(* 0 is no number; a report is kept within the six bits it has.            *)
PackNum(num) ==
  LET n == Number(num)
  IN  IF ~ IsNumber(num) THEN (IF num = "" THEN 0 ELSE 31)
      ELSE (IF n < -30 THEN -30 ELSE IF n > 31 THEN 31 ELSE n) + 31
=============================================================================
