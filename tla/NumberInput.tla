----------------------------- MODULE NumberInput ----------------------------
(***************************************************************************)
(* A field for an amount or a quantity (NumberInput.js, and the keys + and *)
(* - of KeyboardShortcuts.js). At every input event the handler of the     *)
(* field reads its number into the state of the form, and after it the     *)
(* document's handler groups the digits by thousands and puts the caret    *)
(* back. A text is a sequence of symbols, and a number is its digits.      *)
(***************************************************************************)
EXTENDS Naturals, SequencesExt

CONSTANTS Keys,       \* symbols the user types
          ZeroFirst,  \* whether a zero may be typed in front of other digits
          Initial,    \* digits the field may be opened with
          MaxLength,  \* of the digits in the field and of what is typed, a bound
          MaxNumber,  \* the digits of Number.MAX_SAFE_INTEGER
          None

Digits == {"0", "1", "2", "3", "4", "5", "6", "7", "8", "9"}

\* What the constants must be; the module that instantiates this one assumes it.
NumberInputAssumption ==
  /\ Keys \subseteq Digits \cup {".", "-"} /\ ZeroFirst \in BOOLEAN
  /\ Initial \subseteq Seq(Digits) /\ MaxNumber \in Seq(Digits)
  /\ MaxLength \in Nat

VARIABLES text,   \* el.value
          caret,  \* el.selectionStart: symbols before the caret
          state,  \* the number that the form holds
          typed   \* symbols typed one after another into the empty field, or None

vars == <<text, caret, state, typed>>

DigitsOf(s) == SelectSeq(s, LAMBDA c : c \in Digits)

\* The sequence from its first symbol that is no zero.
Significant(s) ==
  LET first == {i \in DOMAIN s : s[i] # "0"}
  IN  IF first = {} THEN <<>> ELSE SubSeq(s, CHOOSE i \in first : \A j \in first : i <= j, Len(s))

\* toLocaleString('en-US') of a whole number.
Grouped(digits) ==
  FlattenSeq([i \in DOMAIN digits |->
    IF i > 1 /\ (Len(digits) - i + 1) % 3 = 0 THEN <<",", digits[i]>> ELSE <<digits[i]>>])

Number(negative, whole, fraction) ==
  LET w == Significant(whole)
      f == Reverse(Significant(Reverse(fraction)))
  IN  [negative |-> negative /\ <<w, f>> # <<<<>>, <<>>>>, whole |-> w, fraction |-> f]

Zero == Number(FALSE, <<>>, <<>>)

(* parse: everything but digits, points and dashes is dropped, and what is *)
(* no number then is zero.                                                 *)
Parse(s) ==
  LET cleaned == SelectSeq(s, LAMBDA c : c \in Digits \cup {".", "-"})
      negative == cleaned # <<>> /\ cleaned[1] = "-"
      body == IF negative THEN Tail(cleaned) ELSE cleaned
      points == {i \in DOMAIN body : body[i] = "."}
      point == IF points = {} THEN Len(body) + 1 ELSE CHOOSE i \in points : TRUE
  IN  IF "-" \in ToSet(body) \/ (\E i, j \in points : i # j) \/ DigitsOf(body) = <<>>
      THEN Zero
      ELSE Number(negative, SubSeq(body, 1, point - 1), SubSeq(body, point + 1, Len(body)))

\* The position after the n-th digit of a text.
AfterDigit(s, n) ==
  CHOOSE p \in 0 .. Len(s) :
    /\ Len(DigitsOf(SubSeq(s, 1, p))) = n
    /\ p > 0 => s[p] \in Digits

Init ==
  \E n \in Initial :
    /\ text = Grouped(n) /\ caret = Len(Grouped(n))
    /\ state = Parse(n)
    /\ typed = IF n = <<>> THEN <<>> ELSE None

(* _formatLive: digits only, no leading zeros, grouped; the caret is put   *)
(* after as many digits as stood before it.                                *)
FormatLive(s, at) ==
  LET digits == DigitsOf(s)
      raw == IF Len(digits) > 1 THEN Significant(digits) ELSE digits
      formatted == Grouped(raw)
      before == Len(DigitsOf(SubSeq(s, 1, at)))
  IN  /\ text' = formatted
      /\ caret' = CASE formatted = s -> at
                    [] formatted # s /\ before = 0 -> 0
                    [] formatted # s /\ before >= Len(raw) /\ before > 0 -> Len(formatted)
                    [] OTHER -> AfterDigit(formatted, before)

\* An input event: the handler of the field first, then the document's.
Input(s, at) == state' = Parse(s) /\ FormatLive(s, at)

(* A symbol is typed at the caret. With plusMinusZeros a dash is no symbol *)
(* but the multiplier below.                                               *)
TypeSymbol(c) ==
  /\ c \in Keys /\ Len(DigitsOf(text)) < MaxLength
  /\ typed # None => Len(typed) < MaxLength
  /\ c = "0" /\ DigitsOf(SubSeq(text, 1, caret)) = <<>> /\ text # <<>> => ZeroFirst
  /\ Input(SubSeq(text, 1, caret) \o <<c>> \o SubSeq(text, caret + 1, Len(text)), caret + 1)
  /\ typed' = IF typed # None /\ caret = Len(text) THEN Append(typed, c) ELSE None

Backspace ==
  /\ caret > 0
  /\ Input(SubSeq(text, 1, caret - 1) \o SubSeq(text, caret + 1, Len(text)), caret - 1)
  /\ typed' = None

MoveLeft ==
  /\ caret > 0
  /\ caret' = caret - 1 /\ typed' = None
  /\ UNCHANGED <<text, state>>

\* As numbers: digits without leading zeros.
Greater(a, b) ==
  \/ Len(a) > Len(b)
  \/ Len(a) = Len(b) /\ \E i \in DOMAIN a :
       /\ \A j \in 1 .. i - 1 : a[j] = b[j]
       /\ \E x, y \in 0 .. 9 : x > y /\ a[i] = ToString(x) /\ b[i] = ToString(y)

(* _applyMultiplier: the key + or - appends zeros, up to the largest safe  *)
(* integer, and sends an input event of its own.                           *)
Multiply(zeros) ==
  LET raw == Significant(DigitsOf(text))
      product == raw \o [i \in 1 .. zeros |-> "0"]
      capped == IF Greater(product, MaxNumber) THEN MaxNumber ELSE product
  IN  /\ raw # <<>>
      /\ Input(Grouped(capped), Len(Grouped(capped)))
      /\ typed' = None

(* The focus listener: a zero goes away, without an input event.           *)
Focus ==
  /\ text = <<"0">>
  /\ text' = <<>> /\ caret' = 0
  /\ typed' = <<>>
  /\ UNCHANGED state

Next ==
  \/ \E c \in Keys : TypeSymbol(c)
  \/ Backspace \/ MoveLeft \/ Focus
  \/ \E zeros \in {2, 3} : Multiply(zeros)

Spec == Init /\ [][Next]_vars

-----------------------------------------------------------------------------
(* The form holds the number that the field shows, although it reads the   *)
(* field before the text is rewritten.                                     *)
FormHoldsWhatIsShown == state = Parse(text)

(* Typing a number into an empty field gives that number, whatever the     *)
(* grouping makes of the text in between.                                  *)
NumberAsTyped == typed # None => state = Parse(typed)

RightDigits == DigitsOf(SubSeq(text, caret + 1, Len(text)))
Edit == (\E c \in Keys : TypeSymbol(c)) \/ Backspace

(* The rewritten text keeps the place of the caret (NumberInput.js:27):    *)
(* the digits to the right of it stay there, but for leading zeros.        *)
CaretKeepsPlace ==
  [][Edit => RightDigits' \in {RightDigits, Significant(RightDigits)}]_vars
=============================================================================
