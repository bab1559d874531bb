----------------------------- MODULE CharClasses -----------------------------
(***************************************************************************)
(* Characters for the pre-tokenizers: one representative per way the code   *)
(* can tell characters apart (src/unicode.rs, and the ASCII comparisons in   *)
(* src/pretok.rs and src/cjk.rs).  A text is a sequence of them.  The code    *)
(* walks bytes, but of a valid UTF-8 string and by whole characters, so     *)
(* positions are counted in characters here.                                *)
(***************************************************************************)
Upper     == {"S", "L"}             \* ASCII upper case
Lower     == {"s", "l", "r", "e"}   \* ASCII lower case
Ideograph == {"k"}                  \* U+4E00..9FA5 and kana
Caseless  == Ideograph \cup {"o"}   \* letters that are neither upper nor lower
Mark      == {"m"}                  \* combining marks
Number    == {"1"}
Newline   == {"n"}                  \* \r and \n
White     == Newline \cup {" ", "t"}
AsciiPunct == {"'", "/", "#"}
PunctOrSymbol == AsciiPunct \cup {"x"}
Control   == {"z"}                  \* none of the above

AsciiLetter == Upper \cup Lower
Letter == AsciiLetter \cup Caseless
Char == Letter \cup Mark \cup Number \cup White \cup PunctOrSymbol \cup Control

(* classify: coarse class 'O' (marks are in it) and fine classes for the    *)
(* camel-case machine: letters without a case, and marks, count as both.    *)
Other == Char \ (Letter \cup Number \cup White)
UpperLike == Upper \cup Caseless \cup Mark
LowerLike == Lower \cup Caseless \cup Mark
AnyLetter == Letter \cup Mark

(* to_ascii_lowercase, where case is ignored.                              *)
Folded(c, ci) == CASE ci /\ c = "S" -> "s" [] ci /\ c = "L" -> "l" [] OTHER -> c
=============================================================================
