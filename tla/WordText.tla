------------------------------ MODULE WordText ------------------------------
(***************************************************************************)
(* Text of word-processor files: document_processing/formats.py reads RTF  *)
(* token by token with a stack of groups, and the text of a Word 97 file   *)
(* character by character with a stack of fields.                          *)
(*                                                                         *)
(* A file is read as it grows, so that every prefix of every file is       *)
(* looked at.  A token is a record [kind, n]: a group opens or closes, a   *)
(* destination that is no text, font n, \ucn, \uN, a byte \'xx, or a text  *)
(* of n characters.  A character that comes out is <<where it stood, which *)
(* of the token's characters, the font it was decoded with>>, and font 0   *)
(* when nothing was decoded.                                               *)
(***************************************************************************)
EXTENDS Integers, Sequences, FiniteSets, SequencesExt, FiniteSetsExt

CONSTANTS
  Tokens,       \* the tokens files are made of
  DefaultFont,  \* \deff
  MaxTokens,    \* bound: tokens of an RTF file
  MaxMarks      \* bound: characters of a Word file

TokenKinds == {"open", "close", "skip", "font", "uc", "unicode", "byte", "text"}

ASSUME WordTextAssumption ==
  /\ Tokens \subseteq [kind : TokenKinds, n : Nat]
  /\ {DefaultFont, MaxTokens, MaxMarks} \subseteq Nat

VARIABLES
  rtf,   \* _rtf_text: the tokens read, its variables and its output
  word   \* _clean_word_text: the characters read, in_code and its output

wordTextVars == <<rtf, word>>

WordTextInit ==
  /\ rtf = [read |-> <<>>, stack |-> <<>>, skipping |-> FALSE, font |-> DefaultFont,
            uc |-> 1, pending |-> 0, bytes |-> <<>>, output |-> <<>>]
  /\ word = [read |-> <<>>, inCode |-> <<>>, output |-> <<>>]

-----------------------------------------------------------------------------
(* RTF.                                                                    *)

(* flush: bytes are decoded together, with the font of the moment.         *)
Flush(s) ==
  [s EXCEPT !.output = @ \o [k \in DOMAIN s.bytes |-> <<s.bytes[k], 1, s.font>>],
            !.bytes = <<>>]

(* Mutant: bytes are decoded after the end of their group.                 *)
Flushed_Late(s, t) == IF t.kind \in {"byte", "close"} THEN s ELSE Flush(s)

Flushed(s, t) == IF t.kind = "byte" THEN s ELSE Flush(s)

OpenGroup(s) == [s EXCEPT !.stack = Append(@, <<s.skipping, s.uc, s.font>>)]

(* A group takes its settings with it.                                     *)
CloseGroup(s) ==
  IF s.stack = <<>> THEN [s EXCEPT !.skipping = FALSE, !.uc = 1]
  ELSE LET saved == Last(s.stack)
       IN  [s EXCEPT !.stack = Front(@), !.skipping = saved[1],
                     !.uc = saved[2], !.font = saved[3]]

(* Control words: nothing but a destination counts while skipping.         *)
ControlWord(s, t, i) ==
  CASE t.kind = "skip" -> [s EXCEPT !.skipping = TRUE]
    [] t.kind = "font" /\ ~s.skipping -> [s EXCEPT !.font = t.n]
    [] t.kind = "uc" /\ ~s.skipping -> [s EXCEPT !.uc = t.n]
    [] t.kind = "unicode" /\ ~s.skipping -> [s EXCEPT !.output = Append(@, <<i, 1, 0>>), !.pending = s.uc]
    [] OTHER -> s

(* Text and bytes, less the fallback of \uN.                               *)
Characters(s, t, i) ==
  LET length == IF t.kind = "text" THEN t.n ELSE 1
      dropped == Min({s.pending, length})
      rest == [s EXCEPT !.pending = @ - dropped]
  IN  IF s.skipping \/ dropped = length THEN rest
      ELSE IF t.kind = "byte" THEN [rest EXCEPT !.bytes = Append(@, i)]
      ELSE [rest EXCEPT !.output =
              @ \o [k \in 1 .. length - dropped |-> <<i, dropped + k, 0>>]]

(* One token: _rtf_text's loop.                                            *)
ReadToken(s, t) ==
  LET i == Len(s.read) + 1
      flushed == Flushed([s EXCEPT !.read = Append(@, t)], t)
  IN  CASE t.kind = "open" -> OpenGroup(flushed)
        [] t.kind = "close" -> CloseGroup(flushed)
        [] t.kind \in {"text", "byte"} -> Characters(flushed, t, i)
        [] OTHER -> ControlWord(flushed, t, i)

(* Word writes the fallback of \uN right behind it.                        *)
NextToken ==
  /\ Len(rtf.read) < MaxTokens
  /\ \E t \in Tokens :
       /\ rtf.pending > 0 => t.kind \in {"text", "byte"}
       /\ t.kind = "close" => rtf.stack # <<>>
       /\ rtf' = ReadToken(rtf, t)
  /\ UNCHANGED word

-----------------------------------------------------------------------------
(* Word 97: fields are begin code separator result end.                    *)

ReadMark(s, c) ==
  LET i == Len(s.read) + 1
      read == [s EXCEPT !.read = Append(@, c)]
      inside == s.inCode # <<>>
  IN  CASE c = "begin" -> [read EXCEPT !.inCode = Append(@, TRUE)]
        [] c = "separator" /\ inside -> [read EXCEPT !.inCode[Len(s.inCode)] = FALSE]
        [] c = "end" /\ inside -> [read EXCEPT !.inCode = Front(@)]
        [] OTHER -> IF inside /\ Last(s.inCode) THEN read
                    ELSE [read EXCEPT !.output = Append(@, i)]

NextMark ==
  /\ Len(word.read) < MaxMarks
  /\ \E c \in {"begin", "separator", "end", "letter"} : word' = ReadMark(word, c)
  /\ UNCHANGED rtf

WordTextNext == NextToken \/ NextMark

WordTextSpec == WordTextInit /\ [][WordTextNext]_wordTextVars

-----------------------------------------------------------------------------
(* What RTF means, without a stack: the depth of each token ...            *)
Depth(read, i) ==
  LET kindsBefore(kind) == Cardinality({j \in 1 .. i - 1 : read[j].kind = kind})
  IN  kindsBefore("open") - kindsBefore("close")

(* ... and the tokens before i whose group is still open there.            *)
InForce(read, i) ==
  {j \in 1 .. i - 1 : \A k \in j .. i : Depth(read, k) >= Depth(read, j)}

Hidden(read, i) == \E j \in InForce(read, i) : read[j].kind = "skip"

SettingAt(read, kind, default, i) ==
  LET set == {j \in InForce(read, i) : read[j].kind = kind /\ ~Hidden(read, j)}
  IN  IF set = {} THEN default ELSE read[Max(set)].n

(* Characters in the tokens up to each one.                                *)
SizeOf(t) == IF t.kind = "text" THEN t.n ELSE IF t.kind = "byte" THEN 1 ELSE 0
Sizes(read) ==
  LET upTo[i \in 0 .. Len(read)] == IF i = 0 THEN 0 ELSE upTo[i - 1] + SizeOf(read[i])
  IN  upTo

(* Characters of token i that are the fallback of the \uN before it.       *)
Fallback(read, i) ==
  LET before == {j \in 1 .. i - 1 : read[j].kind = "unicode" /\ ~Hidden(read, j)}
      last == Max(before)
      left == SettingAt(read, "uc", 1, last) - (Sizes(read)[i - 1] - Sizes(read)[last])
  IN  IF before = {} \/ left < 0 THEN 0 ELSE left

TextOf(read, i) ==
  LET t == read[i]
      from == Fallback(read, i) + 1
  IN  IF Hidden(read, i) THEN <<>>
      ELSE CASE t.kind = "unicode" -> << <<i, 1, 0>> >>
             [] t.kind = "byte" /\ from = 1 ->
                  << <<i, 1, SettingAt(read, "font", DefaultFont, i)>> >>
             [] t.kind = "text" -> [k \in 1 .. t.n - from + 1 |-> <<i, from + k - 1, 0>>]
             [] OTHER -> <<>>

TextUpTo(read) ==
  LET upTo[i \in 0 .. Len(read)] == IF i = 0 THEN <<>> ELSE upTo[i - 1] \o TextOf(read, i)
  IN  upTo

(* The text of an RTF file is every character outside the destinations     *)
(* that are no text, in order, once: each byte decoded with the font in    *)
(* force where it stands, and the fallback of each \uN left out.           *)
RtfTextIsRight == Flush(rtf).output = TextUpTo(rtf.read)[Len(rtf.read)]

(* Fields open after i characters, the innermost of them, and whether the  *)
(* character is no field's code.                                           *)
Height(read, i) ==
  Cardinality({j \in 1 .. i : read[j] = "begin"}) - Cardinality({j \in 1 .. i : read[j] = "end"})
Around(read, i) ==
  {b \in 1 .. i : read[b] = "begin" /\ \A k \in b .. i : Height(read, k) >= Height(read, b)}
IsText(read, i) ==
  LET innermost == Max(Around(read, i))
  IN  \/ Around(read, i) = {}
      \/ \E s \in innermost + 1 .. i :
           read[s] = "separator" /\ Height(read, s) = Height(read, innermost)

(* A character of a Word file is text exactly when no field is open around *)
(* it or the innermost open one has had its separator.                     *)
FieldCodesHidden ==
  LET read == word.read
      letters == {i \in DOMAIN read : read[i] = "letter"}
  IN  (\A i \in DOMAIN read : Height(read, i) >= 0) =>
        {i \in letters : IsText(read, i)} = letters \cap ToSet(word.output)

(* The text of a Word file, of either format, is what a reader of it sees. *)
WordTextIsRight == RtfTextIsRight /\ FieldCodesHidden
=============================================================================
