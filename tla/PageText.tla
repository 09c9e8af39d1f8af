------------------------------ MODULE PageText ------------------------------
(***************************************************************************)
(* Text of a PDF: process_document_version in document_processing/         *)
(* process.py takes each page's own text layer, has Tesseract read the     *)
(* pages without one and those whose layer is doubtful, and converts a     *)
(* layer in the old TCVN3 encoding with legacy_text.py, line by line.      *)
(*                                                                         *)
(* A page is its layer: whether it is usable, whether it is trustworthy,   *)
(* its share of accented letters and, line by line, what the letters of    *)
(* the line prove: "legacy" TCVN3, "unicode" Vietnamese or "mute".         *)
(***************************************************************************)
EXTENDS Integers, Sequences, FiniteSets

CONSTANTS
  Layers,        \* what the text layer of a page may be
  Readings,      \* shares of accented letters in what Tesseract may read
  OcrEnabled,    \* ocr_enabled
  LegacyLines,   \* MIN_TEXT_LAYER_LEGACY_LINES
  MaxLayers       \* bound: pages of a document

Verdicts == {"legacy", "unicode", "mute"}

ASSUME PageTextAssumption ==
  /\ \A l \in Layers :
       /\ {l.usable, l.doubtful} \subseteq BOOLEAN /\ l.share \in Nat
       /\ l.lines \in Seq(Verdicts)
  /\ Readings \subseteq Nat
  /\ OcrEnabled \in BOOLEAN
  /\ {LegacyLines, MaxLayers} \subseteq Nat \ {0}

VARIABLES
  layers,  \* the text layers of the pages, in order
  ocr      \* the rest of process_document_version's variables

pageTextVars == <<layers, ocr>>

PageTextInit ==
  /\ layers = <<>>
  /\ ocr = [pc |-> "opening", waiting |-> {}, read |-> {}, failed |-> {},
            shares |-> {}, converted |-> {}]

AddPage ==
  /\ ocr.pc = "opening" /\ Len(layers) < MaxLayers
  /\ \E l \in Layers : layers' = Append(layers, l)
  /\ UNCHANGED ocr

Scanned == {i \in DOMAIN layers : ~layers[i].usable}
Doubtful == {i \in DOMAIN layers : layers[i].usable /\ layers[i].doubtful}

(* extract_pages has the layers; Tesseract gets the sorted pages in order. *)
Extracted ==
  /\ ocr.pc = "opening" /\ layers # <<>>
  /\ ocr' = [ocr EXCEPT !.pc = "reading",
               !.waiting = IF OcrEnabled THEN Scanned \cup Doubtful ELSE {}]
  /\ UNCHANGED layers

Better(i, share) == i \notin Doubtful \/ share > 2 * layers[i].share

(* The page that is next in ocr_pages.                                     *)
Due(i) == i \in ocr.waiting /\ \A j \in ocr.waiting : i <= j

(* ocr_pages reads a page ...                                              *)
PageRead ==
  /\ ocr.pc = "reading"
  /\ \E i \in ocr.waiting, share \in Readings :
       /\ Due(i)
       /\ ocr' = [ocr EXCEPT !.waiting = @ \ {i},
                    !.read = IF Better(i, share) THEN @ \cup {i} ELSE @,
                    !.shares = @ \cup {<<i, share>>}]
  /\ UNCHANGED layers

(* ... or times out, and the page's text is empty.                         *)
PageFailed ==
  /\ ocr.pc = "reading"
  /\ \E i \in ocr.waiting :
       /\ Due(i)
       /\ ocr' = [ocr EXCEPT !.waiting = @ \ {i}, !.failed = @ \cup {i},
                    !.read = IF Better(i, 0) THEN @ \cup {i} ELSE @,
                    !.shares = @ \cup {<<i, 0>>}]
  /\ UNCHANGED layers

(* The lines of the pages that keep their layer, <<page, line>>.           *)
LinesOf(pages) == UNION {{<<i, k>> : k \in DOMAIN layers[i].lines} : i \in pages}
VerdictOf(line) == layers[line[1]].lines[line[2]]

(* text_layer_is_tcvn3.                                                    *)
IsTcvn3(pages) ==
  LET number(v) == Cardinality({l \in LinesOf(pages) : VerdictOf(l) = v})
  IN  number("legacy") >= LegacyLines /\ number("legacy") > number("unicode")

(* A pass over the lines in some order: after n of them, the line that     *)
(* told last, and 0 when none did.                                         *)
Latest(verdicts, order) ==
  LET latest[n \in 0 .. Len(verdicts)] ==
        IF n = 0 THEN 0
        ELSE IF verdicts[order[n]] # "mute" THEN order[n] ELSE latest[n - 1]
  IN  latest

(* Mutant: a line that cannot tell follows the one before it.              *)
Nearest_Before(verdicts) ==
  LET down == Latest(verdicts, [k \in DOMAIN verdicts |-> k])
  IN  [k \in DOMAIN verdicts |-> IF down[k] = 0 THEN "mute" ELSE verdicts[down[k]]]

(* _nearest_verdicts: one pass down the lines and one pass up, each with   *)
(* the verdict it met last and where; the pass up must come nearer.        *)
Nearest(verdicts) ==
  LET n == Len(verdicts)
      down == Latest(verdicts, [k \in 1 .. n |-> k])
      up == Latest(verdicts, [k \in 1 .. n |-> n + 1 - k])
      near(k) == IF /\ up[n + 1 - k] # 0
                    /\ down[k] = 0 \/ up[n + 1 - k] - k < k - down[k]
                 THEN up[n + 1 - k] ELSE down[k]
  IN  [k \in 1 .. n |-> IF near(k) = 0 THEN "mute" ELSE verdicts[near(k)]]

(* convert_tcvn3, page by page: the lines converted as a whole.            *)
ConvertedLines(i) ==
  LET lines == layers[i].lines
  IN  {<<i, k>> : k \in {k \in DOMAIN lines : Nearest(lines)[k] = "legacy"}}

(* _convert_tcvn3_text_layer; then enough text must be there.              *)
Convert ==
  /\ ocr.pc = "reading" /\ ocr.waiting = {}
  /\ LET kept == DOMAIN layers \ ocr.read
         certain == \E i \in kept : layers[i].usable
         hopeless == kept = {} /\ ocr.read = ocr.failed
     IN  \E enough \in BOOLEAN :
           /\ certain => enough
           /\ hopeless => ~enough
           /\ ocr' = [ocr EXCEPT
                !.pc = IF enough THEN "done" ELSE "failed",
                !.converted = IF IsTcvn3(kept) THEN UNION {ConvertedLines(i) : i \in kept}
                              ELSE {}]
  /\ UNCHANGED layers

(* The PDF cannot be opened, or Tesseract is not there.                    *)
Break ==
  /\ ocr.pc = "reading" /\ ocr.waiting # {}
  /\ ocr' = [ocr EXCEPT !.pc = "failed"]
  /\ UNCHANGED layers

PageTextNext == AddPage \/ Extracted \/ PageRead \/ PageFailed \/ Convert \/ Break

PageTextSpec == PageTextInit /\ [][PageTextNext]_pageTextVars

-----------------------------------------------------------------------------
(* A processed page has its own layer unless that was unusable, or         *)
(* doubtful and Tesseract read more than twice the accented letters; a     *)
(* page Tesseract failed on is named as lost; what Tesseract read is never *)
(* taken for TCVN3, and neither is a line of Unicode Vietnamese.           *)
PagesAreRight ==
  ocr.pc = "done" =>
    \A i \in DOMAIN layers :
      /\ i \in ocr.read =>
           \/ ~layers[i].usable
           \/ /\ layers[i].doubtful /\ i \notin ocr.failed
              /\ \E r \in ocr.shares : r[1] = i /\ r[2] > 2 * layers[i].share
      /\ OcrEnabled /\ ~layers[i].usable => i \in ocr.read
      /\ \A l \in ocr.converted : l[1] = i => i \notin ocr.read /\ VerdictOf(l) # "unicode"

(* Line j, whose letters tell, is the nearest such line to line k; of two  *)
(* as near, the one above.                                                 *)
Apart(j, k) == IF j < k THEN k - j ELSE j - k
Decides(lines, j, k) ==
  /\ lines[j] # "mute"
  /\ \A h \in DOMAIN lines \ {j} : lines[h] # "mute" =>
       Apart(j, k) < Apart(h, k) \/ (Apart(j, k) = Apart(h, k) /\ j < h)

(* Of the pages that keep a TCVN3 layer, the lines converted are those     *)
(* whose nearest line of the page that proves an encoding proves TCVN3.    *)
NearestLineDecides ==
  LET kept == DOMAIN layers \ ocr.read
  IN  ocr.pc = "done" /\ IsTcvn3(kept) =>
        \A i \in kept : \A k \in DOMAIN layers[i].lines :
          <<i, k>> \in ocr.converted <=>
            \E j \in DOMAIN layers[i].lines :
              Decides(layers[i].lines, j, k) /\ layers[i].lines[j] = "legacy"

(* The text of a PDF page, whichever of its sources it is from.            *)
PageTextIsRight == PagesAreRight /\ NearestLineDecides
=============================================================================
