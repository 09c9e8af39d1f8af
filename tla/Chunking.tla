------------------------------ MODULE Chunking ------------------------------
(***************************************************************************)
(* How a text is cut into passages: build_article_chunks and its helpers   *)
(* in document_processing/process.py.                                      *)
(*                                                                         *)
(* A text is a sequence of symbols.  "/" is a line break, "^" a form feed, *)
(* " " a space; a heading, a clause number or a signature line counts as   *)
(* one symbol, whatever its wording.  Positions count from 1 and a span    *)
(* <<s, e>> leaves out position e.  The text arrives line by line, so that *)
(* the states are all texts of a few lines and the invariants compare what *)
(* the code makes of each with what its places should be.                  *)
(***************************************************************************)
EXTENDS Integers, Sequences, SequencesExt, FiniteSetsExt

CONSTANTS
  Lines,        \* the lines of the texts: symbols of each
  Styles,       \* sets of symbols that occur together in a text
  MaxLines,     \* bound: lines of a text
  MaxPages,     \* bound: pages of a text
  Articles,     \* "Dieu N" symbols: their number, "," after it?, kind of title,
                \* cited: it is the article of another text
  Sections,     \* section symbols: their Roman number, 0 for "PHAN A"
  Clauses,      \* "N." symbols: their number
  Signatures,   \* signature lines
  Appendices,   \* "PHU LUC" lines
  Stops,        \* symbols that end a sentence
  MaxChunk,     \* MAX_CHUNK_CHARACTERS
  MaxIntro,     \* MAX_MERGED_INTRO_CHARACTERS
  MinPreamble,  \* MIN_PREAMBLE_CHARACTERS
  MinAttached   \* MIN_ATTACHED_ARTICLES

White == {" ", "/", "^"}

ASSUME ChunkingAssumption ==
  /\ {MaxChunk, MinAttached} \subseteq Nat \ {0, 1}
  /\ {MaxLines, MaxPages, MaxIntro, MinPreamble} \subseteq Nat

(* normalize_text strips its lines, and a form feed ends one.  A heading,  *)
(* a number or a signature is more than white space, and none is another.  *)
ASSUME TextAssumption ==
  /\ \A line \in Lines :
       /\ line \in Seq(ToSet(line)) /\ line # <<>>
       /\ {Head(line), Last(line)} \cap White = {} /\ "^" \notin ToSet(line)
  /\ \A a \in DOMAIN Articles : Articles[a].number \in Nat
  /\ \A s \in DOMAIN Sections : Sections[s] \in Nat
  /\ \A c \in DOMAIN Clauses : Clauses[c] \in Nat
  /\ (DOMAIN Sections \cup DOMAIN Clauses) \cap DOMAIN Articles = {}
  /\ DOMAIN Sections \cap DOMAIN Clauses = {}
  /\ White \cap (DOMAIN Articles \cup DOMAIN Sections \cup DOMAIN Clauses
                  \cup Signatures \cup Appendices) = {}

VARIABLE pages   \* normalized_pages
chunkVars == <<pages>>

ChunkInit == pages = << <<>> >>

StartsLine(t, i) == i = 1 \/ t[i - 1] = "/"
LineStarts(t) == {i \in DOMAIN t : StartsLine(t, i)}
LineEnd(t, i) == Min({j \in i .. Len(t) : t[j] = "/"} \cup {Len(t) + 1})

AddLine ==
  /\ Cardinality(UNION {{p} \X LineStarts(pages[p]) : p \in DOMAIN pages}) < MaxLines
  /\ \E line \in Lines :
       /\ pages' = [pages EXCEPT ![Len(pages)] =
                      IF @ = <<>> THEN line ELSE @ \o <<"/">> \o line]
       /\ \E style \in Styles : \A i \in DOMAIN pages' : ToSet(pages'[i]) \subseteq style

(* A page may be empty: OCR failed on it, or it is blank.                  *)
TurnPage ==
  /\ Len(pages) < MaxPages
  /\ pages' = Append(pages, <<>>)

ChunkNext == AddLine \/ TurnPage

ChunkSpec == ChunkInit /\ [][ChunkNext]_chunkVars

-----------------------------------------------------------------------------
(* Pages and positions.                                                    *)
PageSeparator == <<"/", "^", "/">>

(* The pages up to k, those before it being joined.                        *)
WithPage(joined, ps, k) == IF k = 1 THEN ps[1] ELSE joined \o PageSeparator \o ps[k]

Joined(ps) ==
  LET upTo[k \in 0 .. Len(ps)] == IF k = 0 THEN <<>> ELSE WithPage(upTo[k - 1], ps, k)
  IN  upTo[Len(ps)]

(* _trim: the span without white space at its ends.                        *)
Trim(t, start, end) ==
  LET solid == {i \in start .. end - 1 : t[i] \notin White}
  IN  IF solid = {} THEN <<end, end>> ELSE <<Min(solid), Max(solid) + 1>>

(* Mutant: empty pages at the beginning go too (strip for rstrip).         *)
StoredPages_Stripped(ps) ==
  LET kept == {i \in DOMAIN ps : ps[i] # <<>>}
  IN  IF kept = {} THEN << <<>> >> ELSE SubSeq(ps, Min(kept), Max(kept))

(* The pages read back from the stored text, which was saved without white *)
(* space at its end: empty last pages are gone, empty first ones are not.  *)
StoredPages(ps) ==
  LET kept == {i \in DOMAIN ps : ps[i] # <<>>}
  IN  IF kept = {} THEN << <<>> >> ELSE SubSeq(ps, 1, Max(kept))

Boundaries(ps) ==
  LET next[k \in 0 .. Len(ps)] ==
        IF k = 0 THEN 1 ELSE next[k - 1] + Len(ps[k]) + Len(PageSeparator)
  IN  [k \in DOMAIN ps |-> next[k - 1]]

(* Mutant: bisect_left.                                                    *)
PageFor_Left(bounds, i) == Cardinality({p \in DOMAIN bounds : bounds[p] < i})

PageFor(bounds, i) == Cardinality({p \in DOMAIN bounds : bounds[p] <= i})

-----------------------------------------------------------------------------
(* Headings: where they start.                                             *)

(* _continues_sentence: the text before the line is in mid-sentence.       *)
ContinuesSentence(t, i) ==
  LET before == Trim(t, 1, i)
  IN  before[1] < before[2] /\ t[before[2] - 1] \notin Stops

(* Not a cross-reference ("Dieu 8, khoan 4") nor one wrapped onto a line.  *)
IsArticleLine(t, i) ==
  /\ t[i] \in DOMAIN Articles
  /\ StartsLine(t, i)
  /\ Articles[t[i]].comma => Articles[t[i]].title = "proper"
  /\ Articles[t[i]].title = "none" => ~ContinuesSentence(t, i)

Number(t, i) == Articles[t[i]].number

(* find_article_headings: numbers increase from 1, so that 5a after 5 is   *)
(* no article of its own.                                                  *)
ReadArticle(t, found, i) ==
  LET previous == IF found = <<>> THEN 0 ELSE Number(t, Last(found))
  IN  IF IsArticleLine(t, i) /\ Number(t, i) > previous THEN Append(found, i) ELSE found

FindArticles(t) ==
  LET found[i \in 0 .. Len(t)] == IF i = 0 THEN <<>> ELSE ReadArticle(t, found[i - 1], i)
  IN  found[Len(t)]

(* find_section_headings: Roman numbers go up by one or start again at I.  *)
ReadSection(t, found, i) ==
  LET previous == IF found = <<>> THEN 0 ELSE Sections[t[Last(found)]]
  IN  IF /\ t[i] \in DOMAIN Sections /\ StartsLine(t, i)
         /\ Sections[t[i]] \in {0, 1, previous + 1}
      THEN Append(found, i) ELSE found

FindSections(t) ==
  LET found[i \in 0 .. Len(t)] == IF i = 0 THEN <<>> ELSE ReadSection(t, found[i - 1], i)
  IN  found[Len(t)]

Headings(t) ==
  LET articles == FindArticles(t)
  IN  IF articles # <<>> THEN articles ELSE FindSections(t)

-----------------------------------------------------------------------------
(* The end of the operative text.                                          *)

(* Headings are in the order of the text: those before i are the first.    *)
Before(headings, i) ==
  SubSeq(headings, 1, Cardinality({k \in DOMAIN headings : headings[k] < i}))
From(headings, i) ==
  SubSeq(headings, Len(Before(headings, i)) + 1, Len(headings))

(* _articles_are_real: they go on with the numbering, or form a long       *)
(* series of their own.                                                    *)
ArticlesAreReal(t, before, after) ==
  \/ Number(t, Head(after)) = Number(t, Last(before)) + 1
  \/ /\ Number(t, Head(after)) = 1
     /\ Len(after) >= MinAttached
     /\ \A k \in 1 .. Len(after) - 1 : Number(t, after[k + 1]) > Number(t, after[k])

(* A signature that no real article follows, or an appendix behind the     *)
(* last heading.                                                           *)
EndsText(t, headings, i) ==
  \/ /\ t[i] \in Signatures
     /\ \/ From(headings, i) = <<>>
        \/ ~ArticlesAreReal(t, Before(headings, i), From(headings, i))
  \/ t[i] \in Appendices /\ i >= LineEnd(t, Last(headings))

(* _appendix_start, or 0 for none; a text without articles has none.       *)
AppendixStart(t, headings) ==
  LET found == {i \in LineStarts(t) :
                  i >= LineEnd(t, Head(headings)) /\ EndsText(t, headings, i)}
  IN  IF headings = <<>> \/ t[Head(headings)] \notin DOMAIN Articles \/ found = {} THEN 0
      ELSE Min(found)

-----------------------------------------------------------------------------
(* Spans.                                                                  *)

(* The last line break in the second half of the window, else the last     *)
(* space there, else its end.                                              *)
CutAt(t, start) ==
  LET breaks(symbol) ==
        {i \in start + MaxChunk \div 2 .. start + MaxChunk - 1 : t[i] = symbol}
  IN  IF breaks("/") # {} THEN Max(breaks("/"))
      ELSE IF breaks(" ") # {} THEN Max(breaks(" "))
      ELSE start + MaxChunk

(* _split_span: pieces[i] are those of what is left from i on.             *)
SplitSpan(t, from, to) ==
  LET span == Trim(t, from, to)
      rest(i) == Trim(t, CutAt(t, i), span[2])[1]
      pieces[i \in from .. to] ==
        IF i = span[2] THEN <<>>
        ELSE IF span[2] - i <= MaxChunk THEN << <<i, span[2]>> >>
        ELSE << Trim(t, i, CutAt(t, i)) >> \o pieces[rest(i)]
  IN  pieces[span[1]]

(* The clause numbers 1., 2., 3. of an article, in sequence; a lone "1."   *)
(* is a list item.                                                         *)
ReadClause(t, from, found, i) ==
  IF /\ i >= from /\ t[i] \in DOMAIN Clauses /\ StartsLine(t, i)
     /\ Clauses[t[i]] = Len(found) + 1
  THEN Append(found, i) ELSE found

ClausesInOrder(t, from, to) ==
  LET found[i \in 0 .. to - 1] ==
        IF i = 0 THEN <<>> ELSE ReadClause(t, from, found[i - 1], i)
  IN  found[to - 1]

ClauseStarts(t, from, to) ==
  LET inOrder == ClausesInOrder(t, from, to)
  IN  IF Len(inOrder) = 1 THEN <<>> ELSE inOrder

-----------------------------------------------------------------------------
(* Passages.                                                               *)

(* A part of the text, the heading it belongs to, or 0, and its clause.    *)
Part(from, to, heading, clause) ==
  [from |-> from, to |-> to, heading |-> heading, clause |-> clause]

(* _article_segments.                                                      *)
ArticleSegments(t, heading, to) ==
  LET starts == ClauseStarts(t, LineEnd(t, heading), to)
      apart == starts[1] - heading > MaxIntro
      from(k) == IF k = 1 /\ ~apart THEN heading ELSE starts[k]
      end(k) == IF k < Len(starts) THEN starts[k + 1] ELSE to
      intro == IF apart THEN << Part(heading, starts[1], heading, 0) >> ELSE <<>>
  IN  IF to - heading <= MaxChunk \/ starts = <<>> THEN << Part(heading, to, heading, 0) >>
      ELSE intro \o [k \in DOMAIN starts |-> Part(from(k), end(k), heading, k)]

(* The items of one list after those of another.                           *)
Chained(lists) ==
  LET upTo[k \in 0 .. Len(lists)] == IF k = 0 THEN <<>> ELSE upTo[k - 1] \o lists[k]
  IN  upTo[Len(lists)]

Solid(t, from, to) == Cardinality({i \in from .. to - 1 : t[i] \notin White})

(* The preamble, unless it is short, the articles up to the end of the     *)
(* operative text, and what follows them.                                  *)
PartsOf(t, all, appendix) ==
  LET end == Len(t) + 1
      operativeEnd == IF appendix = 0 THEN end ELSE appendix
      headings == Before(all, operativeEnd)
      articleEnd(k) == IF k < Len(headings) THEN headings[k + 1] ELSE operativeEnd
      preambleEnd == IF headings = <<>> THEN operativeEnd ELSE Head(headings)
      preamble ==
        IF headings = <<>> \/ Solid(t, 1, preambleEnd) >= MinPreamble
        THEN << Part(1, preambleEnd, 0, 0) >> ELSE <<>>
      articles ==
        [k \in DOMAIN headings |-> ArticleSegments(t, headings[k], articleEnd(k))]
      rest == IF appendix = 0 THEN <<>> ELSE << Part(appendix, end, 0, 0) >>
  IN  Chained(<<preamble>> \o articles \o <<rest>>)

TextParts(t) ==
  LET all == Headings(t)
  IN  PartsOf(t, all, AppendixStart(t, all))

(* _parsed_chunk.                                                          *)
ParsedChunk(bounds, span, part) ==
  [start |-> span[1], end |-> span[2], heading |-> part.heading, clause |-> part.clause,
   first |-> PageFor(bounds, span[1]),
   last |-> PageFor(bounds, Max({span[2] - 1, span[1]}))]

ChunksOf(t, bounds, part) ==
  LET spans == SplitSpan(t, part.from, part.to)
  IN  [k \in DOMAIN spans |-> ParsedChunk(bounds, spans[k], part)]

PassagesOf(t, bounds) ==
  LET parts == TextParts(t)
  IN  Chained([k \in DOMAIN parts |-> ChunksOf(t, bounds, parts[k])])

(* build_article_chunks, of the pages joined.                              *)
BuildArticleChunks(ps) == PassagesOf(Joined(ps), Boundaries(ps))

-----------------------------------------------------------------------------
(* Properties.                                                             *)

(* What a reader would call the headings: the article lines that are not   *)
(* those of another text, cited at the start of a line.                    *)
TrueArticles(t) == {i \in DOMAIN t : IsArticleLine(t, i) /\ ~Articles[t[i]].cited}

(* Texts whose headings the code can know: their numbers go up, and those  *)
(* cited are not above the last.  A regulation attached to a decision      *)
(* begins again at 1; of such a text the articles are not all found.       *)
ArticlesGoUp(t) ==
  LET true == TrueArticles(t)
  IN  /\ \A i \in true : Number(t, i) > 0
      /\ \A i, j \in true : j < i => Number(t, j) < Number(t, i)
      /\ \A i \in DOMAIN t \ true : IsArticleLine(t, i) =>
           \E j \in true : j < i /\ Number(t, i) <= Number(t, j)

(* Passages are short, in the order of the text, do not overlap, and leave *)
(* out nothing but white space and a preamble of a few characters.         *)
NothingIsLost(t, chunks) ==
  LET covered == UNION {chunks[k].start .. chunks[k].end - 1 : k \in DOMAIN chunks}
      lost == {i \in DOMAIN t : t[i] \notin White} \ covered
  IN  /\ \A k \in DOMAIN chunks :
           /\ chunks[k].end - chunks[k].start \in 1 .. MaxChunk
           /\ k > 1 => chunks[k - 1].end <= chunks[k].start
           /\ {t[chunks[k].start], t[chunks[k].end - 1]} \cap White = {}
      /\ lost # {} =>
           /\ Cardinality(lost) < MinPreamble
           /\ \A i \in lost : \A k \in DOMAIN chunks : i < chunks[k].start

(* A passage is filed under the last article of its text before it, under  *)
(* none only before the first heading or behind a signature or the title   *)
(* of an appendix.  Behind a signature no article follows, nothing belongs *)
(* to an article; articles that go on with the numbering there are kept.   *)
ArticlesAreRight(t, chunks) ==
  LET true == TrueArticles(t)
      closing == {i \in LineStarts(t) : t[i] \in Signatures \cup Appendices}
      goesOn(c) ==
        \E i \in true : /\ i > c
                        /\ \A j \in true : ~(j > c /\ j < i)
                        /\ \E j \in true : j < c /\ Number(t, i) = Number(t, j) + 1
  IN  true # {} =>
        \A k \in DOMAIN chunks :
          LET start == chunks[k].start
              earlier == {i \in true : i <= start}
              shut == {c \in closing : earlier # {} /\ c <= start /\ c > Min(true)}
          IN  /\ chunks[k].heading # 0 => chunks[k].heading = Max(earlier)
              /\ chunks[k].heading = 0 => earlier = {} \/ shut # {}
              /\ (\E c \in shut : \A i \in true : i < c) => chunks[k].heading = 0
              /\ (earlier # {} /\ \A c \in shut : t[c] \in Signatures /\ goesOn(c))
                   => chunks[k].heading # 0
              /\ ~\E i \in true : /\ chunks[k].heading # 0
                                  /\ start < i /\ i < chunks[k].end

(* Clauses of an article count 1, 2, 3; the passage in which clause n      *)
(* begins is filed under n, except that the article's heading goes with    *)
(* clause 1, and after a line numbered n it has none numbered n + 1; and a *)
(* passage lies on the pages it names.                                     *)
PlacesAreRight(t, chunks) ==
  LET onPage(i) == 1 + Cardinality({j \in 1 .. i : t[j] = "^"})
      numbered(i, n) == StartsLine(t, i) /\ t[i] \in DOMAIN Clauses /\ Clauses[t[i]] = n
  IN  \A k \in DOMAIN chunks :
        LET c == chunks[k]
            opening == k = 1 \/ chunks[k - 1].heading # c.heading
                             \/ chunks[k - 1].clause # c.clause
        IN  /\ c.first = onPage(c.start) /\ c.last = onPage(c.end - 1)
            /\ c.clause > 0 /\ opening =>
                 IF c.clause = 1 /\ c.start = c.heading THEN TRUE
                 ELSE /\ numbered(c.start, c.clause)
                      /\ chunks[k - 1].heading = c.heading
                      /\ chunks[k - 1].clause = c.clause - 1
            /\ c.clause > 0 =>
                 ~\E i \in c.start .. c.end - 1 : \E b \in c.heading .. i - 1 :
                     numbered(b, c.clause) /\ numbered(i, c.clause + 1)

(* Chunking the stored text again gives the same passages, so that they    *)
(* keep their embeddings; an article that only fits with the empty pages   *)
(* behind it cut off is the exception.                                     *)
RechunkAgrees ==
  LET stored == StoredPages(pages)
      tail == Len(Joined(pages)) - Len(Joined(stored))
      headings == Headings(Joined(pages))
      length == Len(Joined(stored)) + 1 - Last(headings)
      kept == headings = <<>> \/ length > MaxChunk \/ length + tail <= MaxChunk
  IN  stored # pages /\ kept => BuildArticleChunks(stored) = BuildArticleChunks(pages)

(* What the corpus holds of a document is its text, and chunking it again  *)
(* does not change that.                                                   *)
PassagesHoldTheText ==
  NothingIsLost(Joined(pages), BuildArticleChunks(pages)) /\ RechunkAgrees

(* Where a passage says it stands: its pages and its clause, and in a text *)
(* whose article numbers go up its article.                                *)
LocatorsAreRight ==
  LET right(t, chunks) ==
        /\ ArticlesGoUp(t) => ArticlesAreRight(t, chunks)
        /\ PlacesAreRight(t, chunks)
  IN  right(Joined(pages), BuildArticleChunks(pages))
=============================================================================
