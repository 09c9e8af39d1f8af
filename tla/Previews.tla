------------------------------ MODULE Previews ------------------------------
(***************************************************************************)
(* The preview the library shows for a version: _previews_by_version of    *)
(* api/routes/documents.py picks one of the passages Chunking makes.       *)
(***************************************************************************)
EXTENDS Chunking

(* Mutant: NULL sorts last, so that an article's clauses come before its   *)
(* introduction.                                                           *)
ClauseRank_Last(c) == IF c.clause = 0 THEN MaxLines ELSE c.clause

(* The introduction, which has no clause, then the clauses.                *)
ClauseRank(c) == c.clause

(* _previews_by_version: articles first, by page, number and clause.  The  *)
(* id decides between pieces of one clause on one page, so each of them    *)
(* may be the one shown.                                                   *)
Previews(t, chunks) ==
  LET number(c) ==
        IF c.heading = 0 \/ t[c.heading] \notin DOMAIN Articles THEN 0
        ELSE Articles[t[c.heading]].number
      before(c, e) ==
        \/ number(c) > 0 /\ number(e) = 0
        \/ /\ (number(c) = 0) = (number(e) = 0)
           /\ \/ c.first < e.first
              \/ c.first = e.first /\ number(c) < number(e)
              \/ /\ c.first = e.first /\ number(c) = number(e)
                 /\ ClauseRank(c) < ClauseRank(e)
  IN  {k \in DOMAIN chunks : \A j \in DOMAIN chunks : ~before(chunks[j], chunks[k])}

-----------------------------------------------------------------------------
(* Property.                                                               *)

(* The preview is the opening words of the text's first article: the one   *)
(* passage that can be shown starts at its heading, however the pages are  *)
(* turned.  The exception is a first clause, or an article without any,    *)
(* that is too long for a passage: a later piece on the same page may be   *)
(* shown.  Nothing is claimed of a text without articles.                  *)
OpensAt(first, t, chunks) ==
  LET opening == Min({k \in DOMAIN chunks : chunks[k].heading = first})
      pieces == {k \in opening .. Len(chunks) : \A j \in opening .. k :
                   /\ chunks[j].heading = first
                   /\ chunks[j].clause = chunks[opening].clause}
      long == chunks[Max(pieces)].end - first > MaxChunk
  IN  \A k \in Previews(t, chunks) :
        \/ chunks[k].start = first
        \/ long /\ k \in pieces /\ chunks[k].first = chunks[opening].first

PreviewOpens ==
  LET opens(t, true) ==
        true # {} /\ ArticlesGoUp(t) => OpensAt(Min(true), t, BuildArticleChunks(pages))
  IN  opens(Joined(pages), TrueArticles(Joined(pages)))
=============================================================================
