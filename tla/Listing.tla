------------------------------- MODULE Listing ------------------------------
(***************************************************************************)
(* How collect_sources.py learns what the portals hold.                    *)
(*                                                                         *)
(* The ministry's search (ingestion/mof.py) is read page by page, in two   *)
(* or more selections, while documents are published and withdrawn; a      *)
(* finished listing is kept for a day.  The government portal's search     *)
(* (GovernmentPortalSearch in ingestion/connectors.py) shows the first few *)
(* results of a year and has no second page, so that a full answer is      *)
(* asked for again, for each of nine issuers.  What local issuers publish  *)
(* is left out; what others than the nine do is listed as far as shown.    *)
(***************************************************************************)
EXTENDS Integers, Sequences, FiniteSets, SequencesExt

CONSTANTS
  Records,    \* documents of the ministry's portal, numbered as they appear
  Selections, \* TAX_SELECTIONS: the records that each of them selects
  Wanted,     \* records that _is_wanted keeps and that have a file to fetch
  PageSize,   \* page_size
  Retries,    \* requests made before the ministry is called unavailable
  Day,        \* how long a listing is kept, in ticks
  Years,      \* the years searched on the government portal
  Holdings,   \* its tax documents: their year and issuer
  Issuers,    \* NATIONAL_ISSUER_IDS, in order
  Local,      \* issuers whose code is one of LOCAL_ISSUER_CODES
  Cap,        \* SEARCH_RESULT_CAP
  Attempts    \* SEARCH_ATTEMPTS

ASSUME ListingAssumption ==
  /\ Records \subseteq Nat
  /\ Selections \in Seq(SUBSET Records) /\ Selections # <<>>
  /\ Wanted \subseteq Records
  /\ {PageSize, Retries, Day, Cap, Attempts} \subseteq Nat \ {0}
  /\ Years \in Seq(Nat) /\ Years # <<>>
  /\ \A i, j \in DOMAIN Years : Years[i] = Years[j] => i = j
  /\ Issuers \in Seq(STRING) /\ Issuers # <<>>
  /\ IsFiniteSet(Holdings)

VARIABLES
  portal,   \* the ministry's records
  seen,     \* the records published so far, also those withdrawn
  run,      \* the listing of the ministry's portal that is under way
  cache,    \* the listing kept, with its age in ticks
  search    \* the listing of the government portal

mofVars == <<portal, seen, run, cache>>
listingVars == <<mofVars, search>>

NoListing == [records |-> {}, age |-> Day, there |-> {}, shifted |-> FALSE]

(* there, shifted: history.  The records held from the first request on,   *)
(* and whether one of them was withdrawn in between.                       *)
Reading(held) ==
  [pc |-> "reading", selection |-> 1, page |-> 1, attempt |-> 1,
   records |-> {}, there |-> held, shifted |-> FALSE]

NotListing == [Reading({}) EXCEPT !.pc = "idle"]

ListingInit ==
  /\ portal = {} /\ seen = {}
  /\ run = NotListing
  /\ cache = NoListing
  /\ search = [pc |-> "searching", year |-> 1, issuer |-> 0, attempt |-> 1,
               found |-> {}, documents |-> {}, skipped |-> {}]

-----------------------------------------------------------------------------
(* The ministry's portal, read while it changes.                           *)

Publish(r) ==
  /\ \A x \in seen : x < r
  /\ portal' = portal \cup {r}
  /\ seen' = seen \cup {r}
  /\ UNCHANGED <<run, cache, search>>

(* The records behind it move up, perhaps onto a page already read.        *)
Withdraw(r) ==
  /\ r \in portal
  /\ portal' = portal \ {r}
  /\ run' = [run EXCEPT !.there = @ \ {r}, !.shifted = @ \/ run.pc = "reading"]
  /\ UNCHANGED <<seen, cache, search>>

(* _cached_mof_listing: a listing less than a day old is used again.       *)
Reuse ==
  /\ run.pc = "idle"
  /\ cache.age < Day
  /\ run' = [run EXCEPT !.pc = "done", !.records = cache.records,
                        !.there = cache.there, !.shifted = cache.shifted]
  /\ UNCHANGED <<portal, seen, cache, search>>

(* With --refresh-listing, or without a listing to use.                    *)
Begin ==
  /\ run.pc = "idle"
  /\ run' = Reading(portal)
  /\ UNCHANGED <<portal, seen, cache, search>>

Selected == portal \cap Selections[run.selection]

(* The answer is sorted, newest first: those before r in it.               *)
Ahead(r) == {x \in Selected : x > r}

Shown ==
  {r \in Selected :
     LET place == Cardinality(Ahead(r))
     IN  (run.page - 1) * PageSize <= place /\ place < run.page * PageSize}

(* Mutant: a full page is the last one if the next would be short.         *)
LastPage_Early ==
  \/ Cardinality(Shown) < PageSize
  \/ (run.page + 1) * PageSize >= Cardinality(Selected)

(* total is the one of this answer, not that of the first page.            *)
LastPage ==
  \/ Cardinality(Shown) < PageSize
  \/ run.page * PageSize >= Cardinality(Selected)

(* _search: one page, then the next or the next selection.                 *)
ReadPage ==
  /\ run.pc = "reading"
  /\ LET records == run.records \cup Shown
     IN  IF ~LastPage
         THEN /\ run' = [run EXCEPT !.page = @ + 1, !.attempt = 1, !.records = records]
              /\ UNCHANGED cache
         ELSE IF run.selection < Len(Selections)
         THEN /\ run' = [run EXCEPT !.selection = @ + 1, !.page = 1, !.attempt = 1,
                                    !.records = records]
              /\ UNCHANGED cache
         ELSE /\ run' = [run EXCEPT !.pc = "done", !.records = records \cap Wanted]
              /\ cache' = [records |-> records \cap Wanted, age |-> 0,
                           there |-> run.there, shifted |-> run.shifted]
  /\ UNCHANGED <<portal, seen, search>>

(* _request: any HTTP error is retried; then the source is unavailable.    *)
RequestFails ==
  /\ run.pc = "reading"
  /\ run' = IF run.attempt < Retries THEN [run EXCEPT !.attempt = @ + 1]
            ELSE [NotListing EXCEPT !.pc = "unavailable"]
  /\ UNCHANGED <<portal, seen, cache, search>>

NextRun ==
  /\ run.pc \in {"done", "unavailable"}
  /\ run' = NotListing
  /\ UNCHANGED <<portal, seen, cache, search>>

Tick ==
  /\ cache.age < Day
  /\ cache' = IF cache.age + 1 < Day THEN [cache EXCEPT !.age = @ + 1] ELSE NoListing
  /\ UNCHANGED <<portal, seen, run, search>>

-----------------------------------------------------------------------------
(* The government portal, year by year.                                    *)

HeldBy(year, issuer) ==
  {d \in Holdings : d.year = year /\ (issuer = 0 \/ d.issuer = Issuers[issuer])}

(* What one search may show.                                               *)
Answers(year, issuer) ==
  LET held == HeldBy(year, issuer)
  IN  {shown \in SUBSET held :
         Cardinality(shown) = IF Cardinality(held) < Cap THEN Cardinality(held) ELSE Cap}

(* Mutant: more results than a page can show.                              *)
Capped_Above(shown) == Cardinality(shown) > Cap

Capped(shown) == Cardinality(shown) >= Cap

NextYear(documents, skipped) ==
  IF search.year < Len(Years)
  THEN [search EXCEPT !.year = @ + 1, !.issuer = 0, !.attempt = 1, !.found = {},
                      !.documents = documents, !.skipped = skipped]
  ELSE [search EXCEPT !.pc = IF skipped = ToSet(Years) THEN "unreachable" ELSE "done",
                      !.found = {}, !.documents = documents, !.skipped = skipped]

(* A full answer is asked for again, issuer by issuer.  What those hold    *)
(* beyond a full answer is not seen, nor what other issuers hold beyond    *)
(* the first answer.                                                       *)
Answer ==
  /\ search.pc = "searching"
  /\ \E shown \in Answers(Years[search.year], search.issuer) :
       LET found == search.found \cup shown
           kept == {d \in found : d.issuer \notin Local}
           more == IF search.issuer = 0 THEN Capped(shown)
                   ELSE search.issuer < Len(Issuers)
       IN  search' = IF more
                     THEN [search EXCEPT !.issuer = @ + 1, !.attempt = 1, !.found = found]
                     ELSE NextYear(search.documents \cup kept, search.skipped)
  /\ UNCHANGED mofVars

(* _search_with_retries: only timeouts and lost connections are retried.   *)
SearchTimesOut ==
  /\ search.pc = "searching" /\ search.attempt < Attempts
  /\ search' = [search EXCEPT !.attempt = @ + 1]
  /\ UNCHANGED mofVars

(* An error status, or the last timeout: the year is skipped, with what    *)
(* was found of it.                                                        *)
SkipYear ==
  /\ search.pc = "searching"
  /\ search' = NextYear(search.documents, search.skipped \cup {Years[search.year]})
  /\ UNCHANGED mofVars

MinistryNext ==
  \/ \E r \in Records : Publish(r) \/ Withdraw(r)
  \/ Reuse \/ Begin \/ ReadPage \/ RequestFails \/ NextRun \/ Tick

GovernmentNext == Answer \/ SearchTimesOut \/ SkipYear

ListingNext == MinistryNext \/ GovernmentNext

ListingSpec == ListingInit /\ [][ListingNext]_listingVars

-----------------------------------------------------------------------------
(* Properties.                                                             *)

(* A listing that ends, or that is used again, holds every wanted record   *)
(* that was there while it was made, however many were published between   *)
(* two pages.  Only a withdrawal in between can hide a record.             *)
ListingMissesNothing ==
  run.pc = "done" /\ ~run.shifted =>
    run.there \cap Wanted \cap UNION ToSet(Selections) \subseteq run.records

(* A year that was not skipped is listed whole but for local issuers: if   *)
(* it has fewer documents than the cap, of every issuer, and otherwise of  *)
(* each national one whose documents fit into one answer; a skipped year   *)
(* leaves nothing behind; and the portal is called unreachable only when   *)
(* it answered for no year.                                                *)
YearsAreWhole ==
  LET ofYear(d) == {e \in Holdings : e.year = d.year}
      ofIssuer(d) == {e \in ofYear(d) : e.issuer = d.issuer}
      listed(d) ==
        \/ Cardinality(ofYear(d)) < Cap
        \/ d.issuer \in ToSet(Issuers) /\ Cardinality(ofIssuer(d)) <= Cap
  IN  /\ search.pc = "done" =>
           /\ \A d \in Holdings :
                /\ d.year \in ToSet(Years) \ search.skipped
                /\ d.issuer \notin Local /\ listed(d)
                => d \in search.documents
           /\ search.skipped # ToSet(Years)
      /\ \A d \in search.documents :
           /\ d.year \notin search.skipped
           /\ d.issuer \notin Local
=============================================================================
