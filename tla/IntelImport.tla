----------------------------- MODULE IntelImport -----------------------------
(***************************************************************************)
(* One run of update-opponent-intel up to the commit (opponent_intel_db/   *)
(* cli.py, discovery.py, downloader.py, robots.py, normalize.py): the      *)
(* ranked list of species is read page by page, each species' own page     *)
(* after that, a second site fills gaps, and the result is published only  *)
(* if the list was provably read to its end and no species failed.         *)
(*                                                                         *)
(* The site is the environment: it may rank the species anew between two   *)
(* requests, and an answer may fail, be cut off, lack rows, numbers or the *)
(* link to the next page, or link back.  What it says of itself (its total *)
(* and its last page) is true where it says it.                            *)
(***************************************************************************)
EXTENDS Naturals, Sequences, FiniteSets, SequencesExt

CONSTANTS
  Species,       \* the species the site ranks
  MaxPages,      \* MAX_PAGES, the pages followed at most
  MaxRankings    \* bound: how often the site ranks anew

Absent == 0

ASSUME ImportAssumption ==
  IsFiniteSet(Species) /\ MaxPages \in Nat /\ MaxRankings \in Nat

VARIABLES
  site,       \* what the site shows of itself, its ranking and page size
  crawl,      \* the traversal of discover_all_species
  robots,     \* robots[d]: what the cached robots.txt of a site permits
  filter,     \* the --species argument, or the empty set
  import,     \* the entries to fetch, the records made, the species failed
  published,  \* the species of the generation that was committed
  history     \* faults: an answer was not the honest one; unread: a row of
              \* a list page was not there or not readable

importVars == <<site, crawl, robots, filter, import, published, history>>

---------------------------------------------------------------------------
Count == Cardinality(Species)
Pages == (Count + site.size - 1) \div site.size
RowsOfPage(k) ==
  SubSeq(site.ranking, (k - 1) * site.size + 1,
         IF k * site.size < Count THEN k * site.size ELSE Count)

(* A list page as the parser reads it: the rows with the rank the site     *)
(* shows, and the answers of page_is_well_formed, extract_next_page_url,   *)
(* extract_advertised_total and extract_declared_last_page.                *)
Rows(k, numbered) ==
  [i \in 1..Len(RowsOfPage(k)) |->
     [species |-> RowsOfPage(k)[i],
      rank |-> IF numbered THEN (k - 1) * site.size + i ELSE Absent]]

Honest(k) ==
  [rows |-> Rows(k, site.ranks), wellFormed |-> TRUE,
   next |-> IF k < Pages THEN k + 1 ELSE Absent,
   total |-> IF site.total THEN Count ELSE Absent,
   last |-> IF site.last THEN Pages ELSE Absent]

(* What may come instead. *)
Answers(k) ==
  [rows : {Rows(k, site.ranks), Tail(Rows(k, site.ranks)), Rows(k, FALSE)},
   wellFormed : BOOLEAN, next : {Absent, 1, Honest(k).next},
   total : {Honest(k).total}, last : {Honest(k).last}]

---------------------------------------------------------------------------
Outcome == {"RUNNING", "COMPLETE", "INCOMPLETE", "UNPROVABLE"}
Undecided == "RUNNING"

SpeciesOf(entries) == {entries[i].species : i \in DOMAIN entries}

(* _check_rank_sequence: no ranks at all, or exactly 1..N. *)
RanksAreContiguous(entries) ==
  LET ranks == {entries[i].rank : i \in DOMAIN entries} IN
  ranks = {Absent} \/ ranks = 1..Len(entries)

(* Mutant: contiguous ranks are proof enough. *)
VerdictByRanks(c) ==
  IF \/ Cardinality(SpeciesOf(c.entries)) # Len(c.entries)
     \/ c.total # Absent /\ c.total # Len(c.entries)
     \/ ~RanksAreContiguous(c.entries)
     \/ c.last # Absent /\ c.visited # [k \in 1..c.last |-> k]
  THEN "INCOMPLETE" ELSE "COMPLETE"

(* discover_all_species, after the last page: no species twice, as many as *)
(* advertised, contiguous ranks, pages 1 to the declared last; and a total *)
(* or a last page must have been stated at all.                            *)
Verdict(c) ==
  IF \/ Cardinality(SpeciesOf(c.entries)) # Len(c.entries)
     \/ c.total # Absent /\ c.total # Len(c.entries)
     \/ ~RanksAreContiguous(c.entries)
     \/ c.last # Absent /\ c.visited # [k \in 1..c.last |-> k]
  THEN "INCOMPLETE"
  ELSE IF c.total # Absent \/ c.last # Absent THEN "COMPLETE" ELSE "UNPROVABLE"

(* What is known of the list with one page more. *)
WithPage(c, k, page) ==
  [c EXCEPT !.visited = Append(@, k),
            !.entries = @ \o page.rows,
            !.total = IF page.total = Absent THEN @ ELSE page.total,
            !.last = IF page.last = Absent THEN @ ELSE page.last,
            !.page = page.next]

(* One page more: the next page, or the verdict. *)
AfterPage(c, k, page) ==
  LET read == WithPage(c, k, page)
      Ended(outcome) == [read EXCEPT !.outcome = outcome]
  IN IF ~page.wellFormed \/ page.rows = <<>> THEN [c EXCEPT !.outcome = "INCOMPLETE"]
     ELSE IF page.next = Absent
     THEN Ended(IF read.last # Absent /\ k < read.last THEN "INCOMPLETE" ELSE Verdict(read))
     ELSE IF \/ Len(read.visited) >= MaxPages
             \/ page.next \in {read.visited[i] : i \in DOMAIN read.visited}
     THEN Ended("INCOMPLETE") ELSE read

---------------------------------------------------------------------------
Sites == {"primary", "secondary"}

ImportInit ==
  /\ site \in [total: BOOLEAN, last: BOOLEAN, ranks: BOOLEAN,
               size: 1..Count, ranking: {SetToSeq(Species)}]
  /\ crawl = [page |-> 1, visited |-> <<>>, entries |-> <<>>, total |-> Absent,
              last |-> Absent, outcome |-> Undecided]
  /\ robots = [d \in Sites |-> "UNKNOWN"]
  /\ filter \in {{}} \cup {{s} : s \in Species}
  /\ import = [stubs |-> {}, records |-> <<>>, failed |-> {},
               step |-> "list"]
  /\ published = {}
  /\ history = [rankings |-> 0, faults |-> FALSE, unread |-> FALSE]

(* The site exchanges two species. *)
RankAnew ==
  /\ history.rankings < MaxRankings /\ import.step = "list"
  /\ \E i, j \in 1..Count :
       /\ i < j
       /\ site' = [site EXCEPT !.ranking =
                     [@ EXCEPT ![i] = site.ranking[j], ![j] = site.ranking[i]]]
  /\ history' = [history EXCEPT !.rankings = @ + 1, !.faults = TRUE]
  /\ UNCHANGED <<crawl, robots, filter, import, published>>

(* RobotsGate: robots.txt is read once; what is not a policy forbids.      *)
ReadRobots(d) ==
  /\ robots[d] = "UNKNOWN"
  /\ IF d = "primary" THEN import.step = "list" ELSE import.step = "supplement"
  /\ \E answer \in {"ALLOWED", "BLOCKED"} :
       /\ robots' = [robots EXCEPT ![d] = answer]
       /\ history' = [history EXCEPT !.faults = @ \/ answer = "BLOCKED"]
  /\ UNCHANGED <<site, crawl, filter, import, published>>

(* SnapshotDownloader.get answered, at once or at the second attempt. *)
ReadListPage ==
  /\ import.step = "list" /\ crawl.outcome = Undecided
  /\ robots["primary"] = "ALLOWED"
  /\ \E page \in Answers(crawl.page) :
       /\ crawl' = AfterPage(crawl, crawl.page, page)
       /\ history' = [history EXCEPT
            !.faults = @ \/ page # Honest(crawl.page),
            !.unread = @ \/ Len(page.rows) # Len(RowsOfPage(crawl.page))]
  /\ UNCHANGED <<site, robots, filter, import, published>>

(* It failed twice, or robots.txt forbids the page. *)
FailListPage ==
  /\ import.step = "list" /\ crawl.outcome = Undecided
  /\ robots["primary"] # "UNKNOWN"
  /\ crawl' = [crawl EXCEPT !.outcome = "INCOMPLETE"]
  /\ history' = [history EXCEPT !.faults = TRUE]
  /\ UNCHANGED <<site, robots, filter, import, published>>

(* fetch_primary_species goes on only with a complete list. *)
BeginDetails ==
  /\ import.step = "list" /\ crawl.outcome # Undecided
  /\ LET stubs == {i \in DOMAIN crawl.entries :
                     filter = {} \/ crawl.entries[i].species \in filter}
     IN import' = IF crawl.outcome = "COMPLETE" /\ stubs # {}
                  THEN [import EXCEPT !.stubs = stubs, !.step = "details"]
                  ELSE [import EXCEPT !.step = "refused"]
  /\ UNCHANGED <<site, crawl, robots, filter, published, history>>

(* parse_species_detail and SpeciesStatsRecord.from_json_dict: a page is   *)
(* readable if some section is, and a percentage outside 0 to 100 spoils   *)
(* the record.                                                             *)
Section == {"moves", "natures"}
Page == [found: SUBSET Section, inRange: BOOLEAN]
Readable(page) == page.found # {} /\ page.inRange
RecordOf(page) == [c \in Section |-> IF c \in page.found THEN "primary" ELSE "none"]

(* The stubs are fetched in the order of the list. *)
NextStub == Min(import.stubs)

WithRecord(records, species, record) ==
  [d \in DOMAIN records \cup {species} |->
     IF d \in DOMAIN records THEN records[d] ELSE record]

(* The page of a species is read and parsed. *)
ReadDetail ==
  /\ import.step = "details" /\ import.stubs # {}
  /\ LET species == crawl.entries[NextStub].species IN
     \E page \in Page :
       /\ import' = [import EXCEPT
            !.stubs = @ \ {NextStub},
            !.records = IF Readable(page) THEN WithRecord(@, species, RecordOf(page)) ELSE @,
            !.failed = IF Readable(page) THEN @ ELSE @ \cup {species}]
       /\ history' = [history EXCEPT !.faults = @ \/ ~Readable(page)]
  /\ UNCHANGED <<site, crawl, robots, filter, published>>

(* It could not be fetched. *)
FailDetail ==
  /\ import.step = "details" /\ import.stubs # {}
  /\ import' = [import EXCEPT !.stubs = @ \ {NextStub},
                              !.failed = @ \cup {crawl.entries[NextStub].species}]
  /\ history' = [history EXCEPT !.faults = TRUE]
  /\ UNCHANGED <<site, crawl, robots, filter, published>>

(* The promotion gate: no species failed. *)
EndDetails ==
  /\ import.step = "details" /\ import.stubs = {}
  /\ import' = [import EXCEPT
       !.step = IF import.failed # {} THEN "refused" ELSE "supplement"]
  /\ UNCHANGED <<site, crawl, robots, filter, published, history>>

(* merge_secondary_supplement: where the primary source had no natures the *)
(* second site may have them; it is asked for nothing else, may be skipped *)
(* and may fail.                                                           *)
Gaps == {d \in DOMAIN import.records : import.records[d]["natures"] = "none"}

Supplement ==
  /\ import.step = "supplement"
  /\ \E answered \in SUBSET Gaps :
       /\ robots["secondary"] # "ALLOWED" => answered = {}
       /\ import' = [import EXCEPT !.step = "commit", !.records =
            [d \in DOMAIN @ |-> IF d \in answered
                                THEN [@[d] EXCEPT !["natures"] = "secondary"] ELSE @[d]]]
  /\ UNCHANGED <<site, crawl, robots, filter, published, history>>

(* A percentage above 100 on the second site: the entry is made outside    *)
(* the try block, and the run ends with an error.                          *)
BreakSupplement ==
  /\ import.step = "supplement" /\ robots["secondary"] = "ALLOWED" /\ Gaps # {}
  /\ import' = [import EXCEPT !.step = "refused"]
  /\ history' = [history EXCEPT !.faults = TRUE]
  /\ UNCHANGED <<site, crawl, robots, filter, published>>

(* run_update_opponent_intel hands the whole document to commit_generation *)
Publish ==
  /\ import.step = "commit"
  /\ published' = DOMAIN import.records
  /\ import' = [import EXCEPT !.step = "done"]
  /\ UNCHANGED <<site, crawl, robots, filter, history>>

ImportNext ==
  \/ RankAnew
  \/ \E d \in Sites : ReadRobots(d)
  \/ ReadListPage \/ FailListPage \/ BeginDetails \/ ReadDetail \/ FailDetail
  \/ EndDetails \/ Supplement \/ BreakSupplement \/ Publish

ImportSpec == ImportInit /\ [][ImportNext]_importVars

---------------------------------------------------------------------------
(* A generation is published only if it has every species the site ranks   *)
(* (or the one asked for), although the ranking changes during the         *)
(* traversal, pages are cut off, links are missing or lead back, and       *)
(* species fail.  A row that cannot be read is noticed where the site      *)
(* states its total.                                                       *)
ImportIsWhole ==
  published # {} =>
    \/ filter # {} /\ published = filter
    \/ filter = {} /\ published = Species
    \/ history.unread /\ crawl.total = Absent

(* merge_secondary_supplement: "the caller never sees an exception from    *)
(* this function": once the primary import is complete it is published.    *)
(* It does not hold (README, section 6).                                   *)
SecondaryIsBestEffort ==
  [][import.step = "supplement" => import'.step # "refused"]_importVars

(* The proof of completeness asks for no more than an honest site gives:   *)
(* when nothing goes wrong and the site states a total or a last page, the *)
(* import is not refused.                                                  *)
HonestImportIsPublished ==
  (~history.faults /\ (site.total \/ site.last) /\ Pages <= MaxPages) =>
    import.step # "refused"

(* The verdict on an import is right both ways: what is published is       *)
(* whole, and a whole list is published.                                   *)
VerdictIsRight == ImportIsWhole /\ HonestImportIsPublished
=============================================================================
