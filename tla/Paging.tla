------------------------------- MODULE Paging -------------------------------
(***************************************************************************)
(* internal/paging/paging.go and the list of internal/collector/databases: *)
(* reading a numbered list page by page while the account changes under    *)
(* the walk.  Every collector that lists reads through one of the two:     *)
(*   paging.All             drops what an earlier page already held and    *)
(*                          stops where the API names no next page;        *)
(*   databases.listClusters has no page links to go by: it stops at a page *)
(*                          that is not full, and at the first repeat.     *)
(*                                                                         *)
(* Details.tla adds what the collectors do with the list.                  *)
(***************************************************************************)
EXTENDS Integers, Sequences, SequencesExt, Lists

CONSTANTS
  Items,     \* clusters, checks, projects
  Matching,  \* those the collector's filter lets through
  PerPage,   \* items to a page, at least 1
  MaxPage    \* bound: no walk asks for a later page

ASSUME PagingAssumption == /\ Matching \subseteq Items
                           /\ PerPage \in Nat \ {0}
                           /\ MaxPage \in Nat \ {0}

Kinds == {"kubernetes", "databases", "projects"}

VARIABLES
  kind,     \* which collector this is
  server,   \* "pages", or "ignores" the page asked for (the databases endpoint)
  account,  \* what exists, in the order the API lists it
  healthy,  \* DigitalOcean answers, well-formed and in time
  late,     \* the refresh's context is done
  phase,    \* "idle", "walk", "listed", then Details' "lookup"
  pageNo, seen, out,  \* opts.Page, the keys seen, the items kept
  stayed, changed     \* history of the walk: what was there throughout; how the account changed

worldVars == <<kind, server, account, healthy, late>>
walkVars  == <<pageNo, seen, out, stayed, changed>>

Present == ToSet(account)
Filtering == kind \in {"kubernetes", "databases"}
Kept(items) == IF Filtering THEN items \cap Matching ELSE items

WalkTypeOK ==
  /\ kind \in Kinds /\ server \in {"pages", "ignores"}
  /\ account \in Seq(Items)
  /\ healthy \in BOOLEAN /\ late \in BOOLEAN
  /\ pageNo \in 1..MaxPage
  /\ seen \subseteq Items
  /\ out \in Seq(Items)
  /\ stayed \subseteq Items /\ changed \in {"no", "grew", "shrank"}

WalkInit ==
  /\ kind \in Kinds
  /\ server \in {"pages", "ignores"}
  /\ server = "ignores" => kind = "databases"
  /\ account = << >> /\ healthy = TRUE /\ late = FALSE
  /\ phase = "idle"
  /\ pageNo = 1 /\ seen = {} /\ out = << >>
  /\ stayed = {} /\ changed = "no"

-----------------------------------------------------------------------------
(* The account and DigitalOcean, at any moment; but what is created after   *)
(* the walk might as well be created after the refresh, so it is.           *)
Create(i) ==
  /\ i \notin Present
  /\ phase \in {"idle", "walk"}
  /\ account' \in {<<i>> \o account, Append(account, i)}
  /\ changed' = IF phase = "walk" /\ changed = "no" THEN "grew" ELSE changed
  /\ UNCHANGED <<kind, server, healthy, late, phase, pageNo, seen, out, stayed>>

Destroy(i) ==
  /\ i \in Present
  /\ account' = Only(account, Items \ {i})
  /\ changed' = IF phase = "walk" THEN "shrank" ELSE changed
  /\ stayed' = IF phase = "walk" THEN stayed \ {i} ELSE stayed
  /\ UNCHANGED <<kind, server, healthy, late, phase, pageNo, seen, out>>

HealthChange == /\ healthy' = ~healthy
                /\ UNCHANGED <<kind, server, account, late, phase, walkVars>>

(* The deadline bounds a refresh, and comes only when requests are slow. *)
Expire == /\ phase # "idle"
          /\ ~healthy /\ ~late
          /\ late' = TRUE
          /\ UNCHANGED <<kind, server, account, healthy, phase, walkVars>>

Answering == healthy /\ ~late

-----------------------------------------------------------------------------
Page(n) == IF server = "ignores" THEN account
           ELSE SubSeq(account, (n - 1) * PerPage + 1,
                       IF n * PerPage < Len(account) THEN n * PerPage ELSE Len(account))

Begin == /\ phase = "idle"
         /\ phase' = "walk"
         /\ stayed' = Present
         /\ UNCHANGED <<worldVars, pageNo, seen, out, changed>>

(* What the walk does with the page it has read: keep, mark and go on or stop. *)
Take(kept, marked, ends) ==
  /\ out' = out \o kept
  /\ \/ ends /\ phase' = "listed" /\ pageNo' = 1 /\ seen' = {}
     \/ ~ends /\ pageNo < MaxPage /\ pageNo' = pageNo + 1
              /\ seen' = seen \cup marked /\ UNCHANGED phase
  /\ UNCHANGED <<worldVars, stayed, changed>>

ForgetWalk == pageNo' = 1 /\ seen' = {} /\ stayed' = {} /\ changed' = "no"

keepNew(page) == Only(page, Items \ seen)

IsLastPage(n) == n * PerPage >= Len(account)

(* Mutant: a repeat is taken for the end of the list. *)
AllStopsAtRepeat ==
  LET page == Page(pageNo)
  IN  /\ phase = "walk" /\ kind # "databases" /\ Answering
      /\ Take(keepNew(page), ToSet(page), keepNew(page) # page \/ IsLastPage(pageNo))

(* paging.All *)
All ==
  LET page == Page(pageNo)
  IN  /\ phase = "walk" /\ kind # "databases" /\ Answering
      /\ Take(keepNew(page), ToSet(page), IsLastPage(pageNo))

(* Up to the first cluster an earlier page held. *)
BeforeRepeat(page) ==
  LET repeats == {k \in DOMAIN page : page[k] \in seen}
  IN  IF repeats = {} THEN page
      ELSE SubSeq(page, 1, Min(repeats) - 1)

(* Mutant: clusters that are filtered out are not marked as seen. *)
MarkMatchingOnly ==
  LET page == Page(pageNo)
      new  == BeforeRepeat(page)
      kept == Only(new, Matching)
  IN  /\ phase = "walk" /\ kind = "databases" /\ Answering
      /\ Take(kept, ToSet(kept), new # page \/ Len(page) < PerPage)

(* databases.listClusters *)
listClusters ==
  LET page == Page(pageNo)
      new  == BeforeRepeat(page)
  IN  /\ phase = "walk" /\ kind = "databases" /\ Answering
      /\ Take(Only(new, Matching), ToSet(new), new # page \/ Len(page) < PerPage)

-----------------------------------------------------------------------------
(* However creations and deletions shift items across the page boundaries,  *)
(* no item is listed twice (two entries for one resource would be two series *)
(* with the same labels, one of which a scrape rejects); over an account     *)
(* that stood still a walk returns exactly it, by either stopping rule and   *)
(* from a server that ignores the page; and in paging.All nothing that was   *)
(* there from the first request to the last is missed on account of what was *)
(* created in between.                                                       *)
PagesAddUp ==
  /\ IsInjective(out)
  /\ phase = "listed" /\ changed = "no" => Kept(ToSet(out)) = Kept(stayed)
  /\ phase = "listed" /\ kind # "databases" /\ changed = "grew" => stayed \subseteq ToSet(out)

(* "A cluster that was already on an earlier page means the endpoint served *)
(* the same list again ... The repeat is where the list ends"               *)
(* (listClusters): no cluster lies behind a repeat.                         *)
RepeatEndsList ==
  phase = "listed" /\ kind = "databases" /\ changed = "grew" => Kept(stayed) \subseteq ToSet(out)
=============================================================================
