--------------------------- MODULE DetailsProofs ---------------------------
(***************************************************************************)
(* Details.tla, and with it Paging.tla, for every set of items, any page   *)
(* size and any filter.  The inductive invariant has two halves: Walk ties *)
(* the list that is being read to the pages that were covered and to what  *)
(* happened to the account meanwhile, Build ties the snapshot being built  *)
(* to the one that is shown.                                               *)
(***************************************************************************)
EXTENDS Details, ListsProofs

(* What one page holds: the stretch of the account behind the earlier pages.*)
Start == (pageNo - 1) * PerPage

LEMMA PageIsStretch ==
  ASSUME WalkTypeOK, server = "pages"
  PROVE  /\ Start \in Nat /\ pageNo * PerPage = Start + PerPage
         /\ Page(pageNo) \in Seq(Items)
         /\ ToSet(Page(pageNo)) =
              {account[k] : k \in {k \in DOMAIN account : Start < k /\ k <= Start + PerPage}}
         /\ IsInjective(account) => IsInjective(Page(pageNo))
         /\ Len(Page(pageNo)) < PerPage => Len(account) < Start + PerPage
<1>1. PerPage \in Nat \ {0} /\ pageNo \in Nat \ {0} /\ account \in Seq(Items)
  BY PagingAssumption DEF WalkTypeOK
<1>2. Start \in Nat /\ pageNo * PerPage = Start + PerPage
  BY <1>1 DEF Start
<1>3. Page(pageNo) = Stretch(account, Start, PerPage)
  BY <1>2 DEF Page, Start, Stretch
<1>4. QED
  BY <1>1, <1>2, <1>3, StretchMembers

LEMMA PageIsList ==
  ASSUME WalkTypeOK
  PROVE  /\ Page(pageNo) \in Seq(Items)
         /\ IsInjective(account) => IsInjective(Page(pageNo))
<1>1. CASE server = "pages"
  BY <1>1, PageIsStretch
<1>2. CASE server = "ignores"
  BY <1>2 DEF Page, WalkTypeOK
<1>3. QED
  BY <1>1, <1>2 DEF WalkTypeOK

(* Up to the first repeat there is none, and where there is none nothing is *)
(* left out.                                                                *)
LEMMA RepeatIsCutOff ==
  ASSUME NEW page \in Seq(Items)
  PROVE  /\ BeforeRepeat(page) \in Seq(Items)
         /\ ToSet(BeforeRepeat(page)) \subseteq ToSet(page) \ seen
         /\ IsInjective(page) => IsInjective(BeforeRepeat(page))
         /\ ToSet(page) \cap seen = {} => BeforeRepeat(page) = page
         /\ ToSet(page) \subseteq seen => ToSet(BeforeRepeat(page)) = {}
<1> DEFINE repeats == {k \in DOMAIN page : page[k] \in seen}
           first == Min(repeats)
<1>1. DOMAIN page = 1..Len(page) /\ Len(page) \in Nat
  OBVIOUS
<1>2. CASE repeats = {}
  <2>1. BeforeRepeat(page) = page
    BY <1>2 DEF BeforeRepeat
  <2>2. ToSet(page) \cap seen = {}
    BY <1>2 DEF ToSet
  <2>3. ToSet(page) \subseteq seen => ToSet(page) = {}
    BY <2>2
  <2>4. QED
    BY <2>1, <2>2, <2>3
<1>3. CASE repeats # {}
  <2>1. first \in repeats /\ \A k \in repeats : first <= k
    <3>1. repeats \in SUBSET Nat
      BY <1>1
    <3>2. QED
      <4> HIDE DEF repeats
      <4> QED BY <1>3, <3>1, LeastExists
  <2>2. BeforeRepeat(page) = SubSeq(page, 1, first - 1)
    BY <1>3 DEF BeforeRepeat
  <2> HIDE DEF first
  <2>3. first \in 1..Len(page) /\ first - 1 \in 0..Len(page)
    BY <1>1, <2>1
  <2>4. /\ BeforeRepeat(page) \in Seq(Items)
        /\ ToSet(BeforeRepeat(page)) = {page[k] : k \in 1..(first - 1)}
        /\ IsInjective(page) => IsInjective(BeforeRepeat(page))
    BY <2>2, <2>3, PartMembers
  <2>5. \A k \in 1..(first - 1) : k \in DOMAIN page /\ page[k] \notin seen
    BY <1>1, <2>1, <2>3
  <2>6. ToSet(BeforeRepeat(page)) \subseteq ToSet(page) \ seen
    BY <2>4, <2>5 DEF ToSet
  <2>7. page[first] \in ToSet(page) \cap seen
    BY <2>1 DEF ToSet
  <2>8. QED
    BY <2>4, <2>6, <2>7
<1>4. QED
  BY <1>2, <1>3

-----------------------------------------------------------------------------
(* The item that is looked up next is one of the list. *)
LEMMA NextIsItem ==
  ASSUME TypeOK, Waiting # {}
  PROVE  /\ Min(Waiting) \in Waiting
         /\ out[Min(Waiting)] \in Items /\ out[Min(Waiting)] \in Kept(ToSet(out))
         /\ next[out[Min(Waiting)]] = Absent
<1>1. out \in Seq(Items) /\ Waiting \in SUBSET Nat
  BY DEF TypeOK, WalkTypeOK, Waiting
<1>2. Min(Waiting) \in Waiting
  BY <1>1, LeastExists
<1> DEFINE k == Min(Waiting)
<1> HIDE DEF k
<1>3. k \in DOMAIN out /\ out[k] \in Kept({out[k]}) /\ next[out[k]] = Absent
  BY <1>2 DEF Waiting, k
<1>4. out[k] \in Items /\ out[k] \in ToSet(out)
  BY <1>1, <1>3 DEF ToSet
<1>5. out[k] \in Kept(ToSet(out))
  BY <1>3, <1>4 DEF Kept
<1>6. QED
  BY <1>2, <1>3, <1>4, <1>5 DEF k

(* A step of Details, told apart by what becomes of the snapshots. *)
Reads    == (Begin \/ All \/ listClusters) /\ UNCHANGED detailVars
Entered(i) == {entry \in {Unknown, Fresh, Previous(i)} :
                 /\ ~asking => entry = Unknown
                 /\ asking => entry # Unknown \/ entry = Previous(i)}
LooksUp  == /\ phase = "lookup" /\ Waiting # {}
            /\ LET i == out[Min(Waiting)]
               IN  Replicas(i) \/ \E entry \in Entered(i) : Fill(i, entry)
Replaces == phase = "lookup" /\ Waiting = {} /\ ~NoneMeasured /\ snap' = next

LEMMA StepKinds ==
  ASSUME [Next]_vars
  PROVE  \/ Reads \/ StartLookups \/ LooksUp
         \/ Return /\ (UNCHANGED snap \/ Replaces)
         \/ World \/ UNCHANGED vars
<1>1. CASE Lookup
  <2> DEFINE i == out[Min(Waiting)]
  <2>1. phase = "lookup" /\ Waiting # {}
    BY <1>1 DEF Lookup
  <2>2. CASE Skip(i)
    BY <2>1, <2>2 DEF Skip, LooksUp, Entered
  <2>3. CASE Replicas(i)
    BY <2>1, <2>3 DEF LooksUp
  <2>4. CASE LookUp(i)
    <3>1. Fresh # Unknown
      BY DEF Fresh, Unknown, Entry
    <3>2. QED
      BY <2>1, <2>4, <3>1 DEF LookUp, LooksUp, Entered
  <2>5. CASE LookUpFails(i)
    BY <2>1, <2>5 DEF LookUpFails, LooksUp, Entered
  <2>6. CASE OutOfTime
    BY <2>6 DEF OutOfTime, Fails
  <2>7. QED
    BY <1>1, <2>2, <2>3, <2>4, <2>5, <2>6 DEF Lookup
<1>2. CASE WalkFails \/ AllFailed \/ Swap
  BY <1>2 DEF WalkFails, AllFailed, Swap, Fails, Replaces
<1>3. QED
  BY <1>1, <1>2 DEF Next, Refresh, Reads

-----------------------------------------------------------------------------
(* What a page adds to the list, and to the keys seen. *)
LEMMA AllTakes ==
  ASSUME WalkTypeOK
  PROVE  /\ keepNew(Page(pageNo)) \in Seq(Items)
         /\ ToSet(keepNew(Page(pageNo))) = ToSet(Page(pageNo)) \ seen
         /\ IsInjective(account) => IsInjective(keepNew(Page(pageNo)))
         /\ ToSet(Page(pageNo)) \subseteq Items
<1> DEFINE page == Page(pageNo)
<1>1. page \in Seq(Items) /\ (IsInjective(account) => IsInjective(page))
  BY PageIsList
<1>2. ToSet(page) \subseteq Items
  BY <1>1 DEF ToSet
<1> HIDE DEF page
<1>3. /\ Only(page, Items \ seen) \in Seq(Items)
      /\ ToSet(Only(page, Items \ seen)) = ToSet(page) \cap (Items \ seen)
      /\ IsInjective(page) => IsInjective(Only(page, Items \ seen))
  BY <1>1, OnlyMembers
<1>4. QED
  BY <1>1, <1>2, <1>3 DEF keepNew, page

LEMMA listClustersTakes ==
  ASSUME WalkTypeOK, NEW new, new = BeforeRepeat(Page(pageNo))
  PROVE  /\ Only(new, Matching) \in Seq(Items)
         /\ ToSet(Only(new, Matching)) = ToSet(new) \cap Matching
         /\ IsInjective(account) => IsInjective(Only(new, Matching))
         /\ ToSet(new) \subseteq Items \ seen
         /\ ToSet(new) \subseteq ToSet(Page(pageNo))
<1>1. Page(pageNo) \in Seq(Items) /\ (IsInjective(account) => IsInjective(Page(pageNo)))
  BY PageIsList
<1>2. /\ new \in Seq(Items) /\ ToSet(new) \subseteq ToSet(Page(pageNo)) \ seen
      /\ IsInjective(Page(pageNo)) => IsInjective(new)
  BY <1>1, RepeatIsCutOff
<1>3. ToSet(new) \subseteq Items
  BY <1>2 DEF ToSet
<1>4. QED
  BY <1>1, <1>2, <1>3, OnlyMembers

(* What is created comes first or last, and no place moves back. *)
LEMMA CreateAdds ==
  ASSUME WalkTypeOK, NEW i \in Items, Create(i)
  PROVE  /\ account' \in Seq(Items)
         /\ Present' = Present \cup {i}
         /\ IsInjective(account) => IsInjective(account')
         /\ \A k \in DOMAIN account' :
              account'[k] = i \/ \E j \in DOMAIN account : j <= k /\ account[j] = account'[k]
<1>1. account \in Seq(Items) /\ i \notin ToSet(account)
  BY DEF WalkTypeOK, Create, Present
<1>2. CASE account' = <<i>> \o account
  <2> DEFINE first == <<i>>
  <2>1. first \in Seq(Items) /\ ToSet(first) = {i} /\ IsInjective(first) /\ Len(first) = 1
    BY DEF ToSet, IsInjective
  <2>2. account' = first \o account
    BY <1>2
  <2>3. \A k \in DOMAIN account' : k = 1 \/ (k - 1 \in DOMAIN account /\ account'[k] = account[k - 1])
    BY <1>1, <1>2
  <2>4. account'[1] = i
    BY <1>1, <1>2
  <2>5. \A k \in DOMAIN account : k \in Nat /\ k + 1 \in Nat
    BY <1>1
  <2> HIDE DEF first
  <2>6. /\ account' \in Seq(Items) /\ ToSet(account') = {i} \cup ToSet(account)
        /\ IsInjective(account) => IsInjective(account')
    BY <1>1, <2>1, <2>2, ConcatMembers
  <2>7. ASSUME NEW k \in DOMAIN account'
        PROVE  account'[k] = i \/ \E j \in DOMAIN account : j <= k /\ account[j] = account'[k]
    <3>1. k \in Nat
      BY <2>6
    <3>2. k - 1 <= k
      BY <3>1
    <3>3. QED
      BY <2>3, <2>4, <3>2
  <2>8. QED
    BY <2>6, <2>7 DEF Present
<1>3. CASE account' = Append(account, i)
  <2>1. /\ account' \in Seq(Items) /\ ToSet(account') = ToSet(account) \cup {i}
        /\ IsInjective(account) => IsInjective(account')
    BY <1>1, <1>3, AppendMembers
  <2>2. \A k \in DOMAIN account' : account'[k] = i \/ (k \in DOMAIN account /\ account'[k] = account[k])
    BY <1>1, <1>3
  <2>3. \A k \in DOMAIN account' : k \in Nat /\ k <= k
    BY <2>1
  <2>4. QED
    BY <2>1, <2>2, <2>3 DEF Present
<1>4. QED
  BY <1>2, <1>3 DEF Create

LEMMA DestroyRemoves ==
  ASSUME WalkTypeOK, NEW i \in Items, Destroy(i)
  PROVE  /\ account' \in Seq(Items)
         /\ Present' = Present \ {i}
         /\ IsInjective(account) => IsInjective(account')
<1>1. account \in Seq(Items) /\ account' = Only(account, Items \ {i})
  BY DEF WalkTypeOK, Destroy
<1>2. ToSet(account) \subseteq Items
  BY <1>1 DEF ToSet
<1>3. /\ Only(account, Items \ {i}) \in Seq(Items)
      /\ ToSet(Only(account, Items \ {i})) = ToSet(account) \cap (Items \ {i})
      /\ IsInjective(account) => IsInjective(Only(account, Items \ {i}))
  BY <1>1, OnlyMembers
<1>4. QED
  BY <1>1, <1>2, <1>3 DEF Present

(* The types are right in every reachable state. *)
LEMMA ReadsKeepTypes ==
  ASSUME TypeOK, Reads
  PROVE  TypeOK'
<1> USE DEF TypeOK, WalkTypeOK
<1>1. MaxPage \in Nat \ {0} /\ 1 \in 1..MaxPage
  BY PagingAssumption
<1>2. UNCHANGED <<worldVars, detailVars>>
  BY DEF Reads, Begin, All, listClusters, Take
<1>3. CASE Begin
  <2>1. Present \subseteq Items
    BY DEF Present, ToSet
  <2>2. QED
    BY <1>2, <1>3, <2>1 DEF Begin, worldVars, detailVars, buildVars
<1>4. ASSUME NEW kept \in Seq(Items), NEW marked \in SUBSET Items, NEW ends \in BOOLEAN,
             phase = "walk", Take(kept, marked, ends)
      PROVE  TypeOK'
  <2>1. out' \in Seq(Items)
    BY <1>4, ConcatMembers DEF Take
  <2>2. pageNo' \in 1..MaxPage /\ seen' \subseteq Items /\ phase' \in {"walk", "listed"}
    BY <1>1, <1>4 DEF Take
  <2>3. UNCHANGED <<stayed, changed>>
    BY <1>4 DEF Take
  <2>4. QED
    BY <1>2, <2>1, <2>2, <2>3 DEF worldVars, detailVars, buildVars
<1>5. CASE All
  <2>1. IsLastPage(pageNo) \in BOOLEAN
    BY DEF IsLastPage
  <2>2. keepNew(Page(pageNo)) \in Seq(Items) /\ ToSet(Page(pageNo)) \in SUBSET Items
    BY AllTakes
  <2>3. QED
    BY <1>4, <1>5, <2>1, <2>2 DEF All
<1>6. CASE listClusters
  <2> DEFINE page == Page(pageNo)
             new == BeforeRepeat(page)
             ends == new # page \/ Len(page) < PerPage
  <2>1. ends \in BOOLEAN
    OBVIOUS
  <2>2. Only(new, Matching) \in Seq(Items) /\ ToSet(new) \in SUBSET Items
    <3>1. ToSet(new) \subseteq Items \ seen
      BY listClustersTakes
    <3>2. QED
      BY <3>1, listClustersTakes
  <2>3. phase = "walk" /\ Take(Only(new, Matching), ToSet(new), ends)
    BY <1>6 DEF listClusters
  <2>4. QED
    <3> HIDE DEF new, ends
    <3> QED BY <1>4, <2>1, <2>2, <2>3
<1>7. QED
  BY <1>3, <1>5, <1>6 DEF Reads

LEMMA EntryTypes ==
  ASSUME TypeOK, NEW i \in Items
  PROVE  Absent \in Entries /\ Entered(i) \subseteq Entries \ {Absent} /\ Empty \in [Items -> Entries]
BY DEF Entered, Entries, Stages, Absent, Unknown, Fresh, Previous, Entry, Empty

THEOREM TypeCorrect == Spec => []TypeOK
<1>1. Init => TypeOK
  <2>1. 1 \in 1..MaxPage /\ << >> \in Seq(Items) /\ Empty \in [Items -> Entries]
    BY PagingAssumption DEF Empty, Entries, Stages, Absent, Entry
  <2>2. QED
    BY <2>1 DEF Init, WalkInit, TypeOK, WalkTypeOK
<1>2. TypeOK /\ [Next]_vars => TypeOK'
  <2> SUFFICES ASSUME TypeOK, [Next]_vars PROVE TypeOK'
    OBVIOUS
  <2> USE DEF TypeOK, WalkTypeOK
  <2>1. CASE Reads
    BY <2>1, ReadsKeepTypes
  <2>2. CASE StartLookups
    BY <2>2, PagingAssumption DEF StartLookups, ForgetWalk, worldVars, detailVars, buildVars
  <2>3. CASE LooksUp
    <3> DEFINE i == out[Min(Waiting)]
    <3>1. i \in Items
      BY <2>3, NextIsItem DEF LooksUp
    <3>2. CASE Replicas(i)
      BY <3>2 DEF Replicas, worldVars, walkVars
    <3>3. ASSUME NEW entry \in Entered(i), Fill(i, entry)
          PROVE  TypeOK'
      <4>1. entry \in Entries
        BY <3>1, EntryTypes
      <4> HIDE DEF i
      <4>2. QED
        BY <3>1, <3>3, <4>1 DEF Fill, worldVars, walkVars
    <3>4. QED
      BY <2>3, <3>2, <3>3 DEF LooksUp
  <2>4. CASE Return /\ (UNCHANGED snap \/ Replaces)
    <3>1. snap' \in [Items -> Entries] /\ next' \in [Items -> Entries]
      BY <2>4 DEF Return, Replaces, Empty, Entries, Stages, Absent, Entry
    <3>2. 1 \in 1..MaxPage /\ << >> \in Seq(Items)
      BY PagingAssumption
    <3>3. QED
      BY <2>4, <3>1, <3>2 DEF Return, ForgetWalk
  <2>5. CASE World
    <3>1. UNCHANGED detailVars /\ phase' = phase
      BY <2>5 DEF World, Create, Destroy, HealthChange, Expire
    <3>2. ASSUME NEW i \in Items, Create(i)
          PROVE  account' \in Seq(Items)
      BY <3>2, CreateAdds
    <3>3. ASSUME NEW i \in Items, Destroy(i)
          PROVE  account' \in Seq(Items)
      BY <3>3, DestroyRemoves
    <3>4. WalkTypeOK'
      BY <2>5, <3>2, <3>3 DEF World, Create, Destroy, HealthChange, Expire, walkVars
    <3>5. QED
      BY <3>1, <3>4 DEF detailVars, buildVars
  <2>6. CASE UNCHANGED vars
    BY <2>6 DEF vars, worldVars, walkVars, detailVars, buildVars
  <2>7. QED
    BY <2>1, <2>2, <2>3, <2>4, <2>5, <2>6, StepKinds
<1>3. QED
  BY <1>1, <1>2, PTL DEF Spec

-----------------------------------------------------------------------------
(* The first half of the inductive invariant.  What the earlier pages cover *)
(* of the account as it now stands: *)
Covered == {account[k] : k \in {k \in DOMAIN account : k <= Start}}

(* Nothing exists twice, and nothing is listed twice. *)
Distinct == IsInjective(account) /\ IsInjective(out)

AtRest ==
  /\ phase = "idle" => out = << >>
  /\ phase # "walk" => pageNo = 1 /\ seen = {}
  /\ phase \in {"idle", "lookup"} => stayed = {} /\ changed = "no"

(* What is listed is what was seen; the filter of databases comes after. *)
Gathered ==
  phase = "walk" => ToSet(out) = IF kind = "databases" THEN seen \cap Matching ELSE seen

(* Over an account that stands still the pages are seen one after the other, *)
(* or all of it at once from a server that ignores the page.                *)
Untouched ==
  phase = "walk" /\ changed = "no" =>
    /\ stayed = Present
    /\ seen = IF server = "pages" THEN Covered ELSE IF pageNo = 1 THEN {} ELSE Present

(* Over one that only grows, no place is covered that was not seen, unless  *)
(* by what is new.                                                          *)
Grown ==
  phase = "walk" /\ changed # "shrank" =>
    stayed \subseteq Present /\ (kind # "databases" => Covered \cap stayed \subseteq seen)

Walk ==
  /\ server = "ignores" => kind = "databases"
  /\ Distinct /\ AtRest /\ Gathered /\ Untouched /\ Grown /\ PagesAddUp

(* The next page carries on where the last one ended. *)
LEMMA CoveredGrows ==
  ASSUME WalkTypeOK, server = "pages"
  PROVE  LET more == {account[k] : k \in {k \in DOMAIN account : k <= Start + PerPage}}
         IN  /\ more = Covered \cup ToSet(Page(pageNo))
             /\ Len(account) <= Start + PerPage => more = Present
             /\ IsInjective(account) => Covered \cap ToSet(Page(pageNo)) = {}
<1>1. Start \in Nat /\ PerPage \in Nat
  BY PageIsStretch, PagingAssumption
<1>2. DOMAIN account = 1..Len(account) /\ Len(account) \in Nat
  BY DEF WalkTypeOK
<1>3. ToSet(Page(pageNo)) =
        {account[k] : k \in {k \in DOMAIN account : Start < k /\ k <= Start + PerPage}}
  BY PageIsStretch
<1>4. \A k \in DOMAIN account : k <= Start + PerPage <=> k <= Start \/ (Start < k /\ k <= Start + PerPage)
  BY <1>1, <1>2
<1>5. {account[k] : k \in {k \in DOMAIN account : k <= Start + PerPage}}
        = Covered \cup ToSet(Page(pageNo))
  BY <1>3, <1>4 DEF Covered
<1>6. ASSUME Len(account) <= Start + PerPage
      PROVE  {account[k] : k \in {k \in DOMAIN account : k <= Start + PerPage}} = Present
  <2>1. \A k \in DOMAIN account : k <= Start + PerPage
    BY <1>1, <1>2, <1>6
  <2>2. QED
    BY <2>1 DEF Present, ToSet
<1>7. ASSUME IsInjective(account)
      PROVE  Covered \cap ToSet(Page(pageNo)) = {}
  <2>1. \A k, l \in DOMAIN account : k <= Start /\ Start < l => k # l
    BY <1>1, <1>2
  <2>2. QED
    BY <1>3, <1>7, <2>1 DEF Covered, IsInjective
<1>8. QED
  BY <1>5, <1>6, <1>7

(* paging.All reads a page. *)
LEMMA AllStep ==
  ASSUME TypeOK, Walk, All
  PROVE  Walk'
<1> DEFINE page == Page(pageNo)
           kept == keepNew(page)
           ends == IsLastPage(pageNo)
<1>1. /\ phase = "walk" /\ kind # "databases" /\ server = "pages"
      /\ WalkTypeOK /\ Take(kept, ToSet(page), ends)
  BY DEF All, Walk, TypeOK, WalkTypeOK
<1>2. /\ kept \in Seq(Items) /\ ToSet(kept) = ToSet(page) \ seen /\ IsInjective(kept)
  BY <1>1, AllTakes DEF Walk, Distinct
<1>3. /\ out \in Seq(Items) /\ ToSet(out) = seen /\ IsInjective(out)
  BY <1>1 DEF Walk, Gathered, Distinct, WalkTypeOK
<1>4. out' = out \o kept /\ UNCHANGED <<worldVars, stayed, changed>>
  BY <1>1 DEF Take
<1> HIDE DEF page, kept, ends
<1>5. out' \in Seq(Items) /\ ToSet(out') = seen \cup ToSet(page) /\ IsInjective(out')
  BY <1>2, <1>3, <1>4, ConcatMembers
<1>6. Distinct' /\ (server' = "ignores" => kind' = "databases")
  BY <1>1, <1>4, <1>5 DEF Walk, Distinct, worldVars
<1> DEFINE more == {account[k] : k \in {k \in DOMAIN account : k <= Start + PerPage}}
<1>7. /\ Start \in Nat /\ pageNo * PerPage = Start + PerPage
      /\ more = Covered \cup ToSet(page)
      /\ Len(account) <= Start + PerPage => more = Present
  BY <1>1, PageIsStretch, CoveredGrows DEF page
<1>8. changed = "no" => stayed = Present /\ seen = Covered
  BY <1>1 DEF Walk, Untouched
<1>9. changed # "shrank" => stayed \subseteq Present /\ Covered \cap stayed \subseteq seen
  BY <1>1 DEF Walk, Grown
<1>10. CASE ends
  <2>1. phase' = "listed" /\ pageNo' = 1 /\ seen' = {}
    BY <1>1, <1>10 DEF Take
  <2>2. more = Present
    <3>1. Len(account) <= Start + PerPage
      BY <1>7, <1>10, PagingAssumption DEF ends, IsLastPage, TypeOK, WalkTypeOK
    <3>2. QED
      BY <1>7, <3>1
  <2>3. changed = "no" => ToSet(out') = stayed
    BY <1>5, <1>7, <1>8, <2>2
  <2>4. changed = "grew" => stayed \subseteq ToSet(out')
    BY <1>5, <1>7, <1>9, <2>2
  <2>5. PagesAddUp'
    BY <1>4, <1>5, <2>3, <2>4 DEF PagesAddUp, Kept, Filtering, worldVars
  <2>6. AtRest' /\ Gathered' /\ Untouched' /\ Grown'
    BY <2>1 DEF AtRest, Gathered, Untouched, Grown
  <2>7. QED
    BY <1>6, <2>5, <2>6 DEF Walk
<1>11. CASE ~ends
  <2>1. phase' = "walk" /\ pageNo' = pageNo + 1 /\ seen' = seen \cup ToSet(page)
    BY <1>1, <1>11 DEF Take
  <2>2. Start' = Start + PerPage
    BY <1>1, <1>7, <2>1 DEF Start, WalkTypeOK
  <2>3. Covered' = more
    BY <1>4, <2>2 DEF Covered, worldVars
  <2>4. AtRest' /\ Gathered' /\ PagesAddUp'
    BY <1>1, <1>4, <1>5, <2>1 DEF AtRest, Gathered, PagesAddUp, worldVars
  <2>5. Untouched'
    BY <1>1, <1>4, <1>7, <1>8, <2>1, <2>3 DEF Untouched, Present, worldVars
  <2>6. Grown'
    BY <1>1, <1>4, <1>7, <1>9, <2>1, <2>3 DEF Grown, Present, worldVars
  <2>7. QED
    BY <1>6, <2>4, <2>5, <2>6 DEF Walk
<1>12. QED
  BY <1>10, <1>11

(* databases.listClusters reads a page. *)
LEMMA listClustersStep ==
  ASSUME TypeOK, Walk, listClusters
  PROVE  Walk'
<1> DEFINE page == Page(pageNo)
           new  == BeforeRepeat(page)
           kept == Only(new, Matching)
           ends == new # page \/ Len(page) < PerPage
<1>1. /\ phase = "walk" /\ kind = "databases" /\ WalkTypeOK
      /\ Take(kept, ToSet(new), ends)
  BY DEF listClusters, TypeOK
<1>2. /\ kept \in Seq(Items) /\ ToSet(kept) = ToSet(new) \cap Matching /\ IsInjective(kept)
      /\ ToSet(new) \cap seen = {}
  <2> HIDE DEF new
  <2>1. /\ Only(new, Matching) \in Seq(Items)
        /\ ToSet(Only(new, Matching)) = ToSet(new) \cap Matching
        /\ IsInjective(account) => IsInjective(Only(new, Matching))
        /\ ToSet(new) \subseteq Items \ seen
    <3>1. new = BeforeRepeat(Page(pageNo))
      BY DEF new
    <3> HIDE DEF page
    <3>2. QED
      BY <1>1, <3>1, listClustersTakes
  <2>2. QED
    BY <2>1 DEF Walk, Distinct
<1>3. /\ out \in Seq(Items) /\ ToSet(out) = seen \cap Matching /\ IsInjective(out)
  BY <1>1 DEF Walk, Gathered, Distinct, WalkTypeOK
<1>4. out' = out \o kept /\ UNCHANGED <<worldVars, stayed, changed>>
  BY <1>1 DEF Take
<1>5. /\ page \in Seq(Items)
      /\ ToSet(page) \cap seen = {} => new = page
      /\ ToSet(page) \subseteq seen => ToSet(new) = {}
  BY <1>1, PageIsList, RepeatIsCutOff
<1> HIDE DEF page, new, kept, ends
<1>6. /\ out' \in Seq(Items) /\ ToSet(out') = (seen \cup ToSet(new)) \cap Matching
      /\ IsInjective(out')
  BY <1>2, <1>3, <1>4, ConcatMembers
<1>7. Distinct' /\ (server' = "ignores" => kind' = "databases")
  BY <1>1, <1>4, <1>6 DEF Walk, Distinct, worldVars
<1>8. ASSUME changed = "no", server = "pages"
      PROVE  LET more == {account[k] : k \in {k \in DOMAIN account : k <= Start + PerPage}}
             IN  /\ stayed = Present /\ seen \cup ToSet(new) = more
                 /\ ends => more = Present
  <2> DEFINE more == {account[k] : k \in {k \in DOMAIN account : k <= Start + PerPage}}
  <2>1. stayed = Present /\ seen = Covered
    BY <1>1, <1>8 DEF Walk, Untouched
  <2>2. /\ more = Covered \cup ToSet(page)
        /\ Len(account) <= Start + PerPage => more = Present
        /\ Covered \cap ToSet(page) = {}
    BY <1>1, <1>8, CoveredGrows DEF page, Walk, Distinct
  <2>3. new = page
    BY <1>5, <2>1, <2>2
  <2>4. ends => Len(account) <= Start + PerPage
    <3>1. Start \in Nat /\ PerPage \in Nat /\ Len(account) \in Nat
      BY <1>1, <1>8, PageIsStretch, PagingAssumption DEF WalkTypeOK
    <3>2. Len(page) < PerPage => Len(account) < Start + PerPage
      BY <1>1, <1>8, PageIsStretch DEF page
    <3>3. QED
      BY <2>3, <3>1, <3>2 DEF ends
  <2>5. QED
    BY <2>1, <2>2, <2>3, <2>4
<1>9. ASSUME changed = "no", server = "ignores"
      PROVE  stayed = Present /\ seen \cup ToSet(new) = Present
  <2>1. stayed = Present /\ seen = IF pageNo = 1 THEN {} ELSE Present
    BY <1>1, <1>9 DEF Walk, Untouched
  <2>2. ToSet(page) = Present
    BY <1>9 DEF page, Page, Present
  <2>3. QED
    BY <1>5, <2>1, <2>2
<1>10. server \in {"pages", "ignores"}
  BY <1>1 DEF WalkTypeOK
<1>11. CASE ends
  <2>1. phase' = "listed" /\ pageNo' = 1 /\ seen' = {}
    BY <1>1, <1>11 DEF Take
  <2>2. changed = "no" => ToSet(out') = stayed \cap Matching
    BY <1>6, <1>8, <1>9, <1>10, <1>11
  <2>3. PagesAddUp'
    BY <1>1, <1>4, <1>6, <2>2 DEF PagesAddUp, Kept, Filtering, worldVars
  <2>4. AtRest' /\ Gathered' /\ Untouched' /\ Grown'
    BY <2>1 DEF AtRest, Gathered, Untouched, Grown
  <2>5. QED
    BY <1>7, <2>3, <2>4 DEF Walk
<1>12. CASE ~ends
  <2>1. phase' = "walk" /\ pageNo' = pageNo + 1 /\ seen' = seen \cup ToSet(new)
    BY <1>1, <1>12 DEF Take
  <2>2. server = "pages" =>
          Covered' = {account[k] : k \in {k \in DOMAIN account : k <= Start + PerPage}}
    <3>1. ASSUME server = "pages" PROVE Start' = Start + PerPage
      <4>1. Start \in Nat /\ pageNo * PerPage = Start + PerPage /\ pageNo \in Nat
        BY <1>1, <3>1, PageIsStretch DEF WalkTypeOK
      <4>2. QED
        BY <2>1, <4>1 DEF Start
    <3>2. QED
      BY <1>4, <3>1 DEF Covered, worldVars
  <2>3. AtRest' /\ Gathered' /\ PagesAddUp'
    BY <1>1, <1>4, <1>6, <2>1 DEF AtRest, Gathered, PagesAddUp, worldVars
  <2>4. pageNo' # 1
    BY <1>1, <2>1 DEF WalkTypeOK
  <2>5. Untouched'
    BY <1>1, <1>4, <1>8, <1>9, <1>10, <2>1, <2>2, <2>4 DEF Untouched, Present, worldVars
  <2>6. Grown'
    BY <1>1, <1>4, <2>1 DEF Walk, Grown, Present, worldVars
  <2>7. QED
    BY <1>7, <2>3, <2>5, <2>6 DEF Walk
<1>13. QED
  BY <1>11, <1>12

(* The account changes, DigitalOcean comes and goes, time runs out. *)
LEMMA WorldStep ==
  ASSUME TypeOK, Walk, World
  PROVE  Walk'
<1> USE DEF TypeOK
<1>1. ASSUME NEW i \in Items, Create(i)
      PROVE  Walk'
  <2>1. /\ Present' = Present \cup {i} /\ i \notin Present
        /\ IsInjective(account')
        /\ \A k \in DOMAIN account' :
             account'[k] = i \/ \E j \in DOMAIN account : j <= k /\ account[j] = account'[k]
    BY <1>1, CreateAdds DEF Walk, Distinct, Create
  <2>2. /\ phase \in {"idle", "walk"}
        /\ changed' = (IF phase = "walk" /\ changed = "no" THEN "grew" ELSE changed)
        /\ UNCHANGED <<kind, server, phase, pageNo, seen, out, stayed>>
    BY <1>1 DEF Create
  <2>3. Covered' \subseteq Covered \cup {i}
    <3>1. DOMAIN account = 1..Len(account) /\ Len(account) \in Nat /\ account' \in Seq(Items)
      BY <1>1, CreateAdds DEF WalkTypeOK
    <3>2. Start \in Int /\ Start' = Start
      BY <2>2, PagingAssumption DEF Start, WalkTypeOK
    <3>3. ASSUME NEW k \in DOMAIN account', k <= Start
          PROVE  account'[k] \in Covered \cup {i}
      <4>1. CASE account'[k] = i
        BY <4>1
      <4>2. ASSUME NEW j \in DOMAIN account, j <= k, account[j] = account'[k]
            PROVE  account'[k] \in Covered
        <5>1. k \in Nat /\ j \in Nat
          BY <3>1
        <5>2. j <= Start
          BY <3>2, <3>3, <4>2, <5>1
        <5>3. QED
          BY <4>2, <5>2 DEF Covered
      <4>3. QED
        BY <2>1, <4>1, <4>2
    <3>4. QED
      BY <3>2, <3>3 DEF Covered
  <2>4. Grown'
    <3>1. ASSUME phase = "walk", changed # "shrank"
          PROVE  /\ stayed \subseteq Present'
                 /\ kind # "databases" => Covered' \cap stayed \subseteq seen
      BY <2>1, <2>3, <3>1 DEF Walk, Grown
    <3>2. QED
      BY <2>2, <3>1 DEF Grown, WalkTypeOK
  <2>5. Distinct' /\ AtRest' /\ Gathered'
    BY <2>1, <2>2 DEF Walk, Distinct, AtRest, Gathered
  <2>6. Untouched' /\ PagesAddUp'
    BY <2>2 DEF Walk, Untouched, PagesAddUp
  <2>7. QED
    BY <2>2, <2>4, <2>5, <2>6 DEF Walk
<1>2. ASSUME NEW i \in Items, Destroy(i)
      PROVE  Walk'
  <2>1. IsInjective(account')
    BY <1>2, DestroyRemoves DEF Walk, Distinct
  <2>2. /\ changed' = (IF phase = "walk" THEN "shrank" ELSE changed)
        /\ stayed' = (IF phase = "walk" THEN stayed \ {i} ELSE stayed)
        /\ UNCHANGED <<kind, server, phase, pageNo, seen, out>>
    BY <1>2 DEF Destroy
  <2>3. Distinct' /\ AtRest' /\ Gathered' /\ Untouched' /\ Grown'
    BY <2>1, <2>2 DEF Walk, Distinct, AtRest, Gathered, Untouched, Grown
  <2>4. PagesAddUp'
    BY <2>2 DEF Walk, PagesAddUp, Kept, Filtering
  <2>5. QED
    BY <2>2, <2>3, <2>4 DEF Walk
<1>3. CASE HealthChange \/ Expire
  <2>1. UNCHANGED <<kind, server, account, phase, walkVars>>
    BY <1>3 DEF HealthChange, Expire
  <2>2. QED
    BY <2>1 DEF walkVars, Walk, Distinct, AtRest, Gathered, Untouched, Grown, PagesAddUp, Kept,
                Filtering, Present, Covered, Start
<1>4. QED
  BY <1>1, <1>2, <1>3 DEF World

LEMMA WalkStep ==
  ASSUME TypeOK, Walk, [Next]_vars
  PROVE  Walk'
<1>1. CASE Reads
  <2>1. CASE Begin
    <3>1. /\ phase = "idle" /\ phase' = "walk" /\ stayed' = Present
          /\ UNCHANGED <<worldVars, pageNo, seen, out, changed>>
      BY <2>1 DEF Begin
    <3>2. pageNo = 1 /\ seen = {} /\ out = << >>
      BY <3>1 DEF Walk, AtRest
    <3>3. Start' = 0
      BY <3>1, <3>2, PagingAssumption DEF Start
    <3>4. Covered' = {}
      <4>1. \A k \in DOMAIN account : ~(k <= 0)
        BY DEF TypeOK, WalkTypeOK
      <4>2. account' = account
        BY <3>1 DEF worldVars
      <4>3. QED
        BY <3>3, <4>1, <4>2 DEF Covered
    <3>5. Distinct' /\ AtRest' /\ PagesAddUp'
      BY <3>1, <3>2 DEF Walk, Distinct, AtRest, PagesAddUp, worldVars
    <3>6. Gathered' /\ Untouched' /\ Grown'
      BY <3>1, <3>2, <3>4 DEF Gathered, Untouched, Grown, Present, ToSet, worldVars, TypeOK, WalkTypeOK
    <3>7. QED
      BY <3>1, <3>5, <3>6 DEF Walk, worldVars
  <2>2. QED
    BY <1>1, <2>1, AllStep, listClustersStep DEF Reads
<1>2. CASE StartLookups \/ Return
  <2>1. /\ phase' \in {"idle", "lookup"} /\ pageNo' = 1 /\ seen' = {} /\ stayed' = {} /\ changed' = "no"
        /\ UNCHANGED <<kind, server, account>>
        /\ out' = << >> \/ (out' = out /\ phase' = "lookup")
    BY <1>2 DEF StartLookups, Return, ForgetWalk, worldVars
  <2>2. Distinct'
    BY <2>1 DEF Walk, Distinct, IsInjective
  <2>3. PagesAddUp'
    BY <2>1, <2>2 DEF PagesAddUp, Distinct
  <2>4. AtRest' /\ Gathered' /\ Untouched' /\ Grown'
    BY <1>2, <2>1 DEF AtRest, Gathered, Untouched, Grown, StartLookups, Return
  <2>5. QED
    BY <2>1, <2>2, <2>3, <2>4 DEF Walk
<1>3. CASE LooksUp \/ UNCHANGED vars
  <2>1. UNCHANGED <<worldVars, phase, walkVars>>
    BY <1>3 DEF LooksUp, Replicas, Fill, vars
  <2>2. QED
    BY <2>1 DEF worldVars, walkVars, Walk, Distinct, AtRest, Gathered, Untouched, Grown, PagesAddUp,
                Kept, Filtering, Present, Covered, Start
<1>4. CASE World
  BY <1>4, WorldStep
<1>5. QED
  BY <1>1, <1>2, <1>3, <1>4, StepKinds

-----------------------------------------------------------------------------
(* The second half.  Until the lookups nothing is built; what is built was  *)
(* looked up whole, and of what was listed only; where nothing is asked     *)
(* for nothing is known; and an entry that replaces a known one is known.   *)
Whole(table) == \A i \in Items : table[i][1] = table[i][2]

Build ==
  /\ phase # "lookup" => next = Empty
  /\ Whole(next) /\ Whole(snap)
  /\ ~asking => \A i \in Items : ~IsKnown(snap[i]) /\ ~IsKnown(next[i])
  /\ \A i \in Items :
       /\ next[i] # Absent => i \in Kept(ToSet(out))
       /\ next[i] # Absent /\ IsKnown(snap[i]) => IsKnown(next[i])

(* An entry a lookup leaves is whole, present, and as known as the last. *)
LEMMA EntriesAreWhole ==
  ASSUME Build, NEW i \in Items, NEW entry \in Entered(i)
  PROVE  /\ entry # Absent /\ entry[1] = entry[2]
         /\ ~asking => ~IsKnown(entry)
         /\ IsKnown(snap[i]) => IsKnown(entry)
<1>1. ~IsKnown(Unknown) /\ IsKnown(Fresh) /\ IsKnown(Entry("stale"))
  BY DEF IsKnown, Unknown, Fresh, Entry
<1>2. entry \in {Unknown, Fresh, Entry("stale")}
  BY DEF Entered, Previous
<1>3. entry # Absent /\ entry[1] = entry[2]
  BY <1>2 DEF Unknown, Fresh, Absent, Entry
<1>4. ~asking => ~IsKnown(entry)
  BY <1>1 DEF Entered
<1>5. ASSUME IsKnown(snap[i]) PROVE IsKnown(entry)
  <2>1. asking /\ Previous(i) = Entry("stale")
    BY <1>5 DEF Build, Previous
  <2>2. Entry("stale") # Unknown
    BY DEF Unknown, Entry
  <2>3. entry # Unknown
    BY <2>1, <2>2 DEF Entered
  <2>4. QED
    BY <1>1, <1>2, <2>3
<1>6. QED
  BY <1>3, <1>4, <1>5

LEMMA BuildStep ==
  ASSUME TypeOK, Walk, Build, [Next]_vars
  PROVE  Build'
<1>1. Whole(Empty) /\ \A i \in Items : Empty[i] = Absent /\ ~IsKnown(Empty[i])
  BY DEF Whole, Empty, Absent, Entry, IsKnown
<1>2. CASE Reads \/ World
  <2>1. UNCHANGED <<asking, next, snap>>
    BY <1>2 DEF Reads, World, detailVars, buildVars
  <2>2. phase # "lookup" => next = Empty
    BY DEF Build
  <2>3. CASE phase = "lookup"
    <3>1. UNCHANGED <<kind, phase, out>>
      BY <1>2, <2>3 DEF Reads, Begin, All, listClusters, Take, World, Create, Destroy, HealthChange,
                       Expire, walkVars
    <3>2. QED
      BY <2>1, <3>1 DEF Build, Kept, Filtering, Whole
  <2>4. CASE phase # "lookup"
    <3>1. phase' # "lookup" /\ next' = Empty
      BY <1>2, <2>1, <2>2, <2>4
         DEF Reads, Begin, All, listClusters, Take, World, Create, Destroy, HealthChange, Expire
    <3>2. QED
      BY <1>1, <2>1, <3>1 DEF Build, Whole
  <2>5. QED
    BY <2>3, <2>4
<1>3. CASE StartLookups
  <2>1. next = Empty /\ UNCHANGED <<asking, next, snap>>
    BY <1>3 DEF Build, StartLookups, detailVars, buildVars
  <2>2. QED
    BY <1>1, <2>1 DEF Build, Whole
<1>4. CASE Return /\ (UNCHANGED snap \/ Replaces)
  <2>1. next' = Empty /\ asking' = asking
    BY <1>4 DEF Return
  <2>2. Whole(snap') /\ (~asking => \A i \in Items : ~IsKnown(snap'[i]))
    BY <1>4 DEF Build, Replaces, Whole
  <2>3. QED
    BY <1>1, <2>1, <2>2 DEF Build, Whole
<1>5. CASE LooksUp
  <2> DEFINE i == out[Min(Waiting)]
  <2>1. i \in Items /\ i \in Kept(ToSet(out)) /\ phase = "lookup"
    BY <1>5, NextIsItem DEF LooksUp
  <2> HIDE DEF i
  <2>2. CASE Replicas(i)
    BY <2>2 DEF Replicas, worldVars, walkVars, Build, Kept, Filtering, Whole
  <2>3. ASSUME NEW entry \in Entered(i), Fill(i, entry)
        PROVE  Build'
    <3>1. /\ entry # Absent /\ entry[1] = entry[2] /\ (~asking => ~IsKnown(entry))
          /\ IsKnown(snap[i]) => IsKnown(entry)
      BY <2>1, EntriesAreWhole
    <3>2. /\ UNCHANGED <<kind, phase, out, asking, snap>>
          /\ next' = [next EXCEPT ![i] = entry] /\ next \in [Items -> Entries]
      BY <2>3 DEF Fill, worldVars, walkVars, TypeOK
    <3>3. next'[i] = entry /\ \A j \in Items : j # i => next'[j] = next[j]
      BY <2>1, <3>2
    <3>4. QED
      BY <2>1, <3>1, <3>2, <3>3 DEF Build, Kept, Filtering, Whole
  <2>4. QED
    BY <1>5, <2>2, <2>3 DEF LooksUp, i
<1>6. CASE UNCHANGED vars
  BY <1>6 DEF vars, worldVars, walkVars, detailVars, buildVars, Build, Kept, Filtering, Whole
<1>7. QED
  BY <1>2, <1>3, <1>4, <1>5, <1>6, StepKinds

-----------------------------------------------------------------------------
(* The inductive invariant. *)
Inv == TypeOK /\ Walk /\ Build

THEOREM Invariance == Spec => []Inv
<1>1. Init => Walk /\ Build
  <2> SUFFICES ASSUME Init PROVE Walk /\ Build
    OBVIOUS
  <2>1. IsInjective(<< >>)
    BY DEF IsInjective
  <2>2. Walk
    BY <2>1 DEF Init, WalkInit, Walk, Distinct, AtRest, Gathered, Untouched, Grown, PagesAddUp
  <2>3. Whole(Empty) /\ \A i \in Items : Empty[i] = Absent /\ ~IsKnown(Empty[i])
    BY DEF Whole, Empty, Absent, Entry, IsKnown
  <2>4. Build
    BY <2>3 DEF Init, WalkInit, Build
  <2>5. QED
    BY <2>2, <2>4
<1>2. TypeOK /\ Walk /\ Build /\ [Next]_vars => Walk' /\ Build'
  BY WalkStep, BuildStep
<1>3. QED
  BY <1>1, <1>2, TypeCorrect, PTL DEF Spec, Inv

(* However the account shifts under a walk, no item is listed twice; over   *)
(* an account that stands still a walk returns exactly it, by either        *)
(* stopping rule; and over one that only grows paging.All misses nothing    *)
(* that was there all along (paging.All, listClusters).                     *)
THEOREM WalksAddUp == Spec => []PagesAddUp
BY Invariance, PTL DEF Inv, Walk

(* Replicas and backups in a database's entry come from one refresh         *)
(* (lookupDetails).                                                         *)
THEOREM NoHalfDetails == Spec => []DetailsWhole
<1>1. Inv => DetailsWhole
  BY DEF Inv, Build, Whole, DetailsWhole
<1>2. QED
  BY <1>1, Invariance, PTL

(* A report that changes shows exactly what was listed, no detail that was    *)
(* known is forgotten (previousUpgrades, previousDetails and the swap), and  *)
(* of the projects something was counted (ErrNoProjectMeasured).             *)
THEOREM DetailsAreKept == Spec => KnownSurvives
<1> DEFINE Survives ==
      snap' # snap =>
        /\ \A i \in Items : CarriesOver(i)
        /\ kind = "projects" /\ out # << >> => \E i \in Items : snap'[i] = Fresh
<1>1. Inv /\ [Next]_vars => Survives
  <2> SUFFICES ASSUME Inv, [Next]_vars, snap' # snap
               PROVE  /\ \A i \in Items : CarriesOver(i)
                      /\ kind = "projects" /\ out # << >> => \E i \in Items : snap'[i] = Fresh
    OBVIOUS
  <2>1. Replaces
    <3>1. ~(Reads \/ StartLookups \/ World \/ UNCHANGED vars)
      BY DEF Reads, StartLookups, World, vars, detailVars
    <3>2. ~LooksUp
      BY DEF LooksUp, Replicas, Fill
    <3>3. QED
      BY <3>1, <3>2, StepKinds
  <2>2. ASSUME NEW i \in Items, i \in Kept(ToSet(out))
        PROVE  next[i] # Absent
    <3>1. PICK k \in DOMAIN out : out[k] = i
      BY <2>2 DEF Kept, ToSet
    <3>2. i \in Kept({i})
      BY <2>2 DEF Kept
    <3>3. QED
      BY <2>1, <3>1, <3>2 DEF Replaces, Waiting
  <2>3. \A i \in Items : CarriesOver(i)
    BY <2>1, <2>2 DEF Inv, Build, Replaces, CarriesOver
  <2>4. QED
    BY <2>1, <2>3 DEF NoneMeasured, Replaces
<1>2. Inv /\ [Next]_vars => [Survives]_vars
  BY <1>1
<1>3. QED
  BY <1>2, Invariance, PTL DEF Spec, KnownSurvives
=============================================================================
