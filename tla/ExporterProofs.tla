--------------------------- MODULE ExporterProofs ---------------------------
(***************************************************************************)
(* Proofs about the exporter as its operator sees it.  Of Exporter.tla: an *)
(* exporter that serves scrapes is one whose every collector can refresh,  *)
(* whatever flags it was given.  Of Exposition.tla: what a collector shows *)
(* in a scrape is what the filter asks for, whatever the account holds,    *)
(* and no series of it is sent twice.                                      *)
(***************************************************************************)
EXTENDS Exporter, Exposition, ListsProofs, FiniteSetTheorems

(* What each flag is set to. *)
LEMMA FlagTypes ==
  ASSUME NEW f \in Settings
  PROVE  /\ \A c \in Names : f.enabled[c] \in BOOLEAN /\ f.interval[c] \in Int
         /\ \A c \in Timed : f.timeout[c] \in Int
         /\ f.doTimeout \in Int
         /\ f.spacesBuckets \in Seq(Seq([name : STRING, region : STRING]))
         /\ f.spacesRegion \in STRING
BY DEF Settings

(* The collectors main registers, in an array of names. *)
LEMMA NamesAvailable == available \in Seq(Names)
<1>1. DOMAIN available = 1..23 /\ available = [k \in 1..23 |-> available[k]]
  BY DEF available
<1>2. \A k \in 1..23 : available[k] \in Names
  BY <1>1 DEF Names, ToSet
<1>3. available \in [1..23 -> Names]
  BY <1>1, <1>2
<1>4. ASSUME NEW S, NEW n \in Nat, NEW f \in [1..n -> S]
      PROVE  f \in Seq(S)
  OBVIOUS
<1>5. QED
  BY <1>3, <1>4

(* Every collector that is on is registered, and none other. *)
LEMMA Registers ==
  ASSUME NEW f \in Settings
  PROVE  /\ registerCollectors(f) \in Seq({Entry(f, c) : c \in Names})
         /\ ToSet(registerCollectors(f)) = {Entry(f, c) : c \in {c \in Names : f.enabled[c]}}
<1> DEFINE enabled == Only(available, {c \in Names : f.enabled[c]})
<1>1. enabled \in Seq(Names) /\ ToSet(enabled) = Names \cap {c \in Names : f.enabled[c]}
  <2>1. Names = ToSet(available)
    BY DEF Names
  <2>2. QED
    BY <2>1, NamesAvailable, OnlyMembers
<1>2. registerCollectors(f) = [i \in DOMAIN enabled |-> Entry(f, enabled[i])]
  BY DEF registerCollectors
<1> HIDE DEF enabled
<1>3. /\ DOMAIN enabled = 1..Len(enabled) /\ Len(enabled) \in Nat
      /\ \A i \in 1..Len(enabled) : enabled[i] \in Names
  BY <1>1
<1>4. registerCollectors(f) \in Seq({Entry(f, c) : c \in Names})
  BY <1>2, <1>3
<1>5. ToSet(registerCollectors(f)) = {Entry(f, c) : c \in ToSet(enabled)}
  BY <1>2, <1>3 DEF ToSet
<1>6. QED
  BY <1>1, <1>4, <1>5

-----------------------------------------------------------------------------
(* What validation leaves of the flags. *)

(* An entry of the schedule, as Register makes it of its flags. *)
LEMMA EntryTypes ==
  ASSUME NEW f \in Settings, validateDurations(f), NEW c \in Names
  PROVE  /\ Entry(f, c).name = c
         /\ Entry(f, c).interval \in Nat /\ Entry(f, c).interval > 0
         /\ Entry(f, c).timeout \in Nat /\ Entry(f, c).timeout > 0
<1>1. /\ f.interval[c] \in Int /\ f.interval[c] > 0
      /\ f.doTimeout \in Int /\ f.doTimeout > 0
      /\ c \in Timed => f.timeout[c] \in Int /\ f.timeout[c] > 0
  BY FlagTypes DEF validateDurations, requirePositive
<1>2. QED
  BY <1>1 DEF Entry

(* Where the flags were validated, every entry can run and refresh. *)
LEMMA RegisteredSound ==
  ASSUME NEW f \in Settings, validateDurations(f), NEW e \in ToSet(registerCollectors(f))
  PROVE  /\ e.interval \in Nat /\ e.interval > 0 /\ e.timeout \in Nat /\ e.timeout > 0
         /\ e.name \in Names /\ f.enabled[e.name]
<1>1. PICK c \in Names : f.enabled[c] /\ e = Entry(f, c)
  BY Registers
<1>2. QED
  BY <1>1, EntryTypes

(* The buckets a Spaces collector is handed are those of the flag. *)
LEMMA Buckets ==
  ASSUME NEW raw \in Seq(Seq([name : STRING, region : STRING])), NEW region \in STRING
  PROVE  /\ Usable(parseBuckets(raw, region)) =>
              \A list \in ToSet(raw) : \A spec \in ToSet(list) :
                spec.name # "" \/ spec.region # "" =>
                  spec.name # "" /\ (spec.region # "" \/ region # "")
         /\ (\A list \in ToSet(raw) : \A spec \in ToSet(list) : spec.name = "" /\ spec.region = "")
              => parseBuckets(raw, region) = << >>
<1> DEFINE Specs == [name : STRING, region : STRING]
           empty == [name |-> "", region |-> ""]
           given == FlattenSeq(raw)
           specs == splitList(raw)
<1>1. given \in Seq(Specs) /\ ToSet(given) = UNION {ToSet(list) : list \in ToSet(raw)}
  BY FlattenMembers
<1>2. specs = Only(given, ToSet(given) \ {empty})
  BY DEF splitList
<1>3. \A spec \in Specs : spec # empty <=> spec.name # "" \/ spec.region # ""
  <2>1. \A spec \in Specs : spec = [name |-> spec.name, region |-> spec.region]
    OBVIOUS
  <2>2. empty.name = "" /\ empty.region = ""
    OBVIOUS
  <2>3. QED
    <3>1. ASSUME NEW spec \in Specs, spec.name = "", spec.region = "" PROVE spec = empty
      BY <2>1, <3>1
    <3>2. QED
      <4> HIDE DEF empty, Specs
      <4> QED BY <2>2, <3>1
<1> HIDE DEF given, empty, Specs
<1>4. specs \in Seq(Specs) /\ ToSet(specs) = ToSet(given) \cap (ToSet(given) \ {empty})
  BY <1>1, <1>2, OnlyMembers
<1>5. \A spec \in ToSet(given) : spec \in Specs
  BY <1>1 DEF ToSet
<1>6. parseBuckets(raw, region) = [i \in DOMAIN specs |-> InDefault(specs[i], region)]
  BY DEF parseBuckets
<1> HIDE DEF specs
<1>7. ASSUME Usable(parseBuckets(raw, region)),
             NEW list \in ToSet(raw), NEW spec \in ToSet(list), spec.name # "" \/ spec.region # ""
      PROVE  spec.name # "" /\ (spec.region # "" \/ region # "")
  <2>1. spec \in ToSet(given)
    BY <1>1, <1>7
  <2>2. spec \in Specs /\ spec # empty
    BY <1>3, <1>5, <1>7, <2>1
  <2>3. PICK i \in DOMAIN specs : specs[i] = spec
    BY <1>4, <2>1, <2>2 DEF ToSet
  <2>4. InDefault(spec, region).name # "" /\ InDefault(spec, region).region # ""
    BY <1>6, <1>7, <2>3 DEF Usable
  <2>5. QED
    BY <2>2, <2>4 DEF InDefault, Specs
<1>8. ASSUME \A list \in ToSet(raw) : \A spec \in ToSet(list) : spec.name = "" /\ spec.region = ""
      PROVE  parseBuckets(raw, region) = << >>
  <2>1. ASSUME NEW spec \in ToSet(given) PROVE spec = empty
    <3>1. spec.name = "" /\ spec.region = ""
      BY <1>1, <1>8, <2>1
    <3>2. QED
      BY <1>3, <1>5, <2>1, <3>1
  <2>2. ToSet(specs) = {}
    BY <1>4, <2>1
  <2>3. specs = << >>
    <3>1. Len(specs) \in Nat /\ DOMAIN specs = 1..Len(specs)
      BY <1>4
    <3>2. 1 \notin DOMAIN specs
      BY <2>2 DEF ToSet
    <3>3. Len(specs) = 0
      BY <3>1, <3>2
    <3>4. QED
      BY <1>4, <3>3
  <2>4. QED
    BY <1>6, <2>3
<1>9. QED
  BY <1>7, <1>8

-----------------------------------------------------------------------------
(* The staggered start. *)

LEMMA Window ==
  ASSUME NEW S, NEW list \in Seq(S), \A e \in ToSet(list) : e.interval \in Nat /\ e.interval > 0
  PROVE  /\ staggerWindow(list) \in Nat /\ staggerWindow(list) > 0
         /\ staggerWindow(list) <= maxStagger
         /\ \A e \in ToSet(list) : staggerWindow(list) <= e.interval
<1> DEFINE spans == {maxStagger} \cup {e.interval : e \in ToSet(list)}
<1>1. maxStagger \in Nat /\ maxStagger > 0
  BY DEF maxStagger, Second
<1>2. spans \in SUBSET Nat /\ maxStagger \in spans /\ \A n \in spans : n > 0
  BY <1>1
<1>3. \A e \in ToSet(list) : e.interval \in spans
  OBVIOUS
<1>4. staggerWindow(list) = Min(spans)
  BY DEF staggerWindow
<1> HIDE DEF spans
<1>5. Min(spans) \in spans /\ \A n \in spans : Min(spans) <= n
  BY <1>2, LeastExists
<1>6. QED
  BY <1>1, <1>2, <1>3, <1>4, <1>5

(* An even share of a window, so often as there are others, stays below it. *)
LEMMA SharesFit ==
  ASSUME NEW share \in Nat, NEW count \in Nat, NEW index \in Nat, index < count
  PROVE  share * index <= share * count - share
<1>1. share * (count - 1 - index) \in Nat
  BY count - 1 - index \in Nat
<1>2. share * (count - 1 - index) = share * count - share - share * index
  OBVIOUS
<1>3. share * index \in Int /\ share * count \in Int
  OBVIOUS
<1>4. QED
  BY <1>1, <1>2, <1>3

(* The offset of the i-th of count entries is within the window. *)
LEMMA OffsetFits ==
  ASSUME NEW window \in Nat, window > 0, NEW count \in Nat, NEW index \in 0 .. count - 1
  PROVE  stagger(index, count, window) \in Nat /\ stagger(index, count, window) < window
<1>1. CASE index = 0 \/ count <= 1
  BY <1>1 DEF stagger
<1>2. CASE ~(index = 0 \/ count <= 1)
  <2> DEFINE share == window \div count
  <2>1. share \in Nat /\ share * count <= window
    BY <1>2
  <2>2. stagger(index, count, window) = share * index
    BY <1>2 DEF stagger
  <2> HIDE DEF share
  <2>3. share * index <= share * count - share /\ share * index \in Nat /\ share * count \in Nat
    BY <2>1, SharesFit
  <2>4. CASE share = 0
    BY <2>2, <2>4
  <2>5. CASE share > 0
    BY <2>1, <2>2, <2>3, <2>5
  <2>6. QED
    BY <2>1, <2>4, <2>5
<1>3. QED
  BY <1>1, <1>2

(* No two offsets are the same. *)
LEMMA OffsetsDiffer ==
  ASSUME NEW window \in Nat, NEW count \in Nat, window >= count,
         NEW i \in 0 .. count - 1, NEW j \in 0 .. count - 1, i # j
  PROVE  stagger(i, count, window) # stagger(j, count, window)
<1> DEFINE share == window \div count
<1>1. count > 1
  OBVIOUS
<1>2. share \in Nat /\ share >= 1
  BY <1>1
<1>3. \A k \in 0 .. count - 1 : stagger(k, count, window) = share * k
  BY <1>1, <1>2 DEF stagger
<1> HIDE DEF share
<1>4. share * i # share * j
  BY <1>2
<1>5. QED
  BY <1>3, <1>4

(* After stagger no two entries first refresh at the same moment. *)
LEMMA StaggeredEntries ==
  ASSUME NEW S, entries \in Seq(S), \A e \in ToSet(entries) : e.interval \in Nat /\ e.interval > 0
  PROVE  Staggered
<1> DEFINE count == Len(entries)
           window == staggerWindow(entries)
           offset == [i \in 0 .. count - 1 |-> stagger(i, count, window)]
           offsets == {stagger(i, count, window) : i \in 0 .. count - 1}
<1>1. /\ window \in Nat /\ window > 0 /\ window <= maxStagger
      /\ \A e \in ToSet(entries) : window <= e.interval
  BY Window
<1>2. count \in Nat /\ maxStagger \in Nat
  BY DEF maxStagger, Second
<1> HIDE DEF count, window
<1>3. \A o \in offsets : o \in Nat /\ o < window
  BY <1>1, <1>2, OffsetFits
<1>4. \A e \in ToSet(entries) : \A o \in offsets : o < e.interval /\ o < maxStagger
  <2> HIDE DEF offsets
  <2> QED BY <1>1, <1>2, <1>3
<1>5. ASSUME window >= count PROVE Cardinality(offsets) = count
  <2>1. offset \in Bijection(0 .. count - 1, offsets)
    <3>1. offset \in [0 .. count - 1 -> offsets] /\ \A o \in offsets : \E i \in 0 .. count - 1 : offset[i] = o
      OBVIOUS
    <3>2. \A i, j \in 0 .. count - 1 : offset[i] = offset[j] => i = j
      BY <1>1, <1>2, <1>5, OffsetsDiffer
    <3>3. QED
      <4> HIDE DEF offset, offsets
      <4> QED BY <3>1, <3>2 DEF Bijection, Injection, Surjection, IsInjective
  <2>2. IsFiniteSet(0 .. count - 1) /\ Cardinality(0 .. count - 1) = count
    BY <1>2, FS_Interval
  <2>3. QED
    <3> HIDE DEF offset, offsets
    <3> QED BY <2>1, <2>2, FS_Bijection DEF ExistsBijection
<1>6. QED
  BY <1>4, <1>5 DEF Staggered, count, window

-----------------------------------------------------------------------------
(* The states that have registered their collectors did so from flags that  *)
(* were let through.                                                        *)
Registered ==
  stage \in {"wired", "serving", "returned"} =>
    Valid(flags) /\ entries = registerCollectors(flags)

(* Only a signal makes serve return, and no request comes before it listens. *)
Told == /\ stage = "returned" => signalled
        /\ stage = "start" => scrape = "none"

Inv == TypeOK /\ Told /\ Registered

(* Every state has the shape TypeOK gives it; among the rest, the exporter   *)
(* exits with 0 only after a signal or when asked for its usage, and with    *)
(* no request left unanswered.                                              *)
THEOREM TypeCorrect == Spec => [](TypeOK /\ Told)
<1>1. Init => TypeOK /\ Told
  <2>1. ToSet(<< >>) = {}
    BY DEF ToSet
  <2>2. QED
    BY <2>1 DEF Init, TypeOK, Told
<1>2. TypeOK /\ Told /\ [Next]_vars => TypeOK' /\ Told'
  <2> SUFFICES ASSUME TypeOK, Told, [Next]_vars PROVE TypeOK' /\ Told'
    OBVIOUS
  <2> USE DEF TypeOK, Told, process, Alive, Exit
  <2>1. CASE Refuse
    BY <2>1 DEF Refuse
  <2>2. CASE Wire
    <3>1. flags \in Settings /\ entries' = registerCollectors(flags)
      BY <2>2, ExporterAssumption DEF Wire
    <3>2. \A e \in ToSet(entries') : \E c \in Names : e = Entry(flags, c)
      BY <3>1, Registers
    <3>3. \A c \in Names : Entry(flags, c).name = c
      BY DEF Entry
    <3>4. {e.name : e \in ToSet(entries')} \subseteq Names
      BY <3>2, <3>3
    <3>5. QED
      BY <2>2, <3>4 DEF Wire
  <2>3. CASE Run
    BY <2>3 DEF Run
  <2>4. CASE StopLoops
    BY <2>4 DEF StopLoops
  <2>5. CASE Signal
    BY <2>5 DEF Signal
  <2>6. CASE Listen
    BY <2>6 DEF Listen
  <2>7. CASE PortTaken
    BY <2>7 DEF PortTaken
  <2>8. CASE Accept
    BY <2>8 DEF Accept
  <2>9. CASE Answer
    BY <2>9 DEF Answer
  <2>10. CASE Shutdown
    BY <2>10 DEF Shutdown
  <2>11. CASE GraceOver
    BY <2>11 DEF GraceOver
  <2>12. CASE Drained
    BY <2>12 DEF Drained
  <2>13. CASE Closed
    BY <2>13 DEF Closed
  <2>14. CASE Leave
    BY <2>14 DEF Leave
  <2>15. CASE UNCHANGED vars
    BY <2>15 DEF vars
  <2>16. CASE Help
    BY <2>16 DEF Help
  <2>17. QED
    BY <2>1, <2>2, <2>3, <2>4, <2>5, <2>6, <2>7, <2>8, <2>9, <2>10, <2>11, <2>12, <2>13, <2>14,
       <2>15, <2>16 DEF Next
<1>3. QED
  BY <1>1, <1>2, PTL DEF Spec

(* Whatever flags it was given, an exporter past its wiring has exactly the  *)
(* entries of the collectors that are on, from flags that were let through. *)
THEOREM Invariance == Spec => []Inv
<1>1. Init => Registered
  BY DEF Init, Registered
<1>2. Registered /\ [Next]_vars => Registered'
  <2> SUFFICES ASSUME Registered, [Next]_vars PROVE Registered'
    OBVIOUS
  <2>1. CASE Wire
    BY <2>1 DEF Wire, Registered
  <2>2. CASE Help \/ Refuse \/ PortTaken \/ Leave
    BY <2>2 DEF Help, Refuse, PortTaken, Leave, Exit, Registered
  <2>3. CASE Listen \/ Closed
    BY <2>3 DEF Listen, Closed, Registered
  <2>4. CASE Run \/ StopLoops \/ Signal \/ Accept \/ Answer \/ Shutdown \/ GraceOver \/ Drained
    <3>1. UNCHANGED process
      BY <2>4 DEF Run, StopLoops, Signal, Accept, Answer, Shutdown, GraceOver, Drained
    <3>2. QED
      BY <3>1 DEF process, Registered
  <2>5. CASE UNCHANGED vars
    BY <2>5 DEF vars, process, Registered
  <2>6. QED
    BY <2>1, <2>2, <2>3, <2>4, <2>5 DEF Next
<1>3. Spec => []Registered
  BY <1>1, <1>2, PTL DEF Spec
<1>4. QED
  BY <1>3, TypeCorrect, PTL DEF Inv

(* The invariant says enough of an exporter that serves. *)
LEMMA ServingIsSound == Inv => StartsSound
<1> SUFFICES ASSUME Inv, Serving PROVE EntriesSound /\ SpacesSound /\ Staggered
  BY DEF StartsSound
<1>1. /\ flags \in Settings /\ Valid(flags) /\ validateDurations(flags)
      /\ entries = registerCollectors(flags)
  BY ExporterAssumption DEF Inv, TypeOK, Registered, Serving, Valid
<1>2. \A e \in ToSet(entries) : /\ e.interval \in Nat /\ e.interval > 0
                                /\ e.timeout \in Nat /\ e.timeout > 0
                                /\ e.name \in Names /\ flags.enabled[e.name]
  BY <1>1, RegisteredSound
<1>3. EntriesSound
  BY <1>2 DEF EntriesSound
<1>4. SpacesSound
  <2> SUFFICES ASSUME "spaces" \in {e.name : e \in ToSet(entries)} PROVE SpacesSound
    BY DEF SpacesSound
  <2>1. flags.enabled["spaces"]
    BY <1>2
  <2>2. /\ Resolves(flags.spacesKey) /\ Resolves(flags.spacesSecret)
        /\ Usable(parseBuckets(flags.spacesBuckets, flags.spacesRegion))
        /\ parseBuckets(flags.spacesBuckets, flags.spacesRegion) = << >> => flags.spacesRegion # ""
    BY <1>1, <2>1 DEF Valid, spacesConfig
  <2>3. /\ flags.spacesBuckets \in Seq(Seq([name : STRING, region : STRING]))
        /\ flags.spacesRegion \in STRING
    BY <1>1, FlagTypes
  <2>4. {flags.spacesKey, flags.spacesSecret} \subseteq {"inline", "file"}
    BY <2>2 DEF Resolves
  <2>5. QED
    BY <2>2, <2>3, <2>4, Buckets DEF SpacesSound
<1>5. Staggered
  BY <1>1, <1>2, Registers, StaggeredEntries
<1>6. QED
  BY <1>3, <1>4, <1>5

(* Whatever the operator set, an exporter that answers scrapes is one whose  *)
(* every collector can refresh: its intervals and timeouts are positive, its *)
(* Spaces buckets have a region and credentials, and no two collectors      *)
(* refresh first at the same moment (Parse, validateDurations, spacesConfig, *)
(* Register, stagger).                                                      *)
THEOREM StartsOnlySound == Spec => []StartsSound
BY Invariance, ServingIsSound, PTL

-----------------------------------------------------------------------------
(* Exposition *)

(* A list of series, and the resources its series of one metric name.       *)
Tells(list, metric, ids) ==
  /\ IsArray(list)
  /\ {s.labels[1] : s \in {t \in ToSet(list) : t.metric = metric}} = ids

Silent(list, metric) == IsArray(list) /\ \A s \in ToSet(list) : s.metric # metric

(* To say nothing of a metric is to tell of no resource.                     *)
LEMMA SilentTells ==
  ASSUME NEW list, NEW metric
  PROVE  Silent(list, metric) <=> Tells(list, metric, {})
BY DEF Silent, Tells

(* What is put together number by number is a list. *)
LEMMA ListByNumber ==
  ASSUME NEW list, NEW n \in Nat, DOMAIN list = 1..n, list = [k \in 1..n |-> list[k]]
  PROVE  IsArray(list) /\ Len(list) = n /\ ToSet(list) = {list[k] : k \in 1..n}
<1>1. \A k \in 1..n : list[k] \in ToSet(list)
  BY DEF ToSet
<1> DEFINE S == ToSet(list)
<1>2. \A k \in 1..n : list[k] \in S
  BY <1>1
<1>3. S = {list[k] : k \in 1..n}
  BY DEF ToSet
<1> HIDE DEF S
<1>4. list \in [1..n -> S]
  BY <1>2
<1>5. list \in Seq(S) /\ Len(list) = n
  BY <1>4
<1>6. QED
  BY <1>3, <1>5 DEF S, IsArray

(* An array, number by number; and a list over any set is an array.          *)
LEMMA ArrayByNumber ==
  ASSUME NEW list, IsArray(list)
  PROVE  /\ Len(list) \in Nat /\ DOMAIN list = 1..Len(list)
         /\ list = [k \in 1..Len(list) |-> list[k]]
BY DEF IsArray

LEMMA ListOf ==
  ASSUME NEW S, NEW list \in Seq(S)
  PROVE  IsArray(list) /\ ToSet(list) \in SUBSET S
<1>1. Len(list) \in Nat /\ DOMAIN list = 1..Len(list) /\ list = [k \in 1..Len(list) |-> list[k]]
  OBVIOUS
<1>2. \A k \in 1..Len(list) : list[k] \in S
  OBVIOUS
<1>3. IsArray(list)
  BY <1>1, ListByNumber
<1>4. QED
  BY <1>1, <1>2, <1>3 DEF ToSet

(* Two arrays put together.                                                  *)
LEMMA JoinedArray ==
  ASSUME NEW a, NEW b, IsArray(a), IsArray(b)
  PROVE  IsArray(a \o b) /\ ToSet(a \o b) = ToSet(a) \cup ToSet(b)
<1> DEFINE S == ToSet(a) \cup ToSet(b)
<1>1. /\ Len(a) \in Nat /\ a \in [1..Len(a) -> ToSet(a)]
      /\ Len(b) \in Nat /\ b \in [1..Len(b) -> ToSet(b)]
  BY DEF IsArray
<1>2. a \in [1..Len(a) -> S] /\ b \in [1..Len(b) -> S]
  BY <1>1
<1> HIDE DEF S
<1>3. a \in Seq(S) /\ b \in Seq(S)
  BY <1>1, <1>2
<1>4. a \o b \in Seq(S) /\ ToSet(a \o b) = ToSet(a) \cup ToSet(b)
  BY <1>3, ConcatMembers
<1>5. QED
  BY <1>4, ListOf

(* What two lists of series tell is told by the one behind the other.        *)
LEMMA TellsBoth ==
  ASSUME NEW metric, NEW a, NEW b, NEW A, NEW B, Tells(a, metric, A), Tells(b, metric, B)
  PROVE  Tells(a \o b, metric, A \cup B)
<1>1. IsArray(a \o b) /\ ToSet(a \o b) = ToSet(a) \cup ToSet(b)
  BY JoinedArray DEF Tells
<1>2. QED
  BY <1>1 DEF Tells

(* Where one part of a list of series is silent, the other part says it all. *)
LEMMA SilentBoth ==
  ASSUME NEW metric, NEW a, NEW b, Silent(a, metric), Silent(b, metric)
  PROVE  Silent(a \o b, metric)
<1>1. Tells(a, metric, {}) /\ Tells(b, metric, {})
  BY SilentTells
<1>2. Tells(a \o b, metric, {} \cup {})
  BY <1>1, TellsBoth
<1>3. QED
  BY <1>2, SilentTells

LEMMA TellsThen ==
  ASSUME NEW metric, NEW a, NEW b, NEW ids, Tells(a, metric, ids), Silent(b, metric)
  PROVE  Tells(a \o b, metric, ids)
<1>1. Tells(b, metric, {})
  BY SilentTells
<1>2. Tells(a \o b, metric, ids \cup {})
  BY <1>1, TellsBoth
<1>3. QED
  BY <1>2

LEMMA TellsAfter ==
  ASSUME NEW metric, NEW a, NEW b, NEW ids, Silent(a, metric), Tells(b, metric, ids)
  PROVE  Tells(a \o b, metric, ids)
<1>1. Tells(a, metric, {})
  BY SilentTells
<1>2. Tells(a \o b, metric, {} \cup ids)
  BY <1>1, TellsBoth
<1>3. QED
  BY <1>2

(* A list of one series.                                                     *)
LEMMA OneSeries ==
  ASSUME NEW s
  PROVE  /\ IsArray(<<s>>) /\ ToSet(<<s>>) = {s}
         /\ Tells(<<s>>, s.metric, {s.labels[1]})
         /\ \A metric : s.metric # metric => Silent(<<s>>, metric)
<1>1. DOMAIN <<s>> = 1..1 /\ <<s>> = [k \in 1..1 |-> <<s>>[k]] /\ \A k \in 1..1 : <<s>>[k] = s
  OBVIOUS
<1>2. IsArray(<<s>>) /\ ToSet(<<s>>) = {s}
  <2>1. PICK list : list = <<s>>
    OBVIOUS
  <2>2. 1 \in Nat /\ DOMAIN list = 1..1 /\ list = [k \in 1..1 |-> list[k]] /\ \A k \in 1..1 : list[k] = s
    BY <1>1, <2>1
  <2>3. IsArray(list) /\ ToSet(list) = {list[k] : k \in 1..1}
    BY <2>2, ListByNumber
  <2>4. ToSet(list) = {s}
    BY <2>2, <2>3
  <2>5. QED
    BY <2>1, <2>3, <2>4
<1>3. QED
  BY <1>2 DEF Tells, Silent

(* One series for each of a list of things, none of the metric.             *)
LEMMA SilentEach ==
  ASSUME NEW metric, NEW list, NEW n \in Nat, DOMAIN list = 1..n, list = [k \in 1..n |-> list[k]],
         \A k \in 1..n : list[k].metric # metric
  PROVE  Silent(list, metric)
BY ListByNumber DEF Silent

(* A finite set is listed once, item by item.                                *)
LEMMA SetToSeqLists ==
  ASSUME NEW S, IsFiniteSet(S)
  PROVE  /\ IsArray(SetToSeq(S)) /\ ToSet(SetToSeq(S)) = S /\ IsInjective(SetToSeq(S))
<1>1. Cardinality(S) \in Nat
  BY FS_CardinalityType
<1>2. ExistsBijection(1..Cardinality(S), S)
  BY FS_CardinalityType
<1>3. PICK f \in Bijection(1..Cardinality(S), S) : TRUE
  BY <1>2 DEF ExistsBijection
<1>4. /\ SetToSeq(S) \in [1..Cardinality(S) -> S] /\ IsInjective(SetToSeq(S))
  <2>1. f \in [1..Cardinality(S) -> S] /\ IsInjective(f)
    BY <1>3 DEF Bijection, Injection, IsInjective
  <2>2. QED
    BY <2>1 DEF SetToSeq
<1>5. SetToSeq(S) \in Seq(S)
  BY <1>1, <1>4
<1>6. ToSet(SetToSeq(S)) = S
  <2> DEFINE D == 1..Cardinality(S)
  <2>1. IsFiniteSet(D) /\ Cardinality(D) = Cardinality(S)
    <3>1. Cardinality(1..Cardinality(S)) = IF 1 > Cardinality(S) THEN 0 ELSE Cardinality(S) - 1 + 1
      BY <1>1, FS_Interval
    <3>2. QED
      BY <1>1, <3>1, FS_Interval
  <2> HIDE DEF D
  <2>2. SetToSeq(S) \in Injection(D, S)
    BY <1>4 DEF Injection, D
  <2>3. SetToSeq(S) \in Surjection(D, S)
    BY <2>1, <2>2, FS_Injection
  <2>4. QED
    BY <2>3 DEF Surjection, ToSet
<1>7. QED
  BY <1>4, <1>5, <1>6, ListOf

(* A field that is there once or not at all is a finite set. *)
LEMMA AtMostOneIsFinite ==
  ASSUME NEW S, AtMostOne(S)
  PROVE  IsFiniteSet(S)
<1>1. CASE S = {}
  BY <1>1, FS_EmptySet
<1>2. ASSUME NEW x \in S PROVE IsFiniteSet(S)
  <2>1. S = {x}
    BY DEF AtMostOne
  <2>2. QED
    BY <2>1, FS_Singleton
<1>3. QED
  BY <1>1, <1>2

(* One series for each item of a list, none of the metric. *)
LEMMA SilentMap ==
  ASSUME NEW metric, NEW list, IsArray(list), NEW series,
         series = [i \in DOMAIN list |-> series[i]],
         \A i \in DOMAIN list : series[i].metric # metric
  PROVE  Silent(series, metric)
<1>1. Len(list) \in Nat /\ DOMAIN list = 1..Len(list)
  BY ArrayByNumber
<1>2. DOMAIN series = DOMAIN list
  OBVIOUS
<1> DEFINE n == Len(list)
<1>3. n \in Nat /\ DOMAIN series = 1..n /\ series = [k \in 1..n |-> series[k]]
      /\ \A k \in 1..n : series[k].metric # metric
  BY <1>1, <1>2
<1>4. QED
  <2> HIDE DEF n
  <2> QED BY <1>3, SilentEach

(* Gauges, Optional and OneHot name their own metrics and no other.          *)
LEMMA SilentGauges ==
  ASSUME NEW metric, NEW metrics, IsArray(metrics), metric \notin ToSet(metrics), NEW item, NEW labels
  PROVE  Silent(Gauges(metrics, item, labels), metric)
<1> DEFINE series == Gauges(metrics, item, labels)
<1>1. series = [i \in DOMAIN metrics |-> Gauge(metrics[i], item[metrics[i]], labels)]
  BY DEF Gauges, Map
<1> HIDE DEF series
<1>2. series = [i \in DOMAIN metrics |-> series[i]]
  BY <1>1
<1>3. \A i \in DOMAIN metrics : series[i].metric # metric
  BY <1>1 DEF Gauge, ToSet
<1>4. QED
  BY <1>2, <1>3, SilentMap DEF series

LEMMA SilentOptional ==
  ASSUME NEW metric, NEW name, name # metric, NEW optional, AtMostOne(optional), NEW labels
  PROVE  Silent(Optional(name, optional, labels), metric)
<1> DEFINE series == Optional(name, optional, labels)
           list == SetToSeq(optional)
<1>1. IsArray(list)
  BY AtMostOneIsFinite, SetToSeqLists
<1>2. series = [i \in DOMAIN list |-> Gauge(name, list[i], labels)]
  BY DEF Optional, Map
<1> HIDE DEF series, list
<1>3. series = [i \in DOMAIN list |-> series[i]]
  BY <1>2
<1>4. \A i \in DOMAIN list : series[i].metric # metric
  BY <1>2 DEF Gauge
<1>5. QED
  BY <1>1, <1>3, <1>4, SilentMap DEF series

(* The states of a one-hot metric are an array, a state nobody documented     *)
(* included.                                                                 *)
LEMMA StatesLists ==
  ASSUME NEW known, IsArray(known), NEW state
  PROVE  IsArray(States(known, state))
<1>1. CASE state = "" \/ Contains(known, state)
  BY <1>1 DEF States
<1>2. CASE ~(state = "" \/ Contains(known, state))
  <2>1. States(known, state) = Append(known, state)
    BY <1>2 DEF States
  <2> DEFINE S == ToSet(known) \cup {state}
  <2>2. known \in Seq(S) /\ state \in S
    <3>1. \A k \in DOMAIN known : known[k] \in S
      BY DEF ToSet
    <3>2. Len(known) \in Nat /\ DOMAIN known = 1..Len(known) /\ known = [k \in 1..Len(known) |-> known[k]]
      BY ArrayByNumber
    <3>3. state \in S
      OBVIOUS
    <3> HIDE DEF S
    <3>4. known \in [1..Len(known) -> S]
      BY <3>1, <3>2
    <3>5. QED
      BY <3>2, <3>3, <3>4
  <2> HIDE DEF S
  <2>3. Append(known, state) \in Seq(S)
    BY <2>2
  <2>4. QED
    BY <2>1, <2>3, ListOf
<1>3. QED
  BY <1>1, <1>2

LEMMA SilentOneHot ==
  ASSUME NEW metric, NEW name, name # metric, NEW known, IsArray(known), NEW state, NEW labels
  PROVE  Silent(OneHot(name, known, state, labels), metric)
<1> DEFINE series == OneHot(name, known, state, labels)
           list == States(known, state)
<1>1. IsArray(list)
  BY StatesLists
<1>2. series = [i \in DOMAIN list |-> Gauge(name, boolToFloat(list[i] = state), Append(labels, list[i]))]
  BY DEF OneHot, Map
<1> HIDE DEF series, list
<1>3. series = [i \in DOMAIN list |-> series[i]]
  BY <1>2
<1>4. \A i \in DOMAIN list : series[i].metric # metric
  BY <1>2 DEF Gauge
<1>5. QED
  BY <1>1, <1>3, <1>4, SilentMap DEF series

(* The series of one item behind those of another (a loop that emits).       *)
LEMMA FlattenLists ==
  ASSUME NEW lists, IsArray(lists), \A k \in DOMAIN lists : IsArray(lists[k])
  PROVE  /\ IsArray(FlattenSeq(lists))
         /\ ToSet(FlattenSeq(lists)) = UNION {ToSet(lists[k]) : k \in DOMAIN lists}
<1> DEFINE S == UNION {ToSet(lists[k]) : k \in DOMAIN lists}
<1>1. Len(lists) \in Nat /\ DOMAIN lists = 1..Len(lists) /\ lists = [k \in 1..Len(lists) |-> lists[k]]
  BY ArrayByNumber
<1>2. ASSUME NEW k \in DOMAIN lists PROVE lists[k] \in Seq(S)
  <2>1. /\ Len(lists[k]) \in Nat /\ DOMAIN lists[k] = 1..Len(lists[k])
        /\ lists[k] = [j \in 1..Len(lists[k]) |-> lists[k][j]]
    BY ArrayByNumber
  <2>2. \A j \in DOMAIN lists[k] : lists[k][j] \in S
    BY DEF ToSet
  <2> HIDE DEF S
  <2>3. lists[k] \in [1..Len(lists[k]) -> S]
    BY <2>1, <2>2
  <2>4. QED
    BY <2>1, <2>3
<1>3. S = UNION {ToSet(list) : list \in ToSet(lists)}
  BY DEF ToSet
<1> HIDE DEF S
<1>4. lists \in [1..Len(lists) -> Seq(S)]
  BY <1>1, <1>2
<1>5. lists \in Seq(Seq(S))
  BY <1>1, <1>4
<1>6. FlattenSeq(lists) \in Seq(S) /\ ToSet(FlattenSeq(lists)) = S
  BY <1>3, <1>5, FlattenMembers
<1>7. QED
  BY <1>6, ListOf DEF S

LEMMA SilentFlatten ==
  ASSUME NEW metric, NEW list, IsArray(list), NEW lists, lists = [i \in DOMAIN list |-> lists[i]],
         \A i \in DOMAIN list : Silent(lists[i], metric)
  PROVE  Silent(FlattenSeq(lists), metric)
<1>1. Len(list) \in Nat /\ DOMAIN list = 1..Len(list) /\ DOMAIN lists = DOMAIN list
  BY ArrayByNumber
<1>2. IsArray(lists)
  <2> DEFINE n == Len(list)
  <2>1. n \in Nat /\ DOMAIN lists = 1..n /\ lists = [k \in 1..n |-> lists[k]]
    BY <1>1
  <2> HIDE DEF n
  <2>2. QED
    BY <2>1, ListByNumber
<1>3. \A k \in DOMAIN lists : IsArray(lists[k])
  BY <1>1 DEF Silent
<1>4. QED
  BY <1>1, <1>2, <1>3, FlattenLists DEF Silent

(* A written-out list of metric names is an array without any other name.    *)
LEMMA NamesList ==
  ASSUME NEW list, NEW n \in Nat, DOMAIN list = 1..n, list = [k \in 1..n |-> list[k]],
         NEW metric, \A k \in 1..n : list[k] # metric
  PROVE  IsArray(list) /\ metric \notin ToSet(list)
BY ListByNumber

(* A label tuple starts with the resource's id, whatever is put behind it. *)
LEMMA FirstLabel ==
  ASSUME NEW a, NEW b, NEW c, NEW d, NEW e
  PROVE  /\ (<<a, b, c>> \o <<d>>)[1] = a /\ (<<a, b, c>> \o <<d, e>>)[1] = a
         /\ (<<a, b>> \o <<d>>)[1] = a /\ (<<a, b>> \o <<d, e>>)[1] = a
         /\ <<a>>[1] = a /\ <<a, b>>[1] = a /\ <<a, b, c>>[1] = a
OBVIOUS

(* Kind by kind: the item newX makes of a resource keeps its id, and the     *)
(* collector emits for it one series of the kind's always-there metric,      *)
(* labelled with that id first.                                              *)
LEMMA DropletTells ==
  ASSUME NEW r, WellFormed("droplets", r)
  PROVE  newDroplet(r).id = r.id /\ Tells(collectDroplet(newDroplet(r)), "info", {r.id})
<1> DEFINE d == newDroplet(r)
           labels == <<d.id, d.name, d.region>>
           names == <<"up", "cpus", "memory", "disk", "price_hourly", "price_monthly", "backups",
                      "monitoring_agent">>
           info == Gauge("info", 1, labels \o <<d.about>>)
<1>1. d.id = r.id /\ d.created = r.created /\ AtMostOne(d.created)
  BY DEF newDroplet, WellFormed
<1>2. IsArray(names) /\ "info" \notin ToSet(names)
  <2>1. /\ 8 \in Nat /\ DOMAIN names = 1..8 /\ names = [k \in 1..8 |-> names[k]]
        /\ \A k \in 1..8 : names[k] # "info"
    OBVIOUS
  <2> HIDE DEF names
  <2>2. QED
    BY <2>1, NamesList
<1>3. info.metric = "info" /\ info.labels[1] = r.id
  BY <1>1, FirstLabel DEF Gauge
<1>4. collectDroplet(d) = Gauges(names, d, labels) \o Optional("created", d.created, labels) \o <<info>>
  BY DEF collectDroplet
<1> HIDE DEF d, names, labels, info
<1>5. Silent(Gauges(names, d, labels), "info") /\ Silent(Optional("created", d.created, labels), "info")
  BY <1>1, <1>2, SilentGauges, SilentOptional
<1>6. Tells(<<info>>, "info", {r.id})
  BY <1>3, OneSeries
<1>7. QED
  BY <1>1, <1>4, <1>5, <1>6, SilentBoth, TellsAfter DEF d

LEMMA VolumeTells ==
  ASSUME NEW r
  PROVE  newVolume(r).id = r.id /\ Tells(collectVolume(newVolume(r)), "info", {r.id})
<1> DEFINE v == newVolume(r)
           labels == <<v.id, v.name, v.region>>
           names == <<"size", "droplets">>
           info == Gauge("info", 1, labels \o <<v.about>>)
<1>1. v.id = r.id
  BY DEF newVolume
<1>2. IsArray(names) /\ "info" \notin ToSet(names)
  <2>1. /\ 2 \in Nat /\ DOMAIN names = 1..2 /\ names = [k \in 1..2 |-> names[k]]
        /\ \A k \in 1..2 : names[k] # "info"
    OBVIOUS
  <2> HIDE DEF names
  <2>2. QED
    BY <2>1, NamesList
<1>3. info.metric = "info" /\ info.labels[1] = r.id
  BY <1>1, FirstLabel DEF Gauge
<1>4. collectVolume(v) = Gauges(names, v, labels) \o <<info>>
  BY DEF collectVolume
<1> HIDE DEF v, names, labels, info
<1>5. Silent(Gauges(names, v, labels), "info")
  BY <1>2, SilentGauges
<1>6. Tells(<<info>>, "info", {r.id})
  BY <1>3, OneSeries
<1>7. QED
  BY <1>1, <1>4, <1>5, <1>6, TellsAfter DEF v

LEMMA FirewallTells ==
  ASSUME NEW r
  PROVE  newFirewall(r).id = r.id /\ Tells(collectFirewall(newFirewall(r)), "info", {r.id})
<1> DEFINE f == newFirewall(r)
           names == <<"droplets", "tags", "inbound", "outbound", "open", "pending">>
           labels == <<f.id, f.name>>
           info == Gauge("info", 1, <<f.id, f.name, f.status>>)
<1>1. f.id = r.id
  BY DEF newFirewall
<1>2. IsArray(names) /\ "info" \notin ToSet(names)
  <2>1. /\ 6 \in Nat /\ DOMAIN names = 1..6 /\ names = [k \in 1..6 |-> names[k]]
        /\ \A k \in 1..6 : names[k] # "info"
    OBVIOUS
  <2> HIDE DEF names
  <2>2. QED
    BY <2>1, NamesList
<1>3. info.metric = "info" /\ info.labels[1] = r.id
  BY <1>1, FirstLabel DEF Gauge
<1>4. collectFirewall(f) = <<info>> \o Gauges(names, f, labels)
  BY DEF collectFirewall
<1> HIDE DEF f, names, labels, info
<1>5. Silent(Gauges(names, f, labels), "info")
  BY <1>2, SilentGauges
<1>6. Tells(<<info>>, "info", {r.id})
  BY <1>3, OneSeries
<1>7. QED
  BY <1>1, <1>4, <1>5, <1>6, TellsThen DEF f

LEMMA ImageTells ==
  ASSUME NEW r, WellFormed("images", r)
  PROVE  newImage(r).id = r.id /\ Tells(collectImage(newImage(r)), "info", {r.id})
<1> DEFINE d == newImage(r)
           labels == <<d.id, d.name, d.type>>
           names == <<"size", "min_disk">>
           info == Gauge("info", 1, labels \o <<d.about>>)
<1>1. d.id = r.id /\ d.created = r.created /\ AtMostOne(d.created)
  BY DEF newImage, WellFormed
<1>2. IsArray(names) /\ "info" \notin ToSet(names)
  <2>1. /\ 2 \in Nat /\ DOMAIN names = 1..2 /\ names = [k \in 1..2 |-> names[k]]
        /\ \A k \in 1..2 : names[k] # "info"
    OBVIOUS
  <2> HIDE DEF names
  <2>2. QED
    BY <2>1, NamesList
<1>3. info.metric = "info" /\ info.labels[1] = r.id
  BY <1>1, FirstLabel DEF Gauge
<1>4. collectImage(d) = Gauges(names, d, labels) \o Optional("created", d.created, labels) \o <<info>>
  BY DEF collectImage
<1> HIDE DEF d, names, labels, info
<1>5. Silent(Gauges(names, d, labels), "info") /\ Silent(Optional("created", d.created, labels), "info")
  BY <1>1, <1>2, SilentGauges, SilentOptional
<1>6. Tells(<<info>>, "info", {r.id})
  BY <1>3, OneSeries
<1>7. QED
  BY <1>1, <1>4, <1>5, <1>6, SilentBoth, TellsAfter DEF d

(* A list of two series, one of which is of the metric.                      *)
LEMMA TwoSeries ==
  ASSUME NEW a, NEW b, NEW metric
  PROVE  /\ b.metric # metric => Tells(<<a, b>>, metric, IF a.metric = metric THEN {a.labels[1]} ELSE {})
         /\ a.metric # metric => Tells(<<a, b>>, metric, IF b.metric = metric THEN {b.labels[1]} ELSE {})
<1>1. PICK list : list = <<a, b>>
  OBVIOUS
<1>2. 2 \in Nat /\ DOMAIN list = 1..2 /\ list = [k \in 1..2 |-> list[k]] /\ list[1] = a /\ list[2] = b
  BY <1>1
<1>3. IsArray(list) /\ ToSet(list) = {a, b}
  <2>1. IsArray(list) /\ ToSet(list) = {list[k] : k \in 1..2}
    BY <1>2, ListByNumber
  <2>2. QED
    BY <1>2, <2>1
<1>4. QED
  BY <1>1, <1>3 DEF Tells

LEMMA ReservedIPTells ==
  ASSUME NEW r
  PROVE  newReservedIP(r).id = r.id /\ Tells(collectReservedIP(newReservedIP(r)), "info", {r.id})
<1> DEFINE ip == newReservedIP(r)
           labels == <<ip.id, ip.region, ip.version>>
           a == Gauge("assigned", ip.assigned, labels)
           b == Gauge("info", 1, labels \o <<ip.droplet, ip.project>>)
<1>1. ip.id = r.id
  BY DEF newReservedIP
<1>2. b.labels[1] = r.id /\ a.metric # "info" /\ b.metric = "info"
  BY <1>1, FirstLabel DEF Gauge
<1>3. collectReservedIP(ip) = <<a, b>>
  BY DEF collectReservedIP
<1> HIDE DEF ip, labels, a, b
<1>4. QED
  BY <1>1, <1>2, <1>3, TwoSeries DEF ip

LEMMA CertificateTells ==
  ASSUME NEW r, WellFormed("certificates", r)
  PROVE  newCertificate(r).id = r.id /\ Tells(collectCertificate(newCertificate(r)), "info", {r.id})
<1> DEFINE c == newCertificate(r)
           a == Gauge("info", 1, <<c.id, c.name, c.about>>)
           b == Gauge("dns_names", c.dns_names, <<c.id, c.name>>)
           labels == <<c.id, c.name, c.type>>
<1>1. c.id = r.id /\ AtMostOne(c.expiry)
  BY DEF newCertificate, WellFormed
<1>2. a.labels[1] = r.id /\ a.metric = "info" /\ b.metric # "info"
  BY <1>1, FirstLabel DEF Gauge
<1>3. collectCertificate(c) = <<a, b>> \o Optional("expiry", c.expiry, labels)
  BY DEF collectCertificate
<1> HIDE DEF c, labels, a, b
<1>4. Tells(<<a, b>>, "info", {r.id}) /\ Silent(Optional("expiry", c.expiry, labels), "info")
  BY <1>1, <1>2, TwoSeries, SilentOptional
<1>5. QED
  BY <1>1, <1>3, <1>4, TellsThen DEF c

LEMMA EndpointTells ==
  ASSUME NEW r
  PROVE  Tells(collectEndpoint(r), "info", {r.id})
<1> DEFINE a == Gauge("ttl", r.ttl, <<r.id, r.origin>>)
           b == Gauge("info", 1, <<r.id, r.origin, r.about>>)
<1>1. b.labels[1] = r.id /\ a.metric # "info" /\ b.metric = "info"
  BY FirstLabel DEF Gauge
<1>2. collectEndpoint(r) = <<a, b>>
  BY DEF collectEndpoint
<1> HIDE DEF a, b
<1>3. QED
  BY <1>1, <1>2, TwoSeries

LEMMA DomainTells ==
  ASSUME NEW r
  PROVE  Tells(collectDomain(r), "ttl", {r.id})
<1> DEFINE a == Gauge("ttl", r.ttl, <<r.id>>)
<1>1. a.labels[1] = r.id /\ a.metric = "ttl"
  BY FirstLabel DEF Gauge
<1>2. collectDomain(r) = <<a>>
  BY DEF collectDomain
<1> HIDE DEF a
<1>3. QED
  BY <1>1, <1>2, OneSeries

LEMMA PoolTells ==
  ASSUME NEW r, WellFormed("dropletautoscale", r)
  PROVE  Tells(collectPool(r), "info", {r.id})
<1> DEFINE labels == <<r.id, r.name>>
           a == Gauge("info", 1, labels \o <<r.about>>)
           b == Gauge("active_instances", r.active_instances, labels)
           current(u) == <<Gauge("current_cpu", u.cpu, labels), Gauge("current_memory", u.memory, labels)>>
           used == SetToSeq(r.current)
           lists == [i \in DOMAIN used |-> current(used[i])]
           first == Optional("min", IF r.max > 0 THEN {r.min} ELSE {}, labels)
           max == Optional("max", Positive(r.max), labels)
           target == Optional("target", Positive(r.target), labels)
           cpu == Optional("target_cpu", Positive(r.target_cpu), labels)
           memory == Optional("target_memory", Positive(r.target_memory), labels)
<1>1. a.labels[1] = r.id /\ a.metric = "info" /\ b.metric # "info"
  BY FirstLabel DEF Gauge
<1>2. collectPool(r) = <<a, b>> \o first \o max \o target \o cpu \o memory \o FlattenSeq(lists)
  BY DEF collectPool, Map
<1>3. AtMostOne(IF r.max > 0 THEN {r.min} ELSE {}) /\ \A n : AtMostOne(Positive(n))
  BY DEF AtMostOne, Positive
<1>4. Silent(first, "info") /\ Silent(max, "info") /\ Silent(target, "info") /\ Silent(cpu, "info")
        /\ Silent(memory, "info")
  <2> HIDE DEF labels
  <2> QED BY <1>3, SilentOptional
<1>5. Silent(FlattenSeq(lists), "info")
  <2>1. IsArray(used)
    BY AtMostOneIsFinite, SetToSeqLists DEF WellFormed
  <2>2. ASSUME NEW u PROVE Silent(current(u), "info")
    <3> DEFINE x == Gauge("current_cpu", u.cpu, labels)
               y == Gauge("current_memory", u.memory, labels)
    <3>1. x.metric # "info" /\ y.metric # "info"
      BY DEF Gauge
    <3> HIDE DEF x, y
    <3>2. Tells(<<x, y>>, "info", {})
      BY <3>1, TwoSeries
    <3>3. QED
      BY <3>2, SilentTells DEF x, y
  <2>3. lists = [i \in DOMAIN used |-> lists[i]] /\ \A i \in DOMAIN used : lists[i] = current(used[i])
    OBVIOUS
  <2> HIDE DEF used, lists, current
  <2>4. \A i \in DOMAIN used : Silent(lists[i], "info")
    BY <2>2, <2>3
  <2>5. QED
    BY <2>1, <2>3, <2>4, SilentFlatten
<1> HIDE DEF labels, a, b, used, lists, first, max, target, cpu, memory
<1>6. Tells(<<a, b>>, "info", {r.id})
  BY <1>1, TwoSeries
<1>7. QED
  BY <1>2, <1>4, <1>5, <1>6, TellsThen

(* What is made of an array item by item is an array. *)
LEMMA MappedArray ==
  ASSUME NEW list, IsArray(list), NEW made, made = [i \in DOMAIN list |-> made[i]]
  PROVE  IsArray(made) /\ DOMAIN made = DOMAIN list
<1>1. Len(list) \in Nat /\ DOMAIN list = 1..Len(list)
  BY ArrayByNumber
<1> DEFINE n == Len(list)
<1>2. n \in Nat /\ DOMAIN made = 1..n /\ made = [k \in 1..n |-> made[k]]
  BY <1>1
<1> HIDE DEF n
<1>3. IsArray(made)
  BY <1>2, ListByNumber
<1>4. QED
  BY <1>3

(* The list of nothing.                                                      *)
LEMMA NoItems == IsArray(<< >>) /\ ToSet(<< >>) = {}
BY DEF IsArray, ToSet

LEMMA LoadBalancerTells ==
  ASSUME NEW r, WellFormed("loadbalancers", r)
  PROVE  /\ newLoadBalancer(r).id = r.id
         /\ Tells(collectLoadBalancer(newLoadBalancer(r)), "info", {r.id})
<1> DEFINE lb == newLoadBalancer(r)
           labels == <<lb.id, lb.name, lb.ip>>
           healthCheck(h) == <<Gauge("health_check_info", 1, labels \o <<h.about>>)>>
                               \o Gauges(<<"interval", "timeout", "healthy", "unhealthy">>, h, labels)
           names == <<"status", "droplets", "size_units", "forwarding_rules">>
           info == Gauge("info", 1, labels \o lb.about)
           allow == Gauge("firewall_rules", lb.allow, labels \o <<"allow">>)
           deny == Gauge("firewall_rules", lb.deny, labels \o <<"deny">>)
           ruled == [i \in DOMAIN lb.rules |-> Gauge("forwarding_rule_info", 1, labels \o lb.rules[i])]
           checks == SetToSeq(lb.health)
           lists == [i \in DOMAIN checks |-> healthCheck(checks[i])]
<1>1. lb.id = r.id /\ lb.rules = r.rules /\ lb.health = r.health /\ lb.about = <<regionSlug(r), r.about>>
  BY DEF newLoadBalancer
<1>2. IsArray(names) /\ "info" \notin ToSet(names)
  <2>1. /\ 4 \in Nat /\ DOMAIN names = 1..4 /\ names = [k \in 1..4 |-> names[k]]
        /\ \A k \in 1..4 : names[k] # "info"
    OBVIOUS
  <2> HIDE DEF names
  <2>2. QED
    BY <2>1, NamesList
<1>3. /\ info.metric = "info" /\ info.labels[1] = r.id
      /\ allow.metric # "info" /\ deny.metric # "info"
  <2>1. (<<lb.id, lb.name, lb.ip>> \o <<regionSlug(r), r.about>>)[1] = lb.id
    BY FirstLabel
  <2>2. info.labels = <<lb.id, lb.name, lb.ip>> \o <<regionSlug(r), r.about>>
    BY <1>1 DEF Gauge
  <2>3. QED
    BY <1>1, <2>1, <2>2 DEF Gauge
<1>4. collectLoadBalancer(lb) =
        Gauges(names, lb, labels) \o <<info, allow, deny>> \o ruled \o FlattenSeq(lists)
  BY DEF collectLoadBalancer, Map
<1>5. Silent(ruled, "info")
  <2> DEFINE rules == lb.rules
  <2>1. IsArray(rules)
    BY <1>1 DEF WellFormed
  <2>2. ruled = [i \in DOMAIN rules |-> ruled[i]] /\ \A i \in DOMAIN rules : ruled[i].metric # "info"
    BY DEF Gauge
  <2> HIDE DEF ruled, rules
  <2>3. QED
    BY <2>1, <2>2, SilentMap
<1>6. Silent(FlattenSeq(lists), "info")
  <2>1. IsArray(checks)
    BY <1>1, AtMostOneIsFinite, SetToSeqLists DEF WellFormed
  <2>2. ASSUME NEW h PROVE Silent(healthCheck(h), "info")
    <3> DEFINE x == Gauge("health_check_info", 1, labels \o <<h.about>>)
               figures == <<"interval", "timeout", "healthy", "unhealthy">>
    <3>1. x.metric # "info"
      BY DEF Gauge
    <3>2. IsArray(figures) /\ "info" \notin ToSet(figures)
      <4>1. /\ 4 \in Nat /\ DOMAIN figures = 1..4 /\ figures = [k \in 1..4 |-> figures[k]]
            /\ \A k \in 1..4 : figures[k] # "info"
        OBVIOUS
      <4> HIDE DEF figures
      <4>2. QED
        BY <4>1, NamesList
    <3> HIDE DEF x, figures, labels
    <3>3. Silent(<<x>>, "info") /\ Silent(Gauges(figures, h, labels), "info")
      BY <3>1, <3>2, OneSeries, SilentGauges
    <3>4. QED
      BY <3>3, SilentBoth DEF x, figures
  <2>3. lists = [i \in DOMAIN checks |-> lists[i]] /\ \A i \in DOMAIN checks : lists[i] = healthCheck(checks[i])
    OBVIOUS
  <2> HIDE DEF checks, lists, healthCheck
  <2>4. QED
    BY <2>1, <2>2, <2>3, SilentFlatten
<1> HIDE DEF lb, labels, names, info, allow, deny, ruled, checks, lists
<1>7. Tells(<<info, allow, deny>>, "info", {r.id})
  <2>1. PICK list : list = <<info, allow, deny>>
    OBVIOUS
  <2>2. /\ 3 \in Nat /\ DOMAIN list = 1..3 /\ list = [k \in 1..3 |-> list[k]]
        /\ list[1] = info /\ list[2] = allow /\ list[3] = deny
    BY <2>1
  <2>3. IsArray(list) /\ ToSet(list) = {info, allow, deny}
    <3>1. IsArray(list) /\ ToSet(list) = {list[k] : k \in 1..3}
      BY <2>2, ListByNumber
    <3>2. QED
      BY <2>2, <3>1
  <2>4. QED
    BY <1>3, <2>1, <2>3 DEF Tells
<1>8. Silent(Gauges(names, lb, labels), "info")
  BY <1>2, SilentGauges
<1>9. QED
  BY <1>1, <1>4, <1>5, <1>6, <1>7, <1>8, TellsAfter, TellsThen DEF lb

(* newComponents: every workload of the spec, in one array. *)
LEMMA ComponentsList ==
  ASSUME NEW spec, IsArray(spec.services), IsArray(spec.workers), IsArray(spec.jobs),
         IsArray(spec.static_sites)
  PROVE  IsArray(newComponents(spec))
<1> DEFINE workload(sort, list) ==
             [i \in DOMAIN list |-> <<list[i].name, sort, list[i].size, list[i].instances>>]
           services == workload("service", spec.services)
           workers == workload("worker", spec.workers)
           jobs == workload("job", spec.jobs)
           sites == [i \in DOMAIN spec.static_sites |->
                       <<spec.static_sites[i].name, "static_site", "", 0>>]
<1>1. newComponents(spec) = services \o workers \o jobs \o sites
  BY DEF newComponents, Map
<1>2. /\ services = [i \in DOMAIN spec.services |-> services[i]]
      /\ workers = [i \in DOMAIN spec.workers |-> workers[i]]
      /\ jobs = [i \in DOMAIN spec.jobs |-> jobs[i]]
      /\ sites = [i \in DOMAIN spec.static_sites |-> sites[i]]
  OBVIOUS
<1> HIDE DEF services, workers, jobs, sites
<1>3. IsArray(services) /\ IsArray(workers) /\ IsArray(jobs) /\ IsArray(sites)
  BY <1>2, MappedArray
<1>4. QED
  BY <1>1, <1>3, JoinedArray

LEMMA AppTells ==
  ASSUME NEW r, WellFormed("apps", r)
  PROVE  newApp(r).id = r.id /\ Tells(collectApp(newApp(r)), "info", {r.id})
<1> DEFINE a == newApp(r)
           spec == Given(r.spec, [name |-> "", region |-> "", services |-> << >>, workers |-> << >>,
                                  jobs |-> << >>, static_sites |-> << >>])
           region == IF regionSlug(r) = "" THEN spec.region ELSE regionSlug(r)
           labels == <<a.id, a.name>>
           x == Gauge("info", 1, labels \o a.about)
           y == Gauge("in_progress", a.in_progress, labels)
           active == Optional("last_active", a.last_active, labels)
           created == Optional("created", a.created, labels)
           phases == SetToSeq(a.phase)
           lists == [i \in DOMAIN phases |-> OneHot("phase", knownPhases, phases[i], <<a.id, a.name>>)]
           instances == [i \in DOMAIN a.components |->
             Gauge("instances", a.components[i][4],
                   labels \o <<a.components[i][1], a.components[i][2], a.components[i][3]>>)]
<1>1. /\ a.id = r.id /\ a.about = <<r.about, region>> /\ a.phase = r.active
      /\ a.last_active = r.last_active /\ a.created = r.created /\ a.components = newComponents(spec)
  BY DEF newApp
<1>2. IsArray(a.components)
  <2>1. CASE r.spec = {}
    <3>1. /\ spec.services = << >> /\ spec.workers = << >> /\ spec.jobs = << >>
          /\ spec.static_sites = << >>
      BY <2>1 DEF Given
    <3> HIDE DEF spec, a
    <3>2. QED
      BY <1>1, <3>1, NoItems, ComponentsList
  <2>2. CASE r.spec # {}
    <3>1. spec \in r.spec
      <4>1. spec = CHOOSE v \in r.spec : TRUE
        BY <2>2 DEF Given
      <4>2. QED
        BY <2>2, <4>1
    <3> HIDE DEF spec, a
    <3>2. IsArray(spec.services) /\ IsArray(spec.workers) /\ IsArray(spec.jobs)
          /\ IsArray(spec.static_sites)
      BY <3>1 DEF WellFormed
    <3>3. QED
      BY <1>1, <3>2, ComponentsList
  <2>3. QED
    BY <2>1, <2>2
<1>3. x.metric = "info" /\ x.labels[1] = r.id /\ y.metric # "info"
  <2>1. (<<a.id, a.name>> \o <<r.about, region>>)[1] = a.id
    BY FirstLabel
  <2>2. x.labels = <<a.id, a.name>> \o <<r.about, region>>
    BY <1>1 DEF Gauge
  <2>3. QED
    BY <1>1, <2>1, <2>2 DEF Gauge
<1>4. collectApp(a) = <<x, y>> \o active \o created \o FlattenSeq(lists) \o instances
  BY DEF collectApp, collectPhases, Map
<1>5. Silent(active, "info") /\ Silent(created, "info")
  <2> HIDE DEF labels, a
  <2>1. AtMostOne(a.last_active) /\ AtMostOne(a.created)
    BY <1>1 DEF WellFormed
  <2>2. QED
    BY <2>1, SilentOptional
<1>6. Silent(FlattenSeq(lists), "info")
  <2>1. IsArray(phases)
    <3> HIDE DEF a
    <3>1. AtMostOne(a.phase)
      BY <1>1 DEF WellFormed
    <3>2. QED
      BY <3>1, AtMostOneIsFinite, SetToSeqLists
  <2>2. IsArray(knownPhases)
    <3>1. PICK known : known = knownPhases
      OBVIOUS
    <3>2. 8 \in Nat /\ DOMAIN known = 1..8 /\ known = [k \in 1..8 |-> known[k]]
      BY <3>1 DEF knownPhases
    <3>3. QED
      BY <3>1, <3>2, ListByNumber
  <2>3. /\ lists = [i \in DOMAIN phases |-> lists[i]]
        /\ \A i \in DOMAIN phases : lists[i] = OneHot("phase", knownPhases, phases[i], <<a.id, a.name>>)
    OBVIOUS
  <2> HIDE DEF phases, lists, a
  <2>4. \A i \in DOMAIN phases : Silent(lists[i], "info")
    BY <2>2, <2>3, SilentOneHot
  <2>5. QED
    BY <2>1, <2>3, <2>4, SilentFlatten
<1>7. Silent(instances, "info")
  <2> DEFINE list == a.components
  <2>1. IsArray(list)
    BY <1>2
  <2>2. instances = [i \in DOMAIN list |-> instances[i]] /\ \A i \in DOMAIN list : instances[i].metric # "info"
    BY DEF Gauge
  <2> HIDE DEF list, instances
  <2>3. QED
    BY <2>1, <2>2, SilentMap
<1> HIDE DEF a, spec, region, labels, x, y, active, created, phases, lists, instances
<1>8. Tells(<<x, y>>, "info", {r.id})
  BY <1>3, TwoSeries
<1>9. QED
  BY <1>1, <1>4, <1>5, <1>6, <1>7, <1>8, TellsThen DEF a

(* newPool: the nodes the API did not list as null, in one array. *)
LEMMA MembersList ==
  ASSUME NEW p, IsArray(p.members), \A n \in ToSet(p.members) : AtMostOne(n)
  PROVE  IsArray(newPool(p).members)
<1> DEFINE list == p.members
           lists == [i \in DOMAIN list |-> SetToSeq(list[i])]
           nodes == FlattenSeq(lists)
           node(n) == [id |-> n.id, name |-> n.name, droplet |-> n.droplet, state |-> Given(n.state, "")]
           members == [i \in DOMAIN nodes |-> node(nodes[i])]
<1>1. IsArray(lists)
  <2>1. lists = [i \in DOMAIN list |-> lists[i]]
    OBVIOUS
  <2> HIDE DEF lists
  <2>2. QED
    BY <2>1, MappedArray
<1>2. \A i \in DOMAIN lists : IsArray(lists[i])
  <2>1. ASSUME NEW i \in DOMAIN list PROVE IsArray(SetToSeq(list[i]))
    BY AtMostOneIsFinite, SetToSeqLists DEF ToSet
  <2>2. QED
    BY <2>1
<1>3. IsArray(nodes)
  <2> HIDE DEF lists
  <2> QED BY <1>1, <1>2, FlattenLists
<1>4. IsArray(members)
  <2>1. members = [i \in DOMAIN nodes |-> members[i]]
    OBVIOUS
  <2> HIDE DEF nodes, members
  <2>2. QED
    BY <1>3, <2>1, MappedArray
<1>5. newPool(p).members = members
  BY DEF newPool, Map
<1>6. QED
  BY <1>4, <1>5

(* The documented states of a node, a replica and a region are arrays.       *)
LEMMA StatesKnown ==
  IsArray(knownNodeStates) /\ IsArray(knownReplicaStatuses) /\ IsArray(knownRegionStatuses)
<1>1. IsArray(knownNodeStates)
  <2>1. PICK known : known = knownNodeStates
    OBVIOUS
  <2>2. 4 \in Nat /\ DOMAIN known = 1..4 /\ known = [k \in 1..4 |-> known[k]]
    BY <2>1 DEF knownNodeStates
  <2>3. QED
    BY <2>1, <2>2, ListByNumber
<1>2. IsArray(knownReplicaStatuses)
  <2>1. PICK known : known = knownReplicaStatuses
    OBVIOUS
  <2>2. 5 \in Nat /\ DOMAIN known = 1..5 /\ known = [k \in 1..5 |-> known[k]]
    BY <2>1 DEF knownReplicaStatuses
  <2>3. QED
    BY <2>1, <2>2, ListByNumber
<1>3. IsArray(knownRegionStatuses)
  <2>1. PICK known : known = knownRegionStatuses
    OBVIOUS
  <2>2. 3 \in Nat /\ DOMAIN known = 1..3 /\ known = [k \in 1..3 |-> known[k]]
    BY <2>1 DEF knownRegionStatuses
  <2>3. QED
    BY <2>1, <2>2, ListByNumber
<1>4. QED
  BY <1>1, <1>2, <1>3

(* collectPools says nothing under info, and neither does collectUpgrades. *)
LEMMA PoolsSilent ==
  ASSUME NEW k, IsArray(k.pools), \A p \in ToSet(k.pools) : IsArray(p.members)
  PROVE  Silent(collectPools(k), "info")
<1> DEFINE named == <<"nodes", "running", "autoscale", "min", "max">>
           node(p) == [i \in DOMAIN p.members |->
                         collectNode(<<k.id, k.name>> \o SubSeq(p.identity, 1, 2), p.members[i])]
           figures(p) == Gauges(named, p, <<k.id, k.name>> \o p.identity)
           collect(p) == figures(p) \o FlattenSeq(node(p))
           list == k.pools
           lists == [i \in DOMAIN list |-> collect(list[i])]
<1>1. collectPools(k) = FlattenSeq(lists)
  BY DEF collectPools, Map
<1>2. ASSUME NEW labels, NEW n PROVE Silent(collectNode(labels, n), "info")
  <2> DEFINE x == Gauge("node_info", 1, labels \o <<n.id, n.name, n.droplet>>)
             states == OneHot("node_state", knownNodeStates, n.state, labels \o <<n.id, n.name>>)
  <2>1. collectNode(labels, n) = states \o <<x>>
    BY DEF collectNode
  <2>2. x.metric # "info"
    BY DEF Gauge
  <2>3. Silent(states, "info")
    <3> DEFINE prefix == labels \o <<n.id, n.name>>
    <3> HIDE DEF prefix
    <3> QED BY StatesKnown, SilentOneHot DEF prefix
  <2> HIDE DEF x, states
  <2>4. Silent(<<x>>, "info")
    BY <2>2, OneSeries
  <2>5. QED
    BY <2>1, <2>3, <2>4, SilentBoth
<1>3. IsArray(named) /\ "info" \notin ToSet(named)
  <2>1. 5 \in Nat /\ DOMAIN named = 1..5 /\ named = [i \in 1..5 |-> named[i]] /\ \A i \in 1..5 : named[i] # "info"
    OBVIOUS
  <2> HIDE DEF named
  <2>2. QED
    BY <2>1, NamesList
<1> HIDE DEF named
<1>4. ASSUME NEW p \in ToSet(list) PROVE Silent(collect(p), "info")
  <2> DEFINE members == p.members
             nodes == node(p)
  <2>1. IsArray(members)
    OBVIOUS
  <2>2. nodes = [i \in DOMAIN members |-> nodes[i]]
        /\ \A i \in DOMAIN members : nodes[i] = collectNode(<<k.id, k.name>> \o SubSeq(p.identity, 1, 2), members[i])
    OBVIOUS
  <2>3. Silent(figures(p), "info")
    BY <1>3, SilentGauges
  <2> HIDE DEF figures, members, nodes
  <2>4. \A i \in DOMAIN members : Silent(nodes[i], "info")
    BY <1>2, <2>2
  <2>5. Silent(FlattenSeq(nodes), "info")
    BY <2>1, <2>2, <2>4, SilentFlatten
  <2>6. QED
    BY <2>3, <2>5, SilentBoth DEF nodes
<1>5. lists = [i \in DOMAIN list |-> lists[i]] /\ \A i \in DOMAIN list : lists[i] = collect(list[i])
  OBVIOUS
<1>6. IsArray(list)
  OBVIOUS
<1> HIDE DEF list, lists, collect
<1>7. \A i \in DOMAIN list : Silent(lists[i], "info")
  BY <1>4, <1>5 DEF ToSet
<1>8. QED
  BY <1>1, <1>5, <1>6, <1>7, SilentFlatten

(* collectUpgrades, for the one list of versions a lookup brought back.      *)
LEMMA UpgradesSilent ==
  ASSUME NEW k, AtMostOne(k.upgrades), \A versions \in k.upgrades : IsArray(versions)
  PROVE  Silent(collectUpgrades(k), "info")
<1> DEFINE newer(versions) == Gauge("upgrade_available", boolToFloat(versions # << >>), <<k.id, k.name>>)
           each(versions) == [i \in DOMAIN versions |->
                                Gauge("available_version", 1, <<k.id, k.name, versions[i]>>)]
           collect(versions) == <<newer(versions)>> \o each(versions)
           list == SetToSeq(k.upgrades)
           lists == [i \in DOMAIN list |-> collect(list[i])]
<1>1. collectUpgrades(k) = FlattenSeq(lists)
  BY DEF collectUpgrades, Map
<1>2. ASSUME NEW versions \in k.upgrades PROVE Silent(collect(versions), "info")
  <2> DEFINE x == newer(versions)
             y == each(versions)
  <2>1. x.metric # "info" /\ IsArray(versions)
    BY DEF Gauge
  <2>2. y = [i \in DOMAIN versions |-> y[i]] /\ \A i \in DOMAIN versions : y[i].metric # "info"
    BY DEF Gauge
  <2> HIDE DEF x, y
  <2>3. Silent(<<x>>, "info") /\ Silent(y, "info")
    BY <2>1, <2>2, OneSeries, SilentMap
  <2>4. QED
    BY <2>3, SilentBoth DEF x, y
<1>3. IsArray(list) /\ ToSet(list) = k.upgrades
  BY AtMostOneIsFinite, SetToSeqLists
<1>4. lists = [i \in DOMAIN list |-> lists[i]] /\ \A i \in DOMAIN list : lists[i] = collect(list[i])
  OBVIOUS
<1> HIDE DEF list, lists, collect
<1>5. \A i \in DOMAIN list : Silent(lists[i], "info")
  BY <1>2, <1>3, <1>4 DEF ToSet
<1>6. QED
  BY <1>1, <1>3, <1>4, <1>5, SilentFlatten

LEMMA KubernetesTells ==
  ASSUME NEW r, WellFormed("kubernetes", r)
  PROVE  /\ newKubernetesCluster(r).id = r.id
         /\ Tells(collectKubernetesCluster(newKubernetesCluster(r)), "info", {r.id})
<1> DEFINE k == newKubernetesCluster(r)
           labels == <<k.id, k.name, k.region>>
           x == Gauge("up", k.up, labels \o <<k.version>>)
           y == Gauge("info", 1, labels \o <<k.version, k.maintenance>>)
           flagged == Gauges(clusterFlags, k.flags, labels)
<1>1. /\ k.id = r.id
      /\ k.pools = [i \in DOMAIN r.pools |-> newPool(r.pools[i])]
      /\ k.upgrades = {Only(versions, ToSet(versions) \ {""}) : versions \in r.upgrades}
  BY DEF newKubernetesCluster, Map
<1>2. y.metric = "info" /\ y.labels[1] = r.id /\ x.metric # "info"
  <2>1. y.metric = "info" /\ y.labels = labels \o <<k.version, k.maintenance>> /\ x.metric = "up"
    BY DEF Gauge
  <2>2. (<<k.id, k.name, k.region>> \o <<k.version, k.maintenance>>)[1] = k.id
    <3> HIDE DEF k
    <3> QED BY FirstLabel
  <2> HIDE DEF x, y, k
  <2>3. QED
    BY <1>1, <2>1, <2>2
<1>3. collectKubernetesCluster(k) = <<x, y>> \o flagged \o collectUpgrades(k) \o collectPools(k)
  BY DEF collectKubernetesCluster
<1>4. Silent(flagged, "info")
  <2>1. PICK names : names = clusterFlags
    OBVIOUS
  <2>2. 4 \in Nat /\ DOMAIN names = 1..4 /\ names = [i \in 1..4 |-> names[i]] /\ \A i \in 1..4 : names[i] # "info"
    BY <2>1 DEF clusterFlags
  <2>3. IsArray(names) /\ "info" \notin ToSet(names)
    BY <2>2, NamesList
  <2>4. QED
    BY <2>1, <2>3, SilentGauges
<1> HIDE DEF k, labels, x, y, flagged
<1>5. IsArray(k.pools) /\ \A p \in ToSet(k.pools) : IsArray(p.members)
  <2> DEFINE list == r.pools
             pools == k.pools
  <2>1. IsArray(list) /\ pools = [i \in DOMAIN list |-> newPool(list[i])]
    BY <1>1 DEF WellFormed
  <2>2. ASSUME NEW i \in DOMAIN list PROVE IsArray(newPool(list[i]).members)
    <3>1. list[i] \in ToSet(r.pools)
      BY DEF ToSet
    <3> DEFINE p == list[i]
    <3>2. IsArray(p.members) /\ \A n \in ToSet(p.members) : AtMostOne(n)
      BY <3>1 DEF WellFormed
    <3> HIDE DEF p
    <3>3. IsArray(newPool(p).members)
      BY <3>2, MembersList
    <3>4. QED
      BY <3>3 DEF p
  <2> HIDE DEF list, pools
  <2>3. pools = [i \in DOMAIN list |-> pools[i]] /\ \A i \in DOMAIN list : pools[i] = newPool(list[i])
    BY <2>1
  <2>4. IsArray(pools) /\ DOMAIN pools = DOMAIN list
    BY <2>1, <2>3, MappedArray
  <2>5. \A p \in ToSet(pools) : IsArray(p.members)
    BY <2>2, <2>3, <2>4 DEF ToSet
  <2>6. QED
    BY <2>4, <2>5 DEF pools
<1>6. AtMostOne(k.upgrades) /\ \A versions \in k.upgrades : IsArray(versions)
  <2>1. AtMostOne(r.upgrades) /\ \A versions \in r.upgrades : IsArray(versions)
    BY DEF WellFormed
  <2>2. ASSUME NEW versions \in r.upgrades PROVE IsArray(Only(versions, ToSet(versions) \ {""}))
    <3>1. versions \in Seq(ToSet(versions))
      BY <2>1 DEF IsArray
    <3>2. Only(versions, ToSet(versions) \ {""}) \in Seq(ToSet(versions))
      BY <3>1, OnlyMembers
    <3>3. QED
      BY <3>2, ListOf
  <2>3. QED
    BY <1>1, <2>1, <2>2 DEF AtMostOne
<1>7. Silent(collectUpgrades(k), "info") /\ Silent(collectPools(k), "info")
  BY <1>5, <1>6, UpgradesSilent, PoolsSilent
<1>8. Tells(<<x, y>>, "info", {r.id})
  BY <1>2, TwoSeries
<1>9. Tells(<<x, y>> \o flagged, "info", {r.id})
  BY <1>4, <1>8, TellsThen
<1>10. Tells(collectKubernetesCluster(k), "info", {r.id})
  BY <1>3, <1>7, <1>9, TellsThen
<1>11. QED
  BY <1>1, <1>10 DEF k

(* An array has finitely many members.                                       *)
LEMMA ArrayIsFinite ==
  ASSUME NEW list, IsArray(list)
  PROVE  IsFiniteSet(ToSet(list))
<1>1. Len(list) \in Nat /\ list \in [1..Len(list) -> ToSet(list)]
  BY DEF IsArray
<1>2. DOMAIN list = 1..Len(list)
  BY <1>1
<1>3. ToSet(list) = {list[k] : k \in 1..Len(list)}
  BY <1>2 DEF ToSet
<1>4. list \in Surjection(1..Len(list), ToSet(list))
  BY <1>1, <1>3 DEF Surjection
<1>5. IsFiniteSet(1..Len(list))
  BY <1>1, FS_Interval
<1>6. QED
  BY <1>4, <1>5, FS_Surjection

(* collectDetails of databases says nothing under info.                      *)
LEMMA DatabaseDetailsSilent ==
  ASSUME NEW db, AtMostOne(db.details),
         \A d \in db.details : IsArray(d.replicas) /\ AtMostOne(d.last_backup)
  PROVE  Silent(collectDatabaseDetails(db), "info")
<1> DEFINE labels == <<db.id, db.name, db.region>>
           replica(r) == OneHot("replica_status", knownReplicaStatuses, r.status,
                                <<db.id, db.name, r.name, r.region>>)
           number(d) == Gauge("replicas", Len(d.replicas), labels)
           replicas(d) == [i \in DOMAIN d.replicas |-> replica(d.replicas[i])]
           backup(d) == Optional("last_backup", d.last_backup, labels)
           collect(d) == <<number(d)>> \o FlattenSeq(replicas(d)) \o backup(d)
           list == SetToSeq(db.details)
           lists == [i \in DOMAIN list |-> collect(list[i])]
<1>1. collectDatabaseDetails(db) = FlattenSeq(lists)
  BY DEF collectDatabaseDetails, Map
<1>2. ASSUME NEW r PROVE Silent(replica(r), "info")
  <2> DEFINE prefix == <<db.id, db.name, r.name, r.region>>
  <2>1. replica(r) = OneHot("replica_status", knownReplicaStatuses, r.status, prefix)
    OBVIOUS
  <2> HIDE DEF prefix, replica
  <2>2. QED
    BY <2>1, StatesKnown, SilentOneHot
<1>3. ASSUME NEW d \in db.details PROVE Silent(collect(d), "info")
  <2> DEFINE x == number(d)
             members == d.replicas
             y == replicas(d)
  <2>1. x.metric # "info"
    BY DEF Gauge
  <2>2. IsArray(members) /\ y = [i \in DOMAIN members |-> y[i]]
        /\ \A i \in DOMAIN members : y[i] = replica(members[i])
    OBVIOUS
  <2> HIDE DEF x, members, y, labels, replica
  <2>3. Silent(FlattenSeq(y), "info")
    BY <1>2, <2>2, SilentFlatten
  <2>4. Silent(<<x>>, "info") /\ Silent(backup(d), "info")
    BY <2>1, OneSeries, SilentOptional
  <2>5. Silent(<<x>> \o FlattenSeq(y), "info")
    BY <2>3, <2>4, SilentBoth
  <2>6. QED
    BY <2>4, <2>5, SilentBoth DEF x, y
<1>4. IsArray(list) /\ ToSet(list) = db.details
  BY AtMostOneIsFinite, SetToSeqLists
<1>5. lists = [i \in DOMAIN list |-> lists[i]] /\ \A i \in DOMAIN list : lists[i] = collect(list[i])
  OBVIOUS
<1> HIDE DEF list, lists, collect
<1>6. \A i \in DOMAIN list : Silent(lists[i], "info")
  BY <1>3, <1>4, <1>5 DEF ToSet
<1>7. QED
  BY <1>1, <1>4, <1>5, <1>6, SilentFlatten

LEMMA DatabaseTells ==
  ASSUME NEW r, WellFormed("databases", r)
  PROVE  /\ newDatabaseCluster(r).id = r.id
         /\ Tells(collectDatabaseCluster(newDatabaseCluster(r)), "info", {r.id})
<1> DEFINE db == newDatabaseCluster(r)
           labels == <<db.id, db.name, db.region>>
           planned == <<"status", "nodes">>
           figured == <<"storage", "maintenance", "users", "logical", "storage_autoscale">>
           x == Gauges(planned, db, labels \o <<db.plan>>)
           y == Gauges(figured, db, labels)
           info == Gauge("info", 1, labels \o <<db.about>>)
<1>1. db.id = r.id /\ db.details = {lookedUp(d) : d \in r.details}
  BY DEF newDatabaseCluster
<1>2. info.metric = "info" /\ info.labels[1] = r.id
  <2>1. info.metric = "info" /\ info.labels = labels \o <<db.about>>
    BY DEF Gauge
  <2>2. (<<db.id, db.name, db.region>> \o <<db.about>>)[1] = db.id
    <3> HIDE DEF db
    <3> QED BY FirstLabel
  <2> HIDE DEF info, db
  <2>3. QED
    BY <1>1, <2>1, <2>2
<1>3. collectDatabaseCluster(db) = x \o y \o <<info>> \o collectDatabaseDetails(db)
  BY DEF collectDatabaseCluster
<1>4. Silent(x, "info") /\ Silent(y, "info")
  <2>1. 2 \in Nat /\ DOMAIN planned = 1..2 /\ planned = [k \in 1..2 |-> planned[k]]
        /\ \A k \in 1..2 : planned[k] # "info"
    OBVIOUS
  <2>2. 5 \in Nat /\ DOMAIN figured = 1..5 /\ figured = [k \in 1..5 |-> figured[k]]
        /\ \A k \in 1..5 : figured[k] # "info"
    OBVIOUS
  <2> DEFINE longer == labels \o <<db.plan>>
  <2> HIDE DEF planned, figured, db, labels, longer
  <2>3. IsArray(planned) /\ "info" \notin ToSet(planned)
    BY <2>1, NamesList
  <2>4. IsArray(figured) /\ "info" \notin ToSet(figured)
    BY <2>2, NamesList
  <2>5. QED
    BY <2>3, <2>4, SilentGauges DEF longer
<1> HIDE DEF db, labels, x, y, info
<1>5. AtMostOne(db.details) /\ \A d \in db.details : IsArray(d.replicas) /\ AtMostOne(d.last_backup)
  <2>1. AtMostOne(r.details) /\ \A d \in r.details : IsArray(d.replicas)
    BY DEF WellFormed
  <2>2. \A d : lookedUp(d).replicas = d.replicas /\ AtMostOne(lookedUp(d).last_backup)
    BY DEF lookedUp, AtMostOne
  <2>3. \A d \in db.details : \E e \in r.details : d = lookedUp(e)
    BY <1>1
  <2>4. AtMostOne(db.details)
    BY <2>1, <2>3 DEF AtMostOne
  <2>5. \A d \in db.details : IsArray(d.replicas) /\ AtMostOne(d.last_backup)
    BY <2>1, <2>2, <2>3
  <2>6. QED
    BY <2>4, <2>5
<1>6. Silent(collectDatabaseDetails(db), "info")
  BY <1>5, DatabaseDetailsSilent
<1>7. Tells(<<info>>, "info", {r.id}) /\ Silent(x \o y, "info")
  BY <1>2, <1>4, OneSeries, SilentBoth
<1>8. Tells(x \o y \o <<info>>, "info", {r.id})
  BY <1>7, TellsAfter
<1>9. Tells(collectDatabaseCluster(db), "info", {r.id})
  BY <1>3, <1>6, <1>8, TellsThen
<1>10. QED
  BY <1>1, <1>9 DEF db

(* collectState of uptime says nothing under info.                           *)
LEMMA StateSilent ==
  ASSUME NEW c, AtMostOne(c.state),
         \A s \in c.state : /\ IsArray(s.regions) /\ AtMostOne(s.outage)
                            /\ \A o \in s.outage : AtMostOne(o.start)
  PROVE  Silent(collectState(c), "info")
<1> DEFINE labels == <<c.id, c.name>>
           statuses(r) == OneHot("region_status", knownRegionStatuses, r.status, labels \o <<r.region>>)
           ratio(r) == Gauge("ratio", r.ratio, labels \o <<r.region>>)
           region(r) == statuses(r) \o <<ratio(r)>>
           start(o) == Optional("outage_start", o.start, labels \o <<o.region>>)
           duration(o) == Gauge("outage_duration", o.duration, labels \o <<o.region>>)
           outage(o) == start(o) \o <<duration(o)>>
           regions(s) == [i \in DOMAIN s.regions |-> region(s.regions[i])]
           outages(s) == [i \in DOMAIN SetToSeq(s.outage) |-> outage(SetToSeq(s.outage)[i])]
           collect(s) == FlattenSeq(regions(s)) \o FlattenSeq(outages(s))
           list == SetToSeq(c.state)
           lists == [i \in DOMAIN list |-> collect(list[i])]
<1>1. collectState(c) = FlattenSeq(lists)
  BY DEF collectState, Map
<1>2. ASSUME NEW r PROVE Silent(region(r), "info")
  <2> DEFINE x == ratio(r)
             prefix == labels \o <<r.region>>
  <2>1. x.metric # "info"
    BY DEF Gauge
  <2>2. Silent(statuses(r), "info")
    <3> HIDE DEF prefix
    <3> QED BY StatesKnown, SilentOneHot DEF prefix
  <2> HIDE DEF x, statuses
  <2>3. Silent(<<x>>, "info")
    BY <2>1, OneSeries
  <2>4. QED
    BY <2>2, <2>3, SilentBoth DEF x
<1>3. ASSUME NEW o, AtMostOne(o.start) PROVE Silent(outage(o), "info")
  <2> DEFINE x == duration(o)
             prefix == labels \o <<o.region>>
  <2>1. x.metric # "info"
    BY DEF Gauge
  <2>2. Silent(start(o), "info")
    <3> HIDE DEF prefix
    <3> QED BY <1>3, SilentOptional DEF prefix
  <2> HIDE DEF x, start
  <2>3. Silent(<<x>>, "info")
    BY <2>1, OneSeries
  <2>4. QED
    BY <2>2, <2>3, SilentBoth DEF x
<1> HIDE DEF labels, region, outage
<1>4. ASSUME NEW s \in c.state PROVE Silent(collect(s), "info")
  <2> DEFINE here == s.regions
             there == SetToSeq(s.outage)
             x == regions(s)
             y == outages(s)
  <2>1. IsArray(here) /\ IsArray(there) /\ ToSet(there) = s.outage
    BY AtMostOneIsFinite, SetToSeqLists
  <2>2. x = [i \in DOMAIN here |-> x[i]] /\ \A i \in DOMAIN here : x[i] = region(here[i])
    OBVIOUS
  <2>3. y = [i \in DOMAIN there |-> y[i]] /\ \A i \in DOMAIN there : y[i] = outage(there[i])
    OBVIOUS
  <2> HIDE DEF here, there, x, y
  <2>4. Silent(FlattenSeq(x), "info")
    BY <1>2, <2>1, <2>2, SilentFlatten
  <2>5. \A i \in DOMAIN there : Silent(y[i], "info")
    BY <1>3, <2>1, <2>3 DEF ToSet
  <2>6. Silent(FlattenSeq(y), "info")
    BY <2>1, <2>3, <2>5, SilentFlatten
  <2>7. QED
    BY <2>4, <2>6, SilentBoth DEF x, y
<1>5. IsArray(list) /\ ToSet(list) = c.state
  BY AtMostOneIsFinite, SetToSeqLists
<1>6. lists = [i \in DOMAIN list |-> lists[i]] /\ \A i \in DOMAIN list : lists[i] = collect(list[i])
  OBVIOUS
<1> HIDE DEF list, lists, collect
<1>7. \A i \in DOMAIN list : Silent(lists[i], "info")
  BY <1>4, <1>5, <1>6 DEF ToSet
<1>8. QED
  BY <1>1, <1>5, <1>6, <1>7, SilentFlatten

LEMMA CheckTells ==
  ASSUME NEW r, WellFormed("uptime", r)
  PROVE  newCheck(r).id = r.id /\ Tells(collectCheck(newCheck(r)), "info", {r.id})
<1> DEFINE c == newCheck(r)
           x == Gauge("info", 1, <<c.id, c.name, c.about>>)
           y == Gauge("up", c.up, <<c.id, c.name>>)
<1>1. c.id = r.id
      /\ c.state = {[regions |-> s.regions, outage |-> newOutage(s.outage)] : s \in r.state}
  BY DEF newCheck
<1>2. x.metric = "info" /\ x.labels = <<c.id, c.name, c.about>> /\ y.metric # "info"
  BY DEF Gauge
<1>3. collectCheck(c) = <<x, y>> \o collectState(c)
  BY DEF collectCheck
<1> HIDE DEF c, x, y
<1>4. AtMostOne(c.state)
      /\ \A s \in c.state : /\ IsArray(s.regions) /\ AtMostOne(s.outage)
                            /\ \A o \in s.outage : AtMostOne(o.start)
  <2>1. AtMostOne(r.state) /\ \A s \in r.state : IsArray(s.regions) /\ AtMostOne(s.outage.start)
    BY DEF WellFormed
  <2>2. \A o : AtMostOne(newOutage(o)) /\ \A p \in newOutage(o) : p = o
    BY DEF newOutage, AtMostOne
  <2>3. AtMostOne(c.state)
    BY <1>1, <2>1 DEF AtMostOne
  <2>4. ASSUME NEW s \in c.state
        PROVE  /\ IsArray(s.regions) /\ AtMostOne(s.outage)
               /\ \A o \in s.outage : AtMostOne(o.start)
    <3>1. PICK t \in r.state : s = [regions |-> t.regions, outage |-> newOutage(t.outage)]
      BY <1>1
    <3>2. s.regions = t.regions /\ s.outage = newOutage(t.outage)
      BY <3>1
    <3>3. QED
      BY <2>1, <2>2, <3>2
  <2>5. QED
    BY <2>3, <2>4
<1>5. Silent(collectState(c), "info")
  BY <1>4, StateSilent
<1>6. Tells(<<x, y>>, "info", {r.id})
  <2>1. x.labels[1] = r.id
    BY <1>1, <1>2
  <2>2. QED
    BY <1>2, <2>1, TwoSeries
<1>7. Tells(collectCheck(c), "info", {r.id})
  BY <1>3, <1>5, <1>6, TellsThen
<1>8. QED
  BY <1>1, <1>7 DEF c

(* What is counted over an array has finitely many label tuples.             *)
LEMMA TallyIsFinite ==
  ASSUME NEW known, IsFiniteSet(known), NEW tuples, IsArray(tuples)
  PROVE  IsFiniteSet(DOMAIN Tally(known, tuples))
<1>1. DOMAIN Tally(known, tuples) = known \cup ToSet(tuples)
  BY DEF Tally
<1>2. QED
  BY <1>1, ArrayIsFinite, FS_Union

LEMMA ProjectTells ==
  ASSUME NEW r, WellFormed("projects", r)
  PROVE  newProject(r).id = r.id /\ Tells(collectProject(newProject(r)), "info", {r.id})
<1> DEFINE p == newProject(r)
           x == Gauge("info", 1, <<p.id, p.name, p.about>>)
           types(counts) == SetToSeq(DOMAIN counts)
           collect(counts) == [i \in DOMAIN types(counts) |->
             Gauge("resources", counts[types(counts)[i]], <<p.id, p.name, types(counts)[i]>>)]
           list == SetToSeq(p.counts)
           lists == [i \in DOMAIN list |-> collect(list[i])]
<1>1. p.id = r.id /\ p.counts = {countResources(u) : u \in r.resources}
  BY DEF newProject
<1>2. x.metric = "info" /\ x.labels = <<p.id, p.name, p.about>>
  BY DEF Gauge
<1>3. collectProject(p) = <<x>> \o FlattenSeq(lists)
  BY DEF collectProject, Map
<1> HIDE DEF p
<1>4. AtMostOne(p.counts) /\ \A counts \in p.counts : IsFiniteSet(DOMAIN counts)
  <2>1. AtMostOne(r.resources) /\ \A urns \in r.resources : IsArray(urns)
    BY DEF WellFormed
  <2>2. ASSUME NEW urns \in r.resources PROVE IsFiniteSet(DOMAIN countResources(urns))
    <3> DEFINE parts == [i \in DOMAIN urns |-> urnType(urns[i])]
    <3>1. parts = [i \in DOMAIN urns |-> parts[i]]
      OBVIOUS
    <3>2. countResources(urns) = Tally({}, parts)
      BY DEF countResources, Map
    <3> HIDE DEF parts
    <3>3. IsArray(parts)
      BY <2>1, <3>1, MappedArray
    <3>4. QED
      BY <3>2, <3>3, TallyIsFinite, FS_EmptySet
  <2>3. AtMostOne(p.counts)
    BY <1>1, <2>1 DEF AtMostOne
  <2>4. QED
    BY <1>1, <2>2, <2>3
<1>5. ASSUME NEW counts \in p.counts PROVE Silent(collect(counts), "info")
  <2> DEFINE named == types(counts)
             made == collect(counts)
  <2>1. IsArray(named)
    BY <1>4, SetToSeqLists
  <2>2. made = [i \in DOMAIN named |-> made[i]] /\ \A i \in DOMAIN named : made[i].metric # "info"
    BY DEF Gauge
  <2> HIDE DEF named, made
  <2>3. QED
    BY <2>1, <2>2, SilentMap DEF made
<1>6. IsArray(list) /\ ToSet(list) = p.counts
  BY <1>4, AtMostOneIsFinite, SetToSeqLists
<1>7. lists = [i \in DOMAIN list |-> lists[i]] /\ \A i \in DOMAIN list : lists[i] = collect(list[i])
  OBVIOUS
<1> HIDE DEF x, list, lists, collect
<1>8. \A i \in DOMAIN list : Silent(lists[i], "info")
  BY <1>5, <1>6, <1>7 DEF ToSet
<1>9. Silent(FlattenSeq(lists), "info")
  BY <1>6, <1>7, <1>8, SilentFlatten
<1>10. Tells(<<x>>, "info", {r.id})
  <2>1. x.labels[1] = r.id
    BY <1>1, <1>2
  <2>2. QED
    BY <1>2, <2>1, OneSeries
<1>11. Tells(collectProject(p), "info", {r.id})
  BY <1>3, <1>9, <1>10, TellsThen
<1>12. QED
  BY <1>1, <1>11 DEF p

(* collectRepositories says nothing of whether the registry answered. *)
LEMMA RepositoriesSilent ==
  ASSUME NEW r, WellFormed("registry", r)
  PROVE  Silent(collectRepositories(r), "up")
<1> DEFINE named == <<"tags", "manifests">>
           labels(q) == <<r.id, q.name>>
           figures(q) == Gauges(named, q, labels(q))
           size(q) == Optional("manifest_size", {m.size : m \in q.latest}, labels(q))
           push(q) == Optional("last_push", pushedAt(q), labels(q))
           collect(q) == figures(q) \o size(q) \o push(q)
           each(repositories) == [i \in DOMAIN repositories |-> collect(repositories[i])]
           collectAll(repositories) == FlattenSeq(each(repositories))
           list == SetToSeq(r.repositories)
           lists == [i \in DOMAIN list |-> collectAll(list[i])]
<1>1. collectRepositories(r) = FlattenSeq(lists)
  BY DEF collectRepositories, Map
<1>2. /\ AtMostOne(r.repositories)
      /\ \A q \in r.repositories :
           IsArray(q) /\ \A p \in ToSet(q) : AtMostOne(p.latest) /\ AtMostOne(pushedAt(p))
  BY DEF WellFormed
<1>3. ASSUME NEW q, AtMostOne(q.latest), AtMostOne(pushedAt(q)) PROVE Silent(collect(q), "up")
  <2> DEFINE prefix == labels(q)
  <2>1. Silent(figures(q), "up")
    <3>1. 2 \in Nat /\ DOMAIN named = 1..2 /\ named = [k \in 1..2 |-> named[k]] /\ \A k \in 1..2 : named[k] # "up"
      OBVIOUS
    <3> HIDE DEF named, prefix
    <3>2. IsArray(named) /\ "up" \notin ToSet(named)
      BY <3>1, NamesList
    <3>3. QED
      BY <3>2, SilentGauges DEF prefix
  <2>2. AtMostOne({m.size : m \in q.latest})
    BY <1>3 DEF AtMostOne
  <2>3. Silent(size(q), "up") /\ Silent(push(q), "up")
    <3> HIDE DEF prefix
    <3> QED BY <1>3, <2>2, SilentOptional DEF prefix
  <2> HIDE DEF figures, size, push
  <2>4. Silent(figures(q) \o size(q), "up")
    BY <2>1, <2>3, SilentBoth
  <2>5. QED
    BY <2>3, <2>4, SilentBoth
<1> HIDE DEF collect
<1>4. ASSUME NEW repositories \in r.repositories PROVE Silent(collectAll(repositories), "up")
  <2> DEFINE x == each(repositories)
  <2>1. IsArray(repositories) /\ x = [i \in DOMAIN repositories |-> x[i]]
        /\ \A i \in DOMAIN repositories : x[i] = collect(repositories[i])
    BY <1>2
  <2>2. \A i \in DOMAIN repositories : repositories[i] \in ToSet(repositories)
    BY DEF ToSet
  <2> HIDE DEF x
  <2>3. \A i \in DOMAIN repositories : Silent(x[i], "up")
    BY <1>2, <1>3, <2>1, <2>2
  <2>4. QED
    BY <2>1, <2>3, SilentFlatten DEF x
<1>5. IsArray(list) /\ ToSet(list) = r.repositories
  BY <1>2, AtMostOneIsFinite, SetToSeqLists
<1>6. lists = [i \in DOMAIN list |-> lists[i]] /\ \A i \in DOMAIN list : lists[i] = collectAll(list[i])
  OBVIOUS
<1> HIDE DEF list, lists, collectAll
<1>7. \A i \in DOMAIN list : Silent(lists[i], "up")
  BY <1>4, <1>5, <1>6 DEF ToSet
<1>8. QED
  BY <1>1, <1>5, <1>6, <1>7, SilentFlatten

LEMMA RegistryTells ==
  ASSUME NEW r, WellFormed("registry", r)
  PROVE  Tells(collectRegistry(r) \o collectRepositories(r), "up", {r.id})
<1> DEFINE labels == <<r.id, r.region>>
           usage == Gauge("storage_usage", r.usage, labels)
           updated == Optional("storage_updated", r.measured, labels)
           up == Gauge("up", boolToFloat(r.up), labels)
           counted == Optional("repositories", {Len(q) : q \in r.repositories}, <<r.id>>)
           quota(t) == << Gauge("storage_included", t.storage, labels),
                          Gauge("bandwidth_included", t.bandwidth, labels),
                          Gauge("price", t.price, <<r.id, t.slug>>),
                          Gauge("info", 1, labels \o <<t.slug, t.name>>) >>
           list == SetToSeq(r.tier)
           lists == [i \in DOMAIN list |-> quota(list[i])]
<1>1. collectRegistry(r) = <<usage>> \o updated \o <<up>> \o counted \o FlattenSeq(lists)
  BY DEF collectRegistry, Map
<1>2. usage.metric # "up" /\ up.metric = "up" /\ up.labels[1] = r.id
  BY DEF Gauge
<1>3. AtMostOne(r.measured) /\ AtMostOne(r.repositories) /\ AtMostOne(r.tier)
  BY DEF WellFormed
<1>4. Silent(updated, "up") /\ Silent(counted, "up")
  <2>1. AtMostOne({Len(q) : q \in r.repositories})
    BY <1>3 DEF AtMostOne
  <2> DEFINE short == <<r.id>>
  <2> HIDE DEF labels, short
  <2>2. Silent(updated, "up") /\ Silent(Optional("repositories", {Len(q) : q \in r.repositories}, short), "up")
    BY <1>3, <2>1, SilentOptional
  <2>3. QED
    BY <2>2 DEF short
<1>5. ASSUME NEW t PROVE Silent(quota(t), "up")
  <2> DEFINE four == quota(t)
  <2>1. 4 \in Nat /\ DOMAIN four = 1..4 /\ four = [k \in 1..4 |-> four[k]]
    OBVIOUS
  <2>2. \A k \in 1..4 : four[k].metric # "up"
    BY DEF Gauge
  <2> HIDE DEF four
  <2>3. QED
    BY <2>1, <2>2, SilentEach DEF four
<1>6. IsArray(list)
  BY <1>3, AtMostOneIsFinite, SetToSeqLists
<1>7. lists = [i \in DOMAIN list |-> lists[i]] /\ \A i \in DOMAIN list : lists[i] = quota(list[i])
  OBVIOUS
<1> HIDE DEF labels, usage, updated, up, counted, quota, list, lists
<1>8. Silent(FlattenSeq(lists), "up")
  BY <1>5, <1>6, <1>7, SilentFlatten
<1>9. Silent(<<usage>> \o updated, "up") /\ Tells(<<up>>, "up", {r.id})
  BY <1>2, <1>4, OneSeries, SilentBoth
<1>10. Tells(<<usage>> \o updated \o <<up>>, "up", {r.id})
  BY <1>9, TellsAfter
<1>11. Tells(<<usage>> \o updated \o <<up>> \o counted, "up", {r.id})
  BY <1>4, <1>10, TellsThen
<1>12. Tells(collectRegistry(r), "up", {r.id})
  BY <1>1, <1>8, <1>11, TellsThen
<1>13. QED
  BY <1>12, RepositoriesSilent, TellsThen

LEMMA BucketTells ==
  ASSUME NEW r, WellFormed("spaces", r)
  PROVE  Tells(collectBucket(r), "up", {r.id})
<1> DEFINE labels == <<r.id, r.region>>
           named == <<"size", "objects">>
           up == Gauge("up", boolToFloat(r.up), labels)
           figures(s) == Gauges(named, s, labels)
           list == SetToSeq(r.stats)
           lists == [i \in DOMAIN list |-> figures(list[i])]
<1>1. collectBucket(r) = <<up>> \o FlattenSeq(lists)
  BY DEF collectBucket, Map
<1>2. up.metric = "up" /\ up.labels[1] = r.id
  BY DEF Gauge
<1>3. ASSUME NEW s PROVE Silent(figures(s), "up")
  <2>1. 2 \in Nat /\ DOMAIN named = 1..2 /\ named = [k \in 1..2 |-> named[k]] /\ \A k \in 1..2 : named[k] # "up"
    OBVIOUS
  <2> HIDE DEF named, labels
  <2>2. IsArray(named) /\ "up" \notin ToSet(named)
    BY <2>1, NamesList
  <2>3. QED
    BY <2>2, SilentGauges
<1>4. IsArray(list)
  BY AtMostOneIsFinite, SetToSeqLists DEF WellFormed
<1>5. lists = [i \in DOMAIN list |-> lists[i]] /\ \A i \in DOMAIN list : lists[i] = figures(list[i])
  OBVIOUS
<1> HIDE DEF labels, up, figures, list, lists
<1>6. Silent(FlattenSeq(lists), "up")
  BY <1>3, <1>4, <1>5, SilentFlatten
<1>7. Tells(<<up>>, "up", {r.id})
  BY <1>2, OneSeries
<1>8. QED
  BY <1>1, <1>6, <1>7, TellsThen

(* The collectors that name no resource: of the account itself, and of tags. *)
Nameless == {"account", "balance", "limits", "tags"}

(* Whatever its kind, an item has the resource's id and its series name it   *)
(* once, under the metric every resource of the kind has.                    *)
LEMMA ItemTells ==
  ASSUME kind \in Kinds \ Nameless, NEW r, WellFormed(kind, r)
  PROVE  New(kind, r).id = r.id /\ Tells(CollectItem(kind, New(kind, r)), Always, {r.id})
<1>1. CASE kind = "droplets"
  <2>1. New(kind, r) = newDroplet(r) /\ Always = "info"
    BY <1>1 DEF New, Always
  <2>2. CollectItem(kind, New(kind, r)) = collectDroplet(newDroplet(r))
    BY <1>1, <2>1 DEF CollectItem
  <2>3. QED
    BY <1>1, <2>1, <2>2, DropletTells
<1>2. CASE kind = "volumes"
  <2>1. New(kind, r) = newVolume(r) /\ Always = "info"
    BY <1>2 DEF New, Always
  <2>2. CollectItem(kind, New(kind, r)) = collectVolume(newVolume(r))
    BY <1>2, <2>1 DEF CollectItem
  <2>3. QED
    BY <1>2, <2>1, <2>2, VolumeTells
<1>3. CASE kind = "loadbalancers"
  <2>1. New(kind, r) = newLoadBalancer(r) /\ Always = "info"
    BY <1>3 DEF New, Always
  <2>2. CollectItem(kind, New(kind, r)) = collectLoadBalancer(newLoadBalancer(r))
    BY <1>3, <2>1 DEF CollectItem
  <2>3. QED
    BY <1>3, <2>1, <2>2, LoadBalancerTells
<1>4. CASE kind = "firewalls"
  <2>1. New(kind, r) = newFirewall(r) /\ Always = "info"
    BY <1>4 DEF New, Always
  <2>2. CollectItem(kind, New(kind, r)) = collectFirewall(newFirewall(r))
    BY <1>4, <2>1 DEF CollectItem
  <2>3. QED
    BY <1>4, <2>1, <2>2, FirewallTells
<1>5. CASE kind = "images"
  <2>1. New(kind, r) = newImage(r) /\ Always = "info"
    BY <1>5 DEF New, Always
  <2>2. CollectItem(kind, New(kind, r)) = collectImage(newImage(r))
    BY <1>5, <2>1 DEF CollectItem
  <2>3. QED
    BY <1>5, <2>1, <2>2, ImageTells
<1>6. CASE kind = "reservedips"
  <2>1. New(kind, r) = newReservedIP(r) /\ Always = "info"
    BY <1>6 DEF New, Always
  <2>2. CollectItem(kind, New(kind, r)) = collectReservedIP(newReservedIP(r))
    BY <1>6, <2>1 DEF CollectItem
  <2>3. QED
    BY <1>6, <2>1, <2>2, ReservedIPTells
<1>7. CASE kind = "certificates"
  <2>1. New(kind, r) = newCertificate(r) /\ Always = "info"
    BY <1>7 DEF New, Always
  <2>2. CollectItem(kind, New(kind, r)) = collectCertificate(newCertificate(r))
    BY <1>7, <2>1 DEF CollectItem
  <2>3. QED
    BY <1>7, <2>1, <2>2, CertificateTells
<1>8. CASE kind = "apps"
  <2>1. New(kind, r) = newApp(r) /\ Always = "info"
    BY <1>8 DEF New, Always
  <2>2. CollectItem(kind, New(kind, r)) = collectApp(newApp(r))
    BY <1>8, <2>1 DEF CollectItem
  <2>3. QED
    BY <1>8, <2>1, <2>2, AppTells
<1>9. CASE kind = "kubernetes"
  <2>1. New(kind, r) = newKubernetesCluster(r) /\ Always = "info"
    BY <1>9 DEF New, Always
  <2>2. CollectItem(kind, New(kind, r)) = collectKubernetesCluster(newKubernetesCluster(r))
    BY <1>9, <2>1 DEF CollectItem
  <2>3. QED
    BY <1>9, <2>1, <2>2, KubernetesTells
<1>10. CASE kind = "databases"
  <2>1. New(kind, r) = newDatabaseCluster(r) /\ Always = "info"
    BY <1>10 DEF New, Always
  <2>2. CollectItem(kind, New(kind, r)) = collectDatabaseCluster(newDatabaseCluster(r))
    BY <1>10, <2>1 DEF CollectItem
  <2>3. QED
    BY <1>10, <2>1, <2>2, DatabaseTells
<1>11. CASE kind = "uptime"
  <2>1. New(kind, r) = newCheck(r) /\ Always = "info"
    BY <1>11 DEF New, Always
  <2>2. CollectItem(kind, New(kind, r)) = collectCheck(newCheck(r))
    BY <1>11, <2>1 DEF CollectItem
  <2>3. QED
    BY <1>11, <2>1, <2>2, CheckTells
<1>12. CASE kind = "projects"
  <2>1. New(kind, r) = newProject(r) /\ Always = "info"
    BY <1>12 DEF New, Always
  <2>2. CollectItem(kind, New(kind, r)) = collectProject(newProject(r))
    BY <1>12, <2>1 DEF CollectItem
  <2>3. QED
    BY <1>12, <2>1, <2>2, ProjectTells
<1>13. CASE kind = "cdn"
  <2>1. New(kind, r) = r /\ Always = "info"
    BY <1>13 DEF New, Always
  <2>2. CollectItem(kind, New(kind, r)) = collectEndpoint(r)
    BY <1>13, <2>1 DEF CollectItem
  <2>3. QED
    BY <1>13, <2>1, <2>2, EndpointTells
<1>14. CASE kind = "dropletautoscale"
  <2>1. New(kind, r) = r /\ Always = "info"
    BY <1>14 DEF New, Always
  <2>2. CollectItem(kind, New(kind, r)) = collectPool(r)
    BY <1>14, <2>1 DEF CollectItem
  <2>3. QED
    BY <1>14, <2>1, <2>2, PoolTells
<1>15. CASE kind = "domains"
  <2>1. New(kind, r) = r /\ Always = "ttl"
    BY <1>15 DEF New, Always
  <2>2. CollectItem(kind, New(kind, r)) = collectDomain(r)
    BY <1>15, <2>1 DEF CollectItem
  <2>3. QED
    BY <1>15, <2>1, <2>2, DomainTells
<1>16. CASE kind = "registry"
  <2>1. New(kind, r) = r /\ Always = "up"
    BY <1>16 DEF New, Always
  <2>2. CollectItem(kind, New(kind, r)) = collectRegistry(r) \o collectRepositories(r)
    BY <1>16, <2>1 DEF CollectItem
  <2>3. QED
    BY <1>16, <2>1, <2>2, RegistryTells
<1>17. CASE kind = "spaces"
  <2>1. New(kind, r) = r /\ Always = "up"
    BY <1>17 DEF New, Always
  <2>2. CollectItem(kind, New(kind, r)) = collectBucket(r)
    BY <1>17, <2>1 DEF CollectItem
  <2>3. QED
    BY <1>17, <2>1, <2>2, BucketTells
<1>18. QED
  BY <1>1, <1>2, <1>3, <1>4, <1>5, <1>6, <1>7, <1>8, <1>9, <1>10, <1>11, <1>12, <1>13, <1>14, <1>15, <1>16, <1>17 DEF Kinds, Nameless

(* The totals of a scrape, one for each label tuple that was counted.        *)
LEMMA CountsAreFinite ==
  ASSUME NEW k, NEW items, IsArray(items)
  PROVE  IsFiniteSet(DOMAIN Counts(k, items))
<1> DEFINE counts == Counts(k, items)
<1>1. CASE k = "images"
  <2> DEFINE types == [i \in DOMAIN items |-> <<items[i].type>>]
             known == {<<t>> : t \in knownTypes}
  <2>1. counts = Tally(known, types)
    BY <1>1 DEF Counts, Map
  <2>2. types = [i \in DOMAIN items |-> types[i]]
    OBVIOUS
  <2>3. IsFiniteSet(known)
    <3>1. known = ({<<"snapshot">>} \cup {<<"backup">>}) \cup {<<"custom">>}
      BY DEF knownTypes
    <3>2. \A x : IsFiniteSet({x})
      BY FS_Singleton
    <3> HIDE DEF known
    <3>3. QED
      BY <3>1, <3>2, FS_Union
  <2> HIDE DEF types, known, counts
  <2>4. IsArray(types)
    BY <2>2, MappedArray
  <2>5. QED
    BY <2>1, <2>3, <2>4, TallyIsFinite DEF counts
<1>2. CASE k = "reservedips"
  <2> DEFINE places == [i \in DOMAIN items |-> <<items[i].region, items[i].version>>]
  <2>1. counts = Tally({}, places)
    BY <1>2 DEF Counts, Map
  <2>2. places = [i \in DOMAIN items |-> places[i]]
    OBVIOUS
  <2> HIDE DEF places, counts
  <2>3. IsArray(places)
    BY <2>2, MappedArray
  <2>4. QED
    BY <2>1, <2>3, TallyIsFinite, FS_EmptySet DEF counts
<1>3. CASE k \notin {"images", "reservedips"}
  <2>1. counts = << >>
    BY <1>3 DEF Counts
  <2> HIDE DEF counts
  <2>2. DOMAIN counts = {}
    BY <2>1
  <2>3. QED
    BY <2>2, FS_EmptySet DEF counts
<1>4. QED
  BY <1>1, <1>2, <1>3

(* The totals of a scrape are not of the metric that names resources.        *)
LEMMA CountsSilent ==
  ASSUME kind \in Kinds \ Nameless, NEW items, IsArray(items)
  PROVE  Silent(collectCounts(Counts(kind, items)), Always)
<1> DEFINE counts == Counts(kind, items)
           list == SetToSeq(DOMAIN counts)
           made == [i \in DOMAIN list |-> Gauge("count", counts[list[i]], list[i])]
<1>1. IsFiniteSet(DOMAIN counts)
  BY CountsAreFinite
<1>2. IsArray(list)
  BY <1>1, SetToSeqLists
<1>3. collectCounts(counts) = made
  BY DEF collectCounts, Map
<1>4. made = [i \in DOMAIN list |-> made[i]] /\ \A i \in DOMAIN list : made[i].metric # Always
  BY DEF Gauge, Always
<1> HIDE DEF counts, list, made
<1>5. QED
  BY <1>2, <1>3, <1>4, SilentMap DEF counts

(* What a refresh in progress holds: answers it could use, as it listed them. *)
Heard ==
  /\ IsArray(account) /\ IsArray(answers)
  /\ Len(account) = Len(answers) /\ Len(answers) <= Requests(kind)
  /\ refreshing \in BOOLEAN /\ (~refreshing => account = << >> /\ answers = << >>)
  /\ \A n \in DOMAIN account :
       /\ account[n] \in Answers(n) /\ CanBeUsed(kind, account[n])
       /\ answers[n] = Listing(kind, filter, account[n])

(* What a snapshot holds: an item for each resource the filter asks for.     *)
Holds(s) ==
  /\ DOMAIN s = {"items", "counts", "of"}
  /\ IsArray(s.items) /\ s.counts = Counts(kind, s.items)
  /\ \A n \in DOMAIN s.of : CanBeUsed(kind, s.of[n])
  /\ There(s) \subseteq Resources[kind]
  /\ ToSet(s.items) = {New(kind, r) : r \in {r \in There(s) : Wanted(r)}}

Snapshots ==
  /\ AtMostOne(snap) /\ AtMostOne(view) /\ (view # {} => snap # {})
  /\ \A s \in snap \cup view : Holds(s)

(* What a scrape has sent: the series of the items it went through.          *)
Announced(s, count) == {s.items[i].id : i \in {i \in DOMAIN s.items : i <= count}}

Scraped ==
  /\ view = {} => emitted = 0 /\ sent = << >>
  /\ \A s \in view : /\ emitted \in 0 .. Len(s.items) + 1
                     /\ kind \notin Nameless => Tells(sent, Always, Announced(s, emitted))

ExpositionInv == kind \in Kinds /\ filter \in Filters /\ Heard /\ Snapshots /\ Scraped

(* A value that is there once is the one Given returns.                      *)
LEMMA GivenRegion ==
  ASSUME NEW S, AtMostOne(S), NEW regions, "" \notin regions
  PROVE  Given(S, "") \in regions <=> S \cap regions # {}
<1>1. CASE S = {}
  BY <1>1 DEF Given
<1>2. ASSUME NEW x \in S PROVE Given(S, "") = x
  <2>1. Given(S, "") = CHOOSE v \in S : TRUE
    BY DEF Given
  <2>2. Given(S, "") \in S
    BY <2>1
  <2>3. QED
    BY <2>2 DEF AtMostOne
<1>3. QED
  BY <1>1, <1>2 DEF AtMostOne

(* Passing, the condition the refresh skips by, is what the filter asks for. *)
LEMMA PassingIsWanted ==
  ASSUME kind \in Kinds, filter \in Filters, NEW r, WellFormed(kind, r)
  PROVE  Passing(kind, filter, r) <=> Wanted(r)
<1> DEFINE five == {"droplets", "volumes", "loadbalancers", "kubernetes", "databases"}
<1>1. MatchTags(filter, r.tags) <=> (filter.tags = {} \/ \E t \in r.tags : t \in filter.tags)
  BY DEF MatchTags
<1>2. CASE kind \in five
  <2>1. AtMostOne(r.region) /\ "" \notin filter.regions
    BY <1>2, ExpositionAssumption DEF WellFormed
  <2>2. matchRegion(filter, regionSlug(r)) <=> (filter.regions = {} \/ r.region \cap filter.regions # {})
    BY <2>1, GivenRegion DEF matchRegion, regionSlug
  <2>3. Passing(kind, filter, r) <=> MatchTags(filter, r.tags) /\ matchRegion(filter, regionSlug(r))
    BY <1>2 DEF Passing, Match
  <2>4. kind \in Filtering /\ kind # "firewalls"
    BY <1>2 DEF Filtering
  <2>5. QED
    BY <1>1, <2>2, <2>3, <2>4 DEF Wanted
<1>3. CASE kind = "firewalls"
  <2>1. Passing(kind, filter, r) <=> MatchTags(filter, r.tags)
    BY <1>3 DEF Passing
  <2>2. QED
    BY <1>1, <1>3, <2>1 DEF Wanted, Filtering
<1>4. CASE kind \notin five \cup {"firewalls"}
  <2>1. Passing(kind, filter, r)
    BY <1>4 DEF Passing
  <2>2. kind \notin Filtering
    BY <1>4 DEF Filtering
  <2>3. QED
    BY <2>1, <2>2 DEF Wanted
<1>5. QED
  BY <1>2, <1>3, <1>4

(* Listing by the one tag of the filter leaves out no droplet it lets pass.  *)
LEMMA ListedIsEnough ==
  ASSUME kind \in Kinds, filter \in Filters, NEW a, IsArray(a),
         \A r \in ToSet(a) : WellFormed(kind, r)
  PROVE  LET listed == Listing(kind, filter, a)
         IN  /\ IsArray(listed)
             /\ {r \in ToSet(listed) : Passing(kind, filter, r)} = {r \in ToSet(a) : Wanted(r)}
<1> DEFINE listed == Listing(kind, filter, a)
           tagged == {d \in ToSet(a) : filter.tags \subseteq d.tags}
<1>1. \A r \in ToSet(a) : Passing(kind, filter, r) <=> Wanted(r)
  BY PassingIsWanted
<1>2. CASE kind = "droplets" /\ SingleTag(filter)
  <2>1. listed = Only(a, tagged)
    BY <1>2 DEF Listing
  <2>2. a \in Seq(ToSet(a))
    BY DEF IsArray
  <2>3. listed \in Seq(ToSet(a)) /\ ToSet(listed) = ToSet(a) \cap tagged
    <3> HIDE DEF listed, tagged
    <3> QED BY <2>1, <2>2, OnlyMembers
  <2>4. PICK t : filter.tags = {t}
    <3>1. IsFiniteSet(filter.tags) /\ Cardinality(filter.tags) = 1
      BY <1>2, ExpositionAssumption DEF SingleTag
    <3>2. QED
      BY <3>1, FS_Singleton
  <2>5. ASSUME NEW r \in ToSet(a), Wanted(r) PROVE r \in tagged
    <3>1. kind \in Filtering
      BY <1>2 DEF Filtering
    <3>2. QED
      BY <2>4, <2>5, <3>1 DEF Wanted
  <2>6. IsArray(listed)
    BY <2>3, ListOf
  <2> HIDE DEF listed, tagged
  <2>7. QED
    BY <1>1, <2>3, <2>5, <2>6 DEF listed, tagged
<1>3. CASE ~(kind = "droplets" /\ SingleTag(filter))
  <2>1. listed = a
    BY <1>3 DEF Listing
  <2>2. QED
    BY <1>1, <2>1
<1>4. QED
  BY <1>2, <1>3

(* Every answer is an array of resources there could be.                     *)
LEMMA ListingsOfResources ==
  ASSUME NEW S, NEW a \in Listings(S)
  PROVE  IsArray(a) /\ ToSet(a) \subseteq S
BY SetToSeqLists DEF Listings

LEMMA AnswersAreArrays ==
  ASSUME NEW n, NEW a \in Answers(n)
  PROVE  IsArray(a) /\ ToSet(a) \subseteq Resources[kind]
<1>1. CASE kind \in {"account", "balance"}
  <2>1. Answers(n) = {<<r>> : r \in Resources[kind]}
    BY <1>1 DEF Answers
  <2>2. PICK r \in Resources[kind] : a = <<r>>
    BY <2>1
  <2>3. PICK list : list = <<r>>
    OBVIOUS
  <2>4. IsArray(list) /\ ToSet(list) = {r}
    BY <2>3, OneSeries
  <2>5. QED
    BY <2>2, <2>3, <2>4
<1>2. CASE kind = "limits"
  <2> DEFINE named == <<"droplets", "reserved_ips", "volumes">>[n]
  <2>1. Answers(n) = {<<r>> : r \in {r \in Resources[kind] : r.id = named}}
    BY <1>2 DEF Answers
  <2> HIDE DEF named
  <2>2. PICK r \in Resources[kind] : a = <<r>>
    BY <2>1
  <2>3. PICK list : list = <<r>>
    OBVIOUS
  <2>4. IsArray(list) /\ ToSet(list) = {r}
    BY <2>3, OneSeries
  <2>5. QED
    BY <2>2, <2>3, <2>4
<1>3. CASE kind = "registry"
  <2>1. Answers(n) = {L \in Listings(Resources[kind]) : \A r, q \in ToSet(L) : r.tier = q.tier}
    BY <1>3 DEF Answers
  <2>2. a \in Listings(Resources[kind])
    BY <2>1
  <2>3. QED
    BY <2>2, ListingsOfResources
<1>4. CASE kind = "reservedips"
  <2> DEFINE S == {r \in Resources[kind] : r.version = <<"4", "6">>[n]}
  <2>1. Answers(n) = Listings(S)
    BY <1>4 DEF Answers
  <2>2. S \subseteq Resources[kind]
    OBVIOUS
  <2> HIDE DEF S
  <2>3. IsArray(a) /\ ToSet(a) \subseteq S
    BY <2>1, ListingsOfResources
  <2>4. QED
    BY <2>2, <2>3
<1>5. CASE kind \notin {"account", "balance", "limits", "registry", "reservedips"}
  <2>1. Answers(n) = Listings(Resources[kind])
    BY <1>5 DEF Answers
  <2>2. QED
    BY <2>1, ListingsOfResources
<1>6. QED
  BY <1>1, <1>2, <1>3, <1>4, <1>5

(* Swap: what it keeps of what it heard is what a snapshot holds.            *)
LEMMA KeptHolds ==
  ASSUME kind \in Kinds, filter \in Filters, Heard
  PROVE  Holds([items |-> Kept, counts |-> Counts(kind, Kept), of |-> account])
<1> DEFINE listed == FlattenSeq(answers)
           passed == {r \in ToSet(listed) : Passing(kind, filter, r)}
           passing == Only(listed, passed)
           kept == [i \in DOMAIN passing |-> New(kind, passing[i])]
           all == UNION {ToSet(account[n]) : n \in DOMAIN account}
<1>1. Kept = kept
  BY DEF Kept, Map
<1>2. DOMAIN answers = DOMAIN account
  <2>1. /\ DOMAIN answers = 1..Len(answers) /\ DOMAIN account = 1..Len(account)
        /\ Len(account) = Len(answers)
    BY ArrayByNumber DEF Heard
  <2>2. QED
    BY <2>1
<1>3. ASSUME NEW n \in DOMAIN account
      PROVE  IsArray(account[n]) /\ ToSet(account[n]) \subseteq Resources[kind]
  BY AnswersAreArrays DEF Heard
<1>4. \A r \in Resources[kind] : WellFormed(kind, r)
  BY ExpositionAssumption
<1>5. ASSUME NEW n \in DOMAIN account
      PROVE  /\ IsArray(answers[n])
             /\ {r \in ToSet(answers[n]) : Passing(kind, filter, r)} = {r \in ToSet(account[n]) : Wanted(r)}
  <2>1. answers[n] = Listing(kind, filter, account[n])
    BY DEF Heard
  <2> DEFINE a == account[n]
  <2>2. IsArray(a) /\ \A r \in ToSet(a) : WellFormed(kind, r)
    BY <1>3, <1>4
  <2> HIDE DEF a
  <2>3. /\ IsArray(Listing(kind, filter, a))
        /\ {r \in ToSet(Listing(kind, filter, a)) : Passing(kind, filter, r)} = {r \in ToSet(a) : Wanted(r)}
    BY <2>2, ListedIsEnough
  <2>4. QED
    BY <2>1, <2>3 DEF a
<1>6. IsArray(listed) /\ ToSet(listed) = UNION {ToSet(answers[n]) : n \in DOMAIN answers}
  <2>1. IsArray(answers) /\ \A n \in DOMAIN answers : IsArray(answers[n])
    BY <1>2, <1>5 DEF Heard
  <2>2. QED
    BY <2>1, FlattenLists
<1>7. passed = {r \in all : Wanted(r)}
  <2> HIDE DEF listed
  <2>1. ASSUME NEW r PROVE r \in passed <=> r \in all /\ Wanted(r)
    <3>1. r \in passed <=> \E n \in DOMAIN answers : r \in ToSet(answers[n]) /\ Passing(kind, filter, r)
      BY <1>6
    <3>2. \A n \in DOMAIN account :
            r \in ToSet(answers[n]) /\ Passing(kind, filter, r) <=> r \in ToSet(account[n]) /\ Wanted(r)
      BY <1>5
    <3>3. QED
      BY <1>2, <3>1, <3>2
  <2> HIDE DEF passed, all
  <2>2. QED
    BY <2>1
<1>8. IsArray(passing) /\ ToSet(passing) = passed
  <2>1. listed \in Seq(ToSet(listed)) /\ passed \subseteq ToSet(listed)
    BY <1>6 DEF IsArray
  <2> HIDE DEF listed, passed
  <2>2. passing \in Seq(ToSet(listed)) /\ ToSet(passing) = ToSet(listed) \cap passed
    BY <2>1, OnlyMembers
  <2>3. IsArray(passing)
    BY <2>2, ListOf
  <2>4. QED
    BY <2>1, <2>2, <2>3
<1> HIDE DEF passing, passed
<1>9. IsArray(kept) /\ ToSet(kept) = {New(kind, r) : r \in passed}
  <2>1. kept = [i \in DOMAIN passing |-> kept[i]] /\ \A i \in DOMAIN passing : kept[i] = New(kind, passing[i])
    OBVIOUS
  <2> HIDE DEF kept
  <2>2. IsArray(kept) /\ DOMAIN kept = DOMAIN passing
    BY <1>8, <2>1, MappedArray
  <2>3. ToSet(kept) = {New(kind, r) : r \in ToSet(passing)}
    BY <2>1, <2>2 DEF ToSet
  <2>4. QED
    BY <1>8, <2>2, <2>3
<1> HIDE DEF kept
<1>10. PICK s : s = [items |-> kept, counts |-> Counts(kind, kept), of |-> account]
  OBVIOUS
<1>11. /\ DOMAIN s = {"items", "counts", "of"}
       /\ s.items = kept /\ s.counts = Counts(kind, kept) /\ s.of = account
  BY <1>10
<1>12. There(s) = all
  BY <1>11 DEF There
<1>13. There(s) \subseteq Resources[kind] /\ \A n \in DOMAIN s.of : CanBeUsed(kind, s.of[n])
  BY <1>3, <1>11, <1>12 DEF Heard
<1> HIDE DEF all
<1>14. Holds(s)
  BY <1>7, <1>9, <1>11, <1>12, <1>13 DEF Holds
<1>15. QED
  BY <1>1, <1>10, <1>14

(* The kind and the filter never change, and so neither does what they mean. *)
LEMMA SetupStays ==
  ASSUME setup' = setup
  PROVE  /\ kind' = kind /\ filter' = filter
         /\ \A n : Answers(n)' = Answers(n)
         /\ \A s : Holds(s) => Holds(s)'
         /\ Always' = Always
<1>1. kind' = kind /\ filter' = filter
  BY DEF setup
<1>2. ASSUME NEW n PROVE Answers(n)' = Answers(n)
  BY <1>1 DEF Answers
<1>3. Always' = Always
  BY <1>1 DEF Always
<1>4. ASSUME NEW s, Holds(s) PROVE Holds(s)'
  BY <1>1, <1>4 DEF Holds, There, Wanted
<1>5. QED
  BY <1>1, <1>2, <1>3, <1>4

(* Before the first refresh there is nothing to be wrong.                    *)
LEMMA ExpositionStarts ==
  ASSUME ExpositionInit
  PROVE  ExpositionInv
<1>1. kind \in Kinds /\ filter \in Filters
  BY ExpositionAssumption DEF ExpositionInit
<1>2. Heard
  <2>1. PICK empty : empty = << >>
    OBVIOUS
  <2>2. IsArray(empty) /\ DOMAIN empty = {} /\ Len(empty) = 0
    BY <2>1, NoItems
  <2>3. account = empty /\ answers = empty /\ refreshing = FALSE
    BY <2>1 DEF ExpositionInit
  <2>4. 0 <= Requests(kind)
    BY DEF Requests
  <2>5. QED
    BY <2>1, <2>2, <2>3, <2>4 DEF Heard
<1>3. Snapshots /\ Scraped
  BY DEF ExpositionInit, Snapshots, Scraped, AtMostOne
<1>4. QED
  BY <1>1, <1>2, <1>3 DEF ExpositionInv

(* A refresh that ends, however it ends, has heard nothing. *)
LEMMA EndsSilent ==
  ASSUME EndRefresh, setup' = setup
  PROVE  Heard'
<1>1. PICK empty : empty = << >>
  OBVIOUS
<1>2. IsArray(empty) /\ DOMAIN empty = {} /\ Len(empty) = 0
  BY <1>1, NoItems
<1>3. account' = empty /\ answers' = empty /\ refreshing' = FALSE
  BY <1>1 DEF EndRefresh
<1>4. 0 <= Requests(kind')
  BY DEF Requests
<1>5. QED
  BY <1>1, <1>2, <1>3, <1>4 DEF Heard

(* Answered: the answer is put behind those heard before it. *)
LEMMA HearsTheNext ==
  ASSUME Heard, Answered
  PROVE  Heard'
<1>1. setup' = setup /\ refreshing' = refreshing /\ refreshing
  BY DEF Answered
<1>2. kind' = kind /\ filter' = filter /\ \A n : Answers(n)' = Answers(n)
  BY <1>1, SetupStays
<1>3. PICK a \in Answers(Len(answers) + 1) :
        /\ CanBeUsed(kind, a)
        /\ account' = Append(account, a)
        /\ answers' = Append(answers, Listing(kind, filter, a))
  BY DEF Answered
<1> DEFINE n == Len(answers)
           b == Listing(kind, filter, a)
<1>4. /\ n \in Nat /\ n + 1 <= Requests(kind) /\ Len(account) = n
      /\ DOMAIN account = 1..n /\ DOMAIN answers = 1..n
  <2>1. Len(answers) < Requests(kind) /\ Requests(kind) \in Nat
    BY DEF Answered, Requests
  <2>2. /\ Len(answers) \in Nat /\ Len(account) = Len(answers)
        /\ DOMAIN account = 1..Len(account) /\ DOMAIN answers = 1..Len(answers)
    BY ArrayByNumber DEF Heard
  <2>3. QED
    BY <2>1, <2>2
<1>5. ASSUME NEW list, IsArray(list), Len(list) = n, NEW item
      PROVE  LET longer == Append(list, item)
             IN  /\ IsArray(longer) /\ Len(longer) = n + 1 /\ DOMAIN longer = 1..(n + 1)
                 /\ \A k \in 1..n : longer[k] = list[k]
                 /\ longer[n + 1] = item
  <2> DEFINE S == ToSet(list) \cup {item}
             longer == Append(list, item)
  <2>1. list \in [1..n -> ToSet(list)]
    <3>1. list \in [1..Len(list) -> ToSet(list)]
      BY <1>5 DEF IsArray
    <3>2. QED
      BY <1>5, <3>1
  <2>2. list \in [1..n -> S] /\ item \in S
    BY <2>1
  <2> HIDE DEF n, S
  <2>3. n \in Nat
    BY <1>4
  <2>4. list \in Seq(S) /\ Len(list) = n
    BY <2>2, <2>3
  <2>5. /\ longer \in Seq(S) /\ Len(longer) = n + 1 /\ DOMAIN longer = 1..(n + 1)
        /\ \A k \in 1..n : longer[k] = list[k]
        /\ longer[n + 1] = item
    BY <2>2, <2>3, <2>4
  <2> HIDE DEF longer
  <2>6. IsArray(longer)
    BY <2>5, ListOf
  <2>7. QED
    BY <2>5, <2>6 DEF longer
<1>6. IsArray(account) /\ IsArray(answers) /\ Len(account) = n /\ Len(answers) = n
  BY <1>4 DEF Heard
<1>7. /\ IsArray(account') /\ Len(account') = n + 1 /\ DOMAIN account' = 1..(n + 1)
      /\ \A k \in 1..n : account'[k] = account[k]
      /\ account'[n + 1] = a
  <2> HIDE DEF n
  <2> QED BY <1>3, <1>5, <1>6
<1>8. /\ IsArray(answers') /\ Len(answers') = n + 1
      /\ \A k \in 1..n : answers'[k] = answers[k]
      /\ answers'[n + 1] = b
  <2>1. answers' = Append(answers, b)
    BY <1>3
  <2> HIDE DEF n, b
  <2> QED BY <2>1, <1>5, <1>6
<1>9. a \in Answers(n + 1) /\ CanBeUsed(kind, a) /\ b = Listing(kind, filter, a)
  BY <1>3
<1> HIDE DEF n, b
<1>10. ASSUME NEW k \in 1..(n + 1)
       PROVE  /\ account'[k] \in Answers(k) /\ CanBeUsed(kind, account'[k])
              /\ answers'[k] = Listing(kind, filter, account'[k])
  <2>1. CASE k \in 1..n
    <3>1. k \in DOMAIN account
      BY <1>4, <2>1
    <3>2. /\ account[k] \in Answers(k) /\ CanBeUsed(kind, account[k])
          /\ answers[k] = Listing(kind, filter, account[k])
      BY <3>1 DEF Heard
    <3>3. QED
      BY <1>7, <1>8, <2>1, <3>2
  <2>2. CASE k = n + 1
    BY <1>7, <1>8, <1>9, <2>2
  <2>3. QED
    BY <1>4, <2>1, <2>2
<1>11. refreshing' \in BOOLEAN /\ refreshing'
  BY <1>1 DEF Heard
<1>12. \A k \in DOMAIN account' :
         /\ account'[k] \in Answers(k)' /\ CanBeUsed(kind', account'[k])
         /\ answers'[k] = Listing(kind', filter', account'[k])
  BY <1>2, <1>7, <1>10
<1>13. QED
  BY <1>2, <1>4, <1>7, <1>8, <1>11, <1>12 DEF Heard

(* Emit: the series of the next item name it, those of the counts name none. *)
LEMMA SendsTheNext ==
  ASSUME kind \in Kinds, Snapshots, Scraped, Emit, setup' = setup
  PROVE  Scraped'
<1>1. PICK s \in view :
        /\ emitted <= Len(s.items)
        /\ sent' = sent \o IF emitted < Len(s.items)
                           THEN CollectItem(kind, s.items[emitted + 1])
                           ELSE collectCounts(s.counts)
  BY DEF Emit, Collected
<1>2. view' = view /\ emitted' = emitted + 1 /\ kind' = kind /\ Always' = Always
  BY SetupStays DEF Emit
<1>3. Holds(s) /\ \A t \in view : t = s
  BY DEF Snapshots, AtMostOne
<1> DEFINE items == s.items
           n == Len(items)
           e == emitted
           item == items[e + 1]
<1>4. IsArray(items) /\ n \in Nat /\ DOMAIN items = 1..n
  BY <1>3, ArrayByNumber DEF Holds
<1>5. e \in 0..n /\ e \in Nat
  BY <1>1, <1>4 DEF Scraped
<1>6. ASSUME kind \notin Nameless
      PROVE  Tells(sent', Always, {items[i].id : i \in {i \in DOMAIN items : i <= e + 1}})
  <2>1. Tells(sent, Always, {items[i].id : i \in {i \in DOMAIN items : i <= e}})
    BY <1>6 DEF Scraped, Announced
  <2> DEFINE ids == {items[i].id : i \in {i \in DOMAIN items : i <= e}}
             more == {items[i].id : i \in {i \in DOMAIN items : i <= e + 1}}
  <2>2. CASE e < n
    <3>1. e + 1 \in DOMAIN items /\ item \in ToSet(items)
      BY <1>4, <1>5, <2>2 DEF ToSet
    <3>2. PICK r \in Resources[kind] : item = New(kind, r)
      BY <1>3, <3>1 DEF Holds
    <3>3. WellFormed(kind, r)
      BY ExpositionAssumption
    <3>4. item.id = r.id /\ Tells(CollectItem(kind, item), Always, {r.id})
      BY <1>6, <3>2, <3>3, ItemTells
    <3>5. sent' = sent \o CollectItem(kind, item)
      BY <1>1, <2>2
    <3>6. more = ids \cup {item.id}
      <4> HIDE DEF items, n
      <4>1. \A i \in DOMAIN items : i <= e + 1 <=> i <= e \/ i = e + 1
        BY <1>4, <1>5
      <4>2. QED
        BY <3>1, <4>1
    <3> HIDE DEF items, n, e, item, ids, more
    <3>7. Tells(sent', Always, ids \cup {r.id})
      BY <2>1, <3>4, <3>5, TellsBoth DEF ids
    <3>8. QED
      BY <3>4, <3>6, <3>7 DEF more
  <2>3. CASE ~(e < n)
    <3>1. sent' = sent \o collectCounts(Counts(kind, items))
      BY <1>1, <1>3, <2>3 DEF Holds
    <3>2. more = ids
      <4> HIDE DEF items, n
      <4>1. \A i \in DOMAIN items : i <= e + 1 <=> i <= e
        BY <1>4, <1>5, <2>3
      <4>2. QED
        BY <4>1
    <3> HIDE DEF items, n, e
    <3>3. Silent(collectCounts(Counts(kind, items)), Always)
      BY <1>4, <1>6, CountsSilent
    <3>4. Tells(sent', Always, ids)
      <4> HIDE DEF ids
      <4> QED BY <2>1, <3>1, <3>3, TellsThen DEF ids
    <3>5. QED
      BY <3>2, <3>4
  <2>4. QED
    BY <2>2, <2>3
<1>7. \A t \in view' : emitted' \in 0 .. Len(t.items) + 1
  BY <1>2, <1>3, <1>4, <1>5
<1>8. \A t \in view' : kind' \notin Nameless => Tells(sent', Always', Announced(t, emitted'))
  BY <1>2, <1>3, <1>5, <1>6 DEF Announced
<1>9. ~(view' = {})
  BY <1>2
<1>10. QED
  BY <1>7, <1>8, <1>9 DEF Scraped

(* A part of the state that no step of its own changed is still right. *)
LEMMA HeardStays ==
  ASSUME Heard, setup' = setup, account' = account, answers' = answers,
         refreshing' = refreshing \/ (refreshing' \in BOOLEAN /\ refreshing')
  PROVE  Heard'
<1>1. kind' = kind /\ filter' = filter /\ \A n : Answers(n)' = Answers(n)
  BY SetupStays
<1>2. \A n \in DOMAIN account' :
        /\ account'[n] \in Answers(n)' /\ CanBeUsed(kind', account'[n])
        /\ answers'[n] = Listing(kind', filter', account'[n])
  BY <1>1 DEF Heard
<1>3. /\ IsArray(account') /\ IsArray(answers')
      /\ Len(account') = Len(answers') /\ Len(answers') <= Requests(kind')
  BY <1>1 DEF Heard
<1>4. refreshing' \in BOOLEAN /\ (~refreshing' => account' = << >> /\ answers' = << >>)
  BY DEF Heard
<1>5. QED
  BY <1>2, <1>3, <1>4 DEF Heard

LEMMA ScrapedStays ==
  ASSUME Scraped, setup' = setup, view' = view, emitted' = emitted, sent' = sent
  PROVE  Scraped'
<1>1. kind' = kind /\ Always' = Always
  BY SetupStays
<1>2. \A t \in view' : emitted' \in 0 .. Len(t.items) + 1
  BY DEF Scraped
<1>3. \A t \in view' : kind' \notin Nameless => Tells(sent', Always', Announced(t, emitted'))
  BY <1>1 DEF Scraped
<1>4. view' = {} => emitted' = 0 /\ sent' = << >>
  BY DEF Scraped
<1>5. QED
  BY <1>2, <1>3, <1>4 DEF Scraped

LEMMA SnapshotsStay ==
  ASSUME Snapshots, setup' = setup, AtMostOne(snap'), AtMostOne(view'), view' # {} => snap' # {},
         \A s \in snap' \cup view' : Holds(s)
  PROVE  Snapshots'
<1>1. \A s \in snap' \cup view' : Holds(s)'
  BY SetupStays
<1>2. QED
  BY <1>1 DEF Snapshots

(* Every action keeps the invariant: Swap by KeptHolds, Emit by SendsTheNext.*)
LEMMA ExpositionStep ==
  ASSUME ExpositionInv, [ExpositionNext]_expositionVars
  PROVE  ExpositionInv'
<1> USE DEF ExpositionInv
<1>1. setup' = setup
  BY DEF ExpositionNext, expositionVars, Refresh, Answered, Failed, Swap, Collect, Emit, Return
<1>2. kind' \in Kinds /\ filter' \in Filters
  BY <1>1 DEF setup
<1>3. CASE Refresh
  <2>1. Heard'
    BY <1>1, <1>3, HeardStays DEF Refresh
  <2>2. snap' = snap /\ view' = view /\ emitted' = emitted /\ sent' = sent
    BY <1>3 DEF Refresh, emission
  <2>3. Snapshots' /\ Scraped'
    BY <1>1, <2>2, SnapshotsStay, ScrapedStays DEF Snapshots
  <2>4. QED
    BY <1>2, <2>1, <2>3
<1>4. CASE Answered
  <2>1. Heard'
    BY <1>4, HearsTheNext
  <2>2. snap' = snap /\ view' = view /\ emitted' = emitted /\ sent' = sent
    BY <1>4 DEF Answered, emission
  <2>3. Snapshots' /\ Scraped'
    BY <1>1, <2>2, SnapshotsStay, ScrapedStays DEF Snapshots
  <2>4. QED
    BY <1>2, <2>1, <2>3
<1>5. CASE Failed
  <2>1. Heard'
    BY <1>1, <1>5, EndsSilent DEF Failed
  <2>2. snap' = snap /\ view' = view /\ emitted' = emitted /\ sent' = sent
    BY <1>5 DEF Failed, emission
  <2>3. Snapshots' /\ Scraped'
    BY <1>1, <2>2, SnapshotsStay, ScrapedStays DEF Snapshots
  <2>4. QED
    BY <1>2, <2>1, <2>3
<1>6. CASE Swap
  <2>1. Heard'
    BY <1>1, <1>6, EndsSilent DEF Swap
  <2>2. PICK s : /\ s = [items |-> Kept, counts |-> Counts(kind, Kept), of |-> account]
                 /\ snap' = {s}
    BY <1>6 DEF Swap
  <2>3. view' = view /\ emitted' = emitted /\ sent' = sent
    BY <1>6 DEF Swap, emission
  <2>4. Holds(s)
    BY <2>2, KeptHolds
  <2>5. Snapshots'
    <3>1. AtMostOne(snap') /\ snap' # {} /\ AtMostOne(view')
      BY <2>2, <2>3 DEF AtMostOne, Snapshots
    <3>2. \A t \in snap' \cup view' : Holds(t)
      BY <2>2, <2>3, <2>4 DEF Snapshots
    <3>3. QED
      BY <1>1, <3>1, <3>2, SnapshotsStay
  <2>6. Scraped'
    BY <1>1, <2>3, ScrapedStays
  <2>7. QED
    BY <1>2, <2>1, <2>5, <2>6
<1>7. CASE Collect
  <2>1. Heard'
    BY <1>1, <1>7, HeardStays DEF Collect, answer
  <2>2. /\ view = {} /\ snap # {} /\ view' = snap
        /\ snap' = snap /\ emitted' = emitted /\ sent' = sent
    BY <1>7 DEF Collect
  <2>3. Snapshots'
    BY <1>1, <2>2, SnapshotsStay DEF Snapshots
  <2>4. emitted' = 0 /\ sent' = << >>
    BY <2>2 DEF Scraped
  <2>5. ASSUME NEW t \in view' PROVE 0 \in 0 .. Len(t.items) + 1 /\ Announced(t, 0) = {}
    <3>1. IsArray(t.items)
      BY <2>2, <2>5 DEF Snapshots, Holds
    <3> DEFINE items == t.items
    <3>2. Len(items) \in Nat /\ DOMAIN items = 1..Len(items)
      BY <3>1, ArrayByNumber
    <3>3. \A i \in DOMAIN items : ~(i <= 0)
      BY <3>2
    <3>4. QED
      BY <3>2, <3>3 DEF Announced
  <2>6. \A m : Tells(<< >>, m, {})
    BY NoItems DEF Tells
  <2>7. \A t \in view' : emitted' \in 0 .. Len(t.items) + 1
    BY <2>4, <2>5
  <2>8. \A t \in view' : kind' \notin Nameless => Tells(sent', Always', Announced(t, emitted'))
    BY <2>4, <2>5, <2>6
  <2>9. Scraped'
    BY <2>4, <2>7, <2>8 DEF Scraped
  <2>10. QED
    BY <1>2, <2>1, <2>3, <2>9
<1>8. CASE Emit
  <2>1. Heard'
    BY <1>1, <1>8, HeardStays DEF Emit, answer
  <2>2. snap' = snap /\ view' = view
    BY <1>8 DEF Emit
  <2>3. Snapshots'
    BY <1>1, <2>2, SnapshotsStay DEF Snapshots
  <2>4. Scraped'
    BY <1>1, <1>8, SendsTheNext
  <2>5. QED
    BY <1>2, <2>1, <2>3, <2>4
<1>9. CASE Return
  <2>1. Heard'
    BY <1>1, <1>9, HeardStays DEF Return, answer
  <2>2. snap' = snap /\ view' = {} /\ emitted' = 0 /\ sent' = << >>
    BY <1>9 DEF Return
  <2>3. Snapshots'
    BY <1>1, <2>2, SnapshotsStay DEF Snapshots, AtMostOne
  <2>4. Scraped'
    BY <2>2 DEF Scraped
  <2>5. QED
    BY <1>2, <2>1, <2>3, <2>4
<1>10. CASE UNCHANGED expositionVars
  <2>1. Heard'
    BY <1>1, <1>10, HeardStays DEF expositionVars, answer
  <2>2. snap' = snap /\ view' = view /\ emitted' = emitted /\ sent' = sent
    BY <1>10 DEF expositionVars, emission
  <2>3. Snapshots' /\ Scraped'
    BY <1>1, <2>2, SnapshotsStay, ScrapedStays DEF Snapshots
  <2>4. QED
    BY <1>2, <2>1, <2>3
<1>11. QED
  BY <1>3, <1>4, <1>5, <1>6, <1>7, <1>8, <1>9, <1>10 DEF ExpositionNext

(* The inductive invariant: what a refresh heard is what the account could    *)
(* answer, a snapshot holds what the filter asks for, and a scrape has named *)
(* the items it went through, whatever refreshes ran meanwhile.              *)
THEOREM ExpositionInvariance == ExpositionSpec => []ExpositionInv
<1>1. ExpositionInit => ExpositionInv
  BY ExpositionStarts
<1>2. ExpositionInv /\ [ExpositionNext]_expositionVars => ExpositionInv'
  BY ExpositionStep
<1>3. QED
  BY <1>1, <1>2, PTL DEF ExpositionSpec

(* Of what there is at most one of, the cardinality is at most one.          *)
LEMMA AtMostOneCounts ==
  ASSUME NEW S, AtMostOne(S)
  PROVE  Cardinality(S) <= 1
<1>1. CASE S = {}
  BY <1>1, FS_EmptySet
<1>2. ASSUME NEW x \in S PROVE Cardinality(S) = 1
  <2>1. S = {x}
    BY DEF AtMostOne
  <2>2. QED
    BY <2>1, FS_Singleton
<1>3. QED
  BY <1>1, <1>2

(* At most one snapshot, of the one shape and of answers that could be used,  *)
(* and none of a refresh that failed (Refresh, Collect).                     *)
THEOREM ExpositionTypes == ExpositionSpec => []ExpositionTypeOK
<1>1. ExpositionInv => ExpositionTypeOK
  <2> SUFFICES ASSUME ExpositionInv PROVE ExpositionTypeOK
    OBVIOUS
  <2>1. Cardinality(snap) <= 1 /\ Cardinality(view) <= 1
    BY AtMostOneCounts DEF ExpositionInv, Snapshots
  <2>2. \A s \in snap \cup view : /\ DOMAIN s = {"items", "counts", "of"}
                                 /\ \A n \in DOMAIN s.of : CanBeUsed(kind, s.of[n])
    BY DEF ExpositionInv, Snapshots, Holds
  <2>3. /\ kind \in Kinds /\ filter \in Filters /\ refreshing \in BOOLEAN
        /\ (~refreshing => answers = << >>) /\ Len(answers) <= Requests(kind)
        /\ Len(account) = Len(answers) /\ (view # {} => snap # {})
    BY DEF ExpositionInv, Heard, Snapshots
  <2>4. QED
    BY <2>1, <2>2, <2>3 DEF ExpositionTypeOK
<1>2. QED
  BY <1>1, ExpositionInvariance, PTL

(* A scrape that is done went through every item of the snapshot it took.    *)
LEMMA DoneShows ==
  ASSUME ExpositionInv
  PROVE  ShowsWhatPasses
<1> SUFFICES ASSUME Done, NEW s \in view, kind \notin Nameless
             PROVE  Labelled(Always) = {r.id : r \in {r \in There(s) : Wanted(r)}}
  BY DEF ShowsWhatPasses, Nameless
<1> DEFINE items == s.items
           wanted == {r \in There(s) : Wanted(r)}
<1>1. Holds(s) /\ emitted > Len(items)
  <2>1. PICK t \in view : emitted > Len(t.items)
    BY DEF Done
  <2>2. t = s
    BY DEF ExpositionInv, Snapshots, AtMostOne
  <2>3. QED
    BY <2>1, <2>2 DEF ExpositionInv, Snapshots
<1>2. emitted \in 0 .. Len(items) + 1 /\ Tells(sent, Always, Announced(s, emitted))
  BY DEF ExpositionInv, Scraped
<1>3. Len(items) \in Nat /\ DOMAIN items = 1..Len(items)
  BY <1>1, ArrayByNumber DEF Holds
<1>4. Announced(s, emitted) = {item.id : item \in ToSet(items)}
  <2>1. \A i \in DOMAIN items : i <= emitted
    BY <1>1, <1>2, <1>3
  <2>2. Announced(s, emitted) = {items[i].id : i \in DOMAIN items}
    BY <2>1 DEF Announced
  <2>3. QED
    BY <2>2 DEF ToSet
<1>5. ToSet(items) = {New(kind, r) : r \in wanted}
  BY <1>1 DEF Holds
<1>6. \A r \in wanted : New(kind, r).id = r.id
  <2>1. wanted \subseteq Resources[kind] /\ kind \in Kinds \ Nameless
    BY <1>1 DEF Holds, ExpositionInv
  <2>2. \A r \in Resources[kind] : WellFormed(kind, r)
    BY <2>1, ExpositionAssumption
  <2>3. QED
    BY <2>1, <2>2, ItemTells
<1>7. Labelled(Always) = Announced(s, emitted)
  <2>1. Labelled(Always) = {t.labels[1] : t \in {t \in ToSet(sent) : t.metric = Always}}
    BY DEF Labelled, ToSet
  <2>2. QED
    BY <1>2, <2>1 DEF Tells
<1> HIDE DEF items, wanted
<1>8. QED
  BY <1>4, <1>5, <1>6, <1>7 DEF wanted

(* Whatever the account holds and whatever filter is set, a whole scrape      *)
(* names every resource the filter asks for and no other, each collector     *)
(* filtering for itself and droplets listed by tag or all of them (listing,  *)
(* Filter.Match, Refresh and Collect).                                       *)
THEOREM ShowsWhatIsAsked == ExpositionSpec => []ShowsWhatPasses
BY DoneShows, ExpositionInvariance, PTL

-----------------------------------------------------------------------------
(* No series twice.                                                          *)

(* Arrays without repeats that share no member, made one, have no repeat.    *)
LEMMA FlattenDistinct ==
  ASSUME NEW lists, IsArray(lists), \A k \in DOMAIN lists : IsArray(lists[k]) /\ IsInjective(lists[k]),
         \A j, k \in DOMAIN lists : j # k => ToSet(lists[j]) \cap ToSet(lists[k]) = {}
  PROVE  IsInjective(FlattenSeq(lists))
<1> DEFINE S == UNION {ToSet(lists[k]) : k \in DOMAIN lists}
           T == Seq(S)
<1>1. ASSUME NEW k \in DOMAIN lists PROVE lists[k] \in Seq(S)
  <2>1. lists[k] \in [1..Len(lists[k]) -> ToSet(lists[k])] /\ Len(lists[k]) \in Nat
    BY DEF IsArray
  <2>2. ToSet(lists[k]) \subseteq S
    OBVIOUS
  <2> HIDE DEF S
  <2>3. lists[k] \in [1..Len(lists[k]) -> S]
    BY <2>1, <2>2
  <2>4. QED
    BY <2>1, <2>3
<1>2. Len(lists) \in Nat /\ DOMAIN lists = 1..Len(lists) /\ lists = [k \in 1..Len(lists) |-> lists[k]]
  BY ArrayByNumber
<1> HIDE DEF S
<1>3. PICK n \in Nat : n = Len(lists)
  BY <1>2
<1>4. lists \in [1..n -> T]
  BY <1>1, <1>2, <1>3
<1>5. lists \in Seq(T)
  <2> HIDE DEF T
  <2> QED BY <1>4
<1>6. QED
  BY <1>5, FlattenInjective

-----------------------------------------------------------------------------
(* No two series of a list have one metric and the same labels.             *)
Apart(list) ==
  \A i, j \in DOMAIN list :
    i # j => <<list[i].metric, list[i].labels>> # <<list[j].metric, list[j].labels>>

(* A label tuple that starts with the mark.                                  *)
Bears(labels, mark) == \A p \in DOMAIN mark : labels[p] = mark[p]

(* The series of one thing: apart, of the metrics named, and marked as its.  *)
Own(list, metrics, mark) ==
  /\ IsArray(list) /\ Apart(list)
  /\ \A s \in ToSet(list) : s.metric \in metrics /\ Bears(s.labels, mark)

(* Two such lists that share no series make one.                             *)
LEMMA JoinedApart ==
  ASSUME NEW a, NEW b, IsArray(a), IsArray(b), Apart(a), Apart(b),
         \A s \in ToSet(a), t \in ToSet(b) : s.metric = t.metric => s.labels # t.labels
  PROVE  Apart(a \o b)
<1> DEFINE both == a \o b
           m == Len(a)
           n == Len(b)
<1>1. /\ m \in Nat /\ DOMAIN a = 1..m /\ n \in Nat /\ DOMAIN b = 1..n
  BY ArrayByNumber
<1>2. /\ DOMAIN both = 1..(m + n)
      /\ \A k \in 1..m : both[k] = a[k]
      /\ \A k \in 1..(m + n) : k > m => k - m \in 1..n /\ both[k] = b[k - m]
  <2> DEFINE S == ToSet(a) \cup ToSet(b)
  <2>1. a \in Seq(S) /\ b \in Seq(S)
    <3>1. a \in [1..m -> ToSet(a)] /\ b \in [1..n -> ToSet(b)]
      BY DEF IsArray
    <3>2. a \in [1..m -> S] /\ b \in [1..n -> S]
      BY <3>1
    <3> HIDE DEF S, m, n
    <3>3. QED
      BY <1>1, <3>2
  <2> HIDE DEF S
  <2>2. QED
    BY <2>1
<1> HIDE DEF both, m, n
<1>3. ASSUME NEW i \in DOMAIN both, NEW j \in DOMAIN both, i <= m, j > m
      PROVE  both[i].metric = both[j].metric => both[i].labels # both[j].labels
  <2>1. both[i] \in ToSet(a) /\ both[j] \in ToSet(b)
    BY <1>1, <1>2, <1>3 DEF ToSet
  <2>2. QED
    BY <2>1
<1>4. ASSUME NEW i \in DOMAIN both, NEW j \in DOMAIN both, i # j, both[i].metric = both[j].metric
      PROVE  both[i].labels # both[j].labels
  <2>1. CASE i <= m /\ j <= m
    BY <1>1, <1>2, <1>4, <2>1 DEF Apart
  <2>2. CASE i > m /\ j > m
    <3>1. i - m \in DOMAIN b /\ j - m \in DOMAIN b /\ i - m # j - m
      BY <1>1, <1>2, <1>4, <2>2
    <3>2. both[i] = b[i - m] /\ both[j] = b[j - m]
      BY <1>2, <2>2
    <3>3. QED
      BY <1>4, <3>1, <3>2 DEF Apart
  <2>3. QED
    BY <1>1, <1>2, <1>3, <1>4, <2>1, <2>2
<1>5. QED
  BY <1>4 DEF Apart, both

(* Label tuples are arrays, and what is put behind one does not change how   *)
(* it starts.                                                                *)
LEMMA Tuples ==
  ASSUME NEW a, NEW b, NEW c
  PROVE  /\ IsArray(<<a>>) /\ Len(<<a>>) = 1 /\ DOMAIN <<a>> = {1} /\ <<a>>[1] = a
         /\ IsArray(<<a, b>>) /\ Len(<<a, b>>) = 2 /\ DOMAIN <<a, b>> = {1, 2}
         /\ <<a, b>>[1] = a /\ <<a, b>>[2] = b
         /\ IsArray(<<a, b, c>>) /\ Len(<<a, b, c>>) = 3 /\ DOMAIN <<a, b, c>> = {1, 2, 3}
         /\ <<a, b, c>>[1] = a /\ <<a, b, c>>[2] = b /\ <<a, b, c>>[3] = c
<1>1. IsArray(<<a>>) /\ Len(<<a>>) = 1 /\ DOMAIN <<a>> = {1} /\ <<a>>[1] = a
  <2>1. PICK t : t = <<a>>
    OBVIOUS
  <2>2. 1 \in Nat /\ DOMAIN t = 1..1 /\ t = [k \in 1..1 |-> t[k]] /\ t[1] = a
    BY <2>1
  <2>3. IsArray(t) /\ Len(t) = 1
    BY <2>2, ListByNumber
  <2>4. QED
    BY <2>1, <2>2, <2>3
<1>2. IsArray(<<a, b>>) /\ Len(<<a, b>>) = 2 /\ DOMAIN <<a, b>> = {1, 2} /\ <<a, b>>[1] = a /\ <<a, b>>[2] = b
  <2>1. PICK t : t = <<a, b>>
    OBVIOUS
  <2>2. 2 \in Nat /\ DOMAIN t = 1..2 /\ t = [k \in 1..2 |-> t[k]] /\ t[1] = a /\ t[2] = b
    BY <2>1
  <2>3. IsArray(t) /\ Len(t) = 2
    BY <2>2, ListByNumber
  <2>4. QED
    BY <2>1, <2>2, <2>3
<1>3. /\ IsArray(<<a, b, c>>) /\ Len(<<a, b, c>>) = 3 /\ DOMAIN <<a, b, c>> = {1, 2, 3}
      /\ <<a, b, c>>[1] = a /\ <<a, b, c>>[2] = b /\ <<a, b, c>>[3] = c
  <2>1. PICK t : t = <<a, b, c>>
    OBVIOUS
  <2>2. /\ 3 \in Nat /\ DOMAIN t = 1..3 /\ t = [k \in 1..3 |-> t[k]]
        /\ t[1] = a /\ t[2] = b /\ t[3] = c
    BY <2>1
  <2>3. IsArray(t) /\ Len(t) = 3
    BY <2>2, ListByNumber
  <2>4. QED
    BY <2>1, <2>2, <2>3
<1>4. QED
  BY <1>1, <1>2, <1>3

(* Where the items of two arrays are once they are one.                      *)
LEMMA JoinedByNumber ==
  ASSUME NEW a, NEW b, IsArray(a), IsArray(b)
  PROVE  /\ Len(a) \in Nat /\ DOMAIN a = 1..Len(a) /\ Len(b) \in Nat /\ DOMAIN b = 1..Len(b)
         /\ DOMAIN (a \o b) = 1..(Len(a) + Len(b))
         /\ \A p \in 1..Len(a) : (a \o b)[p] = a[p]
         /\ \A p \in 1..Len(b) : (a \o b)[Len(a) + p] = b[p]
<1> DEFINE S == ToSet(a) \cup ToSet(b)
<1>1. /\ Len(a) \in Nat /\ a \in [1..Len(a) -> ToSet(a)] /\ DOMAIN a = 1..Len(a)
      /\ Len(b) \in Nat /\ b \in [1..Len(b) -> ToSet(b)] /\ DOMAIN b = 1..Len(b)
  BY DEF IsArray
<1>2. a \in [1..Len(a) -> S] /\ b \in [1..Len(b) -> S]
  BY <1>1
<1> HIDE DEF S
<1>3. a \in Seq(S) /\ b \in Seq(S)
  BY <1>1, <1>2
<1>4. QED
  BY <1>1, <1>3

(* A longer mark starts with the shorter, and what follows is the next       *)
(* label.                                                                    *)
LEMMA Marked ==
  ASSUME NEW a, NEW b, IsArray(a), IsArray(b)
  PROVE  /\ Bears(a, a) /\ Bears(a \o b, a) /\ IsArray(a \o b)
         /\ \A labels : Bears(labels, a \o b) => Bears(labels, a)
         /\ \A labels : Bears(labels, a \o b) /\ Len(b) > 0 => labels[Len(a) + 1] = b[1]
<1> DEFINE m == Len(a)
           n == Len(b)
           both == a \o b
<1>1. IsArray(both)
  BY JoinedArray
<1>2. /\ m \in Nat /\ n \in Nat /\ DOMAIN a = 1..m /\ DOMAIN b = 1..n /\ DOMAIN both = 1..(m + n)
      /\ \A p \in 1..m : both[p] = a[p]
      /\ \A p \in 1..n : both[m + p] = b[p]
  BY JoinedByNumber
<1> HIDE DEF m, n, both
<1>3. \A p \in 1..m : p \in 1..(m + n)
  BY <1>2
<1>4. n > 0 => 1 \in 1..n /\ m + 1 \in 1..(m + n)
  BY <1>2
<1>5. \A labels : Bears(labels, both) /\ n > 0 => labels[m + 1] = b[1]
  BY <1>2, <1>4 DEF Bears
<1>6. Bears(a, a) /\ Bears(both, a) /\ \A labels : Bears(labels, both) => Bears(labels, a)
  BY <1>2, <1>3 DEF Bears
<1>7. QED
  BY <1>1, <1>5, <1>6 DEF m, n, both

(* Two tuples that start alike differ in what follows.                       *)
LEMMA SameStart ==
  ASSUME NEW a, NEW b, NEW c, IsArray(a), IsArray(b), IsArray(c), a \o b = a \o c
  PROVE  b = c
<1> DEFINE m == Len(a)
           n == Len(b)
           k == Len(c)
           first == a \o b
           second == a \o c
<1>1. /\ m \in Nat /\ n \in Nat /\ DOMAIN b = 1..n /\ DOMAIN first = 1..(m + n)
      /\ \A p \in 1..n : first[m + p] = b[p]
  BY JoinedByNumber
<1>2. /\ k \in Nat /\ DOMAIN c = 1..k /\ DOMAIN second = 1..(m + k)
      /\ \A p \in 1..k : second[m + p] = c[p]
  BY JoinedByNumber
<1>3. first = second
  OBVIOUS
<1>4. b = [p \in 1..n |-> b[p]] /\ c = [p \in 1..k |-> c[p]]
  BY ArrayByNumber
<1> HIDE DEF m, n, k, first, second
<1>5. 1..(m + n) = 1..(m + k)
  BY <1>1, <1>2, <1>3
<1>6. n = k
  <2>1. CASE n < k
    <3>1. m + k \in 1..(m + k) /\ ~(m + k \in 1..(m + n))
      BY <1>1, <1>2, <2>1
    <3>2. QED
      BY <1>5, <3>1
  <2>2. CASE k < n
    <3>1. m + n \in 1..(m + n) /\ ~(m + n \in 1..(m + k))
      BY <1>1, <1>2, <2>2
    <3>2. QED
      BY <1>5, <3>1
  <2>3. QED
    BY <1>1, <1>2, <2>1, <2>2
<1>7. \A p \in 1..n : b[p] = c[p]
  BY <1>1, <1>2, <1>3, <1>6
<1>8. QED
  BY <1>4, <1>6, <1>7

(* A list of series of one thing is of a larger thing, too.                  *)
LEMMA OwnLess ==
  ASSUME NEW list, NEW metrics, NEW mark, NEW more, IsArray(mark), IsArray(more),
         Own(list, metrics, mark \o more)
  PROVE  Own(list, metrics, mark)
BY Marked DEF Own

(* Series of other metrics of the same thing.                                *)
LEMMA OwnBoth ==
  ASSUME NEW mark, NEW a, NEW b, NEW A, NEW B, Own(a, A, mark), Own(b, B, mark), A \cap B = {}
  PROVE  Own(a \o b, A \cup B, mark)
<1>1. IsArray(a \o b) /\ ToSet(a \o b) = ToSet(a) \cup ToSet(b)
  BY JoinedArray DEF Own
<1>2. \A s \in ToSet(a), t \in ToSet(b) : s.metric # t.metric
  BY DEF Own
<1>3. Apart(a \o b)
  BY <1>2, JoinedApart DEF Own
<1>4. QED
  BY <1>1, <1>3 DEF Own

(* One series, a pair, and one for each item.                                *)
LEMMA OwnOne ==
  ASSUME NEW s, NEW metric, s.metric = metric, NEW mark, Bears(s.labels, mark)
  PROVE  Own(<<s>>, {metric}, mark)
<1>1. PICK list : list = <<s>>
  OBVIOUS
<1>2. IsArray(list) /\ ToSet(list) = {s}
  BY <1>1, OneSeries
<1>3. DOMAIN list = {1}
  BY <1>1, Tuples
<1>4. Own(list, {metric}, mark)
  BY <1>2, <1>3 DEF Own, Apart
<1>5. QED
  BY <1>1, <1>4

LEMMA Pair ==
  ASSUME NEW s, NEW t
  PROVE  IsArray(<<s, t>>) /\ ToSet(<<s, t>>) = {s, t}
<1>1. PICK list : list = <<s, t>>
  OBVIOUS
<1>2. 2 \in Nat /\ DOMAIN list = 1..2 /\ list = [k \in 1..2 |-> list[k]] /\ list[1] = s /\ list[2] = t
  BY <1>1
<1>3. IsArray(list) /\ ToSet(list) = {list[k] : k \in 1..2}
  BY <1>2, ListByNumber
<1>4. ToSet(list) = {s, t}
  BY <1>2, <1>3
<1>5. QED
  BY <1>1, <1>3, <1>4

LEMMA OwnTwo ==
  ASSUME NEW s, NEW t, NEW one, NEW other, s.metric = one, t.metric = other, one # other,
         NEW mark, Bears(s.labels, mark), Bears(t.labels, mark)
  PROVE  Own(<<s, t>>, {one, other}, mark)
<1>1. PICK list : list = <<s, t>>
  OBVIOUS
<1>2. IsArray(list) /\ ToSet(list) = {s, t}
  BY <1>1, Pair
<1>3. DOMAIN list = {1, 2} /\ list[1] = s /\ list[2] = t
  BY <1>1
<1>4. Own(list, {one, other}, mark)
  BY <1>2, <1>3 DEF Own, Apart
<1>5. QED
  BY <1>1, <1>4

(* One series for each item of a list.                                       *)
LEMMA OwnEach ==
  ASSUME NEW list, IsArray(list), NEW series, series = [i \in DOMAIN list |-> series[i]],
         NEW metric, NEW mark,
         \A i \in DOMAIN list : series[i].metric = metric /\ Bears(series[i].labels, mark),
         \A i, j \in DOMAIN list : i # j => series[i].labels # series[j].labels
  PROVE  Own(series, {metric}, mark)
<1>1. IsArray(series) /\ DOMAIN series = DOMAIN list
  BY MappedArray
<1>2. Apart(series)
  BY <1>1 DEF Apart
<1>3. QED
  BY <1>1, <1>2 DEF Own, ToSet

(* The figures of an item, each of a metric of its own.                      *)
LEMMA OwnGauges ==
  ASSUME NEW names, NEW n \in Nat, DOMAIN names = 1..n, names = [k \in 1..n |-> names[k]],
         NEW metrics, \A k \in 1..n : names[k] \in metrics,
         \A j, k \in 1..n : names[j] = names[k] => j = k,
         NEW item, NEW labels, NEW mark, Bears(labels, mark)
  PROVE  Own(Gauges(names, item, labels), metrics, mark)
<1> DEFINE series == Gauges(names, item, labels)
<1>1. series = [i \in DOMAIN names |-> Gauge(names[i], item[names[i]], labels)]
  BY DEF Gauges, Map
<1> HIDE DEF series
<1>2. IsArray(names)
  BY ListByNumber
<1>3. series = [i \in DOMAIN names |-> series[i]]
  BY <1>1
<1>4. \A i \in DOMAIN names : series[i].metric = names[i] /\ series[i].labels = labels
  BY <1>1 DEF Gauge
<1>5. IsArray(series) /\ DOMAIN series = DOMAIN names
  BY <1>2, <1>3, MappedArray
<1>6. Apart(series)
  BY <1>4, <1>5 DEF Apart
<1>7. QED
  BY <1>4, <1>5, <1>6 DEF Own, ToSet, series

(* A figure that may be missing.                                             *)
LEMMA OwnOptional ==
  ASSUME NEW metric, NEW optional, AtMostOne(optional), NEW labels, NEW mark, Bears(labels, mark)
  PROVE  Own(Optional(metric, optional, labels), {metric}, mark)
<1> DEFINE series == Optional(metric, optional, labels)
           list == SetToSeq(optional)
<1>1. IsArray(list) /\ IsInjective(list) /\ ToSet(list) = optional
  BY AtMostOneIsFinite, SetToSeqLists
<1>2. series = [i \in DOMAIN list |-> Gauge(metric, list[i], labels)]
  BY DEF Optional, Map
<1> HIDE DEF series, list
<1>3. series = [i \in DOMAIN list |-> series[i]]
  BY <1>2
<1>4. \A i \in DOMAIN list : series[i].metric = metric /\ series[i].labels = labels
  BY <1>2 DEF Gauge
<1>5. \A i, j \in DOMAIN list : i = j
  BY <1>1 DEF AtMostOne, IsInjective, ToSet
<1>6. QED
  BY <1>1, <1>3, <1>4, <1>5, OwnEach DEF series

(* One series for each item, told apart by the label behind the mark.        *)
LEMMA KeyBehind ==
  ASSUME NEW mark, IsArray(mark), NEW key
  PROVE  \A labels : Bears(labels, mark \o <<key>>) => Bears(labels, mark) /\ labels[Len(mark) + 1] = key
<1>1. PICK more : more = <<key>>
  OBVIOUS
<1>2. IsArray(more) /\ Len(more) = 1 /\ more[1] = key
  BY <1>1, Tuples
<1>3. QED
  BY <1>1, <1>2, Marked

(* One series for each item, told apart by a key behind the mark.            *)
LEMMA OwnKeyed ==
  ASSUME NEW list, IsArray(list), NEW series, series = [i \in DOMAIN list |-> series[i]],
         NEW metric, NEW mark, IsArray(mark), NEW keys,
         \A i, j \in DOMAIN list : keys[i] = keys[j] => i = j,
         \A i \in DOMAIN list : /\ series[i].metric = metric
                               /\ Bears(series[i].labels, mark \o <<keys[i]>>)
  PROVE  Own(series, {metric}, mark)
<1>1. ASSUME NEW i \in DOMAIN list
      PROVE  Bears(series[i].labels, mark) /\ series[i].labels[Len(mark) + 1] = keys[i]
  BY KeyBehind
<1>2. \A i, j \in DOMAIN list : i # j => series[i].labels # series[j].labels
  BY <1>1
<1>3. QED
  BY <1>1, <1>2, OwnEach

(* A one-hot metric has one series for each state, the state behind the mark. *)
LEMMA StatesApart ==
  ASSUME NEW known, IsArray(known), IsInjective(known), NEW state
  PROVE  IsInjective(States(known, state))
<1>1. CASE state = "" \/ Contains(known, state)
  BY <1>1 DEF States
<1>2. CASE ~(state = "" \/ Contains(known, state))
  <2>1. States(known, state) = Append(known, state)
    BY <1>2 DEF States
  <2>2. \A k \in DOMAIN known : known[k] # state
    BY <1>2, ArrayByNumber DEF Contains
  <2>3. PICK more : more = <<state>>
    OBVIOUS
  <2> DEFINE longer == Append(known, state)
             n == Len(known)
             S == ToSet(known) \cup {state}
  <2>4. n \in Nat /\ DOMAIN known = 1..n /\ known \in [1..n -> ToSet(known)]
    BY DEF IsArray
  <2>5. known \in [1..n -> S] /\ state \in S
    BY <2>4
  <2> HIDE DEF S
  <2>6. known \in Seq(S)
    BY <2>4, <2>5
  <2>7. /\ DOMAIN longer = 1..(n + 1) /\ longer[n + 1] = state
        /\ \A k \in 1..n : longer[k] = known[k]
    BY <2>5, <2>6
  <2> HIDE DEF longer, n
  <2>8. IsInjective(longer)
    <3>1. ASSUME NEW j \in 1..(n + 1), NEW k \in 1..(n + 1), longer[j] = longer[k] PROVE j = k
      <4>1. CASE j \in 1..n /\ k \in 1..n
        BY <2>4, <2>7, <3>1, <4>1 DEF IsInjective
      <4>2. CASE j = n + 1 /\ k \in 1..n
        BY <2>2, <2>4, <2>7, <3>1, <4>2
      <4>3. CASE k = n + 1 /\ j \in 1..n
        BY <2>2, <2>4, <2>7, <3>1, <4>3
      <4>4. QED
        BY <2>4, <4>1, <4>2, <4>3
    <3>2. QED
      BY <2>7, <3>1 DEF IsInjective
  <2>9. QED
    BY <2>1, <2>8 DEF longer
<1>3. QED
  BY <1>1, <1>2

(* One series for each state.                                                *)
LEMMA OwnOneHot ==
  ASSUME NEW metric, NEW known, IsArray(known), IsInjective(known), NEW state, NEW mark, IsArray(mark)
  PROVE  Own(OneHot(metric, known, state, mark), {metric}, mark)
<1> DEFINE series == OneHot(metric, known, state, mark)
           list == States(known, state)
<1>1. IsArray(list) /\ IsInjective(list)
  BY StatesLists, StatesApart
<1>2. series = [i \in DOMAIN list |-> Gauge(metric, boolToFloat(list[i] = state), Append(mark, list[i]))]
  BY DEF OneHot, Map
<1> HIDE DEF series, list
<1>3. series = [i \in DOMAIN list |-> series[i]]
  BY <1>2
<1>4. ASSUME NEW i \in DOMAIN list
      PROVE  series[i].metric = metric /\ Bears(series[i].labels, mark \o <<list[i]>>)
  <2>1. series[i] = Gauge(metric, boolToFloat(list[i] = state), Append(mark, list[i]))
    BY <1>2
  <2>2. Append(mark, list[i]) = mark \o <<list[i]>>
    <3> DEFINE item == list[i]
               S == ToSet(mark) \cup {item}
    <3>1. Len(mark) \in Nat /\ mark \in [1..Len(mark) -> ToSet(mark)]
      BY DEF IsArray
    <3>2. mark \in [1..Len(mark) -> S] /\ item \in S
      BY <3>1
    <3> HIDE DEF S, item
    <3>3. mark \in Seq(S) /\ item \in S
      BY <3>1, <3>2
    <3>4. Append(mark, item) = mark \o <<item>>
      BY <3>3
    <3>5. QED
      BY <3>4 DEF item
  <2>3. PICK more : more = <<list[i]>>
    OBVIOUS
  <2>4. IsArray(more)
    BY <2>3, Tuples
  <2>5. Bears(mark \o more, mark \o more)
    BY DEF Bears
  <2>6. QED
    BY <2>1, <2>2, <2>3, <2>5 DEF Gauge
<1>5. QED
  BY <1>1, <1>3, <1>4, OwnKeyed DEF series, IsInjective

(* The series of one item behind those of another, told apart by a label.    *)
LEMMA OwnRuns ==
  ASSUME NEW list, IsArray(list), NEW lists, lists = [i \in DOMAIN list |-> lists[i]],
         NEW metrics, NEW mark, \A i \in DOMAIN list : Own(lists[i], metrics, mark),
         \A i, j \in DOMAIN list : i # j =>
           \A s \in ToSet(lists[i]), t \in ToSet(lists[j]) : s.labels # t.labels
  PROVE  Own(FlattenSeq(lists), metrics, mark)
<1>1. IsArray(lists) /\ DOMAIN lists = DOMAIN list
  BY MappedArray
<1>2. /\ IsArray(FlattenSeq(lists))
      /\ ToSet(FlattenSeq(lists)) = UNION {ToSet(lists[k]) : k \in DOMAIN lists}
  BY <1>1, FlattenLists DEF Own
<1> DEFINE S == UNION {ToSet(lists[k]) : k \in DOMAIN lists}
           whole == FlattenSeq(lists)
<1>3. IsInjective(whole)
  <2>1. \A k \in DOMAIN lists : IsInjective(lists[k])
    <3>1. \A k \in DOMAIN lists : Apart(lists[k])
      BY <1>1 DEF Own
    <3>2. QED
      BY <3>1 DEF Apart, IsInjective
  <2>2. \A j, k \in DOMAIN lists : j # k => ToSet(lists[j]) \cap ToSet(lists[k]) = {}
    <3>1. \A j, k \in DOMAIN lists : j # k =>
            \A s \in ToSet(lists[j]), t \in ToSet(lists[k]) : s.labels # t.labels
      BY <1>1
    <3>2. QED
      BY <3>1
  <2> HIDE DEF S
  <2>3. QED
    BY <1>1, <2>1, <2>2, FlattenDistinct DEF Own
<1>4. ASSUME NEW s \in S, NEW t \in S, s.metric = t.metric, s.labels = t.labels PROVE s = t
  <2>1. PICK j \in DOMAIN lists : s \in ToSet(lists[j])
    OBVIOUS
  <2>2. PICK k \in DOMAIN lists : t \in ToSet(lists[k])
    OBVIOUS
  <2>3. j = k
    BY <1>1, <1>4, <2>1, <2>2
  <2>4. PICK p \in DOMAIN lists[j] : s = lists[j][p]
    BY <2>1 DEF ToSet
  <2>5. PICK q \in DOMAIN lists[j] : t = lists[j][q]
    BY <2>2, <2>3 DEF ToSet
  <2>6. Apart(lists[j])
    BY <1>1 DEF Own
  <2>7. p = q
    BY <1>4, <2>4, <2>5, <2>6 DEF Apart
  <2>8. QED
    BY <2>4, <2>5, <2>7
<1>5. ToSet(whole) = S
  BY <1>2
<1>6. \A s \in S : s.metric \in metrics /\ Bears(s.labels, mark)
  BY <1>1 DEF Own
<1> HIDE DEF S, whole
<1>7. Apart(whole)
  <2>1. \A i \in DOMAIN whole : whole[i] \in S
    BY <1>5 DEF ToSet
  <2>2. QED
    BY <1>3, <1>4, <2>1 DEF Apart, IsInjective
<1>8. QED
  BY <1>2, <1>5, <1>6, <1>7 DEF Own, whole

(* The same, told apart by a key behind the mark.                            *)
LEMMA OwnFlatten ==
  ASSUME NEW list, IsArray(list), NEW lists, lists = [i \in DOMAIN list |-> lists[i]],
         NEW metrics, NEW mark, IsArray(mark), NEW keys,
         \A i, j \in DOMAIN list : keys[i] = keys[j] => i = j,
         \A i \in DOMAIN list : Own(lists[i], metrics, mark \o <<keys[i]>>)
  PROVE  Own(FlattenSeq(lists), metrics, mark)
<1>1. ASSUME NEW i \in DOMAIN list
      PROVE  /\ Own(lists[i], metrics, mark)
             /\ \A s \in ToSet(lists[i]) : s.labels[Len(mark) + 1] = keys[i]
  BY KeyBehind DEF Own
<1>2. \A i, j \in DOMAIN list : i # j =>
        \A s \in ToSet(lists[i]), t \in ToSet(lists[j]) : s.labels # t.labels
  BY <1>1
<1>3. QED
  BY <1>1, <1>2, OwnRuns

(* What there is at most one of, and what is emitted for it.                 *)
LEMMA OwnMaybe ==
  ASSUME NEW optional, AtMostOne(optional),
         NEW lists, lists = [i \in DOMAIN SetToSeq(optional) |-> lists[i]],
         NEW metrics, NEW mark, \A i \in DOMAIN SetToSeq(optional) : Own(lists[i], metrics, mark)
  PROVE  Own(FlattenSeq(lists), metrics, mark)
<1> DEFINE list == SetToSeq(optional)
<1>1. IsArray(list) /\ IsInjective(list) /\ ToSet(list) = optional
  BY AtMostOneIsFinite, SetToSeqLists
<1>2. \A i, j \in DOMAIN list : i = j
  BY <1>1 DEF AtMostOne, IsInjective, ToSet
<1>3. lists = [i \in DOMAIN list |-> lists[i]] /\ \A i \in DOMAIN list : Own(lists[i], metrics, mark)
  OBVIOUS
<1> HIDE DEF list
<1>4. QED
  BY <1>1, <1>2, <1>3, OwnRuns

(* What the collectors put behind the labels of a resource.                  *)
LEMMA Behind ==
  ASSUME NEW mark, IsArray(mark), NEW x, NEW y, NEW z
  PROVE  /\ Bears(mark, mark) /\ Bears(mark \o <<x>>, mark) /\ Bears(mark \o <<x, y>>, mark)
         /\ Bears(mark \o <<x, y, z>>, mark)
<1>1. PICK one : one = <<x>>
  OBVIOUS
<1>2. PICK two : two = <<x, y>>
  OBVIOUS
<1>3. PICK three : three = <<x, y, z>>
  OBVIOUS
<1>4. IsArray(one) /\ IsArray(two) /\ IsArray(three)
  BY <1>1, <1>2, <1>3, Tuples
<1>5. QED
  BY <1>1, <1>2, <1>3, <1>4, Marked

(* A tuple of labels that starts with the id.                                *)
LEMMA Labels ==
  ASSUME NEW a, NEW b, NEW c, NEW labels, labels \in {<<a>>, <<a, b>>, <<a, b, c>>}
  PROVE  IsArray(labels) /\ 1 \in DOMAIN labels /\ labels[1] = a
<1>1. CASE labels = <<a>>
  <2>1. 1 \in Nat /\ DOMAIN labels = 1..1 /\ labels = [k \in 1..1 |-> labels[k]] /\ labels[1] = a
    BY <1>1
  <2>2. IsArray(labels)
    BY <2>1, ListByNumber
  <2>3. QED
    BY <2>1, <2>2
<1>2. CASE labels = <<a, b>>
  <2>1. 2 \in Nat /\ DOMAIN labels = 1..2 /\ labels = [k \in 1..2 |-> labels[k]] /\ labels[1] = a
    BY <1>2
  <2>2. IsArray(labels)
    BY <2>1, ListByNumber
  <2>3. QED
    BY <2>1, <2>2
<1>3. CASE labels = <<a, b, c>>
  <2>1. 3 \in Nat /\ DOMAIN labels = 1..3 /\ labels = [k \in 1..3 |-> labels[k]] /\ labels[1] = a
    BY <1>3
  <2>2. IsArray(labels)
    BY <2>1, ListByNumber
  <2>3. QED
    BY <2>1, <2>2
<1>4. QED
  BY <1>1, <1>2, <1>3

(* The series of one resource, which no total is among: apart, and with its  *)
(* id for their first label.                                                 *)
Mine(list, id) ==
  /\ IsArray(list) /\ Apart(list)
  /\ \A s \in ToSet(list) : s.metric # "count" /\ s.labels[1] = id

(* The series of a resource are marked as its by its labels.                 *)
LEMMA OwnIsMine ==
  ASSUME NEW list, NEW metrics, "count" \notin metrics, NEW mark, 1 \in DOMAIN mark,
         Own(list, metrics, mark)
  PROVE  Mine(list, mark[1])
BY DEF Own, Mine, Bears

(* Kind by kind: no two series that Collect emits for one resource are the   *)
(* same, and each has its id for a label.                                    *)
LEMMA DropletApart ==
  ASSUME NEW r, WellFormed("droplets", r)
  PROVE  Mine(collectDroplet(newDroplet(r)), r.id)
<1> DEFINE d == newDroplet(r)
           labels == <<d.id, d.name, d.region>>
           names == <<"up", "cpus", "memory", "disk", "price_hourly", "price_monthly", "backups",
                      "monitoring_agent">>
           figures == {"up", "cpus", "memory", "disk", "price_hourly", "price_monthly", "backups",
                       "monitoring_agent"}
           info == Gauge("info", 1, labels \o <<d.about>>)
<1>1. d.id = r.id /\ AtMostOne(d.created)
  BY DEF newDroplet, WellFormed
<1>2. /\ 8 \in Nat /\ DOMAIN names = 1..8 /\ names = [k \in 1..8 |-> names[k]]
      /\ \A k \in 1..8 : names[k] \in figures
      /\ \A j, k \in 1..8 : names[j] = names[k] => j = k
  OBVIOUS
<1>3. IsArray(labels) /\ 1 \in DOMAIN labels /\ labels[1] = d.id
  <2> HIDE DEF d
  <2> QED BY Labels
<1>4. collectDroplet(d) = Gauges(names, d, labels) \o Optional("created", d.created, labels) \o <<info>>
  BY DEF collectDroplet
<1>5. info.metric = "info" /\ info.labels = labels \o <<d.about>>
  BY DEF Gauge
<1> HIDE DEF d, names, labels, info
<1>6. Bears(labels, labels) /\ Bears(info.labels, labels)
  BY <1>3, <1>5, Behind
<1>7. /\ Own(Gauges(names, d, labels), figures, labels)
      /\ Own(Optional("created", d.created, labels), {"created"}, labels)
      /\ Own(<<info>>, {"info"}, labels)
  <2> HIDE DEF figures
  <2> QED BY <1>1, <1>2, <1>5, <1>6, OwnGauges, OwnOptional, OwnOne
<1>8. Own(collectDroplet(d), figures \cup {"created"} \cup {"info"}, labels)
  BY <1>4, <1>7, OwnBoth
<1>9. QED
  BY <1>1, <1>3, <1>8, OwnIsMine DEF d

LEMMA VolumeApart ==
  ASSUME NEW r
  PROVE  Mine(collectVolume(newVolume(r)), r.id)
<1> DEFINE v == newVolume(r)
           labels == <<v.id, v.name, v.region>>
           names == <<"size", "droplets">>
           info == Gauge("info", 1, labels \o <<v.about>>)
<1>1. v.id = r.id
  BY DEF newVolume
<1>2. /\ 2 \in Nat /\ DOMAIN names = 1..2 /\ names = [k \in 1..2 |-> names[k]]
      /\ \A k \in 1..2 : names[k] \in {"size", "droplets"}
      /\ \A j, k \in 1..2 : names[j] = names[k] => j = k
  OBVIOUS
<1>3. IsArray(labels) /\ 1 \in DOMAIN labels /\ labels[1] = v.id
  <2> HIDE DEF v
  <2> QED BY Labels
<1>4. collectVolume(v) = Gauges(names, v, labels) \o <<info>>
  BY DEF collectVolume
<1>5. info.metric = "info" /\ info.labels = labels \o <<v.about>>
  BY DEF Gauge
<1> HIDE DEF v, names, labels, info
<1>6. Bears(labels, labels) /\ Bears(info.labels, labels)
  BY <1>3, <1>5, Behind
<1>7. /\ Own(Gauges(names, v, labels), {"size", "droplets"}, labels)
      /\ Own(<<info>>, {"info"}, labels)
  BY <1>2, <1>5, <1>6, OwnGauges, OwnOne
<1>8. Own(collectVolume(v), {"size", "droplets"} \cup {"info"}, labels)
  BY <1>4, <1>7, OwnBoth
<1>9. QED
  BY <1>1, <1>3, <1>8, OwnIsMine DEF v

LEMMA FirewallApart ==
  ASSUME NEW r
  PROVE  Mine(collectFirewall(newFirewall(r)), r.id)
<1> DEFINE f == newFirewall(r)
           labels == <<f.id, f.name>>
           names == <<"droplets", "tags", "inbound", "outbound", "open", "pending">>
           figures == {"droplets", "tags", "inbound", "outbound", "open", "pending"}
           info == Gauge("info", 1, <<f.id, f.name, f.status>>)
<1>1. f.id = r.id
  BY DEF newFirewall
<1>2. /\ 6 \in Nat /\ DOMAIN names = 1..6 /\ names = [k \in 1..6 |-> names[k]]
      /\ \A k \in 1..6 : names[k] \in figures
      /\ \A j, k \in 1..6 : names[j] = names[k] => j = k
  OBVIOUS
<1>3. IsArray(labels) /\ 1 \in DOMAIN labels /\ labels[1] = f.id
  <2> HIDE DEF f
  <2> QED BY Labels
<1>4. collectFirewall(f) = <<info>> \o Gauges(names, f, labels)
  BY DEF collectFirewall
<1>5. info.metric = "info" /\ info.labels = labels \o <<f.status>>
  BY DEF Gauge
<1> HIDE DEF f, names, labels, info
<1>6. Bears(labels, labels) /\ Bears(info.labels, labels)
  BY <1>3, <1>5, Behind
<1>7. Own(Gauges(names, f, labels), figures, labels) /\ Own(<<info>>, {"info"}, labels)
  <2> HIDE DEF figures
  <2> QED BY <1>2, <1>5, <1>6, OwnGauges, OwnOne
<1>8. Own(collectFirewall(f), {"info"} \cup figures, labels)
  BY <1>4, <1>7, OwnBoth
<1>9. QED
  BY <1>1, <1>3, <1>8, OwnIsMine DEF f

LEMMA ImageApart ==
  ASSUME NEW r, WellFormed("images", r)
  PROVE  Mine(collectImage(newImage(r)), r.id)
<1> DEFINE i == newImage(r)
           labels == <<i.id, i.name, i.type>>
           names == <<"size", "min_disk">>
           info == Gauge("info", 1, labels \o <<i.about>>)
<1>1. i.id = r.id /\ AtMostOne(i.created)
  BY DEF newImage, WellFormed
<1>2. /\ 2 \in Nat /\ DOMAIN names = 1..2 /\ names = [k \in 1..2 |-> names[k]]
      /\ \A k \in 1..2 : names[k] \in {"size", "min_disk"}
      /\ \A j, k \in 1..2 : names[j] = names[k] => j = k
  OBVIOUS
<1>3. IsArray(labels) /\ 1 \in DOMAIN labels /\ labels[1] = i.id
  <2> HIDE DEF i
  <2> QED BY Labels
<1>4. collectImage(i) = Gauges(names, i, labels) \o Optional("created", i.created, labels) \o <<info>>
  BY DEF collectImage
<1>5. info.metric = "info" /\ info.labels = labels \o <<i.about>>
  BY DEF Gauge
<1> HIDE DEF i, names, labels, info
<1>6. Bears(labels, labels) /\ Bears(info.labels, labels)
  BY <1>3, <1>5, Behind
<1>7. /\ Own(Gauges(names, i, labels), {"size", "min_disk"}, labels)
      /\ Own(Optional("created", i.created, labels), {"created"}, labels)
      /\ Own(<<info>>, {"info"}, labels)
  BY <1>1, <1>2, <1>5, <1>6, OwnGauges, OwnOptional, OwnOne
<1>8. Own(collectImage(i), {"size", "min_disk"} \cup {"created"} \cup {"info"}, labels)
  BY <1>4, <1>7, OwnBoth
<1>9. QED
  BY <1>1, <1>3, <1>8, OwnIsMine DEF i

LEMMA ReservedIPApart ==
  ASSUME NEW r
  PROVE  Mine(collectReservedIP(newReservedIP(r)), r.id)
<1> DEFINE ip == newReservedIP(r)
           labels == <<ip.id, ip.region, ip.version>>
           a == Gauge("assigned", ip.assigned, labels)
           b == Gauge("info", 1, labels \o <<ip.droplet, ip.project>>)
<1>1. ip.id = r.id
  BY DEF newReservedIP
<1>2. IsArray(labels) /\ 1 \in DOMAIN labels /\ labels[1] = ip.id
  <2> HIDE DEF ip
  <2> QED BY Labels
<1>3. collectReservedIP(ip) = <<a, b>>
  BY DEF collectReservedIP
<1>4. /\ a.metric = "assigned" /\ a.labels = labels
      /\ b.metric = "info" /\ b.labels = labels \o <<ip.droplet, ip.project>>
  BY DEF Gauge
<1> HIDE DEF ip, labels, a, b
<1>5. Bears(a.labels, labels) /\ Bears(b.labels, labels)
  BY <1>2, <1>4, Behind
<1>6. Own(<<a, b>>, {"assigned", "info"}, labels)
  BY <1>4, <1>5, OwnTwo
<1>7. QED
  BY <1>1, <1>2, <1>3, <1>6, OwnIsMine DEF ip

LEMMA CertificateApart ==
  ASSUME NEW r, WellFormed("certificates", r)
  PROVE  Mine(collectCertificate(newCertificate(r)), r.id)
<1> DEFINE c == newCertificate(r)
           mark == <<c.id, c.name>>
           a == Gauge("info", 1, <<c.id, c.name, c.about>>)
           b == Gauge("dns_names", c.dns_names, <<c.id, c.name>>)
           labels == <<c.id, c.name, c.type>>
<1>1. c.id = r.id /\ AtMostOne(c.expiry)
  BY DEF newCertificate, WellFormed
<1>2. IsArray(mark) /\ 1 \in DOMAIN mark /\ mark[1] = c.id
  <2> HIDE DEF c
  <2> QED BY Labels
<1>3. collectCertificate(c) = <<a, b>> \o Optional("expiry", c.expiry, labels)
  BY DEF collectCertificate
<1>4. /\ a.metric = "info" /\ a.labels = mark \o <<c.about>>
      /\ b.metric = "dns_names" /\ b.labels = mark /\ labels = mark \o <<c.type>>
  BY DEF Gauge
<1> HIDE DEF c, mark, labels, a, b
<1>5. Bears(a.labels, mark) /\ Bears(b.labels, mark) /\ Bears(labels, mark)
  BY <1>2, <1>4, Behind
<1>6. Own(<<a, b>>, {"info", "dns_names"}, mark)
  BY <1>4, <1>5, OwnTwo
<1>7. Own(Optional("expiry", c.expiry, labels), {"expiry"}, mark)
  BY <1>1, <1>5, OwnOptional
<1>8. Own(collectCertificate(c), {"info", "dns_names"} \cup {"expiry"}, mark)
  BY <1>3, <1>6, <1>7, OwnBoth
<1>9. QED
  BY <1>1, <1>2, <1>8, OwnIsMine DEF c

LEMMA EndpointApart ==
  ASSUME NEW r
  PROVE  Mine(collectEndpoint(r), r.id)
<1> DEFINE mark == <<r.id, r.origin>>
           a == Gauge("ttl", r.ttl, <<r.id, r.origin>>)
           b == Gauge("info", 1, <<r.id, r.origin, r.about>>)
<1>1. IsArray(mark) /\ 1 \in DOMAIN mark /\ mark[1] = r.id
  BY Labels
<1>2. collectEndpoint(r) = <<a, b>>
  BY DEF collectEndpoint
<1>3. /\ a.metric = "ttl" /\ a.labels = mark
      /\ b.metric = "info" /\ b.labels = mark \o <<r.about>>
  BY DEF Gauge
<1> HIDE DEF mark, a, b
<1>4. Bears(a.labels, mark) /\ Bears(b.labels, mark)
  BY <1>1, <1>3, Behind
<1>5. Own(<<a, b>>, {"ttl", "info"}, mark)
  BY <1>3, <1>4, OwnTwo
<1>6. QED
  BY <1>1, <1>2, <1>5, OwnIsMine

LEMMA DomainApart ==
  ASSUME NEW r
  PROVE  Mine(collectDomain(r), r.id)
<1> DEFINE mark == <<r.id>>
           a == Gauge("ttl", r.ttl, mark)
<1>1. IsArray(mark) /\ 1 \in DOMAIN mark /\ mark[1] = r.id
  BY Labels
<1>2. collectDomain(r) = <<a>>
  BY DEF collectDomain
<1>3. a.metric = "ttl" /\ a.labels = mark
  BY DEF Gauge
<1> HIDE DEF mark, a
<1>4. Own(<<a>>, {"ttl"}, mark)
  BY <1>1, <1>3, Behind, OwnOne
<1>5. QED
  BY <1>1, <1>2, <1>4, OwnIsMine

(* One series for each part of a total, told apart by the part.              *)
LEMMA OwnParts ==
  ASSUME NEW metric, NEW counts, IsFiniteSet(DOMAIN counts), NEW mark, IsArray(mark)
  PROVE  LET parts == SetToSeq(DOMAIN counts)
         IN  Own([i \in DOMAIN parts |-> Gauge(metric, counts[parts[i]], mark \o <<parts[i]>>)], {metric}, mark)
<1> DEFINE parts == SetToSeq(DOMAIN counts)
           series == [i \in DOMAIN parts |-> Gauge(metric, counts[parts[i]], mark \o <<parts[i]>>)]
<1>1. IsArray(parts) /\ IsInjective(parts)
  BY SetToSeqLists
<1>2. series = [i \in DOMAIN parts |-> series[i]]
  OBVIOUS
<1>3. \A i \in DOMAIN parts : series[i].metric = metric /\ series[i].labels = mark \o <<parts[i]>>
  BY DEF Gauge
<1> HIDE DEF parts, series
<1>4. \A i, j \in DOMAIN parts : parts[i] = parts[j] => i = j
  BY <1>1 DEF IsInjective
<1>5. \A i \in DOMAIN parts : Bears(series[i].labels, mark \o <<parts[i]>>)
  BY <1>3 DEF Bears
<1>6. Own(series, {metric}, mark)
  BY <1>1, <1>2, <1>3, <1>4, <1>5, OwnKeyed
<1>7. QED
  BY <1>6 DEF series, parts

LEMMA TagApart ==
  ASSUME NEW r, KeptApart("tags", r)
  PROVE  Mine(collectTag(newTag(r)), r.id)
<1> DEFINE t == newTag(r)
           counts == t.counts
           mark == <<t.id>>
           parts == SetToSeq(DOMAIN counts)
<1>1. t.id = r.id /\ counts = Given(r.resources, << >>)
  BY DEF newTag
<1>2. IsFiniteSet(DOMAIN counts)
  <2>1. CASE r.resources = {}
    <3>1. DOMAIN counts = {}
      BY <1>1, <2>1 DEF Given
    <3>2. QED
      BY <3>1, FS_EmptySet
  <2>2. CASE r.resources # {}
    <3>1. counts = CHOOSE v \in r.resources : TRUE
      BY <1>1, <2>2 DEF Given
    <3>2. counts \in r.resources
      BY <2>2, <3>1
    <3>3. QED
      BY <3>2 DEF KeptApart
  <2>3. QED
    BY <2>1, <2>2
<1>3. IsArray(mark) /\ 1 \in DOMAIN mark /\ mark[1] = t.id
  <2> HIDE DEF t
  <2> QED BY Labels
<1>4. collectTag(t) = [i \in DOMAIN parts |-> Gauge("resources", counts[parts[i]], mark \o <<parts[i]>>)]
  <2>1. collectTag(t) = [i \in DOMAIN parts |-> Gauge("resources", counts[parts[i]], <<t.id, parts[i]>>)]
    BY DEF collectTag, Map
  <2> HIDE DEF parts, counts, t
  <2>2. ASSUME NEW i \in DOMAIN parts PROVE <<t.id, parts[i]>> = mark \o <<parts[i]>>
    OBVIOUS
  <2> HIDE DEF mark
  <2>3. QED
    BY <2>1, <2>2
<1> HIDE DEF t, counts, mark
<1>5. Own(collectTag(t), {"resources"}, mark)
  BY <1>2, <1>3, <1>4, OwnParts
<1>6. QED
  BY <1>1, <1>3, <1>5, OwnIsMine DEF t

(* An autoscale pool has one config or the other, and each figure once.      *)
LEMMA PoolApart ==
  ASSUME NEW r, WellFormed("dropletautoscale", r)
  PROVE  Mine(collectPool(r), r.id)
<1> DEFINE labels == <<r.id, r.name>>
           a == Gauge("info", 1, labels \o <<r.about>>)
           b == Gauge("active_instances", r.active_instances, labels)
           current(u) == <<Gauge("current_cpu", u.cpu, labels), Gauge("current_memory", u.memory, labels)>>
           used == SetToSeq(r.current)
           lists == [i \in DOMAIN used |-> current(used[i])]
           min == IF r.max > 0 THEN {r.min} ELSE {}
<1>1. AtMostOne(r.current)
  BY DEF WellFormed
<1>2. IsArray(labels) /\ 1 \in DOMAIN labels /\ labels[1] = r.id
  BY Labels
<1>3. collectPool(r) = <<a, b>> \o Optional("min", min, labels)
        \o Optional("max", Positive(r.max), labels)
        \o Optional("target", Positive(r.target), labels)
        \o Optional("target_cpu", Positive(r.target_cpu), labels)
        \o Optional("target_memory", Positive(r.target_memory), labels)
        \o FlattenSeq(lists)
  BY DEF collectPool, Map
<1>4. /\ a.metric = "info" /\ a.labels = labels \o <<r.about>>
      /\ b.metric = "active_instances" /\ b.labels = labels
  BY DEF Gauge
<1>5. AtMostOne(min) /\ \A n : AtMostOne(Positive(n))
  BY DEF AtMostOne, Positive
<1> HIDE DEF labels, a, b, min
<1>6. Bears(labels, labels) /\ Bears(a.labels, labels) /\ Bears(b.labels, labels)
  BY <1>2, <1>4, Behind
<1>7. /\ Own(Optional("min", min, labels), {"min"}, labels)
      /\ Own(Optional("max", Positive(r.max), labels), {"max"}, labels)
      /\ Own(Optional("target", Positive(r.target), labels), {"target"}, labels)
      /\ Own(Optional("target_cpu", Positive(r.target_cpu), labels), {"target_cpu"}, labels)
      /\ Own(Optional("target_memory", Positive(r.target_memory), labels), {"target_memory"}, labels)
  BY <1>5, <1>6, OwnOptional
<1>8. Own(FlattenSeq(lists), {"current_cpu", "current_memory"}, labels)
  <2>1. ASSUME NEW u PROVE Own(current(u), {"current_cpu", "current_memory"}, labels)
    <3> DEFINE x == Gauge("current_cpu", u.cpu, labels)
               y == Gauge("current_memory", u.memory, labels)
    <3>1. /\ x.metric = "current_cpu" /\ x.labels = labels
          /\ y.metric = "current_memory" /\ y.labels = labels
      BY DEF Gauge
    <3> HIDE DEF x, y
    <3>2. Own(<<x, y>>, {"current_cpu", "current_memory"}, labels)
      BY <1>6, <3>1, OwnTwo
    <3>3. QED
      BY <3>2 DEF x, y
  <2>2. lists = [i \in DOMAIN used |-> lists[i]] /\ \A i \in DOMAIN used : lists[i] = current(used[i])
    OBVIOUS
  <2> HIDE DEF lists, current
  <2>3. \A i \in DOMAIN used : Own(lists[i], {"current_cpu", "current_memory"}, labels)
    BY <2>1, <2>2
  <2>4. QED
    BY <1>1, <2>2, <2>3, OwnMaybe
<1>9. Own(<<a, b>>, {"info", "active_instances"}, labels)
  BY <1>4, <1>6, OwnTwo
<1> HIDE DEF lists
<1>10. Own(collectPool(r), {"info", "active_instances"} \cup {"min"} \cup {"max"} \cup {"target"}
             \cup {"target_cpu"} \cup {"target_memory"} \cup {"current_cpu", "current_memory"}, labels)
  <2> DEFINE one == <<a, b>> \o Optional("min", min, labels) \o Optional("max", Positive(r.max), labels)
             two == one \o Optional("target", Positive(r.target), labels)
                        \o Optional("target_cpu", Positive(r.target_cpu), labels)
  <2>1. Own(one, {"info", "active_instances"} \cup {"min"} \cup {"max"}, labels)
    BY <1>7, <1>9, OwnBoth
  <2> HIDE DEF one
  <2>2. Own(two, {"info", "active_instances"} \cup {"min"} \cup {"max"} \cup {"target"}
             \cup {"target_cpu"}, labels)
    BY <1>7, <2>1, OwnBoth
  <2>3. collectPool(r) = two \o Optional("target_memory", Positive(r.target_memory), labels)
                             \o FlattenSeq(lists)
    BY <1>3 DEF one
  <2> HIDE DEF two
  <2>4. QED
    BY <1>7, <1>8, <2>2, <2>3, OwnBoth
<1>11. QED
  BY <1>2, <1>10, OwnIsMine

(* The forwarding rules differ, by what the API keeps unique among them.     *)
LEMMA LoadBalancerApart ==
  ASSUME NEW r, WellFormed("loadbalancers", r), KeptApart("loadbalancers", r)
  PROVE  Mine(collectLoadBalancer(newLoadBalancer(r)), r.id)
<1> DEFINE lb == newLoadBalancer(r)
           labels == <<lb.id, lb.name, lb.ip>>
           healthCheck(h) == <<Gauge("health_check_info", 1, labels \o <<h.about>>)>>
                               \o Gauges(<<"interval", "timeout", "healthy", "unhealthy">>, h, labels)
           names == <<"status", "droplets", "size_units", "forwarding_rules">>
           figures == {"status", "droplets", "size_units", "forwarding_rules"}
           health == {"health_check_info", "interval", "timeout", "healthy", "unhealthy"}
           info == Gauge("info", 1, labels \o lb.about)
           allow == Gauge("firewall_rules", lb.allow, labels \o <<"allow">>)
           deny == Gauge("firewall_rules", lb.deny, labels \o <<"deny">>)
           rules == lb.rules
           ruled == [i \in DOMAIN rules |-> Gauge("forwarding_rule_info", 1, labels \o rules[i])]
           checks == SetToSeq(lb.health)
           lists == [i \in DOMAIN checks |-> healthCheck(checks[i])]
<1>1. /\ lb.id = r.id /\ rules = r.rules /\ lb.health = r.health
      /\ lb.about = <<regionSlug(r), r.about>>
  BY DEF newLoadBalancer
<1>2. /\ 4 \in Nat /\ DOMAIN names = 1..4 /\ names = [k \in 1..4 |-> names[k]]
      /\ \A k \in 1..4 : names[k] \in figures
      /\ \A j, k \in 1..4 : names[j] = names[k] => j = k
  OBVIOUS
<1>3. IsArray(labels) /\ 1 \in DOMAIN labels /\ labels[1] = lb.id
  <2> HIDE DEF lb
  <2> QED BY Labels
<1>4. collectLoadBalancer(lb) =
        Gauges(names, lb, labels) \o <<info, allow, deny>> \o ruled \o FlattenSeq(lists)
  BY DEF collectLoadBalancer, Map
<1>5. /\ info.metric = "info" /\ info.labels = labels \o <<regionSlug(r), r.about>>
      /\ allow.metric = "firewall_rules" /\ allow.labels = labels \o <<"allow">>
      /\ deny.metric = "firewall_rules" /\ deny.labels = labels \o <<"deny">>
  BY <1>1 DEF Gauge
<1>6. /\ ruled = [i \in DOMAIN rules |-> ruled[i]]
      /\ \A i \in DOMAIN rules : /\ ruled[i].metric = "forwarding_rule_info"
                                 /\ ruled[i].labels = labels \o rules[i]
  BY DEF Gauge
<1>7. AtMostOne(lb.health)
  <2> HIDE DEF lb
  <2> QED BY <1>1 DEF WellFormed
<1>8. lists = [i \in DOMAIN checks |-> lists[i]] /\ \A i \in DOMAIN checks : lists[i] = healthCheck(checks[i])
  OBVIOUS
<1>9. IsArray(rules) /\ IsInjective(rules) /\ \A rule \in ToSet(rules) : IsArray(rule)
  <2> HIDE DEF rules
  <2> QED BY <1>1 DEF WellFormed, KeptApart
<1> HIDE DEF lb, labels, names, info, allow, deny, rules, ruled, checks, lists
<1>10. /\ Bears(labels, labels) /\ Bears(info.labels, labels)
       /\ Bears(allow.labels, labels) /\ Bears(deny.labels, labels)
  BY <1>3, <1>5, Behind
<1>11. Own(ruled, {"forwarding_rule_info"}, labels)
  <2>1. \A i \in DOMAIN rules : IsArray(rules[i])
    BY <1>9 DEF ToSet
  <2>2. ASSUME NEW i \in DOMAIN rules PROVE Bears(ruled[i].labels, labels)
    <3> DEFINE rule == rules[i]
    <3>1. IsArray(rule) /\ ruled[i].labels = labels \o rule
      BY <1>6, <2>1
    <3> HIDE DEF rule
    <3>2. Bears(labels \o rule, labels)
      BY <1>3, <3>1, Marked
    <3>3. QED
      BY <3>1, <3>2
  <2>3. ASSUME NEW i \in DOMAIN rules, NEW j \in DOMAIN rules, i # j
        PROVE  ruled[i].labels # ruled[j].labels
    <3>1. rules[i] # rules[j]
      BY <1>9, <2>3 DEF IsInjective
    <3>2. labels \o rules[i] # labels \o rules[j]
      BY <1>3, <2>1, <3>1, SameStart
    <3>3. QED
      BY <1>6, <3>2
  <2>4. QED
    BY <1>6, <1>9, <2>2, <2>3, OwnEach
<1>12. Own(FlattenSeq(lists), health, labels)
  <2>1. ASSUME NEW h PROVE Own(healthCheck(h), health, labels)
    <3> DEFINE x == Gauge("health_check_info", 1, labels \o <<h.about>>)
               terms == <<"interval", "timeout", "healthy", "unhealthy">>
               termed == {"interval", "timeout", "healthy", "unhealthy"}
    <3>1. x.metric = "health_check_info" /\ x.labels = labels \o <<h.about>>
      BY DEF Gauge
    <3>2. /\ 4 \in Nat /\ DOMAIN terms = 1..4 /\ terms = [k \in 1..4 |-> terms[k]]
          /\ \A k \in 1..4 : terms[k] \in termed
          /\ \A j, k \in 1..4 : terms[j] = terms[k] => j = k
      OBVIOUS
    <3> HIDE DEF x, terms, termed
    <3>3. Bears(x.labels, labels)
      BY <1>3, <3>1, Behind
    <3>4. Own(<<x>>, {"health_check_info"}, labels)
      BY <3>1, <3>3, OwnOne
    <3>5. Own(Gauges(terms, h, labels), termed, labels)
      BY <1>10, <3>2, OwnGauges
    <3>6. {"health_check_info"} \cap termed = {} /\ {"health_check_info"} \cup termed = health
      BY DEF termed
    <3>7. Own(<<x>> \o Gauges(terms, h, labels), {"health_check_info"} \cup termed, labels)
      BY <3>4, <3>5, <3>6, OwnBoth
    <3>8. QED
      BY <3>6, <3>7 DEF x, terms
  <2> HIDE DEF healthCheck, health
  <2>2. \A i \in DOMAIN checks : Own(lists[i], health, labels)
    BY <1>8, <2>1
  <2>3. QED
    BY <1>7, <1>8, <2>2, OwnMaybe DEF checks
<1>13. Own(<<info, allow, deny>>, {"info", "firewall_rules"}, labels)
  <2>1. PICK list : list = <<info, allow, deny>>
    OBVIOUS
  <2>2. /\ 3 \in Nat /\ DOMAIN list = 1..3 /\ list = [k \in 1..3 |-> list[k]]
        /\ list[1] = info /\ list[2] = allow /\ list[3] = deny
    BY <2>1
  <2>3. IsArray(list) /\ ToSet(list) = {list[k] : k \in 1..3}
    BY <2>2, ListByNumber
  <2>4. allow.labels # deny.labels
    <3>1. PICK x : x = <<"allow">>
      OBVIOUS
    <3>2. PICK y : y = <<"deny">>
      OBVIOUS
    <3>3. IsArray(x) /\ IsArray(y) /\ x[1] # y[1]
      BY <3>1, <3>2, Tuples
    <3>4. labels \o x # labels \o y
      BY <1>3, <3>3, SameStart
    <3>5. QED
      BY <1>5, <3>1, <3>2, <3>4
  <2>5. info.metric # allow.metric /\ info.metric # deny.metric
    BY <1>5
  <2>6. Apart(list)
    BY <2>2, <2>4, <2>5 DEF Apart
  <2>7. \A s \in ToSet(list) : s.metric \in {"info", "firewall_rules"} /\ Bears(s.labels, labels)
    <3>1. ToSet(list) = {info, allow, deny}
      BY <2>2, <2>3
    <3>2. QED
      BY <1>5, <1>10, <3>1
  <2>8. Own(list, {"info", "firewall_rules"}, labels)
    BY <2>3, <2>6, <2>7 DEF Own
  <2>9. QED
    BY <2>1, <2>8
<1>14. Own(Gauges(names, lb, labels), figures, labels)
  <2> HIDE DEF figures
  <2> QED BY <1>2, <1>10, OwnGauges
<1>15. Own(collectLoadBalancer(lb),
           figures \cup {"info", "firewall_rules"} \cup {"forwarding_rule_info"} \cup health, labels)
  <2>1. Own(Gauges(names, lb, labels) \o <<info, allow, deny>> \o ruled,
            figures \cup {"info", "firewall_rules"} \cup {"forwarding_rule_info"}, labels)
    BY <1>11, <1>13, <1>14, OwnBoth
  <2> DEFINE most == Gauges(names, lb, labels) \o <<info, allow, deny>> \o ruled
             those == figures \cup {"info", "firewall_rules"} \cup {"forwarding_rule_info"}
  <2>2. those \cap health = {}
    OBVIOUS
  <2>3. Own(most, those, labels) /\ collectLoadBalancer(lb) = most \o FlattenSeq(lists)
    BY <1>4, <2>1
  <2> HIDE DEF most, those, health
  <2>4. Own(collectLoadBalancer(lb), those \cup health, labels)
    BY <1>12, <2>2, <2>3, OwnBoth
  <2>5. QED
    BY <2>4 DEF those
<1>16. QED
  BY <1>1, <1>3, <1>15, OwnIsMine DEF lb

(* Workloads of these sorts, each told apart by its name and its sort.       *)
Sorted(list, sorts) ==
  /\ IsArray(list) /\ \A i \in DOMAIN list : list[i][2] \in sorts
  /\ \A i, j \in DOMAIN list : list[i][1] = list[j][1] /\ list[i][2] = list[j][2] => i = j

(* Two lists of different sorts have no item in common.                      *)
LEMMA JoinedSorted ==
  ASSUME NEW a, NEW b, NEW A, NEW B, Sorted(a, A), Sorted(b, B), A \cap B = {}
  PROVE  Sorted(a \o b, A \cup B)
<1> DEFINE m == Len(a)
           n == Len(b)
           both == a \o b
<1>1. IsArray(both)
  BY JoinedArray DEF Sorted
<1>2. IsArray(a) /\ IsArray(b)
  BY DEF Sorted
<1>3. /\ m \in Nat /\ n \in Nat /\ DOMAIN a = 1..m /\ DOMAIN b = 1..n /\ DOMAIN both = 1..(m + n)
      /\ \A p \in 1..m : both[p] = a[p]
      /\ \A p \in 1..n : both[m + p] = b[p]
  BY <1>2, JoinedByNumber
<1> HIDE DEF m, n, both
<1>4. \A p \in 1..(m + n) : \/ p \in 1..m /\ both[p] = a[p]
                            \/ p - m \in 1..n /\ both[p] = b[p - m]
  <2>1. ASSUME NEW p \in 1..(m + n), p \notin 1..m PROVE p - m \in 1..n /\ both[p] = b[p - m]
    <3>1. p - m \in 1..n /\ p = m + (p - m)
      BY <1>3, <2>1
    <3>2. both[m + (p - m)] = b[p - m]
      BY <1>3, <3>1
    <3>3. QED
      BY <3>1, <3>2
  <2>2. QED
    BY <1>3, <2>1
<1>5. /\ \A p \in 1..m : a[p][2] \in A
      /\ \A p \in 1..n : b[p][2] \in B
      /\ \A p, q \in 1..m : a[p][1] = a[q][1] /\ a[p][2] = a[q][2] => p = q
      /\ \A p, q \in 1..n : b[p][1] = b[q][1] /\ b[p][2] = b[q][2] => p = q
  BY <1>3 DEF Sorted
<1>6. ASSUME NEW p \in 1..(m + n), NEW q \in 1..(m + n), both[p][1] = both[q][1], both[p][2] = both[q][2]
      PROVE  p = q
  <2>1. CASE p \in 1..m /\ q \in 1..m /\ both[p] = a[p] /\ both[q] = a[q]
    BY <1>5, <1>6, <2>1
  <2>2. CASE p - m \in 1..n /\ q - m \in 1..n /\ both[p] = b[p - m] /\ both[q] = b[q - m]
    <3>1. p - m = q - m
      BY <1>5, <1>6, <2>2
    <3>2. QED
      BY <1>3, <3>1
  <2>3. CASE p \in 1..m /\ q - m \in 1..n /\ both[p] = a[p] /\ both[q] = b[q - m]
    BY <1>5, <1>6, <2>3
  <2>4. CASE p - m \in 1..n /\ q \in 1..m /\ both[p] = b[p - m] /\ both[q] = a[q]
    BY <1>5, <1>6, <2>4
  <2>5. QED
    BY <1>4, <2>1, <2>2, <2>3, <2>4
<1>7. \A p \in 1..(m + n) : both[p][2] \in A \cup B
  BY <1>4, <1>5
<1>8. Sorted(both, A \cup B)
  BY <1>1, <1>3, <1>6, <1>7 DEF Sorted
<1>9. QED
  BY <1>8 DEF both

(* One list of workloads: the API keeps their names apart.                   *)
LEMMA WorkloadsSorted ==
  ASSUME NEW list, IsArray(list), Differ(list, "name"), NEW sort,
         NEW made, made = [i \in DOMAIN list |-> made[i]],
         \A i \in DOMAIN list : made[i][1] = list[i].name /\ made[i][2] = sort
  PROVE  Sorted(made, {sort})
<1>1. IsArray(made) /\ DOMAIN made = DOMAIN list
  BY MappedArray
<1>2. \A i, j \in DOMAIN list : list[i].name = list[j].name => i = j
  BY DEF Differ
<1>3. QED
  BY <1>1, <1>2 DEF Sorted

(* The components newApp keeps differ in name or in sort.                    *)
LEMMA ComponentsApart ==
  ASSUME NEW spec, IsArray(spec.services), IsArray(spec.workers), IsArray(spec.jobs),
         IsArray(spec.static_sites), Differ(spec.services, "name"), Differ(spec.workers, "name"),
         Differ(spec.jobs, "name"), Differ(spec.static_sites, "name")
  PROVE  Sorted(newComponents(spec), {"service", "worker", "job", "static_site"})
<1> DEFINE workload(sort, list) ==
             [i \in DOMAIN list |-> <<list[i].name, sort, list[i].size, list[i].instances>>]
           services == workload("service", spec.services)
           workers == workload("worker", spec.workers)
           jobs == workload("job", spec.jobs)
           sites == [i \in DOMAIN spec.static_sites |->
                       <<spec.static_sites[i].name, "static_site", "", 0>>]
<1>1. newComponents(spec) = services \o workers \o jobs \o sites
  BY DEF newComponents, Map
<1>2. ASSUME NEW sort, NEW list, IsArray(list), Differ(list, "name")
      PROVE  Sorted(workload(sort, list), {sort})
  <2> DEFINE made == workload(sort, list)
  <2>1. made = [i \in DOMAIN list |-> made[i]]
        /\ \A i \in DOMAIN list : made[i][1] = list[i].name /\ made[i][2] = sort
    OBVIOUS
  <2> HIDE DEF made
  <2>2. Sorted(made, {sort})
    BY <1>2, <2>1, WorkloadsSorted
  <2>3. QED
    BY <2>2 DEF made
<1>3. Sorted(sites, {"static_site"})
  <2> DEFINE list == spec.static_sites
  <2>1. sites = [i \in DOMAIN list |-> sites[i]]
        /\ \A i \in DOMAIN list : sites[i][1] = list[i].name /\ sites[i][2] = "static_site"
    OBVIOUS
  <2>2. IsArray(list) /\ Differ(list, "name")
    OBVIOUS
  <2> HIDE DEF sites, list
  <2>3. QED
    BY <2>1, <2>2, WorkloadsSorted
<1> HIDE DEF workload
<1>4. Sorted(services, {"service"}) /\ Sorted(workers, {"worker"}) /\ Sorted(jobs, {"job"})
  BY <1>2
<1> HIDE DEF services, workers, jobs, sites
<1>5. Sorted(services \o workers, {"service"} \cup {"worker"})
  BY <1>4, JoinedSorted
<1>6. Sorted(services \o workers \o jobs, {"service"} \cup {"worker"} \cup {"job"})
  BY <1>4, <1>5, JoinedSorted
<1>7. Sorted(services \o workers \o jobs \o sites,
             {"service"} \cup {"worker"} \cup {"job"} \cup {"static_site"})
  BY <1>3, <1>6, JoinedSorted
<1>8. {"service"} \cup {"worker"} \cup {"job"} \cup {"static_site"}
        = {"service", "worker", "job", "static_site"}
  OBVIOUS
<1>9. QED
  BY <1>1, <1>7, <1>8

(* The documented states of every one-hot metric have no repeat.             *)
LEMMA KnownApart ==
  /\ IsArray(knownPhases) /\ IsInjective(knownPhases)
  /\ IsArray(knownStatuses) /\ IsInjective(knownStatuses)
  /\ IsArray(knownNodeStates) /\ IsInjective(knownNodeStates)
  /\ IsArray(knownReplicaStatuses) /\ IsInjective(knownReplicaStatuses)
  /\ IsArray(knownRegionStatuses) /\ IsInjective(knownRegionStatuses)
<1>1. IsArray(knownPhases) /\ IsInjective(knownPhases)
  <2>1. PICK known : known = knownPhases
    OBVIOUS
  <2>2. /\ 8 \in Nat /\ DOMAIN known = 1..8 /\ known = [k \in 1..8 |-> known[k]]
        /\ \A j, k \in 1..8 : known[j] = known[k] => j = k
    BY <2>1 DEF knownPhases
  <2>3. QED
    BY <2>1, <2>2, ListByNumber DEF IsInjective
<1>2. IsArray(knownStatuses) /\ IsInjective(knownStatuses)
  <2>1. PICK known : known = knownStatuses
    OBVIOUS
  <2>2. /\ 3 \in Nat /\ DOMAIN known = 1..3 /\ known = [k \in 1..3 |-> known[k]]
        /\ \A j, k \in 1..3 : known[j] = known[k] => j = k
    BY <2>1 DEF knownStatuses
  <2>3. QED
    BY <2>1, <2>2, ListByNumber DEF IsInjective
<1>3. IsInjective(knownNodeStates)
  <2>1. PICK known : known = knownNodeStates
    OBVIOUS
  <2>2. DOMAIN known = 1..4 /\ \A j, k \in 1..4 : known[j] = known[k] => j = k
    BY <2>1 DEF knownNodeStates
  <2>3. QED
    BY <2>1, <2>2 DEF IsInjective
<1>4. IsInjective(knownReplicaStatuses)
  <2>1. PICK known : known = knownReplicaStatuses
    OBVIOUS
  <2>2. DOMAIN known = 1..5 /\ \A j, k \in 1..5 : known[j] = known[k] => j = k
    BY <2>1 DEF knownReplicaStatuses
  <2>3. QED
    BY <2>1, <2>2 DEF IsInjective
<1>5. IsInjective(knownRegionStatuses)
  <2>1. PICK known : known = knownRegionStatuses
    OBVIOUS
  <2>2. DOMAIN known = 1..3 /\ \A j, k \in 1..3 : known[j] = known[k] => j = k
    BY <2>1 DEF knownRegionStatuses
  <2>3. QED
    BY <2>1, <2>2 DEF IsInjective
<1>6. QED
  BY <1>1, <1>2, <1>3, <1>4, <1>5, StatesKnown

(* The phases of an app, and its components by name and sort.                *)
LEMMA AppApart ==
  ASSUME NEW r, WellFormed("apps", r), KeptApart("apps", r)
  PROVE  Mine(collectApp(newApp(r)), r.id)
<1> DEFINE a == newApp(r)
           spec == Given(r.spec, [name |-> "", region |-> "", services |-> << >>, workers |-> << >>,
                                  jobs |-> << >>, static_sites |-> << >>])
           region == IF regionSlug(r) = "" THEN spec.region ELSE regionSlug(r)
           labels == <<a.id, a.name>>
           x == Gauge("info", 1, labels \o a.about)
           y == Gauge("in_progress", a.in_progress, labels)
           active == Optional("last_active", a.last_active, labels)
           created == Optional("created", a.created, labels)
           phases == SetToSeq(a.phase)
           lists == [i \in DOMAIN phases |-> OneHot("phase", knownPhases, phases[i], <<a.id, a.name>>)]
           components == a.components
           instances == [i \in DOMAIN components |->
             Gauge("instances", components[i][4],
                   labels \o <<components[i][1], components[i][2], components[i][3]>>)]
<1>1. /\ a.id = r.id /\ a.about = <<r.about, region>> /\ a.phase = r.active
      /\ a.last_active = r.last_active /\ a.created = r.created /\ components = newComponents(spec)
  BY DEF newApp
<1>2. Sorted(components, {"service", "worker", "job", "static_site"})
  <2>1. CASE r.spec = {}
    <3>1. /\ spec.services = << >> /\ spec.workers = << >> /\ spec.jobs = << >>
          /\ spec.static_sites = << >>
      BY <2>1 DEF Given
    <3> HIDE DEF spec, a, components
    <3>2. PICK none : none = << >>
      OBVIOUS
    <3>3. IsArray(none) /\ Differ(none, "name")
      BY <3>2, NoItems DEF Differ
    <3>4. QED
      BY <1>1, <3>1, <3>2, <3>3, ComponentsApart
  <2>2. CASE r.spec # {}
    <3>1. spec \in r.spec
      <4>1. spec = CHOOSE v \in r.spec : TRUE
        BY <2>2 DEF Given
      <4>2. QED
        BY <2>2, <4>1
    <3> HIDE DEF spec, a, components
    <3>2. /\ IsArray(spec.services) /\ IsArray(spec.workers) /\ IsArray(spec.jobs)
          /\ IsArray(spec.static_sites)
      BY <3>1 DEF WellFormed
    <3>3. /\ Differ(spec.services, "name") /\ Differ(spec.workers, "name")
          /\ Differ(spec.jobs, "name") /\ Differ(spec.static_sites, "name")
      BY <3>1 DEF KeptApart
    <3>4. QED
      BY <1>1, <3>2, <3>3, ComponentsApart
  <2>3. QED
    BY <2>1, <2>2
<1>3. IsArray(labels) /\ 1 \in DOMAIN labels /\ labels[1] = a.id
  <2> HIDE DEF a
  <2> QED BY Labels
<1>4. collectApp(a) = <<x, y>> \o active \o created \o FlattenSeq(lists) \o instances
  BY DEF collectApp, collectPhases, Map
<1>5. /\ x.metric = "info" /\ x.labels = labels \o <<r.about, region>>
      /\ y.metric = "in_progress" /\ y.labels = labels
  BY <1>1 DEF Gauge
<1>6. AtMostOne(a.last_active) /\ AtMostOne(a.created) /\ AtMostOne(a.phase)
  <2> HIDE DEF a
  <2> QED BY <1>1 DEF WellFormed
<1>7. lists = [i \in DOMAIN phases |-> lists[i]]
      /\ \A i \in DOMAIN phases : lists[i] = OneHot("phase", knownPhases, phases[i], labels)
  OBVIOUS
<1>8. instances = [i \in DOMAIN components |-> instances[i]]
      /\ \A i \in DOMAIN components :
           /\ instances[i].metric = "instances"
           /\ instances[i].labels = labels \o <<components[i][1], components[i][2], components[i][3]>>
  BY DEF Gauge
<1> HIDE DEF a, labels, region, x, y, components, instances, lists
<1>9. Bears(labels, labels) /\ Bears(x.labels, labels) /\ Bears(y.labels, labels)
  BY <1>3, <1>5, Behind
<1>10. Own(instances, {"instances"}, labels)
  <2>1. ASSUME NEW i \in DOMAIN components PROVE Bears(instances[i].labels, labels)
    <3> DEFINE c == components[i][1]
               d == components[i][2]
               e == components[i][3]
    <3>1. instances[i].labels = labels \o <<c, d, e>>
      BY <1>8
    <3> HIDE DEF c, d, e
    <3>2. QED
      BY <1>3, <3>1, Behind
  <2>2. ASSUME NEW i \in DOMAIN components, NEW j \in DOMAIN components, i # j
        PROVE  instances[i].labels # instances[j].labels
    <3>1. PICK c : c = <<components[i][1], components[i][2], components[i][3]>>
      OBVIOUS
    <3>2. PICK d : d = <<components[j][1], components[j][2], components[j][3]>>
      OBVIOUS
    <3>3. /\ IsArray(c) /\ c[1] = components[i][1] /\ c[2] = components[i][2]
          /\ IsArray(d) /\ d[1] = components[j][1] /\ d[2] = components[j][2]
      BY <3>1, <3>2, Tuples
    <3>4. c # d
      BY <1>2, <2>2, <3>3 DEF Sorted
    <3>5. labels \o c # labels \o d
      BY <1>3, <3>3, <3>4, SameStart
    <3>6. QED
      BY <1>8, <3>1, <3>2, <3>5
  <2>3. IsArray(components)
    BY <1>2 DEF Sorted
  <2>4. QED
    BY <1>8, <2>1, <2>2, <2>3, OwnEach
<1>11. Own(FlattenSeq(lists), {"phase"}, labels)
  <2>1. ASSUME NEW i \in DOMAIN phases PROVE Own(lists[i], {"phase"}, labels)
    <3> DEFINE phase == phases[i]
    <3>1. lists[i] = OneHot("phase", knownPhases, phase, labels)
      BY <1>7
    <3> HIDE DEF phase, phases
    <3>2. QED
      BY <1>3, <3>1, KnownApart, OwnOneHot
  <2>2. QED
    BY <1>6, <1>7, <2>1, OwnMaybe
<1>12. /\ Own(<<x, y>>, {"info", "in_progress"}, labels)
       /\ Own(active, {"last_active"}, labels) /\ Own(created, {"created"}, labels)
  BY <1>5, <1>6, <1>9, OwnTwo, OwnOptional
<1> DEFINE phased == FlattenSeq(lists)
           three == <<x, y>> \o active \o created
<1>13. Own(three, {"info", "in_progress"} \cup {"last_active"} \cup {"created"}, labels)
  <2> HIDE DEF active, created
  <2> QED BY <1>12, OwnBoth
<1>14. collectApp(a) = three \o phased \o instances /\ Own(phased, {"phase"}, labels)
  BY <1>4, <1>11
<1> HIDE DEF active, created, three, phased
<1>15. Own(collectApp(a), {"info", "in_progress"} \cup {"last_active"} \cup {"created"}
                            \cup {"phase"} \cup {"instances"}, labels)
  BY <1>10, <1>13, <1>14, OwnBoth
<1>16. QED
  BY <1>1, <1>3, <1>15, OwnIsMine DEF a

(* The resources of a project are counted by type, each type once.           *)
LEMMA ProjectApart ==
  ASSUME NEW r, WellFormed("projects", r)
  PROVE  Mine(collectProject(newProject(r)), r.id)
<1> DEFINE p == newProject(r)
           mark == <<p.id, p.name>>
           x == Gauge("info", 1, <<p.id, p.name, p.about>>)
           types(counts) == SetToSeq(DOMAIN counts)
           collect(counts) == [i \in DOMAIN types(counts) |->
             Gauge("resources", counts[types(counts)[i]], <<p.id, p.name, types(counts)[i]>>)]
           list == SetToSeq(p.counts)
           lists == [i \in DOMAIN list |-> collect(list[i])]
<1>1. p.id = r.id /\ p.counts = {countResources(u) : u \in r.resources}
  BY DEF newProject
<1>2. x.metric = "info" /\ x.labels = mark \o <<p.about>>
  BY DEF Gauge
<1>3. collectProject(p) = <<x>> \o FlattenSeq(lists)
  BY DEF collectProject, Map
<1>4. IsArray(mark) /\ 1 \in DOMAIN mark /\ mark[1] = p.id
  <2> HIDE DEF p
  <2> QED BY Labels
<1> HIDE DEF p
<1>5. AtMostOne(p.counts) /\ \A counts \in p.counts : IsFiniteSet(DOMAIN counts)
  <2>1. AtMostOne(r.resources) /\ \A urns \in r.resources : IsArray(urns)
    BY DEF WellFormed
  <2>2. ASSUME NEW urns \in r.resources PROVE IsFiniteSet(DOMAIN countResources(urns))
    <3> DEFINE parts == [i \in DOMAIN urns |-> urnType(urns[i])]
    <3>1. parts = [i \in DOMAIN urns |-> parts[i]]
      OBVIOUS
    <3>2. countResources(urns) = Tally({}, parts)
      BY DEF countResources, Map
    <3> HIDE DEF parts
    <3>3. IsArray(parts)
      BY <2>1, <3>1, MappedArray
    <3>4. QED
      BY <3>2, <3>3, TallyIsFinite, FS_EmptySet
  <2>3. AtMostOne(p.counts)
    BY <1>1, <2>1 DEF AtMostOne
  <2>4. QED
    BY <1>1, <2>2, <2>3
<1>6. ASSUME NEW counts \in p.counts PROVE Own(collect(counts), {"resources"}, mark)
  <2> DEFINE parts == SetToSeq(DOMAIN counts)
             series == [i \in DOMAIN parts |-> Gauge("resources", counts[parts[i]], mark \o <<parts[i]>>)]
  <2>1. collect(counts) = series
    <3>1. \A t : <<p.id, p.name, t>> = mark \o <<t>>
      OBVIOUS
    <3> HIDE DEF mark
    <3>2. QED
      BY <3>1
  <2>2. IsFiniteSet(DOMAIN counts)
    BY <1>5
  <2> HIDE DEF mark, collect
  <2>3. Own(series, {"resources"}, mark)
    BY <1>4, <2>2, OwnParts
  <2>4. QED
    BY <2>1, <2>3
<1>7. ToSet(list) = p.counts
  BY <1>5, AtMostOneIsFinite, SetToSeqLists
<1>8. lists = [i \in DOMAIN list |-> lists[i]] /\ \A i \in DOMAIN list : lists[i] = collect(list[i])
  OBVIOUS
<1> HIDE DEF x, lists, collect, mark
<1>9. Own(FlattenSeq(lists), {"resources"}, mark)
  <2>1. \A i \in DOMAIN list : Own(lists[i], {"resources"}, mark)
    <3> HIDE DEF list
    <3> QED BY <1>6, <1>7, <1>8 DEF ToSet
  <2>2. QED
    BY <1>5, <1>8, <2>1, OwnMaybe
<1>10. Own(<<x>>, {"info"}, mark)
  <2>1. Bears(x.labels, mark)
    BY <1>2, <1>4, Behind
  <2>2. QED
    BY <1>2, <2>1, OwnOne
<1>11. Own(collectProject(p), {"info"} \cup {"resources"}, mark)
  BY <1>3, <1>9, <1>10, OwnBoth
<1>12. QED
  BY <1>1, <1>4, <1>11, OwnIsMine DEF p

(* The figures of a bucket, when it was measured.                            *)
LEMMA BucketApart ==
  ASSUME NEW b, WellFormed("spaces", b)
  PROVE  Mine(collectBucket(b), b.id)
<1> DEFINE labels == <<b.id, b.region>>
           names == <<"size", "objects">>
           up == Gauge("up", boolToFloat(b.up), labels)
           figures(s) == Gauges(names, s, labels)
           list == SetToSeq(b.stats)
           lists == [i \in DOMAIN list |-> figures(list[i])]
<1>1. AtMostOne(b.stats)
  BY DEF WellFormed
<1>2. /\ 2 \in Nat /\ DOMAIN names = 1..2 /\ names = [k \in 1..2 |-> names[k]]
      /\ \A k \in 1..2 : names[k] \in {"size", "objects"}
      /\ \A j, k \in 1..2 : names[j] = names[k] => j = k
  OBVIOUS
<1>3. IsArray(labels) /\ 1 \in DOMAIN labels /\ labels[1] = b.id
  BY Labels
<1>4. collectBucket(b) = <<up>> \o FlattenSeq(lists)
  BY DEF collectBucket, Map
<1>5. up.metric = "up" /\ up.labels = labels
  BY DEF Gauge
<1>6. lists = [i \in DOMAIN list |-> lists[i]] /\ \A i \in DOMAIN list : lists[i] = Gauges(names, list[i], labels)
  OBVIOUS
<1> HIDE DEF labels, names, up, lists
<1>7. Bears(labels, labels)
  BY <1>3, Behind
<1>8. Own(FlattenSeq(lists), {"size", "objects"}, labels)
  <2>1. ASSUME NEW i \in DOMAIN list PROVE Own(lists[i], {"size", "objects"}, labels)
    <3> DEFINE s == list[i]
    <3>1. lists[i] = Gauges(names, s, labels)
      BY <1>6
    <3> DEFINE those == {"size", "objects"}
    <3>2. \A k \in 1..2 : names[k] \in those
      BY <1>2
    <3> HIDE DEF s, list, those
    <3>3. Own(Gauges(names, s, labels), those, labels)
      BY <1>2, <1>7, <3>2, OwnGauges
    <3>4. QED
      BY <3>1, <3>3 DEF those
  <2>2. QED
    BY <1>1, <1>6, <2>1, OwnMaybe
<1>9. Own(<<up>>, {"up"}, labels)
  BY <1>5, <1>7, OwnOne
<1>10. Own(collectBucket(b), {"up"} \cup {"size", "objects"}, labels)
  BY <1>4, <1>8, <1>9, OwnBoth
<1>11. QED
  BY <1>3, <1>10, OwnIsMine

(* The series of the repositories of one registry, which the API tells apart *)
(* by their names.                                                           *)
LEMMA RepositoriesApart ==
  ASSUME NEW r, WellFormed("registry", r), KeptApart("registry", r)
  PROVE  Own(collectRepositories(r), {"tags", "manifests", "manifest_size", "last_push"}, <<r.id>>)
<1> DEFINE named == <<"tags", "manifests">>
           labels(q) == <<r.id, q.name>>
           figures(q) == Gauges(named, q, labels(q))
           size(q) == Optional("manifest_size", {m.size : m \in q.latest}, labels(q))
           push(q) == Optional("last_push", pushedAt(q), labels(q))
           collect(q) == figures(q) \o size(q) \o push(q)
           each(repositories) == [i \in DOMAIN repositories |-> collect(repositories[i])]
           collectAll(repositories) == FlattenSeq(each(repositories))
           list == SetToSeq(r.repositories)
           lists == [i \in DOMAIN list |-> collectAll(list[i])]
           mark == <<r.id>>
           metrics == {"tags", "manifests", "manifest_size", "last_push"}
<1>1. collectRepositories(r) = FlattenSeq(lists)
  BY DEF collectRepositories, Map
<1>2. /\ AtMostOne(r.repositories)
      /\ \A q \in r.repositories :
           /\ IsArray(q) /\ Differ(q, "name")
           /\ \A p \in ToSet(q) : AtMostOne(p.latest) /\ AtMostOne(pushedAt(p))
  BY DEF WellFormed, KeptApart
<1>3. IsArray(mark)
  BY Labels
<1>4. ASSUME NEW q, AtMostOne(q.latest), AtMostOne(pushedAt(q)) PROVE Own(collect(q), metrics, mark \o <<q.name>>)
  <2> DEFINE prefix == labels(q)
             figured == {"tags", "manifests"}
  <2>1. prefix = mark \o <<q.name>>
    OBVIOUS
  <2>2. IsArray(prefix) /\ Bears(prefix, prefix)
    <3>1. IsArray(prefix)
      BY Labels
    <3> HIDE DEF prefix
    <3>2. QED
      BY <3>1, Behind
  <2>3. Own(figures(q), figured, prefix)
    <3>1. /\ 2 \in Nat /\ DOMAIN named = 1..2 /\ named = [k \in 1..2 |-> named[k]]
          /\ \A k \in 1..2 : named[k] \in figured
          /\ \A j, k \in 1..2 : named[j] = named[k] => j = k
      OBVIOUS
    <3> HIDE DEF named, prefix, figured
    <3>2. Own(Gauges(named, q, prefix), figured, prefix)
      BY <2>2, <3>1, OwnGauges
    <3>3. QED
      BY <3>2 DEF prefix
  <2>4. AtMostOne({m.size : m \in q.latest})
    BY <1>4 DEF AtMostOne
  <2>5. Own(size(q), {"manifest_size"}, prefix) /\ Own(push(q), {"last_push"}, prefix)
    <3> HIDE DEF prefix
    <3> QED BY <1>4, <2>2, <2>4, OwnOptional DEF prefix
  <2> HIDE DEF figures, size, push, prefix, mark
  <2>6. Own(collect(q), figured \cup {"manifest_size"} \cup {"last_push"}, prefix)
    BY <2>3, <2>5, OwnBoth
  <2>7. figured \cup {"manifest_size"} \cup {"last_push"} = metrics
    OBVIOUS
  <2>8. QED
    BY <2>1, <2>6, <2>7
<1> HIDE DEF collect, metrics, mark
<1>5. ASSUME NEW repositories \in r.repositories PROVE Own(collectAll(repositories), metrics, mark)
  <2> DEFINE x == each(repositories)
             keys == [i \in DOMAIN repositories |-> repositories[i].name]
  <2>1. IsArray(repositories) /\ x = [i \in DOMAIN repositories |-> x[i]]
        /\ \A i \in DOMAIN repositories : x[i] = collect(repositories[i])
    BY <1>2
  <2>2. \A i, j \in DOMAIN repositories : keys[i] = keys[j] => i = j
    BY <1>2 DEF Differ
  <2>3. ASSUME NEW i \in DOMAIN repositories PROVE Own(x[i], metrics, mark \o <<keys[i]>>)
    <3> DEFINE q == repositories[i]
    <3>1. q \in ToSet(repositories)
      BY DEF ToSet
    <3>2. AtMostOne(q.latest) /\ AtMostOne(pushedAt(q)) /\ keys[i] = q.name /\ x[i] = collect(q)
      BY <1>2, <3>1
    <3> HIDE DEF q, keys, x
    <3>3. Own(collect(q), metrics, mark \o <<q.name>>)
      BY <1>4, <3>2
    <3>4. QED
      BY <3>2, <3>3
  <2> HIDE DEF x, keys
  <2>4. QED
    BY <1>3, <2>1, <2>2, <2>3, OwnFlatten DEF x
<1>6. ToSet(list) = r.repositories
  BY <1>2, AtMostOneIsFinite, SetToSeqLists
<1>7. lists = [i \in DOMAIN list |-> lists[i]] /\ \A i \in DOMAIN list : lists[i] = collectAll(list[i])
  OBVIOUS
<1> HIDE DEF lists, collectAll
<1>8. \A i \in DOMAIN list : Own(lists[i], metrics, mark)
  <2> HIDE DEF list
  <2> QED BY <1>5, <1>6, <1>7 DEF ToSet
<1>9. Own(FlattenSeq(lists), metrics, mark)
  BY <1>2, <1>7, <1>8, OwnMaybe
<1>10. QED
  BY <1>1, <1>9 DEF metrics, mark

(* Four series of different metrics.                                         *)
LEMMA OwnFour ==
  ASSUME NEW s, NEW t, NEW u, NEW v,
         NEW a, NEW b, NEW c, NEW d, a \notin {b, c, d}, b \notin {c, d}, c # d,
         s.metric = a, t.metric = b, u.metric = c, v.metric = d,
         NEW mark, Bears(s.labels, mark), Bears(t.labels, mark), Bears(u.labels, mark),
         Bears(v.labels, mark)
  PROVE  Own(<<s, t, u, v>>, {a, b, c, d}, mark)
<1> DEFINE x == <<s, t>>
           y == <<u, v>>
<1>1. <<s, t, u, v>> = x \o y
  OBVIOUS
<1>2. Own(x, {a, b}, mark) /\ Own(y, {c, d}, mark)
  BY OwnTwo
<1>3. {a, b} \cap {c, d} = {} /\ {a, b} \cup {c, d} = {a, b, c, d}
  OBVIOUS
<1> HIDE DEF x, y
<1>4. Own(x \o y, {a, b} \cup {c, d}, mark)
  BY <1>2, <1>3, OwnBoth
<1>5. QED
  BY <1>1, <1>3, <1>4

(* A registry, its quota, and its repositories by their names.               *)
LEMMA RegistryApart ==
  ASSUME NEW r, WellFormed("registry", r), KeptApart("registry", r)
  PROVE  Mine(collectRegistry(r) \o collectRepositories(r), r.id)
<1> DEFINE mark == <<r.id>>
           labels == <<r.id, r.region>>
           included(t) == Gauge("storage_included", t.storage, labels)
           bandwidth(t) == Gauge("bandwidth_included", t.bandwidth, labels)
           price(t) == Gauge("price", t.price, <<r.id, t.slug>>)
           info(t) == Gauge("info", 1, labels \o <<t.slug, t.name>>)
           quota(t) == <<included(t), bandwidth(t), price(t), info(t)>>
           usage == Gauge("storage_usage", r.usage, labels)
           updated == Optional("storage_updated", r.measured, labels)
           up == Gauge("up", boolToFloat(r.up), labels)
           counted == {Len(q) : q \in r.repositories}
           repositories == Optional("repositories", counted, mark)
           list == SetToSeq(r.tier)
           lists == [i \in DOMAIN list |-> quota(list[i])]
           tiers == {"storage_included", "bandwidth_included", "price", "info"}
<1>1. AtMostOne(r.measured) /\ AtMostOne(counted) /\ AtMostOne(r.tier)
  <2>1. AtMostOne(r.measured) /\ AtMostOne(r.repositories) /\ AtMostOne(r.tier)
    BY DEF WellFormed
  <2>2. QED
    BY <2>1 DEF AtMostOne
<1>2. IsArray(mark) /\ 1 \in DOMAIN mark /\ mark[1] = r.id
  BY Labels
<1>3. IsArray(labels)
  BY Labels
<1>4. collectRegistry(r) = <<usage>> \o updated \o <<up>> \o repositories \o FlattenSeq(lists)
  BY DEF collectRegistry, Map
<1>5. labels = mark \o <<r.region>>
  OBVIOUS
<1>6. /\ usage.metric = "storage_usage" /\ usage.labels = labels
      /\ up.metric = "up" /\ up.labels = labels
  BY DEF Gauge
<1>7. ASSUME NEW t
      PROVE  /\ included(t).metric = "storage_included" /\ included(t).labels = labels
             /\ bandwidth(t).metric = "bandwidth_included" /\ bandwidth(t).labels = labels
             /\ price(t).metric = "price" /\ price(t).labels = mark \o <<t.slug>>
             /\ info(t).metric = "info" /\ info(t).labels = labels \o <<t.slug, t.name>>
  <2>1. <<r.id, t.slug>> = mark \o <<t.slug>>
    OBVIOUS
  <2> HIDE DEF mark, labels
  <2>2. QED
    BY <2>1 DEF Gauge
<1>8. lists = [i \in DOMAIN list |-> lists[i]] /\ \A i \in DOMAIN list : lists[i] = quota(list[i])
  OBVIOUS
<1> HIDE DEF mark, labels, included, bandwidth, price, info, usage, up, lists
<1>9. Bears(mark, mark) /\ Bears(labels, mark)
  BY <1>2, <1>5, Behind
<1>10. ASSUME NEW t PROVE Own(quota(t), tiers, mark)
  <2> DEFINE slug == t.slug
             label == t.name
  <2>1. Bears(mark \o <<slug>>, mark)
    <3> HIDE DEF slug
    <3> QED BY <1>2, Behind
  <2>2. Bears(labels \o <<slug, label>>, mark)
    <3> DEFINE region == r.region
    <3>1. PICK one : one = <<region>>
      OBVIOUS
    <3>2. PICK two : two = <<slug, label>>
      OBVIOUS
    <3> HIDE DEF slug, label, region
    <3>3. IsArray(one) /\ IsArray(two)
      BY <3>1, <3>2, Tuples
    <3>4. labels = mark \o one
      BY <1>5, <3>1 DEF region
    <3>5. Bears(labels \o two, labels)
      BY <1>3, <3>3, Marked
    <3>6. QED
      BY <1>2, <3>2, <3>3, <3>4, <3>5, Marked
  <2>3. /\ Bears(included(t).labels, mark) /\ Bears(bandwidth(t).labels, mark)
        /\ Bears(price(t).labels, mark) /\ Bears(info(t).labels, mark)
    BY <1>7, <1>9, <2>1, <2>2
  <2> DEFINE s == included(t)
             u == bandwidth(t)
             v == price(t)
             w == info(t)
  <2>4. /\ s.metric = "storage_included" /\ u.metric = "bandwidth_included"
        /\ v.metric = "price" /\ w.metric = "info"
    BY <1>7
  <2>5. Bears(s.labels, mark) /\ Bears(u.labels, mark) /\ Bears(v.labels, mark) /\ Bears(w.labels, mark)
    BY <2>3
  <2> HIDE DEF s, u, v, w
  <2>6. Own(<<s, u, v, w>>, tiers, mark)
    BY <2>4, <2>5, OwnFour
  <2>7. QED
    BY <2>6 DEF s, u, v, w
<1> HIDE DEF quota, tiers, counted
<1>11. Own(FlattenSeq(lists), tiers, mark)
  <2>1. \A i \in DOMAIN list : Own(lists[i], tiers, mark)
    BY <1>8, <1>10
  <2>2. QED
    BY <1>1, <1>8, <2>1, OwnMaybe
<1>12. /\ Own(<<usage>>, {"storage_usage"}, mark) /\ Own(updated, {"storage_updated"}, mark)
       /\ Own(<<up>>, {"up"}, mark) /\ Own(repositories, {"repositories"}, mark)
  BY <1>1, <1>6, <1>9, OwnOne, OwnOptional
<1>13. Own(collectRepositories(r), {"tags", "manifests", "manifest_size", "last_push"}, mark)
  BY RepositoriesApart DEF mark
<1> DEFINE first == <<usage>> \o updated \o <<up>> \o repositories
           those == {"storage_usage"} \cup {"storage_updated"} \cup {"up"} \cup {"repositories"}
           held == {"tags", "manifests", "manifest_size", "last_push"}
<1>14. Own(first, those, mark)
  <2> HIDE DEF updated, repositories
  <2> QED BY <1>12, OwnBoth
<1>15. collectRegistry(r) = first \o FlattenSeq(lists)
  BY <1>4
<1>16. those \cap tiers = {} /\ (those \cup tiers) \cap held = {} /\ "count" \notin those \cup tiers \cup held
  BY DEF tiers
<1> HIDE DEF first, those, held
<1>17. Own(collectRegistry(r), those \cup tiers, mark)
  BY <1>11, <1>14, <1>15, <1>16, OwnBoth
<1>18. Own(collectRegistry(r) \o collectRepositories(r), those \cup tiers \cup held, mark)
  BY <1>13, <1>16, <1>17, OwnBoth DEF held
<1>19. QED
  BY <1>2, <1>16, <1>18, OwnIsMine

(* The series of what a lookup said of one database cluster; the API tells   *)
(* its replicas apart by their names.                                        *)
LEMMA DatabaseDetailsApart ==
  ASSUME NEW db, AtMostOne(db.details),
         \A d \in db.details : /\ IsArray(d.replicas) /\ Differ(d.replicas, "name")
                               /\ AtMostOne(d.last_backup)
  PROVE  Own(collectDatabaseDetails(db), {"replicas", "replica_status", "last_backup"}, <<db.id, db.name>>)
<1> DEFINE labels == <<db.id, db.name, db.region>>
           mark == <<db.id, db.name>>
           replica(r) == OneHot("replica_status", knownReplicaStatuses, r.status,
                                <<db.id, db.name, r.name, r.region>>)
           number(d) == Gauge("replicas", Len(d.replicas), labels)
           replicas(d) == [i \in DOMAIN d.replicas |-> replica(d.replicas[i])]
           backup(d) == Optional("last_backup", d.last_backup, labels)
           collect(d) == <<number(d)>> \o FlattenSeq(replicas(d)) \o backup(d)
           list == SetToSeq(db.details)
           lists == [i \in DOMAIN list |-> collect(list[i])]
           metrics == {"replicas", "replica_status", "last_backup"}
<1>1. collectDatabaseDetails(db) = FlattenSeq(lists)
  BY DEF collectDatabaseDetails, Map
<1>2. IsArray(mark)
  BY Labels
<1>3. labels = mark \o <<db.region>>
  OBVIOUS
<1>4. Bears(labels, mark)
  <2> DEFINE region == db.region
  <2>1. labels = mark \o <<region>>
    BY <1>3
  <2> HIDE DEF mark, labels, region
  <2>2. QED
    BY <1>2, <2>1, Behind
<1>5. ASSUME NEW r PROVE Own(replica(r), {"replica_status"}, mark \o <<r.name>>)
  <2> DEFINE prefix == <<db.id, db.name, r.name, r.region>>
             one == <<r.name>>
             two == <<r.region>>
             state == r.status
  <2>1. prefix = (mark \o one) \o two
    OBVIOUS
  <2>2. IsArray(one) /\ IsArray(two)
    BY Tuples
  <2>3. replica(r) = OneHot("replica_status", knownReplicaStatuses, state, prefix)
    OBVIOUS
  <2> HIDE DEF prefix, one, two, mark, replica, state
  <2>4. IsArray(mark \o one) /\ IsArray(prefix)
    BY <1>2, <2>1, <2>2, JoinedArray
  <2>5. Own(replica(r), {"replica_status"}, prefix)
    BY <2>3, <2>4, KnownApart, OwnOneHot
  <2>6. QED
    BY <2>1, <2>2, <2>4, <2>5, OwnLess DEF one
<1> HIDE DEF replica, mark, labels
<1>6. ASSUME NEW d \in db.details PROVE Own(collect(d), metrics, mark)
  <2> DEFINE x == number(d)
             members == d.replicas
             y == replicas(d)
             keys == [i \in DOMAIN members |-> members[i].name]
  <2>1. x.metric = "replicas" /\ x.labels = labels
    BY DEF Gauge
  <2>2. IsArray(members) /\ y = [i \in DOMAIN members |-> y[i]]
        /\ \A i \in DOMAIN members : y[i] = replica(members[i]) /\ keys[i] = members[i].name
    OBVIOUS
  <2>3. \A i, j \in DOMAIN members : keys[i] = keys[j] => i = j
    BY DEF Differ
  <2> HIDE DEF x, members, y, keys
  <2>4. Own(FlattenSeq(y), {"replica_status"}, mark)
    <3>1. ASSUME NEW i \in DOMAIN members PROVE Own(y[i], {"replica_status"}, mark \o <<keys[i]>>)
      BY <1>5, <2>2
    <3>2. QED
      BY <1>2, <2>2, <2>3, <3>1, OwnFlatten
  <2>5. Own(<<x>>, {"replicas"}, mark) /\ Own(backup(d), {"last_backup"}, mark)
    BY <1>4, <2>1, OwnOne, OwnOptional
  <2> DEFINE z == FlattenSeq(y)
             w == backup(d)
  <2>6. Own(z, {"replica_status"}, mark) /\ Own(w, {"last_backup"}, mark)
    BY <2>4, <2>5
  <2>7. collect(d) = <<x>> \o z \o w
    BY DEF x, y
  <2> HIDE DEF z, w
  <2>8. Own(collect(d), {"replicas"} \cup {"replica_status"} \cup {"last_backup"}, mark)
    BY <2>5, <2>6, <2>7, OwnBoth
  <2>9. {"replicas"} \cup {"replica_status"} \cup {"last_backup"} = metrics
    OBVIOUS
  <2>10. QED
    BY <2>8, <2>9
<1>7. ToSet(list) = db.details
  BY AtMostOneIsFinite, SetToSeqLists
<1>8. lists = [i \in DOMAIN list |-> lists[i]] /\ \A i \in DOMAIN list : lists[i] = collect(list[i])
  OBVIOUS
<1> HIDE DEF lists, collect, metrics
<1>9. \A i \in DOMAIN list : Own(lists[i], metrics, mark)
  <2> HIDE DEF list
  <2> QED BY <1>6, <1>7, <1>8 DEF ToSet
<1>10. Own(FlattenSeq(lists), metrics, mark)
  BY <1>8, <1>9, OwnMaybe
<1>11. QED
  BY <1>1, <1>10 DEF metrics, mark

(* A database cluster with what its lookups said of it.                      *)
LEMMA DatabaseApart ==
  ASSUME NEW r, WellFormed("databases", r), KeptApart("databases", r)
  PROVE  Mine(collectDatabaseCluster(newDatabaseCluster(r)), r.id)
<1> DEFINE db == newDatabaseCluster(r)
           mark == <<db.id, db.name>>
           labels == <<db.id, db.name, db.region>>
           longer == labels \o <<db.plan>>
           planned == <<"status", "nodes">>
           figured == <<"storage", "maintenance", "users", "logical", "storage_autoscale">>
           ones == {"status", "nodes"}
           others == {"storage", "maintenance", "users", "logical", "storage_autoscale"}
           detailed == {"replicas", "replica_status", "last_backup"}
           x == Gauges(planned, db, longer)
           y == Gauges(figured, db, labels)
           info == Gauge("info", 1, labels \o <<db.about>>)
<1>1. db.id = r.id /\ db.details = {lookedUp(d) : d \in r.details}
  BY DEF newDatabaseCluster
<1>2. /\ 2 \in Nat /\ DOMAIN planned = 1..2 /\ planned = [k \in 1..2 |-> planned[k]]
      /\ \A k \in 1..2 : planned[k] \in ones
      /\ \A j, k \in 1..2 : planned[j] = planned[k] => j = k
  OBVIOUS
<1>3. /\ 5 \in Nat /\ DOMAIN figured = 1..5 /\ figured = [k \in 1..5 |-> figured[k]]
      /\ \A k \in 1..5 : figured[k] \in others
      /\ \A j, k \in 1..5 : figured[j] = figured[k] => j = k
  OBVIOUS
<1>4. IsArray(mark) /\ 1 \in DOMAIN mark /\ mark[1] = db.id /\ IsArray(labels)
  <2> HIDE DEF db
  <2> QED BY Labels
<1>5. labels = mark \o <<db.region>>
  <2> HIDE DEF db
  <2> QED OBVIOUS
<1>6. collectDatabaseCluster(db) = x \o y \o <<info>> \o collectDatabaseDetails(db)
  BY DEF collectDatabaseCluster
<1>7. info.metric = "info" /\ info.labels = labels \o <<db.about>> /\ longer = labels \o <<db.plan>>
  BY DEF Gauge
<1> HIDE DEF db, labels, longer, planned, figured, info
<1>8. AtMostOne(db.details)
      /\ \A d \in db.details : /\ IsArray(d.replicas) /\ Differ(d.replicas, "name")
                               /\ AtMostOne(d.last_backup)
  <2>1. /\ AtMostOne(r.details)
        /\ \A d \in r.details : IsArray(d.replicas) /\ Differ(d.replicas, "name")
    BY DEF WellFormed, KeptApart
  <2>2. \A d : lookedUp(d).replicas = d.replicas /\ AtMostOne(lookedUp(d).last_backup)
    BY DEF lookedUp, AtMostOne
  <2>3. \A d \in db.details : \E e \in r.details : d = lookedUp(e)
    BY <1>1
  <2>4. AtMostOne(db.details)
    BY <2>1, <2>3 DEF AtMostOne
  <2>5. ASSUME NEW d \in db.details
        PROVE  IsArray(d.replicas) /\ Differ(d.replicas, "name") /\ AtMostOne(d.last_backup)
    <3>1. PICK e \in r.details : d = lookedUp(e)
      BY <2>3
    <3>2. d.replicas = e.replicas /\ AtMostOne(d.last_backup)
      BY <2>2, <3>1
    <3>3. QED
      BY <2>1, <3>2
  <2>6. QED
    BY <2>4, <2>5
<1>9. Own(collectDatabaseDetails(db), detailed, mark)
  BY <1>8, DatabaseDetailsApart DEF mark
<1> HIDE DEF mark
<1>10. Bears(labels, mark) /\ Bears(longer, labels) /\ Bears(info.labels, labels)
  BY <1>4, <1>5, <1>7, Behind
<1>11. Bears(longer, mark) /\ Bears(info.labels, mark)
  <2>1. PICK one : one = <<db.region>>
    OBVIOUS
  <2>2. IsArray(one)
    BY <2>1, Tuples
  <2>3. QED
    BY <1>4, <1>5, <1>10, <2>1, <2>2, Marked
<1> HIDE DEF ones, others, detailed
<1>12. Own(x, ones, mark) /\ Own(y, others, mark) /\ Own(<<info>>, {"info"}, mark)
  BY <1>2, <1>3, <1>7, <1>10, <1>11, OwnGauges, OwnOne
<1>13. /\ ones \cap others = {} /\ (ones \cup others) \cap {"info"} = {}
       /\ (ones \cup others \cup {"info"}) \cap detailed = {}
       /\ "count" \notin ones \cup others \cup {"info"} \cup detailed
  BY DEF ones, others, detailed
<1> HIDE DEF x, y
<1>14. Own(collectDatabaseCluster(db), ones \cup others \cup {"info"} \cup detailed, mark)
  BY <1>6, <1>9, <1>12, <1>13, OwnBoth
<1>15. QED
  BY <1>1, <1>4, <1>13, <1>14, OwnIsMine DEF db

(* The series of the state of one check; the API tells the regions it is     *)
(* made from apart.                                                          *)
LEMMA StateApart ==
  ASSUME NEW c, AtMostOne(c.state),
         \A s \in c.state : /\ IsArray(s.regions) /\ Differ(s.regions, "region")
                            /\ AtMostOne(s.outage) /\ \A o \in s.outage : AtMostOne(o.start)
  PROVE  Own(collectState(c), {"region_status", "ratio", "outage_start", "outage_duration"},
             <<c.id, c.name>>)
<1> DEFINE labels == <<c.id, c.name>>
           statuses(r) == OneHot("region_status", knownRegionStatuses, r.status, labels \o <<r.region>>)
           ratio(r) == Gauge("ratio", r.ratio, labels \o <<r.region>>)
           region(r) == statuses(r) \o <<ratio(r)>>
           start(o) == Optional("outage_start", o.start, labels \o <<o.region>>)
           duration(o) == Gauge("outage_duration", o.duration, labels \o <<o.region>>)
           outage(o) == start(o) \o <<duration(o)>>
           regions(s) == [i \in DOMAIN s.regions |-> region(s.regions[i])]
           outages(s) == [i \in DOMAIN SetToSeq(s.outage) |-> outage(SetToSeq(s.outage)[i])]
           collect(s) == FlattenSeq(regions(s)) \o FlattenSeq(outages(s))
           list == SetToSeq(c.state)
           lists == [i \in DOMAIN list |-> collect(list[i])]
           watched == {"region_status"} \cup {"ratio"}
           down == {"outage_start"} \cup {"outage_duration"}
<1>1. collectState(c) = FlattenSeq(lists)
  BY DEF collectState, Map
<1>2. IsArray(labels)
  BY Labels
<1>3. ASSUME NEW place PROVE IsArray(labels \o <<place>>) /\ Bears(labels \o <<place>>, labels \o <<place>>)
                             /\ Bears(labels \o <<place>>, labels)
  <2>1. PICK one : one = <<place>>
    OBVIOUS
  <2>2. IsArray(one)
    BY <2>1, Tuples
  <2> HIDE DEF labels
  <2>3. QED
    BY <1>2, <2>1, <2>2, Marked DEF Bears
<1> HIDE DEF labels
<1>4. ASSUME NEW r PROVE Own(region(r), watched, labels \o <<r.region>>)
  <2> DEFINE x == ratio(r)
             y == statuses(r)
             prefix == labels \o <<r.region>>
             state == r.status
  <2>1. x.metric = "ratio" /\ x.labels = prefix
    BY DEF Gauge
  <2>2. IsArray(prefix) /\ Bears(prefix, prefix)
    BY <1>3
  <2>3. y = OneHot("region_status", knownRegionStatuses, state, prefix)
    OBVIOUS
  <2>4. region(r) = y \o <<x>>
    OBVIOUS
  <2> HIDE DEF x, y, prefix, state, region
  <2>5. Own(y, {"region_status"}, prefix) /\ Own(<<x>>, {"ratio"}, prefix)
    BY <2>1, <2>2, <2>3, KnownApart, OwnOneHot, OwnOne
  <2>6. Own(region(r), watched, prefix)
    BY <2>4, <2>5, OwnBoth
  <2>7. QED
    BY <2>6 DEF prefix
<1>5. ASSUME NEW o, AtMostOne(o.start) PROVE Own(outage(o), down, labels)
  <2> DEFINE x == duration(o)
             y == start(o)
             prefix == labels \o <<o.region>>
  <2>1. x.metric = "outage_duration" /\ x.labels = prefix
    BY DEF Gauge
  <2>2. Bears(prefix, labels)
    BY <1>3
  <2>3. y = Optional("outage_start", o.start, prefix) /\ outage(o) = y \o <<x>>
    OBVIOUS
  <2> HIDE DEF x, y, prefix, outage
  <2>4. Own(y, {"outage_start"}, labels) /\ Own(<<x>>, {"outage_duration"}, labels)
    BY <1>5, <2>1, <2>2, <2>3, OwnOptional, OwnOne
  <2>5. QED
    BY <2>3, <2>4, OwnBoth
<1> HIDE DEF region, outage, watched, down
<1>6. ASSUME NEW s \in c.state PROVE Own(collect(s), watched \cup down, labels)
  <2> DEFINE here == s.regions
             there == s.outage
             x == regions(s)
             y == outages(s)
             keys == [i \in DOMAIN here |-> here[i].region]
  <2>1. IsArray(here) /\ AtMostOne(there) /\ \A o \in there : AtMostOne(o.start)
    OBVIOUS
  <2>2. \A i, j \in DOMAIN here : keys[i] = keys[j] => i = j
    BY DEF Differ
  <2>3. x = [i \in DOMAIN here |-> x[i]]
        /\ \A i \in DOMAIN here : x[i] = region(here[i]) /\ keys[i] = here[i].region
    OBVIOUS
  <2>4. y = [i \in DOMAIN SetToSeq(there) |-> y[i]]
        /\ \A i \in DOMAIN SetToSeq(there) : y[i] = outage(SetToSeq(there)[i])
    OBVIOUS
  <2> HIDE DEF here, there, x, y, keys
  <2>5. Own(FlattenSeq(x), watched, labels)
    <3>1. ASSUME NEW i \in DOMAIN here PROVE Own(x[i], watched, labels \o <<keys[i]>>)
      BY <1>4, <2>3
    <3>2. QED
      BY <1>2, <2>1, <2>2, <2>3, <3>1, OwnFlatten
  <2>6. Own(FlattenSeq(y), down, labels)
    <3>1. ToSet(SetToSeq(there)) = there
      BY <2>1, AtMostOneIsFinite, SetToSeqLists
    <3>2. \A i \in DOMAIN SetToSeq(there) : Own(y[i], down, labels)
      BY <1>5, <2>1, <2>4, <3>1 DEF ToSet
    <3>3. QED
      BY <2>1, <2>4, <3>2, OwnMaybe
  <2>7. watched \cap down = {}
    BY DEF watched, down
  <2>8. QED
    BY <2>5, <2>6, <2>7, OwnBoth DEF x, y
<1>7. ToSet(list) = c.state
  BY AtMostOneIsFinite, SetToSeqLists
<1>8. lists = [i \in DOMAIN list |-> lists[i]] /\ \A i \in DOMAIN list : lists[i] = collect(list[i])
  OBVIOUS
<1> DEFINE metrics == watched \cup down
<1> HIDE DEF lists, collect, metrics
<1>9. \A i \in DOMAIN list : Own(lists[i], metrics, labels)
  <2> HIDE DEF list
  <2> QED BY <1>6, <1>7, <1>8 DEF ToSet, metrics
<1>10. Own(FlattenSeq(lists), metrics, labels)
  BY <1>8, <1>9, OwnMaybe
<1>11. metrics = {"region_status", "ratio", "outage_start", "outage_duration"}
  BY DEF metrics, watched, down
<1>12. QED
  BY <1>1, <1>10, <1>11 DEF labels

(* A check with what its lookup said of it.                                  *)
LEMMA CheckApart ==
  ASSUME NEW r, WellFormed("uptime", r), KeptApart("uptime", r)
  PROVE  Mine(collectCheck(newCheck(r)), r.id)
<1> DEFINE c == newCheck(r)
           mark == <<c.id, c.name>>
           x == Gauge("info", 1, <<c.id, c.name, c.about>>)
           y == Gauge("up", c.up, <<c.id, c.name>>)
           stated == {"region_status", "ratio", "outage_start", "outage_duration"}
<1>1. c.id = r.id
      /\ c.state = {[regions |-> s.regions, outage |-> newOutage(s.outage)] : s \in r.state}
  BY DEF newCheck
<1>2. x.metric = "info" /\ x.labels = mark \o <<c.about>> /\ y.metric = "up" /\ y.labels = mark
  BY DEF Gauge
<1>3. collectCheck(c) = <<x, y>> \o collectState(c)
  BY DEF collectCheck
<1>4. IsArray(mark) /\ 1 \in DOMAIN mark /\ mark[1] = c.id
  <2> HIDE DEF c
  <2> QED BY Labels
<1> HIDE DEF c, x, y
<1>5. AtMostOne(c.state)
      /\ \A s \in c.state : /\ IsArray(s.regions) /\ Differ(s.regions, "region")
                            /\ AtMostOne(s.outage) /\ \A o \in s.outage : AtMostOne(o.start)
  <2>1. AtMostOne(r.state) /\ \A s \in r.state : /\ IsArray(s.regions) /\ AtMostOne(s.outage.start)
                                                /\ Differ(s.regions, "region")
    BY DEF WellFormed, KeptApart
  <2>2. \A o : AtMostOne(newOutage(o)) /\ \A p \in newOutage(o) : p = o
    BY DEF newOutage, AtMostOne
  <2>3. AtMostOne(c.state)
    BY <1>1, <2>1 DEF AtMostOne
  <2>4. ASSUME NEW s \in c.state
        PROVE  /\ IsArray(s.regions) /\ Differ(s.regions, "region")
               /\ AtMostOne(s.outage) /\ \A o \in s.outage : AtMostOne(o.start)
    <3>1. PICK t \in r.state : s = [regions |-> t.regions, outage |-> newOutage(t.outage)]
      BY <1>1
    <3>2. s.regions = t.regions /\ s.outage = newOutage(t.outage)
      BY <3>1
    <3>3. QED
      BY <2>1, <2>2, <3>2
  <2>5. QED
    BY <2>3, <2>4
<1>6. Own(collectState(c), stated, mark)
  BY <1>5, StateApart DEF mark
<1> HIDE DEF mark, stated
<1>7. Own(<<x, y>>, {"info", "up"}, mark)
  <2>1. Bears(x.labels, mark) /\ Bears(y.labels, mark)
    BY <1>2, <1>4, Behind
  <2>2. QED
    BY <1>2, <2>1, OwnTwo
<1>8. {"info", "up"} \cap stated = {} /\ "count" \notin {"info", "up"} \cup stated
  BY DEF stated
<1>9. Own(collectCheck(c), {"info", "up"} \cup stated, mark)
  BY <1>3, <1>6, <1>7, <1>8, OwnBoth
<1>10. QED
  BY <1>1, <1>4, <1>8, <1>9, OwnIsMine DEF c

(* A series of a part of a thing, told by the label behind the mark.         *)
LEMMA OwnKey ==
  ASSUME NEW list, NEW metrics, NEW mark, NEW more, IsArray(mark), IsArray(more), Len(more) > 0,
         Own(list, metrics, mark \o more), NEW key, key = more[1]
  PROVE  Own(list, metrics, mark \o <<key>>)
<1>1. PICK one : one = <<key>>
  OBVIOUS
<1>2. IsArray(one) /\ Len(one) = 1 /\ one[1] = key
  BY <1>1, Tuples
<1> DEFINE m == Len(mark)
           longer == mark \o one
<1>3. /\ m \in Nat /\ DOMAIN mark = 1..m /\ DOMAIN longer = 1..(m + 1)
      /\ \A p \in 1..m : longer[p] = mark[p]
      /\ \A p \in 1..1 : longer[m + p] = one[p]
  BY <1>2, JoinedByNumber
<1>4. ASSUME NEW labels, Bears(labels, mark \o more)
      PROVE  Bears(labels, longer)
  <2>1. Bears(labels, mark) /\ labels[m + 1] = key
    BY <1>4, Marked
  <2> HIDE DEF longer, m
  <2>2. longer[m + 1] = key
    BY <1>2, <1>3
  <2>3. \A p \in 1..m : labels[p] = longer[p]
    BY <1>3, <2>1 DEF Bears
  <2>4. \A p \in 1..(m + 1) : p \in 1..m \/ p = m + 1
    BY <1>3
  <2>5. QED
    BY <1>3, <2>1, <2>2, <2>3, <2>4 DEF Bears
<1>5. Own(list, metrics, longer)
  BY <1>4 DEF Own
<1>6. QED
  BY <1>1, <1>5

(* newPool keeps the ids of a pool's nodes, which the API tells apart by.    *)
LEMMA MembersApart ==
  ASSUME NEW p, IsArray(p.members), \A n \in ToSet(p.members) : AtMostOne(n),
         \A i, j \in DOMAIN p.members :
           \A n \in p.members[i], m \in p.members[j] : n.id = m.id => i = j
  PROVE  Differ(newPool(p).members, "id")
<1> DEFINE list == p.members
           lists == [i \in DOMAIN list |-> SetToSeq(list[i])]
           nodes == FlattenSeq(lists)
           node(n) == [id |-> n.id, name |-> n.name, droplet |-> n.droplet, state |-> Given(n.state, "")]
           members == [i \in DOMAIN nodes |-> node(nodes[i])]
<1>1. IsArray(lists) /\ DOMAIN lists = DOMAIN list
  <2>1. lists = [i \in DOMAIN list |-> lists[i]]
    OBVIOUS
  <2> HIDE DEF lists
  <2>2. QED
    BY <2>1, MappedArray
<1>2. ASSUME NEW i \in DOMAIN list
      PROVE  /\ IsArray(lists[i]) /\ IsInjective(lists[i]) /\ ToSet(lists[i]) = list[i]
             /\ AtMostOne(list[i])
  <2>1. AtMostOne(list[i])
    BY DEF ToSet
  <2>2. QED
    BY <2>1, AtMostOneIsFinite, SetToSeqLists
<1> HIDE DEF lists
<1>3. \A i, j \in DOMAIN lists : i # j => ToSet(lists[i]) \cap ToSet(lists[j]) = {}
  <2>1. \A i, j \in DOMAIN list : \A n \in list[i] : n \in list[j] => i = j
    OBVIOUS
  <2> HIDE DEF list
  <2>2. QED
    BY <1>1, <1>2, <2>1
<1>4. IsArray(nodes) /\ ToSet(nodes) = UNION {ToSet(lists[k]) : k \in DOMAIN lists}
  BY <1>1, <1>2, FlattenLists
<1>5. IsInjective(nodes)
  BY <1>1, <1>2, <1>3, FlattenDistinct
<1> HIDE DEF nodes
<1>6. ASSUME NEW i \in DOMAIN nodes, NEW j \in DOMAIN nodes, nodes[i].id = nodes[j].id
      PROVE  i = j
  <2>1. nodes[i] \in ToSet(nodes) /\ nodes[j] \in ToSet(nodes)
    BY DEF ToSet
  <2>2. PICK a \in DOMAIN lists : nodes[i] \in ToSet(lists[a])
    BY <1>4, <2>1
  <2>3. PICK b \in DOMAIN lists : nodes[j] \in ToSet(lists[b])
    BY <1>4, <2>1
  <2>4. a \in DOMAIN list /\ b \in DOMAIN list /\ nodes[i] \in list[a] /\ nodes[j] \in list[b]
    BY <1>1, <1>2, <2>2, <2>3
  <2>5. a = b
    BY <1>6, <2>4
  <2>6. nodes[i] = nodes[j]
    BY <1>2, <2>4, <2>5 DEF AtMostOne
  <2>7. QED
    BY <1>5, <2>6 DEF IsInjective
<1>7. members = newPool(p).members
  BY DEF newPool, Map, nodes, lists
<1>8. DOMAIN members = DOMAIN nodes /\ \A i \in DOMAIN nodes : members[i].id = nodes[i].id
  OBVIOUS
<1> HIDE DEF members
<1>9. Differ(members, "id")
  BY <1>6, <1>8 DEF Differ
<1>10. QED
  BY <1>7, <1>9

(* The states of one node.                                                   *)
LEMMA NodeApart ==
  ASSUME NEW labels, IsArray(labels), NEW n
  PROVE  Own(collectNode(labels, n), {"node_state"} \cup {"node_info"}, labels \o <<n.id>>)
<1> DEFINE id == n.id
           name == n.name
           droplet == n.droplet
           two == <<id, name>>
           three == <<id, name, droplet>>
           prefix == labels \o two
           state == n.state
           x == Gauge("node_info", 1, labels \o three)
           states == OneHot("node_state", knownNodeStates, state, prefix)
<1>1. collectNode(labels, n) = states \o <<x>>
  BY DEF collectNode
<1>2. x.metric = "node_info" /\ x.labels = labels \o three
  BY DEF Gauge
<1>3. /\ IsArray(two) /\ Len(two) > 0 /\ two[1] = id
      /\ IsArray(three) /\ Len(three) > 0 /\ three[1] = id
  <2> HIDE DEF id, name, droplet
  <2>1. PICK s : s = <<id, name>>
    OBVIOUS
  <2>2. PICK t : t = <<id, name, droplet>>
    OBVIOUS
  <2>3. IsArray(s) /\ Len(s) = 2 /\ s[1] = id
    BY <2>1, Tuples
  <2>4. IsArray(t) /\ Len(t) = 3 /\ t[1] = id
    BY <2>2, Tuples
  <2>5. s = two /\ t = three
    BY <2>1, <2>2
  <2> HIDE DEF two, three
  <2>6. QED
    BY <2>3, <2>4, <2>5
<1>4. states = OneHot("node_state", knownNodeStates, state, prefix)
  OBVIOUS
<1> HIDE DEF x, two, three, state, states
<1>5. IsArray(prefix) /\ IsArray(labels \o three)
  BY <1>3, JoinedArray
<1>6. Own(states, {"node_state"}, prefix)
  <2> HIDE DEF prefix
  <2> QED BY <1>4, <1>5, KnownApart, OwnOneHot
<1>7. Own(<<x>>, {"node_info"}, labels \o three)
  <2> DEFINE mark == labels \o three
  <2>1. x.labels = mark
    BY <1>2
  <2> HIDE DEF mark
  <2>2. Bears(x.labels, mark)
    BY <2>1 DEF Bears
  <2>3. Own(<<x>>, {"node_info"}, mark)
    BY <1>2, <2>2, OwnOne
  <2>4. QED
    BY <2>3 DEF mark
<1> DEFINE y == <<x>>
<1>8. Own(y, {"node_info"}, labels \o three) /\ collectNode(labels, n) = states \o y
  BY <1>1, <1>7
<1> HIDE DEF id, y
<1>9. Own(states, {"node_state"}, labels \o <<id>>)
  BY <1>3, <1>6, OwnKey
<1>10. Own(y, {"node_info"}, labels \o <<id>>)
  BY <1>3, <1>8, OwnKey
<1> DEFINE mark == labels \o <<id>>
<1>11. Own(states, {"node_state"}, mark) /\ Own(y, {"node_info"}, mark)
  BY <1>9, <1>10
<1> HIDE DEF mark
<1>12. Own(collectNode(labels, n), {"node_state"} \cup {"node_info"}, mark)
  BY <1>8, <1>11, OwnBoth
<1>13. QED
  BY <1>12 DEF mark, id

(* The series of one node pool and of its nodes.                             *)
LEMMA NodePoolApart ==
  ASSUME NEW labels, IsArray(labels), NEW p, IsArray(p.members), Differ(p.members, "id"),
         NEW three, p.identity = three, NEW two, SubSeq(three, 1, 2) = two, NEW a,
         IsArray(three), Len(three) > 0, three[1] = a, IsArray(two), Len(two) > 0, two[1] = a
  PROVE  Own(Gauges(<<"nodes", "running", "autoscale", "min", "max">>, p, labels \o p.identity)
               \o FlattenSeq([i \in DOMAIN p.members |->
                               collectNode(labels \o SubSeq(p.identity, 1, 2), p.members[i])]),
             {"nodes", "running", "autoscale", "min", "max", "node_state", "node_info"}, labels \o <<a>>)
<1> DEFINE named == <<"nodes", "running", "autoscale", "min", "max">>
           figured == {"nodes", "running", "autoscale", "min", "max"}
           noded == {"node_state"} \cup {"node_info"}
           members == p.members
           below == labels \o two
           nodes == [i \in DOMAIN members |-> collectNode(below, members[i])]
           keys == [i \in DOMAIN members |-> members[i].id]
           mark == labels \o <<a>>
<1>1. /\ 5 \in Nat /\ DOMAIN named = 1..5 /\ named = [k \in 1..5 |-> named[k]]
      /\ \A k \in 1..5 : named[k] \in figured
      /\ \A j, k \in 1..5 : named[j] = named[k] => j = k
  OBVIOUS
<1>3. [i \in DOMAIN p.members |-> collectNode(labels \o SubSeq(p.identity, 1, 2), p.members[i])] = nodes
  OBVIOUS
<1>5. IsArray(members) /\ \A i, j \in DOMAIN members : keys[i] = keys[j] => i = j
  BY DEF Differ
<1>6. nodes = [i \in DOMAIN members |-> nodes[i]]
      /\ \A i \in DOMAIN members : nodes[i] = collectNode(below, members[i]) /\ keys[i] = members[i].id
  OBVIOUS
<1> HIDE DEF named, members, nodes, keys
<1>7. IsArray(below)
  BY JoinedArray
<1>8. Own(FlattenSeq(nodes), noded, below)
  <2>1. ASSUME NEW i \in DOMAIN members PROVE Own(nodes[i], noded, below \o <<keys[i]>>)
    <3> DEFINE n == members[i]
    <3>1. nodes[i] = collectNode(below, n) /\ keys[i] = n.id
      BY <1>6
    <3> HIDE DEF n, below, noded
    <3>2. Own(collectNode(below, n), noded, below \o <<n.id>>)
      BY <1>7, NodeApart DEF noded
    <3>3. QED
      BY <3>1, <3>2
  <2> HIDE DEF below, noded
  <2>2. QED
    BY <1>5, <1>6, <1>7, <2>1, OwnFlatten
<1>9. Own(FlattenSeq(nodes), noded, mark)
  <2> DEFINE list == FlattenSeq(nodes)
  <2>1. Own(list, noded, labels \o two)
    BY <1>8
  <2> HIDE DEF list, noded
  <2>2. Own(list, noded, labels \o <<a>>)
    BY <2>1, OwnKey
  <2>3. QED
    BY <2>2 DEF list
<1> DEFINE figures == Gauges(named, p, labels \o three)
<1>10. Own(figures, figured, mark)
  <2> DEFINE prefix == labels \o three
  <2>1. IsArray(prefix)
    BY JoinedArray
  <2> HIDE DEF prefix, figured
  <2>2. Bears(prefix, prefix)
    BY DEF Bears
  <2>3. Own(Gauges(named, p, prefix), figured, prefix)
    BY <1>1, <2>2, OwnGauges
  <2> HIDE DEF figures
  <2>4. Own(figures, figured, labels \o three)
    BY <2>3 DEF figures, prefix
  <2>5. Own(figures, figured, labels \o <<a>>)
    BY <2>4, OwnKey
  <2>6. QED
    BY <2>5
<1>11. figured \cap noded = {}
       /\ figured \cup noded = {"nodes", "running", "autoscale", "min", "max", "node_state", "node_info"}
  OBVIOUS
<1> HIDE DEF figures, figured, noded, mark
<1>12. Own(figures \o FlattenSeq(nodes), figured \cup noded, mark)
  BY <1>9, <1>10, <1>11, OwnBoth
<1>13. QED
  BY <1>3, <1>11, <1>12 DEF figures, named, mark

(* The first two labels of a tuple.                                          *)
LEMMA FirstTwo ==
  ASSUME NEW a, NEW b, NEW c
  PROVE  SubSeq(<<a, b, c>>, 1, 2) = <<a, b>>
<1> DEFINE S == {a, b, c}
<1>1. PICK t : t = <<a, b, c>>
  OBVIOUS
<1>2. t \in Seq(S) /\ Len(t) = 3 /\ t[1] = a /\ t[2] = b
  BY <1>1
<1> HIDE DEF S
<1> DEFINE u == SubSeq(t, 1, 2)
<1>3. u = [i \in 1..2 |-> t[i]]
  BY <1>2
<1> HIDE DEF u
<1>4. DOMAIN u = 1..2 /\ u[1] = a /\ u[2] = b /\ u = [i \in 1..2 |-> u[i]]
  BY <1>2, <1>3
<1>5. u = <<a, b>>
  BY <1>4
<1>6. QED
  BY <1>1, <1>5 DEF u

(* The series of the pools of one cluster, which the API tells apart by id.  *)
LEMMA PoolsApart ==
  ASSUME NEW k, IsArray(k.pools),
         \A p \in ToSet(k.pools) : /\ IsArray(p.members) /\ Differ(p.members, "id")
                                   /\ \E a, b, c : p.identity = <<a, b, c>>,
         \A i, j \in DOMAIN k.pools : k.pools[i].identity[1] = k.pools[j].identity[1] => i = j
  PROVE  Own(collectPools(k),
             {"nodes", "running", "autoscale", "min", "max", "node_state", "node_info"}, <<k.id, k.name>>)
<1> DEFINE labels == <<k.id, k.name>>
           named == <<"nodes", "running", "autoscale", "min", "max">>
           metrics == {"nodes", "running", "autoscale", "min", "max", "node_state", "node_info"}
           node(p) == [i \in DOMAIN p.members |->
                         collectNode(<<k.id, k.name>> \o SubSeq(p.identity, 1, 2), p.members[i])]
           figures(p) == Gauges(named, p, <<k.id, k.name>> \o p.identity)
           collect(p) == figures(p) \o FlattenSeq(node(p))
           list == k.pools
           lists == [i \in DOMAIN list |-> collect(list[i])]
           keys == [i \in DOMAIN list |-> list[i].identity[1]]
<1>1. collectPools(k) = FlattenSeq(lists)
  BY DEF collectPools, Map
<1>2. IsArray(labels)
  BY Labels
<1>3. \A p : collect(p) = Gauges(named, p, labels \o p.identity)
        \o FlattenSeq([i \in DOMAIN p.members |->
                         collectNode(labels \o SubSeq(p.identity, 1, 2), p.members[i])])
  OBVIOUS
<1>4. /\ IsArray(list) /\ lists = [i \in DOMAIN list |-> lists[i]]
      /\ \A i \in DOMAIN list : lists[i] = collect(list[i]) /\ keys[i] = list[i].identity[1]
  OBVIOUS
<1>5. \A i, j \in DOMAIN list : keys[i] = keys[j] => i = j
  OBVIOUS
<1> HIDE DEF labels, metrics, collect, lists, keys
<1>6. ASSUME NEW p \in ToSet(list) PROVE Own(collect(p), metrics, labels \o <<p.identity[1]>>)
  <2>1. PICK a, b, c : p.identity = <<a, b, c>>
    OBVIOUS
  <2>2. PICK three : three = <<a, b, c>>
    OBVIOUS
  <2>3. PICK two : two = <<a, b>>
    OBVIOUS
  <2>4. p.identity = three /\ SubSeq(three, 1, 2) = two
    BY <2>1, <2>2, <2>3, FirstTwo
  <2>5. /\ IsArray(three) /\ Len(three) = 3 /\ three[1] = a
        /\ IsArray(two) /\ Len(two) = 2 /\ two[1] = a
    BY <2>2, <2>3, Tuples
  <2>6. Len(three) > 0 /\ Len(two) > 0 /\ p.identity[1] = a
    BY <2>4, <2>5
  <2>7. IsArray(p.members) /\ Differ(p.members, "id")
    OBVIOUS
  <2> HIDE DEF list
  <2>8. Own(collect(p), metrics, labels \o <<a>>)
    BY <1>2, <1>3, <2>4, <2>5, <2>6, <2>7, NodePoolApart DEF metrics
  <2>9. QED
    BY <2>6, <2>8
<1> HIDE DEF list
<1>7. ASSUME NEW i \in DOMAIN list PROVE Own(lists[i], metrics, labels \o <<keys[i]>>)
  <2> DEFINE p == list[i]
  <2>1. p \in ToSet(list) /\ lists[i] = collect(p) /\ keys[i] = p.identity[1]
    BY <1>4 DEF ToSet
  <2> HIDE DEF p
  <2>2. QED
    BY <1>6, <2>1
<1>8. Own(FlattenSeq(lists), metrics, labels)
  BY <1>2, <1>4, <1>5, <1>7, OwnFlatten
<1>9. QED
  BY <1>1, <1>8 DEF metrics, labels

(* The versions a cluster can be upgraded to differ.                         *)
LEMMA UpgradesApart ==
  ASSUME NEW k, AtMostOne(k.upgrades), \A versions \in k.upgrades : IsArray(versions) /\ IsInjective(versions)
  PROVE  Own(collectUpgrades(k), {"upgrade_available", "available_version"}, <<k.id, k.name>>)
<1> DEFINE mark == <<k.id, k.name>>
           newer(versions) == Gauge("upgrade_available", boolToFloat(versions # << >>), <<k.id, k.name>>)
           each(versions) == [i \in DOMAIN versions |->
                                Gauge("available_version", 1, <<k.id, k.name, versions[i]>>)]
           collect(versions) == <<newer(versions)>> \o each(versions)
           list == SetToSeq(k.upgrades)
           lists == [i \in DOMAIN list |-> collect(list[i])]
           metrics == {"upgrade_available"} \cup {"available_version"}
<1>1. collectUpgrades(k) = FlattenSeq(lists)
  BY DEF collectUpgrades, Map
<1>2. IsArray(mark) /\ Bears(mark, mark)
  <2>1. IsArray(mark)
    BY Labels
  <2>2. QED
    BY <2>1 DEF Bears
<1>3. \A v : <<k.id, k.name, v>> = mark \o <<v>>
  OBVIOUS
<1>4. ASSUME NEW versions \in k.upgrades PROVE Own(collect(versions), metrics, mark)
  <2> DEFINE x == newer(versions)
             y == each(versions)
  <2>1. x.metric = "upgrade_available" /\ x.labels = mark
    BY DEF Gauge
  <2>2. y = [i \in DOMAIN versions |-> y[i]]
        /\ \A i \in DOMAIN versions : y[i].metric = "available_version" /\ y[i].labels = <<k.id, k.name, versions[i]>>
    BY DEF Gauge
  <2> HIDE DEF x, y, mark
  <2>3. Own(<<x>>, {"upgrade_available"}, mark)
    BY <1>2, <2>1, OwnOne
  <2>4. Own(y, {"available_version"}, mark)
    <3>1. IsArray(versions) /\ \A i, j \in DOMAIN versions : versions[i] = versions[j] => i = j
      BY DEF IsInjective
    <3>2. \A i \in DOMAIN versions : Bears(y[i].labels, mark \o <<versions[i]>>)
      BY <1>3, <2>2 DEF Bears
    <3>3. QED
      BY <1>2, <2>2, <3>1, <3>2, OwnKeyed
  <2>5. {"upgrade_available"} \cap {"available_version"} = {}
    OBVIOUS
  <2> HIDE DEF metrics
  <2>6. QED
    BY <2>3, <2>4, <2>5, OwnBoth DEF x, y, metrics
<1>5. ToSet(list) = k.upgrades
  BY AtMostOneIsFinite, SetToSeqLists
<1>6. lists = [i \in DOMAIN list |-> lists[i]] /\ \A i \in DOMAIN list : lists[i] = collect(list[i])
  OBVIOUS
<1>7. metrics = {"upgrade_available", "available_version"}
  OBVIOUS
<1> HIDE DEF lists, collect, metrics, mark
<1>8. \A i \in DOMAIN list : Own(lists[i], metrics, mark)
  <2> HIDE DEF list
  <2> QED BY <1>4, <1>5, <1>6 DEF ToSet
<1>9. Own(FlattenSeq(lists), metrics, mark)
  BY <1>6, <1>8, OwnMaybe
<1>10. QED
  BY <1>1, <1>7, <1>9 DEF mark

(* A cluster, its pools and their nodes by id, and its upgrades by version.  *)
LEMMA KubernetesApart ==
  ASSUME NEW r, WellFormed("kubernetes", r), KeptApart("kubernetes", r)
  PROVE  Mine(collectKubernetesCluster(newKubernetesCluster(r)), r.id)
<1> DEFINE k == newKubernetesCluster(r)
           mark == <<k.id, k.name>>
           region == k.region
           version == k.version
           maintenance == k.maintenance
           labels == <<k.id, k.name, k.region>>
           x == Gauge("up", k.up, labels \o <<k.version>>)
           y == Gauge("info", 1, labels \o <<k.version, k.maintenance>>)
           flagged == Gauges(clusterFlags, k.flags, labels)
           flagging == {"auto_upgrade", "surge_upgrade", "ha", "registry"}
           pooled == {"nodes", "running", "autoscale", "min", "max", "node_state", "node_info"}
           upgraded == {"upgrade_available", "available_version"}
<1>1. /\ k.id = r.id
      /\ k.pools = [i \in DOMAIN r.pools |-> newPool(r.pools[i])]
      /\ k.upgrades = {Only(versions, ToSet(versions) \ {""}) : versions \in r.upgrades}
  BY DEF newKubernetesCluster, Map
<1>2. /\ x.metric = "up" /\ x.labels = labels \o <<version>>
      /\ y.metric = "info" /\ y.labels = labels \o <<version, maintenance>>
  BY DEF Gauge
<1>3. collectKubernetesCluster(k) = <<x, y>> \o flagged \o collectUpgrades(k) \o collectPools(k)
  BY DEF collectKubernetesCluster
<1>4. IsArray(mark) /\ 1 \in DOMAIN mark /\ mark[1] = k.id /\ IsArray(labels)
  <2> HIDE DEF k
  <2> QED BY Labels
<1>5. labels = mark \o <<region>>
  <2> HIDE DEF k
  <2> QED OBVIOUS
<1> HIDE DEF labels, x, y, region, version, maintenance, k
<1>6. Bears(labels, mark) /\ Bears(x.labels, mark) /\ Bears(y.labels, mark)
  <2> HIDE DEF mark
  <2>1. PICK one : one = <<region>>
    OBVIOUS
  <2>2. IsArray(one)
    BY <2>1, Tuples
  <2>3. Bears(x.labels, labels) /\ Bears(y.labels, labels) /\ Bears(labels, mark)
    BY <1>2, <1>4, <1>5, Behind
  <2>4. QED
    BY <1>4, <1>5, <2>1, <2>2, <2>3, Marked
<1>7. Own(<<x, y>>, {"up", "info"}, mark)
  <2> HIDE DEF mark
  <2> QED BY <1>2, <1>6, OwnTwo
<1>8. Own(flagged, flagging, mark)
  <2>1. PICK names : names = clusterFlags
    OBVIOUS
  <2>2. /\ 4 \in Nat /\ DOMAIN names = 1..4 /\ names = [i \in 1..4 |-> names[i]]
        /\ \A i \in 1..4 : names[i] \in flagging
        /\ \A i, j \in 1..4 : names[i] = names[j] => i = j
    BY <2>1 DEF clusterFlags
  <2> DEFINE item == k.flags
  <2> HIDE DEF flagging, mark, item
  <2>3. Own(Gauges(names, item, labels), flagging, mark)
    BY <1>6, <2>2, OwnGauges
  <2>4. QED
    BY <2>1, <2>3 DEF item
<1>9. /\ IsArray(k.pools)
      /\ \A p \in ToSet(k.pools) : /\ IsArray(p.members) /\ Differ(p.members, "id")
                                   /\ \E a, b, c : p.identity = <<a, b, c>>
      /\ \A i, j \in DOMAIN k.pools : k.pools[i].identity[1] = k.pools[j].identity[1] => i = j
  <2> DEFINE list == r.pools
             pools == k.pools
  <2>1. IsArray(list) /\ pools = [i \in DOMAIN list |-> newPool(list[i])]
    BY <1>1 DEF WellFormed
  <2>2. ASSUME NEW i \in DOMAIN list
        PROVE  /\ IsArray(newPool(list[i]).members) /\ Differ(newPool(list[i]).members, "id")
               /\ newPool(list[i]).identity = <<list[i].id, list[i].name, list[i].size>>
    <3>1. list[i] \in ToSet(r.pools)
      BY DEF ToSet
    <3> DEFINE p == list[i]
    <3>2. IsArray(p.members) /\ \A n \in ToSet(p.members) : AtMostOne(n)
      BY <3>1 DEF WellFormed
    <3>3. \A a, b \in DOMAIN p.members : \A n \in p.members[a], m \in p.members[b] : n.id = m.id => a = b
      BY <3>1 DEF KeptApart
    <3> HIDE DEF p
    <3>4. IsArray(newPool(p).members) /\ Differ(newPool(p).members, "id")
      BY <3>2, <3>3, MembersList, MembersApart
    <3>5. newPool(p).identity = <<p.id, p.name, p.size>>
      BY DEF newPool
    <3>6. QED
      BY <3>4, <3>5 DEF p
  <2>3. \A i, j \in DOMAIN list : list[i].id = list[j].id => i = j
    BY DEF KeptApart, Differ
  <2> HIDE DEF list, pools
  <2>4. pools = [i \in DOMAIN list |-> pools[i]] /\ \A i \in DOMAIN list : pools[i] = newPool(list[i])
    BY <2>1
  <2>5. IsArray(pools) /\ DOMAIN pools = DOMAIN list
    BY <2>1, <2>4, MappedArray
  <2>6. \A p \in ToSet(pools) : IsArray(p.members) /\ Differ(p.members, "id")
    BY <2>2, <2>4, <2>5 DEF ToSet
  <2>7. \A i \in DOMAIN list : pools[i].identity = <<list[i].id, list[i].name, list[i].size>>
    BY <2>2, <2>4
  <2>8. \A p \in ToSet(pools) : \E a, b, c : p.identity = <<a, b, c>>
    BY <2>5, <2>7 DEF ToSet
  <2>9. \A i \in DOMAIN list : pools[i].identity[1] = list[i].id
    BY <2>7
  <2>10. \A i, j \in DOMAIN pools : pools[i].identity[1] = pools[j].identity[1] => i = j
    BY <2>3, <2>5, <2>9
  <2>11. QED
    BY <2>5, <2>6, <2>8, <2>10 DEF pools
<1>10. AtMostOne(k.upgrades) /\ \A versions \in k.upgrades : IsArray(versions) /\ IsInjective(versions)
  <2>1. AtMostOne(r.upgrades) /\ \A versions \in r.upgrades : IsArray(versions) /\ IsInjective(versions)
    BY DEF WellFormed, KeptApart
  <2>2. ASSUME NEW versions \in r.upgrades
        PROVE  LET kept == Only(versions, ToSet(versions) \ {""}) IN IsArray(kept) /\ IsInjective(kept)
    <3>1. versions \in Seq(ToSet(versions)) /\ IsInjective(versions)
      BY <2>1 DEF IsArray
    <3>2. Only(versions, ToSet(versions) \ {""}) \in Seq(ToSet(versions))
          /\ IsInjective(Only(versions, ToSet(versions) \ {""}))
      BY <3>1, OnlyMembers
    <3>3. QED
      BY <3>2, ListOf
  <2>3. QED
    BY <1>1, <2>1, <2>2 DEF AtMostOne
<1>11. Own(collectPools(k), pooled, mark) /\ Own(collectUpgrades(k), upgraded, mark)
  BY <1>9, <1>10, PoolsApart, UpgradesApart
<1>12. /\ {"up", "info"} \cap flagging = {} /\ ({"up", "info"} \cup flagging) \cap upgraded = {}
       /\ ({"up", "info"} \cup flagging \cup upgraded) \cap pooled = {}
       /\ "count" \notin {"up", "info"} \cup flagging \cup upgraded \cup pooled
  OBVIOUS
<1> HIDE DEF mark, flagged, flagging, pooled, upgraded
<1>13. Own(collectKubernetesCluster(k), {"up", "info"} \cup flagging \cup upgraded \cup pooled, mark)
  BY <1>3, <1>7, <1>8, <1>11, <1>12, OwnBoth
<1>14. QED
  BY <1>1, <1>4, <1>12, <1>13, OwnIsMine DEF k

(* The series of the account itself carry no label, or the state behind none. *)
LEMMA AccountApart ==
  ASSUME NEW r
  PROVE  LET list == collectAccount(newAccount(r)) IN IsArray(list) /\ Apart(list)
<1> DEFINE a == newAccount(r)
           names == <<"active", "verified", "droplet_limit", "floating_ip_limit",
                      "reserved_ip_limit", "volume_limit">>
           figures == {"active", "verified", "droplet_limit", "floating_ip_limit",
                       "reserved_ip_limit", "volume_limit"}
<1>1. collectAccount(a) = OneHot("status", knownStatuses, a.status, << >>) \o Gauges(names, a, << >>)
  BY DEF collectAccount
<1>2. PICK none : none = << >>
  OBVIOUS
<1>3. IsArray(none) /\ Bears(none, none)
  BY <1>2, NoItems DEF Bears
<1>4. /\ 6 \in Nat /\ DOMAIN names = 1..6 /\ names = [k \in 1..6 |-> names[k]]
      /\ \A k \in 1..6 : names[k] \in figures
      /\ \A j, k \in 1..6 : names[j] = names[k] => j = k
  OBVIOUS
<1>5. {"status"} \cap figures = {}
  OBVIOUS
<1>6. IsArray(knownStatuses) /\ IsInjective(knownStatuses)
  BY KnownApart
<1> HIDE DEF a, names, figures
<1>7. Own(OneHot("status", knownStatuses, a.status, none), {"status"}, none)
  BY <1>3, <1>6, OwnOneHot
<1>8. Own(Gauges(names, a, none), figures, none)
  BY <1>3, <1>4, OwnGauges
<1>9. collectAccount(a) = OneHot("status", knownStatuses, a.status, none) \o Gauges(names, a, none)
  BY <1>1, <1>2
<1>10. Own(collectAccount(a), {"status"} \cup figures, none)
  BY <1>5, <1>7, <1>8, <1>9, OwnBoth
<1>11. QED
  BY <1>10 DEF Own, a

(* The figures of the balance have a metric each and no labels.              *)
LEMMA BalanceApart ==
  ASSUME NEW r
  PROVE  LET list == collectBalance(newBalance(r)) IN IsArray(list) /\ Apart(list)
<1> DEFINE b == newBalance(r)
           names == <<"balance", "month_to_date", "usage", "generated_at">>
           figures == {"balance", "month_to_date", "usage", "generated_at"}
<1>1. collectBalance(b) = Gauges(names, b, << >>)
  BY DEF collectBalance
<1>2. PICK none : none = << >>
  OBVIOUS
<1>3. Bears(none, none)
  BY DEF Bears
<1>4. /\ 4 \in Nat /\ DOMAIN names = 1..4 /\ names = [k \in 1..4 |-> names[k]]
      /\ \A k \in 1..4 : names[k] \in figures
      /\ \A j, k \in 1..4 : names[j] = names[k] => j = k
  OBVIOUS
<1> HIDE DEF b, names, figures
<1>5. Own(Gauges(names, b, none), figures, none)
  BY <1>3, <1>4, OwnGauges
<1>6. QED
  BY <1>1, <1>2, <1>5 DEF Own, b

(* A total is published under the name of what it is the total of. *)
LEMMA TotalApart ==
  ASSUME NEW r
  PROVE  LET list == collectTotal(newTotal(r))
         IN  IsArray(list) /\ Apart(list) /\ \A s \in ToSet(list) : s.metric = r.id
<1> DEFINE t == newTotal(r)
           x == Gauge(t.of, t.total, << >>)
<1>1. t.of = r.id
  BY DEF newTotal
<1>2. collectTotal(t) = <<x>> /\ x.metric = t.of /\ x.labels = << >>
  BY DEF collectTotal, Gauge
<1> HIDE DEF t, x
<1>3. Bears(x.labels, x.labels)
  BY DEF Bears
<1>4. Own(<<x>>, {t.of}, x.labels)
  BY <1>2, <1>3, OwnOne
<1>5. QED
  BY <1>1, <1>2, <1>4 DEF Own, t

(* The collectors of the account itself: their series do not name a resource. *)
Unlabelled == {"account", "balance", "limits"}

(* Whatever its kind, no two series of an item are the same, and they carry  *)
(* its id.                                                                   *)
LEMMA ItemApart ==
  ASSUME NEW k \in Kinds \ Unlabelled, NEW r, WellFormed(k, r), KeptApart(k, r)
  PROVE  Mine(CollectItem(k, New(k, r)), r.id)
<1>1. CASE k = "droplets"
  <2>1. New(k, r) = newDroplet(r)
    BY <1>1 DEF New
  <2>2. CollectItem(k, New(k, r)) = collectDroplet(newDroplet(r))
    BY <1>1, <2>1 DEF CollectItem
  <2>3. QED
    BY <1>1, <2>2, DropletApart
<1>2. CASE k = "volumes"
  <2>1. New(k, r) = newVolume(r)
    BY <1>2 DEF New
  <2>2. CollectItem(k, New(k, r)) = collectVolume(newVolume(r))
    BY <1>2, <2>1 DEF CollectItem
  <2>3. QED
    BY <1>2, <2>2, VolumeApart
<1>3. CASE k = "loadbalancers"
  <2>1. New(k, r) = newLoadBalancer(r)
    BY <1>3 DEF New
  <2>2. CollectItem(k, New(k, r)) = collectLoadBalancer(newLoadBalancer(r))
    BY <1>3, <2>1 DEF CollectItem
  <2>3. QED
    BY <1>3, <2>2, LoadBalancerApart
<1>4. CASE k = "firewalls"
  <2>1. New(k, r) = newFirewall(r)
    BY <1>4 DEF New
  <2>2. CollectItem(k, New(k, r)) = collectFirewall(newFirewall(r))
    BY <1>4, <2>1 DEF CollectItem
  <2>3. QED
    BY <1>4, <2>2, FirewallApart
<1>5. CASE k = "images"
  <2>1. New(k, r) = newImage(r)
    BY <1>5 DEF New
  <2>2. CollectItem(k, New(k, r)) = collectImage(newImage(r))
    BY <1>5, <2>1 DEF CollectItem
  <2>3. QED
    BY <1>5, <2>2, ImageApart
<1>6. CASE k = "reservedips"
  <2>1. New(k, r) = newReservedIP(r)
    BY <1>6 DEF New
  <2>2. CollectItem(k, New(k, r)) = collectReservedIP(newReservedIP(r))
    BY <1>6, <2>1 DEF CollectItem
  <2>3. QED
    BY <1>6, <2>2, ReservedIPApart
<1>7. CASE k = "certificates"
  <2>1. New(k, r) = newCertificate(r)
    BY <1>7 DEF New
  <2>2. CollectItem(k, New(k, r)) = collectCertificate(newCertificate(r))
    BY <1>7, <2>1 DEF CollectItem
  <2>3. QED
    BY <1>7, <2>2, CertificateApart
<1>8. CASE k = "tags"
  <2>1. New(k, r) = newTag(r)
    BY <1>8 DEF New
  <2>2. CollectItem(k, New(k, r)) = collectTag(newTag(r))
    BY <1>8, <2>1 DEF CollectItem
  <2>3. QED
    BY <1>8, <2>2, TagApart
<1>9. CASE k = "apps"
  <2>1. New(k, r) = newApp(r)
    BY <1>9 DEF New
  <2>2. CollectItem(k, New(k, r)) = collectApp(newApp(r))
    BY <1>9, <2>1 DEF CollectItem
  <2>3. QED
    BY <1>9, <2>2, AppApart
<1>10. CASE k = "kubernetes"
  <2>1. New(k, r) = newKubernetesCluster(r)
    BY <1>10 DEF New
  <2>2. CollectItem(k, New(k, r)) = collectKubernetesCluster(newKubernetesCluster(r))
    BY <1>10, <2>1 DEF CollectItem
  <2>3. QED
    BY <1>10, <2>2, KubernetesApart
<1>11. CASE k = "databases"
  <2>1. New(k, r) = newDatabaseCluster(r)
    BY <1>11 DEF New
  <2>2. CollectItem(k, New(k, r)) = collectDatabaseCluster(newDatabaseCluster(r))
    BY <1>11, <2>1 DEF CollectItem
  <2>3. QED
    BY <1>11, <2>2, DatabaseApart
<1>12. CASE k = "uptime"
  <2>1. New(k, r) = newCheck(r)
    BY <1>12 DEF New
  <2>2. CollectItem(k, New(k, r)) = collectCheck(newCheck(r))
    BY <1>12, <2>1 DEF CollectItem
  <2>3. QED
    BY <1>12, <2>2, CheckApart
<1>13. CASE k = "projects"
  <2>1. New(k, r) = newProject(r)
    BY <1>13 DEF New
  <2>2. CollectItem(k, New(k, r)) = collectProject(newProject(r))
    BY <1>13, <2>1 DEF CollectItem
  <2>3. QED
    BY <1>13, <2>2, ProjectApart
<1>14. CASE k = "cdn"
  <2>1. New(k, r) = r
    BY <1>14 DEF New
  <2>2. CollectItem(k, New(k, r)) = collectEndpoint(r)
    BY <1>14, <2>1 DEF CollectItem
  <2>3. QED
    BY <1>14, <2>2, EndpointApart
<1>15. CASE k = "dropletautoscale"
  <2>1. New(k, r) = r
    BY <1>15 DEF New
  <2>2. CollectItem(k, New(k, r)) = collectPool(r)
    BY <1>15, <2>1 DEF CollectItem
  <2>3. QED
    BY <1>15, <2>2, PoolApart
<1>16. CASE k = "domains"
  <2>1. New(k, r) = r
    BY <1>16 DEF New
  <2>2. CollectItem(k, New(k, r)) = collectDomain(r)
    BY <1>16, <2>1 DEF CollectItem
  <2>3. QED
    BY <1>16, <2>2, DomainApart
<1>17. CASE k = "registry"
  <2>1. New(k, r) = r
    BY <1>17 DEF New
  <2>2. CollectItem(k, New(k, r)) = collectRegistry(r) \o collectRepositories(r)
    BY <1>17, <2>1 DEF CollectItem
  <2>3. QED
    BY <1>17, <2>2, RegistryApart
<1>18. CASE k = "spaces"
  <2>1. New(k, r) = r
    BY <1>18 DEF New
  <2>2. CollectItem(k, New(k, r)) = collectBucket(r)
    BY <1>18, <2>1 DEF CollectItem
  <2>3. QED
    BY <1>18, <2>2, BucketApart
<1>19. QED
  BY <1>1, <1>2, <1>3, <1>4, <1>5, <1>6, <1>7, <1>8, <1>9, <1>10, <1>11, <1>12, <1>13, <1>14, <1>15, <1>16, <1>17, <1>18 DEF Kinds, Unlabelled

(* The series of an account, a balance or a total are apart as well.         *)
LEMMA UnlabelledApart ==
  ASSUME NEW k \in Unlabelled, NEW r
  PROVE  LET list == CollectItem(k, New(k, r))
         IN  IsArray(list) /\ Apart(list) /\ (k = "limits" => \A s \in ToSet(list) : s.metric = r.id)
<1>1. CASE k = "account"
  <2>1. New(k, r) = newAccount(r)
    BY <1>1 DEF New
  <2>2. CollectItem(k, New(k, r)) = collectAccount(newAccount(r))
    BY <1>1, <2>1 DEF CollectItem
  <2>3. QED
    BY <1>1, <2>2, AccountApart
<1>2. CASE k = "balance"
  <2>1. New(k, r) = newBalance(r)
    BY <1>2 DEF New
  <2>2. CollectItem(k, New(k, r)) = collectBalance(newBalance(r))
    BY <1>2, <2>1 DEF CollectItem
  <2>3. QED
    BY <1>2, <2>2, BalanceApart
<1>3. CASE k = "limits"
  <2>1. New(k, r) = newTotal(r)
    BY <1>3 DEF New
  <2>2. CollectItem(k, New(k, r)) = collectTotal(newTotal(r))
    BY <1>3, <2>1 DEF CollectItem
  <2>3. QED
    BY <2>2, TotalApart
<1>4. QED
  BY <1>1, <1>2, <1>3 DEF Unlabelled

(* No series of the one list is a series of the other. *)
Foreign(a, b) == \A s \in ToSet(a), t \in ToSet(b) : s.metric = t.metric => s.labels # t.labels

(* Two resources share no series. *)
LEMMA ItemsForeign ==
  ASSUME NEW k \in Kinds \ {"account", "balance"}, NEW r, NEW q, r.id # q.id,
         WellFormed(k, r), KeptApart(k, r), WellFormed(k, q), KeptApart(k, q)
  PROVE  Foreign(CollectItem(k, New(k, r)), CollectItem(k, New(k, q)))
<1>1. CASE k = "limits"
  BY <1>1, UnlabelledApart DEF Foreign, Unlabelled
<1>2. CASE k # "limits"
  <2>1. k \in Kinds \ Unlabelled
    BY <1>2 DEF Unlabelled
  <2>2. Mine(CollectItem(k, New(k, r)), r.id) /\ Mine(CollectItem(k, New(k, q)), q.id)
    BY <2>1, ItemApart
  <2>3. QED
    BY <2>2 DEF Mine, Foreign
<1>3. QED
  BY <1>1, <1>2

(* One total for each tuple.                                                 *)
LEMMA CountsApart ==
  ASSUME NEW k, NEW items, IsArray(items)
  PROVE  LET list == collectCounts(Counts(k, items))
         IN  /\ IsArray(list) /\ Apart(list) /\ \A s \in ToSet(list) : s.metric = "count"
             /\ k \in Unlabelled => ToSet(list) = {}
<1> DEFINE counts == Counts(k, items)
           list == SetToSeq(DOMAIN counts)
           made == [i \in DOMAIN list |-> Gauge("count", counts[list[i]], list[i])]
<1>1. IsArray(list) /\ IsInjective(list) /\ ToSet(list) = DOMAIN counts
  BY CountsAreFinite, SetToSeqLists
<1>2. collectCounts(counts) = made
  BY DEF collectCounts, Map
<1>3. made = [i \in DOMAIN list |-> made[i]]
      /\ \A i \in DOMAIN list : made[i].metric = "count" /\ made[i].labels = list[i]
  BY DEF Gauge
<1>4. k \in Unlabelled => DOMAIN counts = {}
  <2>1. k \in Unlabelled => counts = << >>
    BY DEF Counts, Unlabelled
  <2> HIDE DEF counts
  <2>2. QED
    BY <2>1
<1> HIDE DEF counts, list, made
<1>5. \A i, j \in DOMAIN list : i # j => made[i].labels # made[j].labels
  BY <1>1, <1>3 DEF IsInjective
<1>6. PICK none : none = << >>
  OBVIOUS
<1>7. \A labels : Bears(labels, none)
  BY <1>6 DEF Bears
<1>8. Own(made, {"count"}, none)
  BY <1>1, <1>3, <1>5, <1>7, OwnEach
<1>9. k \in Unlabelled => ToSet(made) = {}
  <2>1. DOMAIN made = DOMAIN list
    BY <1>1, <1>3, MappedArray
  <2>2. QED
    BY <1>1, <1>4, <2>1 DEF ToSet
<1>10. QED
  BY <1>2, <1>8, <1>9 DEF Own, counts

(* No series of an item is a total.                                          *)
LEMMA CountsForeign ==
  ASSUME NEW k \in Kinds, NEW items, IsArray(items), NEW r, WellFormed(k, r), KeptApart(k, r)
  PROVE  /\ Foreign(CollectItem(k, New(k, r)), collectCounts(Counts(k, items)))
         /\ Foreign(collectCounts(Counts(k, items)), CollectItem(k, New(k, r)))
<1>1. CASE k \in Unlabelled
  BY <1>1, CountsApart DEF Foreign
<1>2. CASE k \notin Unlabelled
  <2>1. Mine(CollectItem(k, New(k, r)), r.id)
    BY <1>2, ItemApart
  <2>2. QED
    BY <2>1, CountsApart DEF Mine, Foreign
<1>3. QED
  BY <1>1, <1>2

(* An answer has a resource once, and the answers of one refresh are about   *)
(* different ones.                                                           *)
LEMMA ListedOnce ==
  ASSUME NEW S, NEW a \in Listings(S)
  PROVE  IsInjective(a) /\ \A r, q \in ToSet(a) : r.id = q.id => r = q
<1>1. PICK T \in SUBSET S : IsFiniteSet(T) /\ (\A r, q \in T : r.id = q.id => r = q) /\ a = SetToSeq(T)
  BY DEF Listings
<1>2. QED
  BY <1>1, SetToSeqLists

(* An answer that is one record.                                             *)
LEMMA OneRecord ==
  ASSUME NEW r
  PROVE  IsInjective(<<r>>) /\ ToSet(<<r>>) = {r}
<1>1. PICK list : list = <<r>>
  OBVIOUS
<1>2. DOMAIN list = {1} /\ list[1] = r
  BY <1>1
<1>3. IsInjective(list) /\ ToSet(list) = {r}
  BY <1>2 DEF IsInjective, ToSet
<1>4. QED
  BY <1>1, <1>3

(* Every answer has a resource once, and says which request it is to.        *)
LEMMA AnswersTellApart ==
  ASSUME NEW n, NEW a \in Answers(n)
  PROVE  /\ IsInjective(a) /\ \A r, q \in ToSet(a) : r.id = q.id => r = q
         /\ kind \in {"account", "balance"} => AtMostOne(ToSet(a))
         /\ kind = "limits" => \A r \in ToSet(a) : r.id = <<"droplets", "reserved_ips", "volumes">>[n]
         /\ kind = "reservedips" => \A r \in ToSet(a) : r.version = <<"4", "6">>[n]
<1>1. CASE kind \in {"account", "balance"}
  <2>1. Answers(n) = {<<r>> : r \in Resources[kind]}
    BY <1>1 DEF Answers
  <2>2. PICK r \in Resources[kind] : a = <<r>>
    BY <2>1
  <2>3. IsInjective(a) /\ ToSet(a) = {r}
    BY <2>2, OneRecord
  <2>4. QED
    BY <1>1, <2>3 DEF AtMostOne
<1>2. CASE kind = "limits"
  <2> DEFINE named == <<"droplets", "reserved_ips", "volumes">>[n]
  <2>1. Answers(n) = {<<r>> : r \in {r \in Resources[kind] : r.id = named}}
    BY <1>2 DEF Answers
  <2> HIDE DEF named
  <2>2. PICK r \in Resources[kind] : r.id = named /\ a = <<r>>
    BY <2>1
  <2>3. IsInjective(a) /\ ToSet(a) = {r}
    BY <2>2, OneRecord
  <2>4. \A q \in ToSet(a) : q.id = named
    BY <2>2, <2>3
  <2>5. QED
    BY <1>2, <2>3, <2>4 DEF named
<1>3. CASE kind = "registry"
  <2>1. Answers(n) = {L \in Listings(Resources[kind]) : \A r, q \in ToSet(L) : r.tier = q.tier}
    BY <1>3 DEF Answers
  <2>2. a \in Listings(Resources[kind])
    BY <2>1
  <2>3. QED
    BY <1>3, <2>2, ListedOnce
<1>4. CASE kind = "reservedips"
  <2> DEFINE version == <<"4", "6">>[n]
             S == {r \in Resources[kind] : r.version = version}
  <2>1. Answers(n) = Listings(S)
    BY <1>4 DEF Answers
  <2>2. \A r \in S : r.version = version
    OBVIOUS
  <2> HIDE DEF S, version
  <2>3. ToSet(a) \subseteq S
    BY <2>1, ListingsOfResources
  <2>4. IsInjective(a) /\ \A r, q \in ToSet(a) : r.id = q.id => r = q
    BY <2>1, ListedOnce
  <2>5. \A r \in ToSet(a) : r.version = version
    BY <2>2, <2>3
  <2>6. QED
    BY <1>4, <2>4, <2>5 DEF version
<1>5. CASE kind \notin {"account", "balance", "limits", "registry", "reservedips"}
  <2>1. Answers(n) = Listings(Resources[kind])
    BY <1>5 DEF Answers
  <2>2. QED
    BY <1>5, <2>1, ListedOnce
<1>6. QED
  BY <1>1, <1>2, <1>3, <1>4, <1>5

(* No resource is in two answers of one refresh.                             *)
LEMMA AnswersDisjoint ==
  ASSUME NEW m \in 1..Requests(kind), NEW n \in 1..Requests(kind), m # n,
         NEW a \in Answers(m), NEW b \in Answers(n), NEW r \in ToSet(a), NEW q \in ToSet(b)
  PROVE  r.id # q.id /\ kind \notin {"account", "balance"}
<1>1. CASE kind = "limits"
  <2>1. m \in 1..3 /\ n \in 1..3
    BY <1>1 DEF Requests
  <2>2. <<"droplets", "reserved_ips", "volumes">>[m] # <<"droplets", "reserved_ips", "volumes">>[n]
    BY <2>1
  <2>3. QED
    BY <1>1, <2>2, AnswersTellApart
<1>2. CASE kind = "reservedips"
  <2>1. m \in 1..2 /\ n \in 1..2
    BY <1>2 DEF Requests
  <2>2. <<"4", "6">>[m] # <<"4", "6">>[n]
    BY <2>1
  <2>3. r.version # q.version
    BY <1>2, <2>2, AnswersTellApart
  <2>4. r \in Resources["reservedips"] /\ q \in Resources["reservedips"]
    BY <1>2, AnswersAreArrays
  <2>5. QED
    BY <1>2, <2>3, <2>4, ExpositionAssumption
<1>3. CASE kind \notin {"limits", "reservedips"}
  <2>1. Requests(kind) = 1
    BY <1>3 DEF Requests
  <2>2. QED
    BY <2>1
<1>4. QED
  BY <1>1, <1>2, <1>3

(* Listing by a tag takes a resource at most as often as the answer has it.  *)
LEMMA ListingOnce ==
  ASSUME NEW a, IsArray(a), IsInjective(a)
  PROVE  LET listed == Listing(kind, filter, a)
         IN  IsArray(listed) /\ IsInjective(listed) /\ ToSet(listed) \subseteq ToSet(a)
<1> DEFINE listed == Listing(kind, filter, a)
           tagged == {d \in ToSet(a) : filter.tags \subseteq d.tags}
<1>1. CASE kind = "droplets" /\ SingleTag(filter)
  <2>1. listed = Only(a, tagged)
    BY <1>1 DEF Listing
  <2>2. a \in Seq(ToSet(a))
    BY DEF IsArray
  <2> HIDE DEF listed, tagged
  <2>3. listed \in Seq(ToSet(a)) /\ ToSet(listed) = ToSet(a) \cap tagged /\ IsInjective(listed)
    BY <2>1, <2>2, OnlyMembers
  <2>4. QED
    BY <2>3, ListOf DEF listed
<1>2. CASE ~(kind = "droplets" /\ SingleTag(filter))
  BY <1>2 DEF Listing
<1>3. QED
  BY <1>1, <1>2

(* What a refresh heard has each resource once. *)
LEMMA HeardOnce ==
  ASSUME kind \in Kinds, Heard
  PROVE  LET listed == FlattenSeq(answers)
         IN  /\ IsArray(listed) /\ IsInjective(listed) /\ ToSet(listed) \subseteq Resources[kind]
             /\ \A r, q \in ToSet(listed) : r.id = q.id \/ kind \in {"account", "balance"} => r = q
<1> DEFINE listed == FlattenSeq(answers)
<1>1. DOMAIN answers = DOMAIN account /\ DOMAIN account \subseteq 1..Requests(kind)
  <2>1. /\ DOMAIN answers = 1..Len(answers) /\ DOMAIN account = 1..Len(account)
        /\ Len(account) = Len(answers) /\ Len(answers) \in Nat /\ Len(answers) <= Requests(kind)
    BY ArrayByNumber DEF Heard
  <2>2. Requests(kind) \in Nat
    BY DEF Requests
  <2>3. QED
    BY <2>1, <2>2
<1>2. ASSUME NEW n \in DOMAIN answers
      PROVE  /\ account[n] \in Answers(n)
             /\ IsArray(answers[n]) /\ IsInjective(answers[n])
             /\ ToSet(answers[n]) \subseteq ToSet(account[n])
             /\ ToSet(account[n]) \subseteq Resources[kind]
  <2> DEFINE a == account[n]
  <2>1. a \in Answers(n) /\ answers[n] = Listing(kind, filter, a)
    BY <1>1 DEF Heard
  <2> HIDE DEF a
  <2>2. IsArray(a) /\ IsInjective(a) /\ ToSet(a) \subseteq Resources[kind]
    BY <2>1, AnswersAreArrays, AnswersTellApart
  <2>3. QED
    BY <2>1, <2>2, ListingOnce DEF a
<1>3. IsArray(listed) /\ ToSet(listed) = UNION {ToSet(answers[n]) : n \in DOMAIN answers}
  <2>1. IsArray(answers) /\ \A n \in DOMAIN answers : IsArray(answers[n])
    BY <1>2 DEF Heard
  <2>2. QED
    BY <2>1, FlattenLists
<1>4. ASSUME NEW m \in DOMAIN answers, NEW n \in DOMAIN answers, m # n,
             NEW r \in ToSet(answers[m]), NEW q \in ToSet(answers[n])
      PROVE  r.id # q.id /\ kind \notin {"account", "balance"}
  <2>1. m \in 1..Requests(kind) /\ n \in 1..Requests(kind)
    BY <1>1
  <2>2. /\ account[m] \in Answers(m) /\ account[n] \in Answers(n)
        /\ r \in ToSet(account[m]) /\ q \in ToSet(account[n])
    BY <1>2
  <2>3. QED
    BY <1>4, <2>1, <2>2, AnswersDisjoint
<1>5. \A m, n \in DOMAIN answers : m # n => ToSet(answers[m]) \cap ToSet(answers[n]) = {}
  BY <1>4
<1>6. IsInjective(listed)
  <2>1. IsArray(answers)
    BY DEF Heard
  <2>2. QED
    BY <1>2, <1>5, <2>1, FlattenDistinct
<1>7. ASSUME NEW r \in ToSet(listed), NEW q \in ToSet(listed),
             r.id = q.id \/ kind \in {"account", "balance"}
      PROVE  r = q
  <2>1. PICK m \in DOMAIN answers : r \in ToSet(answers[m])
    BY <1>3
  <2>2. PICK n \in DOMAIN answers : q \in ToSet(answers[n])
    BY <1>3
  <2>3. m = n
    BY <1>4, <1>7, <2>1, <2>2
  <2>4. account[m] \in Answers(m) /\ r \in ToSet(account[m]) /\ q \in ToSet(account[m])
    BY <1>2, <2>1, <2>2, <2>3
  <2>5. QED
    BY <1>7, <2>4, AnswersTellApart DEF AtMostOne
<1>8. QED
  BY <1>2, <1>3, <1>6, <1>7

(* The batches of series Emit sends one after the other: an item's, and at   *)
(* last the totals'.  No two of them share a series.                         *)
Batches(s)     == 1 .. Len(s.items) + 1
Batch(k, s, n) == IF n <= Len(s.items) THEN CollectItem(k, s.items[n]) ELSE collectCounts(s.counts)

Separate(k, s) ==
  /\ \A n \in Batches(s) : IsArray(Batch(k, s, n)) /\ Apart(Batch(k, s, n))
  /\ \A m, n \in Batches(s) : m # n => Foreign(Batch(k, s, m), Batch(k, s, n))

(* Swap: the items are of different resources, so their series are apart.    *)
LEMMA KeptSeparate ==
  ASSUME kind \in Kinds, Heard
  PROVE  Separate(kind, [items |-> Kept, counts |-> Counts(kind, Kept), of |-> account])
<1> DEFINE listed == FlattenSeq(answers)
           passed == {r \in ToSet(listed) : Passing(kind, filter, r)}
           passing == Only(listed, passed)
           kept == [i \in DOMAIN passing |-> New(kind, passing[i])]
<1>1. Kept = kept
  BY DEF Kept, Map
<1>2. /\ IsArray(listed) /\ IsInjective(listed) /\ ToSet(listed) \subseteq Resources[kind]
      /\ \A r, q \in ToSet(listed) : r.id = q.id \/ kind \in {"account", "balance"} => r = q
  BY HeardOnce
<1>3. IsArray(passing) /\ IsInjective(passing) /\ ToSet(passing) \subseteq ToSet(listed)
  <2>1. listed \in Seq(ToSet(listed))
    BY <1>2 DEF IsArray
  <2> HIDE DEF listed, passed
  <2>2. /\ passing \in Seq(ToSet(listed)) /\ ToSet(passing) = ToSet(listed) \cap passed
        /\ IsInjective(passing)
    BY <1>2, <2>1, OnlyMembers
  <2>3. QED
    BY <2>2, ListOf
<1>4. kept = [i \in DOMAIN passing |-> kept[i]] /\ \A i \in DOMAIN passing : kept[i] = New(kind, passing[i])
  OBVIOUS
<1> HIDE DEF listed, passing, kept
<1>5. IsArray(kept) /\ DOMAIN kept = DOMAIN passing
  BY <1>3, <1>4, MappedArray
<1>6. \A i \in DOMAIN passing : WellFormed(kind, passing[i]) /\ KeptApart(kind, passing[i])
  <2>1. \A i \in DOMAIN passing : passing[i] \in Resources[kind]
    BY <1>2, <1>3 DEF ToSet
  <2>2. QED
    BY <2>1, ExpositionAssumption
<1>7. \A i, j \in DOMAIN passing : i # j => passing[i].id # passing[j].id /\ kind \notin {"account", "balance"}
  <2>1. \A i \in DOMAIN passing : passing[i] \in ToSet(listed)
    BY <1>3 DEF ToSet
  <2>2. QED
    BY <1>2, <1>3, <2>1 DEF IsInjective
<1>8. PICK s : s = [items |-> kept, counts |-> Counts(kind, kept), of |-> account]
  OBVIOUS
<1>9. s.items = kept /\ s.counts = Counts(kind, kept)
  BY <1>8
<1> DEFINE n == Len(kept)
<1>10. n \in Nat /\ DOMAIN kept = 1..n /\ Batches(s) = 1..(n + 1)
  BY <1>5, <1>9, ArrayByNumber DEF Batches
<1>11. /\ \A i \in 1..n : Batch(kind, s, i) = CollectItem(kind, New(kind, passing[i]))
       /\ Batch(kind, s, n + 1) = collectCounts(Counts(kind, kept))
  <2>1. \A i \in 1..n : i <= Len(s.items) /\ s.items[i] = New(kind, passing[i])
    <3>1. \A i \in 1..n : i <= Len(s.items)
      BY <1>9, <1>10
    <3>2. \A i \in 1..n : kept[i] = New(kind, passing[i])
      <4> HIDE DEF n
      <4> QED BY <1>4, <1>5, <1>10
    <3>3. QED
      BY <1>9, <3>1, <3>2
  <2>2. ~(n + 1 <= Len(s.items))
    BY <1>9, <1>10
  <2>3. \A i \in 1..n : Batch(kind, s, i) = CollectItem(kind, s.items[i])
    BY <2>1 DEF Batch
  <2>4. Batch(kind, s, n + 1) = collectCounts(s.counts)
    BY <2>2 DEF Batch
  <2>5. QED
    BY <1>9, <2>1, <2>3, <2>4
<1> HIDE DEF n
<1>12. ASSUME NEW i \in 1..(n + 1) PROVE IsArray(Batch(kind, s, i)) /\ Apart(Batch(kind, s, i))
  <2>1. CASE i \in 1..n
    <3>1. i \in DOMAIN passing /\ Batch(kind, s, i) = CollectItem(kind, New(kind, passing[i]))
      BY <1>5, <1>10, <1>11, <2>1
    <3> DEFINE r == passing[i]
    <3>2. WellFormed(kind, r) /\ KeptApart(kind, r)
      BY <1>6, <3>1
    <3> HIDE DEF r
    <3>3. IsArray(CollectItem(kind, New(kind, r))) /\ Apart(CollectItem(kind, New(kind, r)))
      <4>1. CASE kind \in Unlabelled
        BY <4>1, UnlabelledApart
      <4>2. CASE kind \notin Unlabelled
        BY <3>2, <4>2, ItemApart DEF Mine
      <4>3. QED
        BY <4>1, <4>2
    <3>4. QED
      BY <3>1, <3>3 DEF r
  <2>2. CASE i = n + 1
    BY <1>5, <1>11, <2>2, CountsApart
  <2>3. QED
    BY <1>10, <2>1, <2>2
<1>13. ASSUME NEW i \in 1..(n + 1), NEW j \in 1..(n + 1), i # j
       PROVE  Foreign(Batch(kind, s, i), Batch(kind, s, j))
  <2>1. CASE i \in 1..n /\ j \in 1..n
    <3> DEFINE r == passing[i]
               q == passing[j]
    <3>1. /\ r.id # q.id /\ kind \in Kinds \ {"account", "balance"}
          /\ WellFormed(kind, r) /\ KeptApart(kind, r) /\ WellFormed(kind, q) /\ KeptApart(kind, q)
      BY <1>5, <1>6, <1>7, <1>10, <1>13, <2>1
    <3>2. Batch(kind, s, i) = CollectItem(kind, New(kind, r)) /\ Batch(kind, s, j) = CollectItem(kind, New(kind, q))
      BY <1>11, <2>1
    <3> HIDE DEF r, q
    <3>3. QED
      BY <3>1, <3>2, ItemsForeign
  <2>2. CASE i \in 1..n /\ j = n + 1
    <3> DEFINE r == passing[i]
    <3>1. WellFormed(kind, r) /\ KeptApart(kind, r)
      BY <1>5, <1>6, <1>10, <2>2
    <3>2. Batch(kind, s, i) = CollectItem(kind, New(kind, r))
      BY <1>11, <2>2
    <3> HIDE DEF r
    <3>3. QED
      BY <1>5, <1>11, <2>2, <3>1, <3>2, CountsForeign
  <2>3. CASE i = n + 1 /\ j \in 1..n
    <3> DEFINE q == passing[j]
    <3>1. WellFormed(kind, q) /\ KeptApart(kind, q)
      BY <1>5, <1>6, <1>10, <2>3
    <3>2. Batch(kind, s, j) = CollectItem(kind, New(kind, q))
      BY <1>11, <2>3
    <3> HIDE DEF q
    <3>3. QED
      BY <1>5, <1>11, <2>3, <3>1, <3>2, CountsForeign
  <2>4. QED
    BY <1>10, <1>13, <2>1, <2>2, <2>3
<1>14. Separate(kind, s)
  BY <1>10, <1>12, <1>13 DEF Separate
<1>15. QED
  BY <1>1, <1>8, <1>14

(* What a scrape sent so far is of the batches it went through, each once.   *)
SentApart ==
  /\ view = {} => sent = << >>
  /\ \A s \in view : /\ IsArray(sent) /\ Apart(sent)
                     /\ ToSet(sent) = UNION {ToSet(Batch(kind, s, n)) : n \in 1..emitted}

SeparateInv == (\A s \in snap \cup view : Separate(kind, s)) /\ SentApart

(* Emit: the next batch is foreign to all that went before it.               *)
LEMMA SendsApart ==
  ASSUME Snapshots, Scraped, SeparateInv, Emit, kind' = kind
  PROVE  SentApart'
<1>1. PICK s \in view :
        /\ emitted <= Len(s.items)
        /\ sent' = sent \o IF emitted < Len(s.items)
                           THEN CollectItem(kind, s.items[emitted + 1])
                           ELSE collectCounts(s.counts)
  BY DEF Emit, Collected
<1>2. view' = view /\ emitted' = emitted + 1
  BY DEF Emit
<1>3. Holds(s) /\ \A t \in view : t = s
  BY DEF Snapshots, AtMostOne
<1> DEFINE m == Len(s.items)
           e == emitted
<1>4. m \in Nat
  BY <1>3, ArrayByNumber DEF Holds
<1>5. e \in Nat /\ e <= m
  BY <1>1, <1>4 DEF Scraped
<1> DEFINE next == Batch(kind, s, e + 1)
<1>6. sent' = sent \o next
  BY <1>1, <1>4, <1>5 DEF Batch
<1>7. Separate(kind, s) /\ IsArray(sent) /\ Apart(sent)
      /\ ToSet(sent) = UNION {ToSet(Batch(kind, s, n)) : n \in 1..e}
  BY DEF SeparateInv, SentApart
<1>8. e + 1 \in Batches(s) /\ \A n \in 1..e : n \in Batches(s) /\ n # e + 1
  BY <1>4, <1>5 DEF Batches
<1>9. IsArray(next) /\ Apart(next)
  BY <1>7, <1>8 DEF Separate
<1>10. \A n \in 1..e : Foreign(Batch(kind, s, n), next)
  BY <1>7, <1>8 DEF Separate
<1> HIDE DEF m, e, next
<1>11. \A x \in ToSet(sent), t \in ToSet(next) : x.metric = t.metric => x.labels # t.labels
  BY <1>7, <1>10 DEF Foreign
<1>12. IsArray(sent \o next) /\ ToSet(sent \o next) = ToSet(sent) \cup ToSet(next)
  BY <1>7, <1>9, JoinedArray
<1>13. Apart(sent \o next)
  BY <1>7, <1>9, <1>11, JoinedApart
<1>14. ToSet(sent \o next) = UNION {ToSet(Batch(kind, s, n)) : n \in 1..(e + 1)}
  <2>1. 1..(e + 1) = (1..e) \cup {e + 1}
    BY <1>5
  <2>2. QED
    BY <1>7, <1>12, <2>1 DEF next
<1>15. view' # {}
  BY <1>2
<1>16. \A t \in view' : /\ IsArray(sent') /\ Apart(sent')
                        /\ ToSet(sent') = UNION {ToSet(Batch(kind', t, n)) : n \in 1..emitted'}
  BY <1>2, <1>3, <1>6, <1>12, <1>13, <1>14 DEF e
<1>17. QED
  BY <1>15, <1>16 DEF SentApart

(* Every action keeps the batches separate: Swap by KeptSeparate, Emit by    *)
(* SendsApart.                                                               *)
LEMMA SeparateStep ==
  ASSUME ExpositionInv, SeparateInv, [ExpositionNext]_expositionVars
  PROVE  SeparateInv'
<1>1. kind' = kind
  BY DEF ExpositionNext, expositionVars, setup, Refresh, Answered, Failed, Swap, Collect, Emit, Return
<1>2. ASSUME view' = view, emitted' = emitted, sent' = sent PROVE SentApart'
  BY <1>1, <1>2 DEF SeparateInv, SentApart
<1>3. ASSUME snap' \cup view' \subseteq snap \cup view PROVE \A s \in snap' \cup view' : Separate(kind', s)
  BY <1>1, <1>3 DEF SeparateInv
<1>4. CASE UNCHANGED <<snap, emission>>
  BY <1>2, <1>3, <1>4 DEF SeparateInv, emission
<1>5. CASE Swap
  <2> DEFINE new == [items |-> Kept, counts |-> Counts(kind, Kept), of |-> account]
  <2>1. snap' = {new} /\ view' = view /\ emitted' = emitted /\ sent' = sent
    BY <1>5 DEF Swap, emission
  <2>2. Separate(kind, new)
    BY KeptSeparate DEF ExpositionInv
  <2> HIDE DEF new
  <2>3. \A s \in snap' \cup view' : Separate(kind', s)
    BY <1>1, <2>1, <2>2 DEF SeparateInv
  <2>4. QED
    BY <1>2, <2>1, <2>3 DEF SeparateInv
<1>6. CASE Collect
  <2>1. view = {} /\ view' = snap /\ snap' = snap /\ sent' = sent /\ emitted' = 0
    BY <1>6 DEF Collect, ExpositionInv, Scraped
  <2>2. PICK none : none = << >>
    OBVIOUS
  <2>3. sent' = none
    BY <2>1, <2>2 DEF SeparateInv, SentApart
  <2>4. IsArray(none) /\ ToSet(none) = {} /\ DOMAIN none = {}
    BY <2>2, NoItems
  <2>5. Apart(none)
    BY <2>4 DEF Apart
  <2>6. \A t : {} = UNION {ToSet(Batch(kind', t, n)) : n \in 1..0}
    OBVIOUS
  <2>7. SentApart'
    BY <2>1, <2>2, <2>3, <2>4, <2>5, <2>6 DEF SentApart
  <2>8. QED
    BY <1>3, <2>1, <2>7 DEF SeparateInv
<1>7. CASE Emit
  <2>1. SentApart'
    BY <1>1, <1>7, SendsApart DEF ExpositionInv
  <2>2. snap' = snap /\ view' = view
    BY <1>7 DEF Emit
  <2>3. QED
    BY <1>3, <2>1, <2>2 DEF SeparateInv
<1>8. CASE Return
  <2>1. view' = {} /\ sent' = << >> /\ snap' = snap
    BY <1>8 DEF Return
  <2>2. SentApart'
    BY <2>1 DEF SentApart
  <2>3. QED
    BY <1>3, <2>1, <2>2 DEF SeparateInv
<1>9. Refresh \/ Answered \/ Failed \/ UNCHANGED expositionVars => UNCHANGED <<snap, emission>>
  BY DEF Refresh, Answered, Failed, expositionVars
<1>10. QED
  BY <1>4, <1>5, <1>6, <1>7, <1>8, <1>9 DEF ExpositionNext

(* No scrape of any collector sends a series twice, whatever the refreshes   *)
(* swap in while it emits: the snapshot it took holds each resource once.    *)
THEOREM SeriesApart == ExpositionSpec => []SeriesUnique
<1>1. ExpositionInit => SeparateInv
  BY DEF ExpositionInit, SeparateInv, SentApart
<1>2. ExpositionInv /\ SeparateInv /\ [ExpositionNext]_expositionVars => SeparateInv'
  BY SeparateStep
<1>3. SeparateInv => SeriesUnique
  <2> SUFFICES ASSUME SeparateInv PROVE Apart(sent)
    BY DEF SeriesUnique, Apart
  <2>1. CASE view = {}
    <3>1. DOMAIN sent = {}
      BY <2>1, NoItems DEF SeparateInv, SentApart
    <3>2. QED
      BY <3>1 DEF Apart
  <2>2. CASE view # {}
    BY <2>2 DEF SeparateInv, SentApart
  <2>3. QED
    BY <2>1, <2>2
<1>4. QED
  BY <1>1, <1>2, <1>3, ExpositionInvariance, PTL DEF ExpositionSpec

-----------------------------------------------------------------------------
(* What an item of the two kinds that have totals is counted under, and where *)
(* the one info series of the item says it.                                   *)
Place(k, item)    == IF k = "images" THEN <<item.type>> ELSE <<item.region, item.version>>
Placed(k, labels) == IF k = "images" THEN <<labels[3]>> ELSE SubSeq(labels, 2, 3)

Places(k, list, place) ==
  /\ \A s \in ToSet(list) : s.metric \notin Totals
  /\ \E info : {s \in ToSet(list) : s.metric = "info"} = {info} /\ Placed(k, info.labels) = place

(* An item is placed by its info series: an image by its type, an address by  *)
(* its region and version.                                                    *)
LEMMA ImagePlaced ==
  ASSUME NEW r, WellFormed("images", r)
  PROVE  LET i == newImage(r) IN Places("images", collectImage(i), Place("images", i))
<1> DEFINE i == newImage(r)
           labels == <<i.id, i.name, i.type>>
           names == <<"size", "min_disk">>
           info == Gauge("info", 1, labels \o <<i.about>>)
           figures == Gauges(names, i, labels) \o Optional("created", i.created, labels)
<1>1. AtMostOne(i.created) /\ Place("images", i) = <<i.type>>
  BY DEF newImage, WellFormed, Place
<1>2. /\ 2 \in Nat /\ DOMAIN names = 1..2 /\ names = [k \in 1..2 |-> names[k]]
      /\ \A k \in 1..2 : names[k] \in {"size", "min_disk"}
      /\ \A j, k \in 1..2 : names[j] = names[k] => j = k
  OBVIOUS
<1>3. IsArray(labels)
  <2> HIDE DEF i
  <2> QED BY Labels
<1>4. collectImage(i) = figures \o <<info>>
  BY DEF collectImage
<1>5. info.metric = "info" /\ info.labels = labels \o <<i.about>>
  BY DEF Gauge
<1>6. (labels \o <<i.about>>)[3] = i.type
  OBVIOUS
<1> HIDE DEF i, names, labels, info
<1>7. Bears(labels, labels)
  BY <1>3, Behind
<1>8. /\ Own(Gauges(names, i, labels), {"size", "min_disk"}, labels)
      /\ Own(Optional("created", i.created, labels), {"created"}, labels)
  BY <1>1, <1>2, <1>7, OwnGauges, OwnOptional
<1>9. Own(figures, {"size", "min_disk"} \cup {"created"}, labels)
  BY <1>8, OwnBoth
<1>10. IsArray(<<info>>) /\ ToSet(<<info>>) = {info}
  BY OneSeries
<1> HIDE DEF figures
<1>11. ToSet(collectImage(i)) = ToSet(figures) \cup {info}
  BY <1>4, <1>9, <1>10, JoinedArray DEF Own
<1>12. \A s \in ToSet(figures) : s.metric # "info" /\ s.metric \notin Totals
  BY <1>9 DEF Own, Totals
<1>13. {s \in ToSet(collectImage(i)) : s.metric = "info"} = {info}
  BY <1>5, <1>11, <1>12
<1>14. Placed("images", info.labels) = <<i.type>>
  BY <1>5, <1>6 DEF Placed
<1>15. info.metric \notin Totals
  BY <1>5 DEF Totals
<1>16. QED
  BY <1>1, <1>11, <1>12, <1>13, <1>14, <1>15 DEF Places, i

(* The second and third labels of a longer tuple.                            *)
LEMMA MiddleTwo ==
  ASSUME NEW a, NEW b, NEW c, NEW d, NEW e
  PROVE  SubSeq(<<a, b, c>> \o <<d, e>>, 2, 3) = <<b, c>>
<1>1. PICK x : x = <<a, b, c>>
  OBVIOUS
<1>2. PICK y : y = <<d, e>>
  OBVIOUS
<1>3. IsArray(x) /\ Len(x) = 3 /\ x[2] = b /\ x[3] = c
  BY <1>1, Tuples
<1>4. IsArray(y) /\ Len(y) = 2
  BY <1>2, Tuples
<1>5. PICK t : t = x \o y
  OBVIOUS
<1>6. IsArray(t)
  BY <1>3, <1>4, <1>5, JoinedArray
<1>7. 2 \in 1..Len(x) /\ 3 \in 1..Len(x)
  BY <1>3
<1>8. t[2] = b /\ t[3] = c
  BY <1>3, <1>4, <1>5, <1>7, JoinedByNumber
<1> DEFINE S == ToSet(t)
<1>9. t \in Seq(S)
  BY <1>6 DEF IsArray
<1>10. DOMAIN t = 1..5
  <2>1. DOMAIN t = 1..(Len(x) + Len(y))
    BY <1>3, <1>4, <1>5, JoinedByNumber
  <2>2. QED
    BY <1>3, <1>4, <2>1
<1> HIDE DEF S
<1> DEFINE u == SubSeq(t, 2, 3)
<1>11. Len(t) = 5
  BY <1>9, <1>10
<1>12. u = [i \in 1..2 |-> t[i + 1]]
  BY <1>9, <1>11
<1> HIDE DEF u
<1>13. DOMAIN u = 1..2 /\ u = [i \in 1..2 |-> u[i]] /\ u[1] = b /\ u[2] = c
  BY <1>8, <1>12
<1>14. u = <<b, c>>
  BY <1>13
<1>15. QED
  BY <1>1, <1>2, <1>5, <1>14 DEF u

(* collectReservedIP: region and version are the labels behind the id.       *)
LEMMA ReservedIPPlaced ==
  ASSUME NEW r
  PROVE  LET ip == newReservedIP(r)
         IN  Places("reservedips", collectReservedIP(ip), Place("reservedips", ip))
<1> DEFINE ip == newReservedIP(r)
           labels == <<ip.id, ip.region, ip.version>>
           a == Gauge("assigned", ip.assigned, labels)
           info == Gauge("info", 1, labels \o <<ip.droplet, ip.project>>)
<1>1. Place("reservedips", ip) = <<ip.region, ip.version>>
  BY DEF Place
<1>2. collectReservedIP(ip) = <<a, info>>
  BY DEF collectReservedIP
<1>3. /\ a.metric = "assigned"
      /\ info.metric = "info" /\ info.labels = labels \o <<ip.droplet, ip.project>>
  BY DEF Gauge
<1>4. SubSeq(labels \o <<ip.droplet, ip.project>>, 2, 3) = <<ip.region, ip.version>>
  <2> DEFINE w == ip.id
             x == ip.region
             y == ip.version
             v == ip.droplet
             z == ip.project
  <2> HIDE DEF w, x, y, v, z
  <2>1. SubSeq(<<w, x, y>> \o <<v, z>>, 2, 3) = <<x, y>>
    BY MiddleTwo
  <2>2. QED
    BY <2>1 DEF w, x, y, v, z
<1> HIDE DEF ip, labels, a, info
<1>5. ToSet(<<a, info>>) = {a, info}
  BY Pair
<1>6. {s \in ToSet(<<a, info>>) : s.metric = "info"} = {info}
  BY <1>3, <1>5
<1>7. Placed("reservedips", info.labels) = <<ip.region, ip.version>>
  BY <1>3, <1>4 DEF Placed
<1>8. \A s \in ToSet(<<a, info>>) : s.metric \notin Totals
  BY <1>3, <1>5 DEF Totals
<1>9. QED
  BY <1>1, <1>2, <1>6, <1>7, <1>8 DEF Places, ip

(* The two together: CollectItem says in one info series what Counts counts. *)
LEMMA ItemPlaced ==
  ASSUME NEW k \in {"images", "reservedips"}, NEW r, WellFormed(k, r)
  PROVE  LET item == New(k, r) IN Places(k, CollectItem(k, item), Place(k, item))
<1>1. CASE k = "images"
  <2>1. New(k, r) = newImage(r)
    BY <1>1 DEF New
  <2>2. CollectItem(k, New(k, r)) = collectImage(newImage(r))
    BY <1>1, <2>1 DEF CollectItem
  <2>3. QED
    BY <1>1, <2>1, <2>2, ImagePlaced
<1>2. CASE k = "reservedips"
  <2>1. New(k, r) = newReservedIP(r)
    BY <1>2 DEF New
  <2>2. CollectItem(k, New(k, r)) = collectReservedIP(newReservedIP(r))
    BY <1>2, <2>1 DEF CollectItem
  <2>3. QED
    BY <1>2, <2>1, <2>2, ReservedIPPlaced
<1>3. QED
  BY <1>1, <1>2

(* How many items are at a place. *)
Population(k, items, v) == Cardinality({n \in DOMAIN items : Place(k, items[n]) = v})

(* The totals Collect sends: one for each place, the number of items there,  *)
(* and of images one for every type that is known.                           *)
LEMMA TotalsOfItems ==
  ASSUME NEW k \in {"images", "reservedips"}, NEW items, IsArray(items)
  PROVE  LET list == collectCounts(Counts(k, items))
         IN  /\ \A s \in ToSet(list) :
                  s.metric = "count" /\ s.value = Population(k, items, s.labels)
             /\ k = "images" => \A t \in knownTypes : \E s \in ToSet(list) : s.labels = <<t>>
<1> DEFINE counts == Counts(k, items)
           list == SetToSeq(DOMAIN counts)
           made == [i \in DOMAIN list |-> Gauge("count", counts[list[i]], list[i])]
           places == [n \in DOMAIN items |-> Place(k, items[n])]
           known == IF k = "images" THEN {<<t>> : t \in knownTypes} ELSE {}
<1>1. counts = Tally(known, places)
  <2>1. CASE k = "images"
    <3>1. Counts(k, items) = Tally({<<t>> : t \in knownTypes}, [i \in DOMAIN items |-> <<items[i].type>>])
      BY <2>1 DEF Counts, Map
    <3>2. places = [i \in DOMAIN items |-> <<items[i].type>>]
      BY <2>1 DEF Place
    <3>3. QED
      BY <2>1, <3>1, <3>2
  <2>2. CASE k = "reservedips"
    <3>1. Counts(k, items) = Tally({}, [i \in DOMAIN items |-> <<items[i].region, items[i].version>>])
      BY <2>2 DEF Counts, Map
    <3>2. places = [i \in DOMAIN items |-> <<items[i].region, items[i].version>>]
      BY <2>2 DEF Place
    <3>3. QED
      BY <2>2, <3>1, <3>2
  <2>3. QED
    BY <2>1, <2>2
<1>2. IsArray(list) /\ ToSet(list) = DOMAIN counts
  BY CountsAreFinite, SetToSeqLists
<1>3. collectCounts(counts) = made
  BY DEF collectCounts, Map
<1>4. made = [i \in DOMAIN list |-> made[i]]
      /\ \A i \in DOMAIN list :
           made[i].metric = "count" /\ made[i].labels = list[i] /\ made[i].value = counts[list[i]]
  BY DEF Gauge
<1>5. DOMAIN places = DOMAIN items /\ \A n \in DOMAIN items : places[n] = Place(k, items[n])
  OBVIOUS
<1>6. k = "images" => \A t \in knownTypes : <<t>> \in known
  OBVIOUS
<1> HIDE DEF counts, list, made, places, known
<1>7. DOMAIN counts = known \cup ToSet(places)
      /\ \A v \in DOMAIN counts : counts[v] = Cardinality({n \in DOMAIN places : places[n] = v})
  BY <1>1 DEF Tally
<1>8. \A v : {n \in DOMAIN places : places[n] = v} = {n \in DOMAIN items : Place(k, items[n]) = v}
  BY <1>5
<1>9. DOMAIN made = DOMAIN list
  BY <1>4
<1>10. ASSUME NEW s \in ToSet(made)
       PROVE  s.metric = "count" /\ s.value = Population(k, items, s.labels)
  <2>1. PICK i \in DOMAIN list : s = made[i]
    BY <1>9 DEF ToSet
  <2>2. list[i] \in DOMAIN counts
    BY <1>2 DEF ToSet
  <2> DEFINE v == list[i]
  <2> HIDE DEF v
  <2>3. s.metric = "count" /\ s.labels = v /\ s.value = counts[v]
    BY <1>4, <2>1 DEF v
  <2>4. counts[v] = Population(k, items, v)
    BY <1>7, <1>8, <2>2 DEF v, Population
  <2>5. QED
    BY <2>3, <2>4
<1>11. ASSUME k = "images", NEW t \in knownTypes PROVE \E s \in ToSet(made) : s.labels = <<t>>
  <2>1. PICK v : v = <<t>>
    OBVIOUS
  <2>2. v \in ToSet(list)
    BY <1>2, <1>6, <1>7, <1>11, <2>1
  <2>3. PICK i \in DOMAIN list : list[i] = v
    BY <2>2 DEF ToSet
  <2>4. made[i] \in ToSet(made) /\ made[i].labels = v
    BY <1>4, <1>9, <2>3 DEF ToSet
  <2>5. QED
    BY <2>1, <2>4
<1>12. QED
  BY <1>3, <1>10, <1>11 DEF counts

(* Each number of the one list stands for one of the other, S for T.         *)
StandFor(stand, D, E, S, T) ==
  /\ S \subseteq D /\ T \subseteq E
  /\ \A n \in D : stand[n] \in E /\ (n \in S <=> stand[n] \in T)
  /\ \A m, n \in D : stand[m] = stand[n] => m = n
  /\ \A e \in E : \E n \in D : stand[n] = e

(* Then as many numbers are in S as in T.                                    *)
LEMMA AsMany ==
  ASSUME NEW D, IsFiniteSet(D), NEW E, NEW stand, NEW S, NEW T, StandFor(stand, D, E, S, T)
  PROVE  Cardinality(S) = Cardinality(T)
<1> DEFINE f == [n \in S |-> stand[n]]
<1>1. IsFiniteSet(S)
  BY FS_Subset DEF StandFor
<1>2. f \in [S -> T]
  BY DEF StandFor
<1>3. \A m, n \in S : f[m] = f[n] => m = n
  BY DEF StandFor
<1>4. \A e \in T : \E n \in S : f[n] = e
  BY DEF StandFor
<1> HIDE DEF f
<1>5. f \in Bijection(S, T)
  BY <1>2, <1>3, <1>4 DEF Bijection, Injection, Surjection, IsInjective
<1>6. ExistsBijection(S, T)
  BY <1>5 DEF ExistsBijection
<1>7. QED
  BY <1>1, <1>6, FS_Bijection

(* A whole scrape of images or addresses has as many info series at a place  *)
(* as the snapshot has items there, and no total among an item's series.     *)
LEMMA ShownWherePlaced ==
  ASSUME kind \in {"images", "reservedips"}, Snapshots, SeparateInv,
         NEW s \in view, emitted = Len(s.items) + 1
  PROVE  /\ \A v : Population(kind, s.items, v)
                     = Cardinality({i \in With("info", {}) : Placed(kind, sent[i].labels) = v})
         /\ \A i \in DOMAIN sent :
              sent[i].metric \in Totals => sent[i] \in ToSet(collectCounts(Counts(kind, s.items)))
         /\ \A t \in ToSet(collectCounts(Counts(kind, s.items))) : \E i \in DOMAIN sent : sent[i] = t
<1> DEFINE items == s.items
           m == Len(items)
           batch(n) == Batch(kind, s, n)
           E == With("info", {})
           stand == [n \in 1..m |-> CHOOSE i \in E : sent[i] \in ToSet(batch(n))]
<1>1. Holds(s) /\ Separate(kind, s) /\ IsArray(sent) /\ Apart(sent)
      /\ ToSet(sent) = UNION {ToSet(batch(n)) : n \in 1..emitted}
  BY DEF Snapshots, SeparateInv, SentApart
<1>2. IsArray(items) /\ s.counts = Counts(kind, items) /\ m \in Nat /\ DOMAIN items = 1..m
  BY <1>1, ArrayByNumber DEF Holds
<1>3. \A n \in 1..m : batch(n) = CollectItem(kind, items[n])
  BY <1>2 DEF Batch
<1>4. batch(m + 1) = collectCounts(Counts(kind, items))
  BY <1>2 DEF Batch
<1>5. 1..emitted = (1..m) \cup {m + 1} /\ Batches(s) = (1..m) \cup {m + 1}
  BY <1>2 DEF Batches
<1>6. \A x, n \in 1..m : x # n => Foreign(batch(x), batch(n))
  BY <1>1, <1>5 DEF Separate
<1>7. E = {i \in DOMAIN sent : sent[i].metric = "info"}
  BY DEF With
<1>8. stand = [n \in 1..m |-> stand[n]]
      /\ \A n \in 1..m : stand[n] = CHOOSE i \in E : sent[i] \in ToSet(batch(n))
  OBVIOUS
<1>9. ASSUME NEW n \in 1..m
      PROVE  Places(kind, CollectItem(kind, items[n]), Place(kind, items[n]))
  <2>1. PICK r \in Resources[kind] : items[n] = New(kind, r)
    <3>1. items[n] \in ToSet(items)
      BY <1>2 DEF ToSet
    <3>2. QED
      BY <1>1, <3>1 DEF Holds
  <2>2. kind \in Kinds
    BY DEF Kinds
  <2>3. WellFormed(kind, r)
    BY <2>2, ExpositionAssumption
  <2>4. QED
    BY <2>1, <2>3, ItemPlaced
<1> HIDE DEF items, m, batch, E, stand
<1>10. \A n \in 1..m : Places(kind, batch(n), Place(kind, items[n]))
  BY <1>3, <1>9
<1>11. \A t \in ToSet(sent) : \E i \in DOMAIN sent : sent[i] = t
  BY DEF ToSet
<1>12. \A i \in DOMAIN sent : sent[i] \in ToSet(sent)
  BY DEF ToSet
<1>13. \A t : t \in ToSet(sent) <=> (\E n \in 1..m : t \in ToSet(batch(n))) \/ t \in ToSet(batch(m + 1))
  <2>1. \A t : t \in ToSet(sent) <=> \E n \in 1..emitted : t \in ToSet(batch(n))
    BY <1>1
  <2> HIDE DEF batch
  <2>2. QED
    BY <1>5, <2>1
<1>14. \A t \in ToSet(batch(m + 1)) : t.metric = "count"
  BY <1>2, <1>4, CountsApart
<1>15. ASSUME NEW n \in 1..m
       PROVE  /\ stand[n] \in E /\ sent[stand[n]] \in ToSet(batch(n))
              /\ \A t \in ToSet(batch(n)) :
                   t.metric = "info" => t = sent[stand[n]] /\ Placed(kind, t.labels) = Place(kind, items[n])
  <2>1. PICK info : {t \in ToSet(batch(n)) : t.metric = "info"} = {info}
                    /\ Placed(kind, info.labels) = Place(kind, items[n])
    BY <1>10 DEF Places
  <2>2. PICK i \in DOMAIN sent : sent[i] = info
    BY <1>11, <1>13, <2>1
  <2>3. i \in E /\ sent[i] \in ToSet(batch(n))
    BY <1>7, <2>1, <2>2
  <2>4. stand[n] \in E /\ sent[stand[n]] \in ToSet(batch(n))
    BY <1>8, <2>3
  <2>5. sent[stand[n]] = info
    BY <1>7, <2>1, <2>4
  <2>6. QED
    BY <2>1, <2>4, <2>5
<1>16. \A n \in 1..m : Place(kind, items[n]) = Placed(kind, sent[stand[n]].labels)
  BY <1>7, <1>15
<1>17. \A x, n \in 1..m : stand[x] = stand[n] => x = n
  <2> SUFFICES ASSUME NEW x \in 1..m, NEW n \in 1..m, stand[x] = stand[n], x # n PROVE FALSE
    OBVIOUS
  <2>1. sent[stand[x]] \in ToSet(batch(x)) /\ sent[stand[x]] \in ToSet(batch(n))
    BY <1>15
  <2>2. QED
    BY <1>6, <2>1 DEF Foreign
<1>18. \A i \in E : \E n \in 1..m : stand[n] = i
  <2> SUFFICES ASSUME NEW i \in E PROVE \E n \in 1..m : stand[n] = i
    OBVIOUS
  <2>1. i \in DOMAIN sent /\ sent[i].metric = "info"
    BY <1>7
  <2>2. PICK n \in 1..m : sent[i] \in ToSet(batch(n))
    BY <1>12, <1>13, <1>14, <2>1
  <2>3. sent[i] = sent[stand[n]] /\ stand[n] \in DOMAIN sent
    BY <1>7, <1>15, <2>1, <2>2
  <2>4. QED
    BY <1>1, <2>1, <2>3 DEF Apart
<1>19. ASSUME NEW v
       PROVE  Population(kind, items, v)
                = Cardinality({i \in E : Placed(kind, sent[i].labels) = v})
  <2> DEFINE S == {n \in DOMAIN items : Place(kind, items[n]) = v}
             T == {i \in E : Placed(kind, sent[i].labels) = v}
             D == 1..m
  <2>1. IsFiniteSet(D)
    BY <1>2, FS_Interval
  <2>2. S \subseteq D /\ T \subseteq E
    BY <1>2
  <2>3. \A n \in D : stand[n] \in E /\ (n \in S <=> stand[n] \in T)
    BY <1>2, <1>15, <1>16
  <2>4. /\ \A x, n \in D : stand[x] = stand[n] => x = n
        /\ \A i \in E : \E n \in D : stand[n] = i
    BY <1>17, <1>18
  <2> HIDE DEF S, T, D
  <2>5. StandFor(stand, D, E, S, T)
    BY <2>2, <2>3, <2>4 DEF StandFor
  <2>6. Cardinality(S) = Cardinality(T)
    BY <2>1, <2>5, AsMany
  <2>7. QED
    BY <2>6 DEF S, T, Population
<1>20. \A i \in DOMAIN sent : sent[i].metric \in Totals => sent[i] \in ToSet(batch(m + 1))
  BY <1>10, <1>12, <1>13 DEF Places
<1>21. \A t \in ToSet(batch(m + 1)) : \E i \in DOMAIN sent : sent[i] = t
  BY <1>11, <1>13
<1>22. QED
  BY <1>4, <1>19, <1>20, <1>21 DEF items, E

(* Every total of images or addresses is the number of info series the same  *)
(* scrape shows at its place, and every known image type has one.            *)
LEMMA TotalsAddUp ==
  ASSUME kind \in {"images", "reservedips"}, Snapshots, SeparateInv,
         NEW s \in view, emitted = Len(s.items) + 1
  PROVE  CountsAgree
<1> DEFINE totals == collectCounts(Counts(kind, s.items))
           at(v) == {i \in With("info", {}) : Placed(kind, sent[i].labels) = v}
<1>1. IsArray(s.items)
  BY DEF Snapshots, Holds
<1>2. \A v : Population(kind, s.items, v) = Cardinality(at(v))
  BY ShownWherePlaced
<1>3. /\ \A i \in DOMAIN sent : sent[i].metric \in Totals => sent[i] \in ToSet(totals)
      /\ \A t \in ToSet(totals) : \E i \in DOMAIN sent : sent[i] = t
  BY ShownWherePlaced
<1>4. /\ \A t \in ToSet(totals) :
           t.metric = "count" /\ t.value = Population(kind, s.items, t.labels)
      /\ kind = "images" => \A x \in knownTypes : \E t \in ToSet(totals) : t.labels = <<x>>
  BY <1>1, TotalsOfItems
<1> HIDE DEF totals
<1>5. ASSUME NEW t, t.metric = "count" PROVE Counted(t) = at(t.labels)
  <2>1. CASE kind = "images"
    <3>1. Counted(t) = {i \in With("info", {}) : t.labels = <<sent[i].labels[3]>>}
      BY <1>5, <2>1 DEF Counted
    <3>2. \A v : at(v) = {i \in With("info", {}) : v = <<sent[i].labels[3]>>}
      BY <2>1 DEF Placed
    <3>3. QED
      BY <3>1, <3>2
  <2>2. CASE kind = "reservedips"
    <3>1. Counted(t) = {i \in With("info", {}) : t.labels = SubSeq(sent[i].labels, 2, 3)}
      BY <1>5, <2>2 DEF Counted
    <3>2. \A v : at(v) = {i \in With("info", {}) : v = SubSeq(sent[i].labels, 2, 3)}
      BY <2>2 DEF Placed
    <3>3. QED
      BY <3>1, <3>2
  <2>3. QED
    BY <2>1, <2>2
<1> HIDE DEF at
<1>6. ASSUME NEW i \in DOMAIN sent, sent[i].metric \in Totals
      PROVE  sent[i].metric # "upgrade_available" /\ sent[i].value = Cardinality(Counted(sent[i]))
  <2> DEFINE t == sent[i]
  <2>1. t \in ToSet(totals)
    BY <1>3, <1>6
  <2> HIDE DEF t
  <2>2. t.metric = "count" /\ t.value = Cardinality(at(t.labels))
    BY <1>2, <1>4, <2>1
  <2>3. QED
    BY <1>5, <2>2 DEF t
<1>7. ASSUME kind = "images", NEW x \in knownTypes PROVE With("count", {x}) # {}
  <2>1. PICK t \in ToSet(totals) : t.metric = "count" /\ t.labels = <<x>>
    BY <1>4, <1>7
  <2>2. PICK i \in DOMAIN sent : sent[i] = t
    BY <1>3, <2>1
  <2>3. ToSet(<<x>>) = {x}
    BY OneSeries
  <2>4. i \in With("count", {x})
    BY <2>1, <2>2, <2>3 DEF With
  <2>5. QED
    BY <2>4
<1>8. QED
  BY <1>6, <1>7 DEF CountsAgree

(* The totals of a whole scrape of images or reserved addresses add up, for  *)
(* every account and every refresh that may run while it emits.              *)
THEOREM TotalsAgree ==
  ExpositionSpec => [](Done /\ kind \in {"images", "reservedips"} => CountsAgree)
<1>1. ExpositionInit => SeparateInv
  BY DEF ExpositionInit, SeparateInv, SentApart
<1>2. ExpositionInv /\ SeparateInv /\ [ExpositionNext]_expositionVars => SeparateInv'
  BY SeparateStep
<1>3. ExpositionInv /\ SeparateInv => (Done /\ kind \in {"images", "reservedips"} => CountsAgree)
  <2> SUFFICES ASSUME ExpositionInv, SeparateInv, Done, kind \in {"images", "reservedips"}
               PROVE  CountsAgree
    OBVIOUS
  <2>1. PICK s \in view : emitted > Len(s.items)
    BY DEF Done
  <2>2. Len(s.items) \in Nat /\ emitted \in 0 .. Len(s.items) + 1
    BY ArrayByNumber DEF ExpositionInv, Scraped, Snapshots, Holds
  <2>3. emitted = Len(s.items) + 1
    BY <2>1, <2>2
  <2>4. QED
    BY <2>3, TotalsAddUp DEF ExpositionInv
<1>4. QED
  BY <1>1, <1>2, <1>3, ExpositionInvariance, PTL DEF ExpositionSpec
=============================================================================
