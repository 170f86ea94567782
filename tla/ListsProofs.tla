---------------------------- MODULE ListsProofs ----------------------------
(***************************************************************************)
(* What the picking loop of Lists.tla returns, for every list and every    *)
(* set, and the facts about the members of a list that the proofs about    *)
(* listings and flags need.  The loop is a recursive function, and so is   *)
(* FlattenSeq: what they compute is proved by induction.  The induction    *)
(* theorems of the library take the statement as an operator, which the    *)
(* provers cannot instantiate, so the principle is stated here for a set   *)
(* of numbers instead.                                                     *)
(***************************************************************************)
EXTENDS Lists, SequencesExt, WellFoundedInduction, TLAPS

(* A set of numbers that has a member has a least one. *)
Below == {pair \in Nat \X Nat : pair[1] < pair[2]}

LEMMA LeastExists ==
  ASSUME NEW S \in SUBSET Nat, S # {}
  PROVE  Min(S) \in S /\ \A n \in S : Min(S) <= n
<1>1. IsWellFoundedOn(Below, Nat)
  BY NatLessThanWellFounded DEF OpToRel, Below
<1>2. PICK m \in S : \A n \in S : ~(<<n, m>> \in Below)
  BY <1>1, WFMin
<1>3. ASSUME NEW n \in S
      PROVE  m <= n
  <2> SUFFICES ASSUME n < m PROVE FALSE
    OBVIOUS
  <2>1. <<n, m>> \in Nat \X Nat /\ <<n, m>>[1] < <<n, m>>[2]
    OBVIOUS
  <2>2. <<n, m>> \in Below
    BY <2>1 DEF Below
  <2>3. QED
    BY <1>2, <2>2
<1>4. QED
  BY <1>2, <1>3 DEF Min

(* Induction: a set that holds 0 and every successor holds every number. *)
LEMMA NumbersByInduction ==
  ASSUME NEW S, 0 \in S, \A n \in Nat : n \in S => n + 1 \in S
  PROVE  \A n \in Nat : n \in S
<1> SUFFICES ASSUME Nat \ S # {} PROVE FALSE
  OBVIOUS
<1> DEFINE m == Min(Nat \ S)
<1>1. m \in Nat \ S /\ \A n \in Nat \ S : m <= n
  BY LeastExists
<1> HIDE DEF m
<1>2. m - 1 \in Nat /\ m - 1 < m
  BY <1>1
<1>3. m - 1 \in S
  BY <1>1, <1>2
<1>4. (m - 1) + 1 \in S
  BY <1>2, <1>3
<1>5. QED
  BY <1>1, <1>2, <1>4

-----------------------------------------------------------------------------
(* The members of a list to which one item, or another list, is appended;   *)
(* and when no two of them are the same.                                    *)
LEMMA AppendMembers ==
  ASSUME NEW S, NEW list \in Seq(S), NEW item \in S
  PROVE  /\ Append(list, item) \in Seq(S)
         /\ ToSet(Append(list, item)) = ToSet(list) \cup {item}
         /\ IsInjective(list) /\ item \notin ToSet(list) => IsInjective(Append(list, item))
<1> DEFINE longer == Append(list, item)
<1>1. /\ longer \in Seq(S) /\ Len(longer) = Len(list) + 1 /\ DOMAIN longer = 1..(Len(list) + 1)
      /\ \A k \in 1..Len(list) : longer[k] = list[k]
      /\ longer[Len(list) + 1] = item
      /\ Len(list) \in Nat /\ DOMAIN list = 1..Len(list)
  OBVIOUS
<1> HIDE DEF longer
<1>2. ToSet(longer) = ToSet(list) \cup {item}
  BY <1>1 DEF ToSet
<1>3. ASSUME IsInjective(list), item \notin ToSet(list) PROVE IsInjective(longer)
  BY <1>1, <1>3 DEF IsInjective, ToSet
<1>4. QED
  BY <1>1, <1>2, <1>3 DEF longer

LEMMA ConcatMembers ==
  ASSUME NEW S, NEW list \in Seq(S), NEW more \in Seq(S)
  PROVE  /\ list \o more \in Seq(S)
         /\ ToSet(list \o more) = ToSet(list) \cup ToSet(more)
         /\ IsInjective(list) /\ IsInjective(more) /\ ToSet(list) \cap ToSet(more) = {}
              => IsInjective(list \o more)
<1> DEFINE both == list \o more
<1>1. /\ both \in Seq(S) /\ DOMAIN both = 1..(Len(list) + Len(more))
      /\ \A k \in 1..Len(list) : both[k] = list[k]
      /\ \A k \in 1..(Len(list) + Len(more)) : k > Len(list) => both[k] = more[k - Len(list)]
      /\ Len(list) \in Nat /\ DOMAIN list = 1..Len(list)
      /\ Len(more) \in Nat /\ DOMAIN more = 1..Len(more)
  OBVIOUS
<1>2. \A k \in 1..Len(more) : both[k + Len(list)] = more[k]
  BY <1>1
<1> HIDE DEF both
<1>3. ToSet(both) = ToSet(list) \cup ToSet(more)
  <2>1. ToSet(both) \subseteq ToSet(list) \cup ToSet(more)
    BY <1>1 DEF ToSet
  <2>2. ToSet(list) \subseteq ToSet(both)
    BY <1>1 DEF ToSet
  <2>3. ToSet(more) \subseteq ToSet(both)
    BY <1>1, <1>2 DEF ToSet
  <2>4. QED
    BY <2>1, <2>2, <2>3
<1>4. ASSUME IsInjective(list), IsInjective(more), ToSet(list) \cap ToSet(more) = {}
      PROVE  IsInjective(both)
  <2> SUFFICES ASSUME NEW a \in DOMAIN both, NEW b \in DOMAIN both, both[a] = both[b]
               PROVE  a = b
    BY DEF IsInjective
  <2>1. CASE a <= Len(list) /\ b <= Len(list)
    BY <1>1, <1>4, <2>1 DEF IsInjective
  <2>2. CASE a > Len(list) /\ b > Len(list)
    <3>1. a - Len(list) \in DOMAIN more /\ b - Len(list) \in DOMAIN more
      BY <1>1, <2>2
    <3>2. a - Len(list) = b - Len(list)
      BY <1>1, <1>4, <2>2, <3>1 DEF IsInjective
    <3>3. QED
      BY <1>1, <3>2
  <2>3. ASSUME NEW i \in DOMAIN both, NEW j \in DOMAIN both, i <= Len(list), j > Len(list)
        PROVE  both[i] # both[j]
    <3>1. both[i] \in ToSet(list)
      BY <1>1, <2>3 DEF ToSet
    <3>2. j - Len(list) \in DOMAIN more /\ both[j] = more[j - Len(list)]
      BY <1>1, <2>3
    <3>3. both[j] \in ToSet(more)
      BY <3>2 DEF ToSet
    <3>4. QED
      BY <1>4, <3>1, <3>3
  <2>4. QED
    BY <1>1, <2>1, <2>2, <2>3
<1>5. QED
  BY <1>1, <1>3, <1>4 DEF both

(* A list without repeats has every member at one place, and a part of it   *)
(* has none either.                                                         *)
LEMMA PartMembers ==
  ASSUME NEW S, NEW list \in Seq(S), NEW from \in Nat \ {0}, NEW to \in 0..Len(list)
  PROVE  /\ SubSeq(list, from, to) \in Seq(S)
         /\ ToSet(SubSeq(list, from, to)) = {list[k] : k \in from..to}
         /\ IsInjective(list) => IsInjective(SubSeq(list, from, to))
         /\ Len(SubSeq(list, from, to)) = IF from <= to THEN to - from + 1 ELSE 0
<1> DEFINE part == SubSeq(list, from, to)
<1>1. /\ part \in Seq(S) /\ Len(part) = (IF from <= to THEN to - from + 1 ELSE 0)
      /\ DOMAIN part = 1..Len(part)
      /\ \A k \in DOMAIN part : part[k] = list[from + k - 1]
      /\ DOMAIN list = 1..Len(list) /\ Len(list) \in Nat
  OBVIOUS
<1>2. \A k \in from..to : k - from + 1 \in DOMAIN part /\ part[k - from + 1] = list[k]
  BY <1>1
<1>3. \A k \in DOMAIN part : from + k - 1 \in from..to
  BY <1>1
<1> HIDE DEF part
<1>4. ToSet(part) = {list[k] : k \in from..to}
  BY <1>1, <1>2, <1>3 DEF ToSet
<1>5. ASSUME IsInjective(list) PROVE IsInjective(part)
  <2> SUFFICES ASSUME NEW a \in DOMAIN part, NEW b \in DOMAIN part, part[a] = part[b]
               PROVE  a = b
    BY DEF IsInjective
  <2>1. from + a - 1 \in DOMAIN list /\ from + b - 1 \in DOMAIN list
    BY <1>1, <1>3
  <2>2. list[from + a - 1] = list[from + b - 1]
    BY <1>1
  <2>3. from + a - 1 = from + b - 1
    BY <1>5, <2>1, <2>2 DEF IsInjective
  <2>4. QED
    BY <1>1, <2>3
<1>6. QED
  BY <1>1, <1>4, <1>5 DEF part

(* The items behind the first so many, up to a number of them. *)
Stretch(list, start, size) ==
  SubSeq(list, start + 1, IF start + size < Len(list) THEN start + size ELSE Len(list))

LEMMA StretchMembers ==
  ASSUME NEW S, NEW list \in Seq(S), NEW start \in Nat, NEW size \in Nat \ {0}
  PROVE  /\ Stretch(list, start, size) \in Seq(S)
         /\ ToSet(Stretch(list, start, size)) =
              {list[k] : k \in {k \in DOMAIN list : start < k /\ k <= start + size}}
         /\ IsInjective(list) => IsInjective(Stretch(list, start, size))
         /\ Len(Stretch(list, start, size)) < size => Len(list) < start + size
<1> DEFINE stop == IF start + size < Len(list) THEN start + size ELSE Len(list)
<1>1. stop \in 0..Len(list) /\ start + 1 \in Nat \ {0} /\ Stretch(list, start, size) = SubSeq(list, start + 1, stop)
  BY DEF Stretch
<1>2. (start + 1)..stop = {k \in DOMAIN list : start < k /\ k <= start + size}
  OBVIOUS
<1>3. (IF start + 1 <= stop THEN stop - (start + 1) + 1 ELSE 0) < size => Len(list) < start + size
  OBVIOUS
<1> HIDE DEF stop
<1>4. /\ SubSeq(list, start + 1, stop) \in Seq(S)
      /\ ToSet(SubSeq(list, start + 1, stop)) = {list[k] : k \in (start + 1)..stop}
      /\ IsInjective(list) => IsInjective(SubSeq(list, start + 1, stop))
      /\ Len(SubSeq(list, start + 1, stop)) = IF start + 1 <= stop THEN stop - (start + 1) + 1 ELSE 0
  BY <1>1, PartMembers
<1>5. QED
  BY <1>1, <1>2, <1>3, <1>4

-----------------------------------------------------------------------------
(* The runs of a loop: its state after each step is a function of the number *)
(* of the step and the state before it.                                     *)
Runs(base, step, size, T) ==
  {g \in [0..size -> T] : g[0] = base /\ \A k \in 1..size : g[k] = step[<<k, g[k - 1]>>]}

(* Such a loop can be run for any number of steps. *)
LEMMA Iterates ==
  ASSUME NEW T, NEW base \in T, NEW size \in Nat, NEW step \in [(1..size) \X T -> T]
  PROVE  Runs(base, step, size, T) # {}
<1> DEFINE Run(g, n) == g[0] = base /\ \A k \in 1..n : g[k] = step[<<k, g[k - 1]>>]
           runs == {n \in Nat : n <= size => \E g \in [0..n -> T] : Run(g, n)}
<1>1. 0 \in runs
  <2>1. [k \in 0..0 |-> base] \in [0..0 -> T] /\ Run([k \in 0..0 |-> base], 0)
    OBVIOUS
  <2>2. QED
    BY <2>1
<1>2. ASSUME NEW n \in Nat, n \in runs
      PROVE  n + 1 \in runs
  <2> SUFFICES ASSUME n + 1 <= size PROVE \E h \in [0..(n + 1) -> T] : Run(h, n + 1)
    OBVIOUS
  <2>1. PICK g \in [0..n -> T] : Run(g, n)
    BY <1>2
  <2> DEFINE last == step[<<n + 1, g[n]>>]
             h == [k \in 0..(n + 1) |-> IF k = n + 1 THEN last ELSE g[k]]
  <2>2. last \in T
    <3>1. n + 1 \in 1..size /\ g[n] \in T
      BY <2>1
    <3>2. QED
      BY <3>1
  <2>3. h \in [0..(n + 1) -> T] /\ h[0] = base
    <3> HIDE DEF last
    <3> QED BY <2>1, <2>2
  <2>4. ASSUME NEW k \in 1..(n + 1)
        PROVE  h[k] = step[<<k, h[k - 1]>>]
    <3>1. k - 1 \in 0..n /\ h[k - 1] = g[k - 1]
      OBVIOUS
    <3>2. CASE k = n + 1
      <4>1. h[n + 1] = last /\ h[(n + 1) - 1] = g[n]
        OBVIOUS
      <4>2. h[n + 1] = step[<<n + 1, h[(n + 1) - 1]>>]
        <5> HIDE DEF h
        <5> QED BY <4>1
      <4>3. QED
        <5> HIDE DEF h
        <5> QED BY <3>2, <4>2
    <3>3. CASE k # n + 1
      <4>1. k \in 1..n /\ h[k] = g[k]
        BY <3>3
      <4>2. QED
        <5> HIDE DEF h
        <5> QED BY <2>1, <3>1, <4>1
    <3>4. QED
      BY <3>2, <3>3
  <2>5. QED
    <3> HIDE DEF h
    <3> QED BY <2>3, <2>4
<1>3. size \in runs
  <2> HIDE DEF runs
  <2> QED BY <1>1, <1>2, NumbersByInduction
<1>4. QED
  BY <1>3 DEF Runs

(* Two loops that start alike, and step alike from like states, end alike. *)
LEMMA SameRun ==
  ASSUME NEW size \in Nat, NEW f, NEW g, f[0] = g[0],
         \A k \in 1..size : f[k - 1] = g[k - 1] => f[k] = g[k]
  PROVE  f[size] = g[size]
<1> DEFINE agree == {n \in Nat : n <= size => f[n] = g[n]}
<1>1. 0 \in agree
  OBVIOUS
<1>2. ASSUME NEW n \in Nat, n \in agree
      PROVE  n + 1 \in agree
  <2> SUFFICES ASSUME n + 1 <= size PROVE f[n + 1] = g[n + 1]
    OBVIOUS
  <2>1. n + 1 \in 1..size /\ (n + 1) - 1 = n /\ f[n] = g[n]
    BY <1>2
  <2>2. QED
    BY <2>1
<1>3. size \in agree
  <2> HIDE DEF agree
  <2> QED BY <1>1, <1>2, NumbersByInduction
<1>4. QED
  BY <1>3

-----------------------------------------------------------------------------
(* The picking loop is such a loop. *)
Picks(list, set, S) ==
  {g \in [0..Len(list) -> Seq(S)] :
     /\ g[0] = << >>
     /\ \A k \in 1..Len(list) :
          g[k] = IF list[k] \in set THEN Append(g[k - 1], list[k]) ELSE g[k - 1]}

LEMMA OnlyIsLoop ==
  ASSUME NEW S, NEW list \in Seq(S), NEW set
  PROVE  \E g \in Picks(list, set, S) : Only(list, set) = g[Len(list)]
<1> DEFINE step == [p \in (1..Len(list)) \X Seq(S) |->
                      IF list[p[1]] \in set THEN Append(p[2], list[p[1]]) ELSE p[2]]
           Follows(f) ==
             f = [n \in 0..Len(list) |->
                    IF n = 0 THEN << >>
                    ELSE IF list[n] \in set THEN Append(f[n - 1], list[n]) ELSE f[n - 1]]
           kept == CHOOSE f : Follows(f)
<1>1. Only(list, set) = kept[Len(list)]
  BY DEF Only
<1>2. step \in [(1..Len(list)) \X Seq(S) -> Seq(S)]
  OBVIOUS
<1>3. \A k \in 1..Len(list) : \A x \in Seq(S) :
        step[<<k, x>>] = IF list[k] \in set THEN Append(x, list[k]) ELSE x
  OBVIOUS
<1>4. << >> \in Seq(S) /\ Len(list) \in Nat
  OBVIOUS
<1>5. PICK g : g \in Runs(<< >>, step, Len(list), Seq(S))
  <2> HIDE DEF step
  <2>1. Runs(<< >>, step, Len(list), Seq(S)) # {}
    BY <1>2, <1>4, Iterates
  <2>2. QED
    BY <2>1
<1> HIDE DEF step
<1>6. /\ g \in [0..Len(list) -> Seq(S)] /\ g[0] = << >>
      /\ \A k \in 1..Len(list) : g[k] = step[<<k, g[k - 1]>>]
  BY <1>5 DEF Runs
<1>7. \A k \in 1..Len(list) :
        g[k] = IF list[k] \in set THEN Append(g[k - 1], list[k]) ELSE g[k - 1]
  <2>1. \A k \in 1..Len(list) : k - 1 \in 0..Len(list) /\ g[k - 1] \in Seq(S)
    BY <1>6
  <2>2. QED
    BY <1>3, <1>6, <2>1
<1>8. Follows(g)
  <2>1. ASSUME NEW n \in 0..Len(list)
        PROVE  g[n] = IF n = 0 THEN << >>
                      ELSE IF list[n] \in set THEN Append(g[n - 1], list[n]) ELSE g[n - 1]
    <3>1. CASE n = 0
      BY <1>6, <3>1
    <3>2. CASE n \in 1..Len(list)
      BY <1>7, <3>2
    <3>3. QED
      BY <3>1, <3>2
  <2>2. QED
    BY <1>6, <2>1
<1>9. Follows(kept)
  <2> HIDE DEF Follows
  <2> QED BY <1>8
<1>10. kept[Len(list)] = g[Len(list)]
  <2> HIDE DEF kept
  <2>1. kept[0] = g[0]
    BY <1>6, <1>9
  <2>2. \A n \in 0..Len(list) :
          kept[n] = IF n = 0 THEN << >>
                    ELSE IF list[n] \in set THEN Append(kept[n - 1], list[n]) ELSE kept[n - 1]
    BY <1>9
  <2>3. \A k \in 1..Len(list) :
          kept[k] = IF list[k] \in set THEN Append(kept[k - 1], list[k]) ELSE kept[k - 1]
    BY <2>2
  <2>4. \A k \in 1..Len(list) : kept[k - 1] = g[k - 1] => kept[k] = g[k]
    BY <1>7, <2>3
  <2>5. QED
    BY <1>4, <2>1, <2>4, SameRun
<1>11. QED
  BY <1>1, <1>6, <1>7, <1>10 DEF Picks


(* The loop returns the members of the list that are in the set, and none    *)
(* of them twice if the list held none twice.                               *)
LEMMA OnlyMembers ==
  ASSUME NEW S, NEW list \in Seq(S), NEW set
  PROVE  /\ Only(list, set) \in Seq(S)
         /\ ToSet(Only(list, set)) = ToSet(list) \cap set
         /\ IsInjective(list) => IsInjective(Only(list, set))
<1>1. PICK g \in Picks(list, set, S) : Only(list, set) = g[Len(list)]
  BY OnlyIsLoop
<1>2. /\ g \in [0..Len(list) -> Seq(S)] /\ g[0] = << >>
      /\ \A k \in 1..Len(list) :
           g[k] = IF list[k] \in set THEN Append(g[k - 1], list[k]) ELSE g[k - 1]
  BY <1>1 DEF Picks
<1> DEFINE first(n) == {list[k] : k \in 1..n}
           right == {n \in Nat : n <= Len(list) =>
                       /\ ToSet(g[n]) = first(n) \cap set
                       /\ IsInjective(list) => IsInjective(g[n])}
<1>3. 0 \in right
  BY <1>2 DEF ToSet, IsInjective
<1>4. ASSUME NEW n \in Nat, n \in right
      PROVE  n + 1 \in right
  <2> SUFFICES ASSUME n + 1 <= Len(list)
               PROVE  /\ ToSet(g[n + 1]) = first(n + 1) \cap set
                      /\ IsInjective(list) => IsInjective(g[n + 1])
    OBVIOUS
  <2>0. /\ n + 1 \in 1..Len(list) /\ (n + 1) - 1 = n /\ n <= Len(list) /\ n \in 0..Len(list)
        /\ list[n + 1] \in S /\ g[n] \in Seq(S)
    BY <1>2
  <2>1. ToSet(g[n]) = first(n) \cap set /\ (IsInjective(list) => IsInjective(g[n]))
    BY <1>4, <2>0
  <2>2. first(n + 1) = first(n) \cup {list[n + 1]}
    OBVIOUS
  <2>3. CASE list[n + 1] \notin set
    <3>1. g[n + 1] = g[n]
      BY <1>2, <2>0, <2>3
    <3>2. QED
      <4> HIDE DEF first
      <4> QED BY <2>1, <2>2, <2>3, <3>1
  <2>4. CASE list[n + 1] \in set
    <3>1. g[n + 1] = Append(g[n], list[n + 1])
      BY <1>2, <2>0, <2>4
    <3>2. ToSet(g[n + 1]) = ToSet(g[n]) \cup {list[n + 1]}
      BY <2>0, <3>1, AppendMembers
    <3>3. ASSUME IsInjective(list) PROVE list[n + 1] \notin ToSet(g[n])
      <4>1. list[n + 1] \notin first(n)
        <5>1. \A k \in 1..n : k \in DOMAIN list /\ n + 1 \in DOMAIN list /\ k # n + 1
          BY <2>0
        <5>2. QED
          BY <3>3, <5>1 DEF IsInjective
      <4>2. QED
        <5> HIDE DEF first
        <5> QED BY <2>1, <4>1
    <3>4. IsInjective(list) => IsInjective(g[n + 1])
      BY <2>0, <2>1, <3>1, <3>3, AppendMembers
    <3>5. QED
      <4> HIDE DEF first
      <4> QED BY <2>1, <2>2, <2>4, <3>2, <3>4
  <2>5. QED
    BY <2>3, <2>4
<1>5. Len(list) \in right
  <2> HIDE DEF right
  <2> QED BY <1>3, <1>4, NumbersByInduction
<1>6. first(Len(list)) = ToSet(list)
  BY DEF ToSet
<1>7. QED
  <2>1. /\ ToSet(g[Len(list)]) = first(Len(list)) \cap set
        /\ IsInjective(list) => IsInjective(g[Len(list)])
    BY <1>5
  <2>2. g[Len(list)] \in Seq(S)
    BY <1>2
  <2>3. QED
    <3> HIDE DEF first
    <3> QED BY <1>1, <1>6, <2>1, <2>2

-----------------------------------------------------------------------------
(* A list of lists made one: its members are theirs. *)
Joins(lists, S) ==
  {g \in [0..Len(lists) -> Seq(S)] :
     g[0] = << >> /\ \A k \in 1..Len(lists) : g[k] = g[k - 1] \o lists[k]}

LEMMA FlattenIsLoop ==
  ASSUME NEW S, NEW lists \in Seq(Seq(S))
  PROVE  \E g \in Joins(lists, S) : FlattenSeq(lists) = g[Len(lists)]
<1> DEFINE step == [p \in (1..Len(lists)) \X Seq(S) |-> p[2] \o lists[p[1]]]
           Follows(f) ==
             f = [i \in 1..Len(lists) |-> IF i = 1 THEN lists[i] ELSE f[i - 1] \o lists[i]]
           flatten == CHOOSE f : Follows(f)
<1>1. step \in [(1..Len(lists)) \X Seq(S) -> Seq(S)]
  <2>1. ASSUME NEW p \in (1..Len(lists)) \X Seq(S)
        PROVE  p[2] \o lists[p[1]] \in Seq(S)
    <3>1. p[2] \in Seq(S) /\ lists[p[1]] \in Seq(S)
      OBVIOUS
    <3>2. QED
      BY <3>1, ConcatMembers
  <2>2. QED
    BY <2>1
<1>2. << >> \in Seq(S) /\ Len(lists) \in Nat
  OBVIOUS
<1>3. PICK g : g \in Runs(<< >>, step, Len(lists), Seq(S))
  <2> HIDE DEF step
  <2>1. Runs(<< >>, step, Len(lists), Seq(S)) # {}
    BY <1>1, <1>2, Iterates
  <2>2. QED
    BY <2>1
<1>4. /\ g \in [0..Len(lists) -> Seq(S)] /\ g[0] = << >>
      /\ \A k \in 1..Len(lists) : g[k] = step[<<k, g[k - 1]>>]
  <2> HIDE DEF step
  <2> QED BY <1>3 DEF Runs
<1>5. \A k \in 1..Len(lists) : g[k] = g[k - 1] \o lists[k]
  <2>1. \A k \in 1..Len(lists) : \A x \in Seq(S) : step[<<k, x>>] = x \o lists[k]
    OBVIOUS
  <2> HIDE DEF step
  <2>2. ASSUME NEW k \in 1..Len(lists) PROVE g[k - 1] \in Seq(S)
    <3>1. k - 1 \in 0..Len(lists)
      OBVIOUS
    <3>2. QED
      BY <1>4, <3>1
  <2>3. QED
    BY <1>4, <2>1, <2>2
<1> HIDE DEF step
<1>6. CASE Len(lists) = 0
  <2>1. FlattenSeq(lists) = << >>
    BY <1>6 DEF FlattenSeq
  <2>2. QED
    BY <1>4, <1>5, <1>6, <2>1 DEF Joins
<1>7. CASE Len(lists) # 0
  <2>1. FlattenSeq(lists) = flatten[Len(lists)]
    BY <1>7 DEF FlattenSeq
  <2>2. g[1] = lists[1]
    <3>1. 1 \in 1..Len(lists) /\ lists[1] \in Seq(S)
      BY <1>2, <1>7
    <3>2. g[1] = g[1 - 1] \o lists[1]
      <4> HIDE DEF Follows
      <4> QED BY <1>5, <3>1, Zenon
    <3>3. g[1 - 1] = << >>
      <4>1. 1 - 1 = 0
        OBVIOUS
      <4>2. QED
        BY <1>4, <4>1, Zenon
    <3>4. << >> \o lists[1] = lists[1]
      BY <3>1
    <3>5. QED
      BY <3>2, <3>3, <3>4
  <2> DEFINE tail == [i \in 1..Len(lists) |-> g[i]]
  <2>3. Follows(tail)
    <3>1. ASSUME NEW i \in 1..Len(lists)
          PROVE  g[i] = IF i = 1 THEN lists[i] ELSE tail[i - 1] \o lists[i]
      <4>1. CASE i = 1
        BY <2>2, <4>1
      <4>2. CASE i # 1
        <5>1. i - 1 \in 1..Len(lists) /\ tail[i - 1] = g[i - 1]
          BY <4>2
        <5>2. QED
          <6> HIDE DEF tail
          <6> QED BY <1>5, <4>2, <5>1
      <4>3. QED
        BY <4>1, <4>2
    <3>2. QED
      BY <3>1
  <2>4. Follows(flatten)
    <3> HIDE DEF Follows
    <3> QED BY <2>3
  <2> DEFINE whole == [i \in 0..Len(lists) |-> IF i = 0 THEN << >> ELSE flatten[i]]
  <2>5. whole[Len(lists)] = g[Len(lists)]
    <3>1. \A k \in 1..Len(lists) :
            flatten[k] = IF k = 1 THEN lists[k] ELSE flatten[k - 1] \o lists[k]
      <4> HIDE DEF flatten
      <4> QED BY <2>4
    <3> HIDE DEF flatten
    <3>2. whole[0] = g[0]
      BY <1>4
    <3>3. ASSUME NEW k \in 1..Len(lists), whole[k - 1] = g[k - 1]
          PROVE  whole[k] = g[k]
      <4>0. whole[k] = flatten[k]
        OBVIOUS
      <4>1. CASE k = 1
        <5> HIDE DEF whole
        <5> QED BY <2>2, <3>1, <4>0, <4>1
      <4>2. CASE k # 1
        <5>1. k - 1 \in 1..Len(lists) /\ whole[k - 1] = flatten[k - 1]
          BY <4>2
        <5>2. g[k] = g[k - 1] \o lists[k] /\ flatten[k] = flatten[k - 1] \o lists[k]
          <6> HIDE DEF whole, tail
          <6> QED BY <1>5, <3>1, <4>2
        <5>3. QED
          <6> HIDE DEF whole, tail
          <6> QED BY <3>3, <4>0, <5>1, <5>2
      <4>3. QED
        BY <4>1, <4>2
    <3>4. QED
      <4> HIDE DEF whole
      <4> QED BY <1>2, <3>2, <3>3, SameRun
  <2>6. whole[Len(lists)] = flatten[Len(lists)]
    BY <1>2, <1>7
  <2>7. QED
    BY <1>4, <1>5, <2>1, <2>5, <2>6 DEF Joins
<1>8. QED
  BY <1>6, <1>7

LEMMA FlattenMembers ==
  ASSUME NEW S, NEW lists \in Seq(Seq(S))
  PROVE  /\ FlattenSeq(lists) \in Seq(S)
         /\ ToSet(FlattenSeq(lists)) = UNION {ToSet(list) : list \in ToSet(lists)}
<1>1. PICK g \in Joins(lists, S) : FlattenSeq(lists) = g[Len(lists)]
  BY FlattenIsLoop
<1>2. /\ g \in [0..Len(lists) -> Seq(S)] /\ g[0] = << >>
      /\ \A k \in 1..Len(lists) : g[k] = g[k - 1] \o lists[k]
      /\ FlattenSeq(lists) = g[Len(lists)]
  BY <1>1 DEF Joins
<1> DEFINE first(n) == UNION {ToSet(lists[k]) : k \in 1..n}
           right == {n \in Nat : n <= Len(lists) => ToSet(g[n]) = first(n)}
<1>3. 0 \in right
  BY <1>2 DEF ToSet
<1>4. ASSUME NEW n \in Nat, n \in right
      PROVE  n + 1 \in right
  <2> SUFFICES ASSUME n + 1 <= Len(lists) PROVE ToSet(g[n + 1]) = first(n + 1)
    OBVIOUS
  <2>1. n + 1 \in 1..Len(lists) /\ (n + 1) - 1 = n /\ n <= Len(lists) /\ n \in 0..Len(lists)
    OBVIOUS
  <2>2. lists[n + 1] \in Seq(S)
    BY <2>1
  <2>3. g[n] \in Seq(S)
    BY <1>2, <2>1
  <2>4. g[n + 1] = g[n] \o lists[n + 1]
    BY <1>2, <2>1, <2>2, <2>3
  <2>5. ToSet(g[n] \o lists[n + 1]) = ToSet(g[n]) \cup ToSet(lists[n + 1])
    BY <2>1, <2>2, <2>3, ConcatMembers
  <2>6. first(n + 1) = first(n) \cup ToSet(lists[n + 1])
    <3>1. 1..(n + 1) = (1..n) \cup {n + 1}
      OBVIOUS
    <3>2. QED
      BY <3>1
  <2>7. ToSet(g[n]) = first(n)
    BY <1>4, <2>1, <2>2, <2>3
  <2>8. QED
    <3> HIDE DEF first
    <3> QED BY <2>4, <2>5, <2>6, <2>7
<1>5. Len(lists) \in right
  <2> HIDE DEF right
  <2> QED BY <1>3, <1>4, NumbersByInduction
<1>6. first(Len(lists)) = UNION {ToSet(list) : list \in ToSet(lists)}
  <2>1. {ToSet(lists[k]) : k \in 1..Len(lists)} = {ToSet(list) : list \in {lists[k] : k \in 1..Len(lists)}}
    OBVIOUS
  <2>2. ToSet(lists) = {lists[k] : k \in 1..Len(lists)}
    BY DEF ToSet
  <2>3. QED
    BY <2>1, <2>2
<1>7. g[Len(lists)] \in Seq(S)
  BY <1>2
<1>8. QED
  <2>1. ToSet(g[Len(lists)]) = first(Len(lists))
    BY <1>5
  <2>2. QED
    <3> HIDE DEF first
    <3> QED BY <1>2, <1>6, <1>7, <2>1

(* Lists without repeats that share no member, made one, have no repeat.    *)
LEMMA FlattenInjective ==
  ASSUME NEW S, NEW lists \in Seq(Seq(S)), \A k \in DOMAIN lists : IsInjective(lists[k]),
         \A j, k \in DOMAIN lists : j # k => ToSet(lists[j]) \cap ToSet(lists[k]) = {}
  PROVE  IsInjective(FlattenSeq(lists))
<1>1. PICK g \in Joins(lists, S) : FlattenSeq(lists) = g[Len(lists)]
  BY FlattenIsLoop
<1>2. /\ g \in [0..Len(lists) -> Seq(S)] /\ g[0] = << >>
      /\ \A k \in 1..Len(lists) : g[k] = g[k - 1] \o lists[k]
      /\ FlattenSeq(lists) = g[Len(lists)]
  BY <1>1 DEF Joins
<1>3. Len(lists) \in Nat /\ DOMAIN lists = 1..Len(lists)
  OBVIOUS
<1> DEFINE first(n) == UNION {ToSet(lists[k]) : k \in 1..n}
           right == {n \in Nat : n <= Len(lists) => ToSet(g[n]) = first(n) /\ IsInjective(g[n])}
<1>4. 0 \in right
  BY <1>2 DEF ToSet, IsInjective
<1>5. ASSUME NEW n \in Nat, n \in right
      PROVE  n + 1 \in right
  <2> SUFFICES ASSUME n + 1 <= Len(lists) PROVE ToSet(g[n + 1]) = first(n + 1) /\ IsInjective(g[n + 1])
    OBVIOUS
  <2>1. n + 1 \in 1..Len(lists) /\ (n + 1) - 1 = n /\ n <= Len(lists) /\ n \in 0..Len(lists)
    OBVIOUS
  <2>2. lists[n + 1] \in Seq(S)
    BY <2>1
  <2>3. g[n] \in Seq(S)
    BY <1>2, <2>1
  <2>4. g[n + 1] = g[n] \o lists[n + 1]
    BY <1>2, <2>1, <2>2, <2>3
  <2>5. ToSet(g[n]) = first(n) /\ IsInjective(g[n]) /\ IsInjective(lists[n + 1])
    BY <1>3, <1>5, <2>1
  <2>6. first(n + 1) = first(n) \cup ToSet(lists[n + 1])
    <3>1. 1..(n + 1) = (1..n) \cup {n + 1}
      OBVIOUS
    <3>2. QED
      BY <3>1
  <2>7. first(n) \cap ToSet(lists[n + 1]) = {}
    <3>1. ASSUME NEW k \in 1..n PROVE ToSet(lists[k]) \cap ToSet(lists[n + 1]) = {}
      <4>1. k \in DOMAIN lists /\ n + 1 \in DOMAIN lists /\ k # n + 1
        BY <1>3, <2>1
      <4>2. QED
        BY <4>1
    <3>2. QED
      BY <3>1
  <2>8. /\ ToSet(g[n] \o lists[n + 1]) = ToSet(g[n]) \cup ToSet(lists[n + 1])
        /\ IsInjective(g[n] \o lists[n + 1])
    <3> HIDE DEF first
    <3> QED BY <2>2, <2>3, <2>5, <2>7, ConcatMembers
  <2>9. QED
    <3> HIDE DEF first
    <3> QED BY <2>4, <2>5, <2>6, <2>8
<1>6. Len(lists) \in right
  <2> HIDE DEF right
  <2> QED BY <1>3, <1>4, <1>5, NumbersByInduction
<1>7. QED
  BY <1>2, <1>3, <1>6
=============================================================================
