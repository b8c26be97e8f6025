--------------------------- MODULE Intake_proofs ----------------------------
(* What a command finds and stores, for any tree, any names, and any number  *)
(* of retries, kills and crashes.                                            *)
EXTENDS Intake, FiniteSetTheorems, SequenceTheorems, WellFoundedInduction, TLAPS

-----------------------------------------------------------------------------
(* Sequences.                                                              *)

\* A prefix of a prefix is a prefix.
LEMMA PrefixOfPrefix ==
  ASSUME NEW S, NEW s \in Seq(S), NEW m \in 0..Len(s), NEW n \in 0..m
  PROVE  /\ SubSeq(s, 1, m) \in Seq(S) /\ Len(SubSeq(s, 1, m)) = m
         /\ SubSeq(SubSeq(s, 1, m), 1, n) = SubSeq(s, 1, n)
<1>1. /\ SubSeq(s, 1, m) \in Seq(S) /\ Len(SubSeq(s, 1, m)) = m
      /\ \A i \in 1..m : SubSeq(s, 1, m)[i] = s[i]
  OBVIOUS
<1>2. /\ SubSeq(s, 1, n) \in Seq(S) /\ Len(SubSeq(s, 1, n)) = n
      /\ \A i \in 1..n : SubSeq(s, 1, n)[i] = s[i]
  OBVIOUS
<1>3. /\ SubSeq(SubSeq(s, 1, m), 1, n) \in Seq(S) /\ Len(SubSeq(SubSeq(s, 1, m), 1, n)) = n
      /\ \A i \in 1..n : SubSeq(SubSeq(s, 1, m), 1, n)[i] = SubSeq(s, 1, m)[i]
  BY <1>1
<1>4. \A i \in 1..n : SubSeq(SubSeq(s, 1, m), 1, n)[i] = SubSeq(s, 1, n)[i]
  BY <1>1, <1>2, <1>3
<1> QED
  BY <1>1, <1>2, <1>3, <1>4, SeqEqual

\* What an appended list consists of.
LEMMA AppendedElement ==
  ASSUME NEW S, NEW s \in Seq(S), NEW e \in S, NEW i \in DOMAIN Append(s, e)
  PROVE  (i \in DOMAIN s /\ Append(s, e)[i] = s[i]) \/ Append(s, e)[i] = e
  OBVIOUS

\* What a concatenation consists of.
LEMMA Concatenated ==
  ASSUME NEW S, NEW s \in Seq(S), NEW t \in Seq(S), NEW i \in DOMAIN (s \o t)
  PROVE  \/ i \in DOMAIN s /\ (s \o t)[i] = s[i]
         \/ i - Len(s) \in DOMAIN t /\ (s \o t)[i] = t[i - Len(s)]
<1>1. Len(s) \in Nat /\ Len(t) \in Nat /\ DOMAIN s = 1..Len(s) /\ DOMAIN t = 1..Len(t)
  OBVIOUS
<1>2. i \in 1..Len(s) + Len(t)
  OBVIOUS
<1>3. CASE i <= Len(s)
  BY <1>1, <1>2, <1>3, ConcatProperties
<1>4. CASE i > Len(s)
  BY <1>1, <1>2, <1>4, ConcatProperties
<1> QED
  BY <1>1, <1>2, <1>3, <1>4

\* Moving on from the head of t replaces it by e in s \o t.
LEMMA MovedOn ==
  ASSUME NEW S, NEW s \in Seq(S), NEW t \in Seq(S), t # <<>>, NEW e \in S,
         NEW i \in DOMAIN (Append(s, e) \o Tail(t))
  PROVE  /\ i \in DOMAIN (s \o t)
         /\ \/ /\ (s \o t)[i] = Head(t)
               /\ (Append(s, e) \o Tail(t))[i] = e
            \/ (Append(s, e) \o Tail(t))[i] = (s \o t)[i]
<1>1. /\ Len(s) \in Nat /\ Len(t) \in Nat \ {0}
      /\ Append(s, e) \in Seq(S) /\ Len(Append(s, e)) = Len(s) + 1
      /\ Tail(t) \in Seq(S) /\ Len(Tail(t)) = Len(t) - 1
  BY EmptySeq
<1>2. i \in 1..Len(s) + Len(t) /\ DOMAIN (s \o t) = 1..Len(s) + Len(t)
  BY <1>1
<1>3. CASE i <= Len(s)
  <2>1. (s \o t)[i] = s[i]
    BY <1>2, <1>3, ConcatProperties
  <2>2. (Append(s, e) \o Tail(t))[i] = Append(s, e)[i]
    BY <1>1, <1>2, <1>3, ConcatProperties
  <2>3. Append(s, e)[i] = s[i]
    BY <1>2, <1>3
  <2> QED
    BY <1>2, <2>1, <2>2, <2>3
<1>4. CASE i = Len(s) + 1
  <2>1. (s \o t)[i] = t[1]
    BY <1>1, <1>2, <1>4, ConcatProperties
  <2>2. (Append(s, e) \o Tail(t))[i] = Append(s, e)[i]
    BY <1>1, <1>2, <1>4, ConcatProperties
  <2>3. Append(s, e)[i] = e /\ t[1] = Head(t)
    BY <1>1, <1>4
  <2> QED
    BY <1>2, <2>1, <2>2, <2>3
<1>5. CASE i > Len(s) + 1
  <2>1. (s \o t)[i] = t[i - Len(s)]
    BY <1>1, <1>2, <1>5, ConcatProperties
  <2>2. (Append(s, e) \o Tail(t))[i] = Tail(t)[i - Len(s) - 1]
    BY <1>1, <1>2, <1>5, ConcatProperties
  <2>3. Tail(t)[i - Len(s) - 1] = t[i - Len(s)]
    BY <1>1, <1>2, <1>5
  <2> QED
    BY <1>2, <2>1, <2>2, <2>3
<1> QED
  BY <1>1, <1>2, <1>3, <1>4, <1>5

\* What is picked from a list is a list of those members ...
LEMMA PickedMembers ==
  ASSUME NEW S, NEW s \in Seq(S), NEW T, T \subseteq ToSet(s), NEW c \in Picked(s, T)
  PROVE  c \in Seq(T) /\ ToSet(c) = T
<1>1. DOMAIN s = 1..Len(s) /\ Len(s) \in Nat
  OBVIOUS
<1>2. IsFiniteSet(DOMAIN s)
  BY <1>1, FS_Interval
<1>3. IsFiniteSet(ToSet(s))
  <2>1. s \in Surjection(DOMAIN s, ToSet(s))
    BY DEF Surjection, ToSet
  <2> QED
    BY <1>2, <2>1, FS_Surjection
<1>4. Cardinality(T) \in Nat
  BY <1>3, FS_Subset, FS_CardinalityType
<1> QED
  BY <1>4 DEF Picked

\* ... and without repetitions if the list has none.
LEMMA PickedInjective ==
  ASSUME NEW S, NEW s \in Seq(S), IsInjective(s),
         NEW T, T \subseteq ToSet(s), NEW c \in Picked(s, T)
  PROVE  IsInjective(c)
<1>1. c \in Seq(T)
  BY PickedMembers
<1>2. ASSUME NEW i \in DOMAIN c, NEW j \in DOMAIN c, i < j PROVE c[i] # c[j]
  <2>1. Before(s, c[i], c[j])
    BY <1>2 DEF Picked
  <2>2. PICK m \in DOMAIN s, n \in DOMAIN s : m < n /\ s[m] = c[i] /\ s[n] = c[j]
    BY <2>1 DEF Before
  <2> QED
    BY <2>2 DEF IsInjective
<1>3. ASSUME NEW i \in DOMAIN c, NEW j \in DOMAIN c PROVE i < j \/ j < i \/ i = j
  BY <1>1
<1> QED
  BY <1>2, <1>3 DEF IsInjective

-----------------------------------------------------------------------------
(* The discovery.                                                          *)

DiscTypes ==
  /\ tree \in Trees
  /\ mode \in {"names", "flat", "recursive"}
  /\ phase \in {"walk", "inspect", "discovered", "refused"}
  /\ walk \subseteq Dirs \cup {Root} /\ found \subseteq Files
  /\ candidates \in Seq(Files) /\ accepted \in Seq(Files)
  /\ at \in 1..Len(candidates) + 1

\* A directory that the walk visits.
Reached(d) ==
  /\ \A n \in 1..Len(d) : SubSeq(d, 1, n) \notin tree.links \cup tree.excluded
  /\ mode = "flat" => d = Root

\* What the walk has found and will find are the visible files.
Walked ==
  /\ phase = "walk" => at = 1
  /\ mode # "names" =>
       /\ \A d \in walk : Reached(d)
       /\ \A f \in found : Visible(f)
       /\ \A f \in Files :
            Visible(f) => f \in found \/ \E n \in 0..Len(f) - 1 : SubSeq(f, 1, n) \in walk

Settled(p) ==
  \/ Skip(p, "invalid_media") \in skipped
  \/ \E k \in DOMAIN accepted : tree.content[accepted[k]] = tree.content[p]

\* What the inspection remembers is what it has seen.
Remembered ==
  /\ seenContent = {tree.content[accepted[k]] : k \in DOMAIN accepted}
  /\ \A i, j \in DOMAIN accepted :
       tree.content[accepted[i]] = tree.content[accepted[j]] => i = j
  /\ \A p \in seenPaths : p \in tree.media => Settled(p)
  /\ \A i \in DOMAIN candidates :
       i < at /\ candidates[i] \notin tree.links => candidates[i] \in seenPaths

\* Only a candidate is a file that could not be read.
Blamed ==
  \A s \in skipped :
    /\ s = Skip(s.path, s.why)
    /\ s.why = "invalid_media" => phase # "walk" /\ s.path \in ToSet(candidates)

DInv == DiscTypes /\ Walked /\ FindsTheVisible /\ Remembered /\ Blamed

LEMMA DiscStart == DiscInit => DInv
<1> SUFFICES ASSUME DiscInit PROVE DInv
  OBVIOUS
<1> USE DEF DiscInit
<1>1. candidates \in Seq(Files)
  <2>1. ASSUME NEW n \in 0..MaxNames PROVE [1..n -> Files] \subseteq Seq(Files)
    BY MaxNamesAssumption
  <2>2. BoundedSeq(Files, MaxNames) \subseteq Seq(Files)
    BY <2>1 DEF BoundedSeq, SeqOf
  <2>3. CASE mode = "names"
    BY <2>2, <2>3
  <2>4. CASE mode # "names"
    BY <2>4, EmptySeq
  <2> QED
    BY <2>3, <2>4
<1>2. DiscTypes
  BY <1>1 DEF DiscTypes
<1>3. Walked
  <2>1. ASSUME mode # "names", NEW f \in Files
        PROVE  \E n \in 0..Len(f) - 1 : SubSeq(f, 1, n) \in walk
    <3>1. f \in Seq(STRING) /\ f # <<>>
      BY PathsAssumption DEF Root
    <3>2. 0 \in 0..Len(f) - 1
      BY <3>1
    <3>3. SubSeq(f, 1, 0) = Root
      BY <3>1, SubSeqEmpty DEF Root
    <3> QED
      BY <2>1, <3>2, <3>3
  <2>2. mode # "names" => \A d \in walk : Reached(d)
    BY DEF Reached, Root
  <2> QED
    BY <2>1, <2>2 DEF Walked
<1> QED
  BY <1>2, <1>3 DEF DInv, FindsTheVisible, Remembered, Blamed

-----------------------------------------------------------------------------
(* The walk.                                                               *)

\* The directory of a file or directory below it, and the way from there to it.
LEMMA Parents ==
  ASSUME NEW p \in Dirs \cup Files
  PROVE  /\ p \in Seq(STRING) /\ Len(p) \in Nat \ {0}
         /\ Front(p) = SubSeq(p, 1, Len(p) - 1) /\ Len(Front(p)) = Len(p) - 1
         /\ \A n \in 1..Len(p) - 1 : SubSeq(Front(p), 1, n) = SubSeq(p, 1, n)
         /\ SubSeq(p, 1, Len(p)) = p
<1>1. p \in Seq(STRING) /\ p # <<>>
  BY PathsAssumption DEF Root
<1>2. Len(p) \in Nat \ {0} /\ Len(p) - 1 \in 0..Len(p)
  BY <1>1, EmptySeq
<1>3. SubSeq(p, 1, Len(p)) = p
  BY <1>1, SubSeqFull
<1>4. /\ Len(SubSeq(p, 1, Len(p) - 1)) = Len(p) - 1
      /\ \A n \in 1..Len(p) - 1 :
           SubSeq(SubSeq(p, 1, Len(p) - 1), 1, n) = SubSeq(p, 1, n)
  <2> DEFINE m == Len(p) - 1
  <2>1. m \in 0..Len(p) /\ 0 <= m
    BY <1>2
  <2>2. Len(SubSeq(p, 1, m)) = m
    <3> HIDE DEF m
    <3> QED
      BY <1>1, <2>1, PrefixOfPrefix
  <2>3. ASSUME NEW n \in 1..m PROVE SubSeq(SubSeq(p, 1, m), 1, n) = SubSeq(p, 1, n)
    <3>1. n \in 0..m
      BY <2>1
    <3> HIDE DEF m
    <3> QED
      BY <1>1, <2>1, <3>1, PrefixOfPrefix
  <2> QED
    BY <2>2, <2>3
<1> QED
  BY <1>1, <1>2, <1>3, <1>4 DEF Front

LEMMA VisitTypes ==
  ASSUME DInv, NEW d \in Dirs \cup {Root}, Visit(d) PROVE DiscTypes' /\ Blamed'
<1>1. DiscTypes'
  BY DEF DInv, DiscTypes, Visit
<1>2. Blamed'
  <2>1. \A s \in skipped' :
          s \in skipped \/ (s.why # "invalid_media" /\ s = Skip(s.path, s.why))
    BY DEF Visit, Skip
  <2> QED
    BY <2>1 DEF DInv, Blamed, Visit
<1> QED
  BY <1>1, <1>2

\* What a directory leads to is reached and visible ...
LEMMA VisitReaches ==
  ASSUME DInv, mode # "names", NEW d \in Dirs \cup {Root}, Visit(d)
  PROVE  /\ \A c \in walk' : Reached(c)
         /\ \A f \in found' : Visible(f)
<1>1. Reached(d) /\ \A c \in walk : Reached(c)
  BY DEF DInv, Walked, Visit
<1>2. ASSUME NEW c \in Dirs, Front(c) = d, c \notin tree.links \cup tree.excluded,
             mode = "recursive"
      PROVE  Reached(c)
  <2>1. ASSUME NEW n \in 1..Len(c) PROVE SubSeq(c, 1, n) \notin tree.links \cup tree.excluded
    <3>1. CASE n = Len(c)
      BY <1>2, <3>1, Parents
    <3>2. CASE n # Len(c)
      <4>1. n \in 1..Len(c) - 1 /\ n \in 1..Len(d)
        BY <1>2, <3>2, Parents
      <4> QED
        BY <1>1, <1>2, <4>1, Parents DEF Reached
    <3> QED
      BY <3>1, <3>2
  <2> QED
    BY <1>2, <2>1 DEF Reached
<1>3. ASSUME NEW f \in Files, Front(f) = d PROVE Visible(f)
  <2>1. ASSUME NEW n \in 1..Len(f) - 1
        PROVE  SubSeq(f, 1, n) \notin tree.links \cup tree.excluded
    <3>1. n \in 1..Len(d)
      BY <1>3, Parents
    <3> QED
      BY <1>1, <1>3, <3>1, Parents DEF Reached
  <2>2. ASSUME mode = "flat" PROVE Len(f) = 1
    <3>1. d = <<>>
      BY <1>1, <2>2 DEF Reached, Root
    <3>2. Len(d) = Len(f) - 1 /\ Len(f) \in Nat
      BY <1>3, Parents
    <3> QED
      BY <3>1, <3>2
  <2> QED
    BY <2>1, <2>2 DEF Visible
<1>4. \A c \in walk' : c \in walk \/ /\ c \in Dirs /\ Front(c) = d /\ mode = "recursive"
                                     /\ c \notin tree.links \cup tree.excluded
  BY DEF Visit
<1>5. \A f \in found' : f \in found \/ (f \in Files /\ Front(f) = d)
  <2>1. found' = found \cup {f \in Files : Front(f) = d}
    BY DEF Visit
  <2> QED
    BY <2>1
<1> QED
  BY <1>1, <1>2, <1>3, <1>4, <1>5 DEF DInv, Walked

\* ... and no visible file below it is lost.
LEMMA VisitKeeps ==
  ASSUME DInv, NEW d \in Dirs \cup {Root}, Visit(d), mode # "names",
         NEW f \in Files, Visible(f)
  PROVE  f \in found' \/ \E n \in 0..Len(f) - 1 : SubSeq(f, 1, n) \in walk'
<1>1. CASE f \in found
  BY <1>1 DEF Visit
<1>2. CASE f \notin found
  <2>1. PICK n \in 0..Len(f) - 1 : SubSeq(f, 1, n) \in walk
    BY <1>2 DEF DInv, Walked
  <2>2. CASE SubSeq(f, 1, n) # d
    BY <2>1, <2>2 DEF Visit
  <2>3. CASE SubSeq(f, 1, n) = d
    <3>1. CASE n = Len(f) - 1
      <4>1. Front(f) = d
        BY <2>3, <3>1, Parents
      <4> QED
        BY <4>1 DEF Visit
    <3>2. CASE n # Len(f) - 1
      <4> DEFINE c == SubSeq(f, 1, n + 1)
      <4>1. f \in Seq(STRING) /\ Len(f) \in Nat
        BY Parents
      <4>2. n + 1 \in 1..Len(f) - 1
        BY <2>1, <3>2, <4>1
      <4>3. c \in Dirs
        BY <4>2, PathsAssumption
      <4>4. Len(c) = n + 1 /\ SubSeq(c, 1, n) = d
        BY <2>1, <2>3, <4>1, <4>2, PrefixOfPrefix
      <4>5. Front(c) = d
        BY <2>1, <4>2, <4>4 DEF Front
      <4>6. c \notin tree.links \cup tree.excluded
        BY <4>2 DEF Visible
      <4>7. mode = "recursive"
        <5>1. ASSUME Len(f) = 1 PROVE FALSE
          <6>1. n = 0 /\ n # 0
            BY <3>2, <5>1
          <6> QED
            BY <6>1
        <5> QED
          BY <5>1 DEF Visible, DInv, DiscTypes
      <4>8. c \in walk'
        BY <4>3, <4>5, <4>6, <4>7 DEF Visit
      <4> QED
        BY <4>2, <4>8
    <3> QED
      BY <3>1, <3>2
  <2> QED
    BY <2>2, <2>3
<1> QED
  BY <1>1, <1>2

LEMMA VisitInv == ASSUME DInv, NEW d \in Dirs \cup {Root}, Visit(d) PROVE DInv'
<1>1. DiscTypes' /\ Blamed'
  BY VisitTypes
<1>2. UNCHANGED <<tree, mode, phase, candidates, at, seenPaths, seenContent, accepted>>
  BY DEF Visit
<1>3. Walked'
  <2>1. ASSUME mode # "names" PROVE (\A c \in walk : Reached(c))' /\ (\A f \in found : Visible(f))'
    BY <1>2, <2>1, VisitReaches DEF Reached, Visible
  <2>2. ASSUME mode # "names", NEW f \in Files, Visible(f)'
        PROVE  f \in found' \/ \E n \in 0..Len(f) - 1 : SubSeq(f, 1, n) \in walk'
    BY <1>2, <2>2, VisitKeeps DEF Visible
  <2> QED
    BY <1>2, <2>1, <2>2 DEF DInv, Walked
<1>4. FindsTheVisible'
  BY <1>2 DEF DInv, FindsTheVisible, Visit
<1>5. Remembered'
  <2>1. skipped \subseteq skipped'
    BY DEF Visit
  <2>2. \A p : Settled(p) => Settled(p)'
    BY <1>2, <2>1 DEF Settled
  <2> QED
    BY <1>2, <2>2 DEF DInv, Remembered
<1> QED
  BY <1>1, <1>3, <1>4, <1>5 DEF DInv

LEMMA SortInv == ASSUME DInv, Sort PROVE DInv'
<1> USE DEF Sort
<1>1. found \subseteq ToSet(PathOrder) /\ PathOrder \in Seq(Files)
  BY PathsAssumption DEF DInv, DiscTypes
<1>2. candidates' \in Seq(found)
  BY <1>1, PickedMembers
<1>3. candidates' \in Seq(Files)
  BY <1>2, SeqMonotonic DEF DInv, DiscTypes
<1>4. DiscTypes'
  <2>1. at = 1 /\ Len(candidates') \in Nat
    BY <1>3 DEF DInv, Walked
  <2> QED
    BY <1>3, <2>1 DEF DInv, DiscTypes, walkVars, inspectVars
<1>5. Walked'
  BY DEF DInv, Walked, Reached, Visible, walkVars, inspectVars
<1>6. FindsTheVisible'
  <2>1. ASSUME mode # "names" PROVE found = {f \in Files : Visible(f)}
    BY <2>1 DEF DInv, Walked, DiscTypes
  <2> QED
    BY <2>1 DEF FindsTheVisible, Visible, walkVars
<1>7. Remembered'
  <2>1. at = 1 /\ \A i \in DOMAIN candidates' : ~(i < at)
    BY <1>3 DEF DInv, Walked
  <2> QED
    BY <2>1 DEF DInv, Remembered, Settled, inspectVars
<1>8. Blamed'
  BY DEF DInv, Blamed, inspectVars
<1> QED
  BY <1>4, <1>5, <1>6, <1>7, <1>8 DEF DInv

-----------------------------------------------------------------------------
(* The inspection.                                                         *)

\* A file that is settled remains so, and the candidate has its place.
LEMMA CandidateSteps ==
  ASSUME DInv, Candidate, UNCHANGED <<tree, mode, phase, walkVars, candidates>>,
         accepted' \in Seq(Files), skipped \subseteq skipped',
         \A k \in DOMAIN accepted : k \in DOMAIN accepted' /\ accepted'[k] = accepted[k]
  PROVE  /\ Current \in Files /\ at \in DOMAIN candidates
         /\ DiscTypes' /\ Walked' /\ FindsTheVisible'
         /\ \A p : Settled(p) => Settled(p)'
         /\ \A i \in DOMAIN candidates : i < at' => i < at \/ i = at
<1>1. Len(candidates) \in Nat /\ candidates \in Seq(Files) /\ at \in 1..Len(candidates)
  BY DEF DInv, DiscTypes, Candidate
<1>2. Current \in Files /\ at \in DOMAIN candidates
  BY <1>1 DEF Current
<1>3. DiscTypes'
  BY <1>1 DEF DInv, DiscTypes, Candidate, walkVars
<1>4. Walked'
  BY DEF DInv, Walked, Reached, Visible, Candidate, walkVars
<1>5. FindsTheVisible'
  BY DEF DInv, FindsTheVisible, Visible, walkVars
<1>6. \A p : Settled(p) => Settled(p)'
  BY DEF Settled
<1>7. \A i \in DOMAIN candidates : i < at' => i < at \/ i = at
  BY <1>1 DEF Candidate
<1> QED
  BY <1>2, <1>3, <1>4, <1>5, <1>6, <1>7

LEMMA SkipSteps ==
  ASSUME DInv, Candidate, NEW why, SkipCurrent(why)
  PROVE  /\ Current \in Files /\ at \in DOMAIN candidates
         /\ DiscTypes' /\ Walked' /\ FindsTheVisible' /\ Blamed'
         /\ \A p : Settled(p) => Settled(p)'
         /\ \A i \in DOMAIN candidates : i < at' => i < at \/ i = at
<1>1. /\ accepted' \in Seq(Files) /\ skipped \subseteq skipped'
      /\ \A k \in DOMAIN accepted : k \in DOMAIN accepted' /\ accepted'[k] = accepted[k]
      /\ UNCHANGED <<tree, mode, phase, walkVars, candidates>>
  BY DEF DInv, DiscTypes, SkipCurrent
<1>2. at \in DOMAIN candidates
  BY <1>1, CandidateSteps
<1>3. Blamed'
  <2>1. Current \in ToSet(candidates)
    BY <1>2 DEF Current, ToSet
  <2>2. \A s \in skipped' : s \in skipped \/ (s.path = Current /\ s = Skip(s.path, s.why))
    BY DEF SkipCurrent, Skip
  <2>3. phase' # "walk" /\ UNCHANGED candidates
    BY DEF Candidate, SkipCurrent
  <2> QED
    BY <2>1, <2>2, <2>3 DEF DInv, Blamed
<1> QED
  BY <1>1, <1>3, CandidateSteps

\* What the inspection remembers after a candidate that is not accepted.
LEMMA SkipRemembers ==
  ASSUME DInv, Candidate, NEW why, SkipCurrent(why), UNCHANGED seenContent,
         \A p \in seenPaths' :
           p \in seenPaths \/ (p = Current /\ (p \in tree.media => Settled(p)')),
         seenPaths \subseteq seenPaths', Current \in tree.links \cup seenPaths'
  PROVE  DInv'
<1>1. UNCHANGED <<tree, accepted, candidates, seenContent>>
  BY DEF SkipCurrent
<1>2. \A p \in seenPaths' : p \in tree.media => Settled(p)'
  BY SkipSteps DEF DInv, Remembered
<1>3. ASSUME NEW i \in DOMAIN candidates, i < at', candidates[i] \notin tree.links
      PROVE  candidates[i] \in seenPaths'
  <2>1. i < at \/ i = at
    BY <1>3, SkipSteps
  <2> QED
    BY <1>3, <2>1 DEF DInv, Remembered, Current
<1>4. Remembered'
  BY <1>1, <1>2, <1>3 DEF DInv, Remembered
<1> QED
  BY <1>4, SkipSteps DEF DInv

LEMMA SkipInv ==
  ASSUME DInv, SkipLink \/ SkipPath \/ SkipExtension \/ SkipInvalid \/ SkipContent
  PROVE  DInv'
<1>1. CASE SkipLink
  BY <1>1, SkipRemembers DEF SkipLink
<1>2. CASE SkipPath
  BY <1>2, SkipRemembers DEF SkipPath
<1>3. CASE SkipExtension
  BY <1>3, SkipRemembers DEF SkipExtension, NewPath
<1>4. CASE SkipInvalid
  <2>1. \A p : p = Current => Settled(p)'
    BY <1>4 DEF SkipInvalid, SkipCurrent, Settled
  <2> QED
    BY <1>4, <2>1, SkipRemembers DEF SkipInvalid, NewPath
<1>5. CASE SkipContent
  <2>1. Settled(Current)
    BY <1>5 DEF SkipContent, Settled, DInv, Remembered
  <2>2. \A p : p = Current => Settled(p)'
    BY <1>5, <2>1, SkipSteps DEF SkipContent, NewPath
  <2> QED
    BY <1>5, <2>2, SkipRemembers DEF SkipContent, NewPath
<1> QED
  BY <1>1, <1>2, <1>3, <1>4, <1>5

LEMMA AcceptInv == ASSUME DInv, Accept PROVE DInv'
<1> DEFINE n == Len(accepted) + 1
<1>1. Candidate /\ UNCHANGED <<tree, mode, phase, walkVars, candidates, skipped>>
  BY DEF Accept, NewPath
<1>2. Current \in Files
  BY DEF DInv, DiscTypes, Accept, NewPath, Candidate, Current
<1>3. /\ accepted' \in Seq(Files) /\ DOMAIN accepted' = DOMAIN accepted \cup {n}
      /\ n \notin DOMAIN accepted /\ accepted'[n] = Current
      /\ \A k \in DOMAIN accepted : accepted'[k] = accepted[k]
  BY <1>2 DEF DInv, DiscTypes, Accept
<1> HIDE DEF n
<1>4. /\ DiscTypes' /\ Walked' /\ FindsTheVisible'
      /\ \A p : Settled(p) => Settled(p)'
      /\ \A i \in DOMAIN candidates : i < at' => i < at \/ i = at
  BY <1>1, <1>3, CandidateSteps
<1>5. /\ seenContent' = seenContent \cup {tree.content[Current]}
      /\ tree.content[Current] \notin seenContent
      /\ seenPaths' = seenPaths \cup {Current}
  BY DEF Accept, NewPath
<1>6. Remembered'
  <2>1. (seenContent = {tree.content[accepted[k]] : k \in DOMAIN accepted})'
    BY <1>1, <1>3, <1>5 DEF DInv, Remembered
  <2>2. \A i, j \in DOMAIN accepted' :
          tree.content[accepted'[i]] = tree.content[accepted'[j]] => i = j
    <3>1. \A k \in DOMAIN accepted : tree.content[accepted[k]] # tree.content[Current]
      BY <1>5 DEF DInv, Remembered
    <3> QED
      BY <1>3, <3>1 DEF DInv, Remembered
  <2>3. \A p \in seenPaths' : p \in tree.media => Settled(p)'
    <3>1. \A p : p = Current => Settled(p)'
      BY <1>1, <1>3 DEF Settled
    <3> QED
      BY <1>4, <1>5, <3>1 DEF DInv, Remembered
  <2>4. \A i \in DOMAIN candidates :
          i < at' /\ candidates[i] \notin tree.links => candidates[i] \in seenPaths'
    BY <1>4, <1>5 DEF DInv, Remembered, Current
  <2> QED
    BY <1>1, <2>1, <2>2, <2>3, <2>4 DEF Remembered
<1>7. Blamed'
  BY <1>1 DEF DInv, Blamed
<1> QED
  BY <1>4, <1>6, <1>7 DEF DInv

LEMMA DiscStep == DInv /\ [Discover]_discVars => DInv'
<1> SUFFICES ASSUME DInv, [Discover]_discVars PROVE DInv'
  OBVIOUS
<1>1. CASE RefuseRoot \/ Inspected \/ UNCHANGED discVars
  <2>1. /\ UNCHANGED <<tree, mode, walkVars, candidates, inspectVars>>
        /\ phase' \in {"refused", "discovered", phase}
        /\ phase' = "discovered" => phase \in {"inspect", "discovered"}
    BY <1>1 DEF RefuseRoot, Inspected, discVars
  <2> USE DEF walkVars, inspectVars
  <2>2. DiscTypes' /\ Blamed'
    BY <2>1 DEF DInv, DiscTypes, Blamed
  <2>3. Walked'
    BY <2>1 DEF DInv, Walked, Reached, Visible
  <2>4. FindsTheVisible'
    BY <1>1 DEF DInv, FindsTheVisible, Visible, RefuseRoot, Inspected, discVars
  <2>5. Remembered'
    BY <2>1 DEF DInv, Remembered, Settled
  <2> QED
    BY <2>2, <2>3, <2>4, <2>5 DEF DInv
<1>2. CASE \E d \in Dirs \cup {Root} : Visit(d)
  BY <1>2, VisitInv
<1>3. CASE Sort
  BY <1>3, SortInv
<1>4. CASE SkipLink \/ SkipPath \/ SkipExtension \/ SkipInvalid \/ SkipContent
  BY <1>4, SkipInv
<1>5. CASE Accept
  BY <1>5, AcceptInv
<1> QED
  BY <1>1, <1>2, <1>3, <1>4, <1>5 DEF Discover

LEMMA DiscInvariants == DInv => EveryContentOnce
<1> SUFFICES ASSUME DInv PROVE EveryContentOnce
  OBVIOUS
<1>1. ASSUME NEW i \in DOMAIN candidates, i < at, Eligible(i)
      PROVE  Settled(candidates[i])
  BY <1>1 DEF DInv, Remembered, Eligible
<1> QED
  BY <1>1 DEF DInv, Remembered, EveryContentOnce, Settled

-----------------------------------------------------------------------------
(* The stored tasks and batches.                                           *)

Modes    == {"background", "foreground"}
Statuses == {"queued", "running", "succeeded", "failed", "interrupted", "cancelled"}
Job      == [input : Files, mode : Modes, batch : BatchIds, retryOf : Nat, status : Statuses]
Batch    == [tasks : Seq(Nat), mode : Modes, options : BOOLEAN]

StoreTypes ==
  /\ jobs \in Seq(Job) /\ batches \in [BatchIds -> Batch]
  /\ command \in {"discover", "create", "foreground", "background", "done", "refused", "killed"}
  /\ bg \in BOOLEAN /\ made \in Seq(Nat)
  /\ retries \in 0..MaxRetries
  /\ retry \in [of : Nat, left : Seq(Nat), made : Seq(Nat), stored : BOOLEAN]

AreStored(ts) == \A i \in DOMAIN ts : ts[i] \in DOMAIN jobs

\* The tasks ts are stored and belong to the batch b.
Belong(ts, b, runMode) ==
  \A i \in DOMAIN ts : jobs[ts[i]].batch = b /\ jobs[ts[i]].mode = runMode

\* No two of the tasks ts have the same content.
Distinct(ts) ==
  \A i, j \in DOMAIN ts :
    tree.content[jobs[ts[i]].input] = tree.content[jobs[ts[j]].input] => i = j

Worthwhile == phase = "discovered" /\ (accepted # <<>> \/ Invalid # {})

\* The command has created the tasks of its first inputs.
Creating ==
  /\ command = "discover" => made = <<>>
  /\ command = "create" =>
       /\ Worthwhile
       /\ Len(made) <= Len(Inputs)
       /\ AreStored(made) /\ Belong(made, 1, RunMode)
       /\ \A i \in DOMAIN made : jobs[made[i]].input = Inputs[i]

WholeBatch(b) ==
  /\ AreStored(batches[b].tasks)
  /\ Belong(batches[b].tasks, b, batches[b].mode)
  /\ Distinct(batches[b].tasks)

Whole == \A b \in BatchIds : WholeBatch(b)

\* A retry repeats tasks of different contents, those it has made included.
Retrying ==
  /\ AreStored(retry.made) /\ Belong(retry.made, retries + 1, "background")
  /\ AreStored(retry.left)
  /\ Distinct(retry.made \o retry.left)
  /\ retry.made # <<>> \/ retry.left # <<>> => retry.of \in BatchIds

IInv == DInv /\ StoreTypes /\ Creating /\ Whole /\ Retrying

\* Of a stored task only the status changes.
Kept ==
  /\ UNCHANGED tree
  /\ \A t \in DOMAIN jobs :
       /\ t \in DOMAIN jobs'
       /\ jobs'[t].input = jobs[t].input /\ jobs'[t].batch = jobs[t].batch
       /\ jobs'[t].mode = jobs[t].mode

LEMMA KeptTasks ==
  ASSUME Kept, NEW ts, AreStored(ts)
  PROVE  /\ AreStored(ts)'
         /\ \A b, runMode : Belong(ts, b, runMode) => Belong(ts, b, runMode)'
         /\ Distinct(ts) => Distinct(ts)'
<1>1. AreStored(ts)'
  BY DEF AreStored, Kept
<1>2. \A b, runMode : Belong(ts, b, runMode) => Belong(ts, b, runMode)'
  BY DEF AreStored, Belong, Kept
<1>3. Distinct(ts) => Distinct(ts)'
  BY DEF AreStored, Distinct, Kept
<1> QED
  BY <1>1, <1>2, <1>3

\* What the command transcribes, all of it of different contents.
LEMMA InputFacts ==
  ASSUME DInv, Worthwhile
  PROVE  /\ Inputs \in Seq(Files)
         /\ \A i, j \in DOMAIN Inputs : tree.content[Inputs[i]] = tree.content[Inputs[j]] => i = j
<1>1. CASE accepted # <<>>
  BY <1>1 DEF DInv, DiscTypes, Remembered, Inputs
<1>2. CASE accepted = <<>>
  <2> DEFINE Failed == {i \in DOMAIN candidates : Skip(candidates[i], "invalid_media") \in skipped}
             First(i) == /\ Skip(candidates[i], "invalid_media") \in skipped
                         /\ \A j \in 1..i - 1 : Skip(candidates[j], "invalid_media") \notin skipped
  <2>1. Failed # {}
    <3>1. PICK s \in skipped : s.why = "invalid_media"
      BY <1>2 DEF Worthwhile, Invalid
    <3>2. PICK i \in DOMAIN candidates : candidates[i] = s.path
      BY <3>1 DEF DInv, Blamed, ToSet
    <3>3. i \in Failed
      BY <3>1, <3>2 DEF DInv, Blamed
    <3> QED
      BY <3>3
  <2>2. candidates \in Seq(Files)
    BY DEF DInv, DiscTypes
  <2>3. \E k \in DOMAIN candidates : First(k)
    <3>1. IsWellFoundedOn(OpToRel(<, Nat), Nat)
      BY NatLessThanWellFounded
    <3>2. Failed \subseteq Nat /\ Failed \subseteq DOMAIN candidates
      BY <2>2
    <3>3. PICK k \in Failed : \A i \in Failed : <<i, k>> \notin OpToRel(<, Nat)
      <4> HIDE DEF Failed
      <4> QED
        BY <2>1, <3>1, <3>2, WFMin
    <3>4. ASSUME NEW j \in 1..k - 1 PROVE j \notin Failed /\ j \in DOMAIN candidates
      <4>1. k \in 1..Len(candidates) /\ Len(candidates) \in Nat
        BY <2>2, <3>2
      <4>2. j \in Nat /\ j < k /\ j \in DOMAIN candidates
        BY <2>2, <4>1
      <4>3. <<j, k>> \in OpToRel(<, Nat)
        BY <4>1, <4>2 DEF OpToRel
      <4> HIDE DEF Failed
      <4> QED
        BY <3>3, <4>2, <4>3
    <3>5. First(k)
      BY <3>3, <3>4
    <3> QED
      BY <3>3, <3>5
  <2>4. Inputs = <<candidates[CHOOSE k \in DOMAIN candidates : First(k)]>>
    BY <1>2 DEF Inputs
  <2>5. candidates[CHOOSE k \in DOMAIN candidates : First(k)] \in Files
    <3> HIDE DEF First
    <3> QED
      BY <2>2, <2>3
  <2> QED
    BY <2>4, <2>5
<1> QED
  BY <1>1, <1>2

-----------------------------------------------------------------------------
(* The steps.                                                              *)

\* Steps that create no task and no batch.
Running ==
  \/ Nothing \/ Submit \/ GiveUp \/ Exit
  \/ \E b \in BatchIds : Execute(b)
  \/ Drained \/ KillCommand \/ Boot

LEMMA RunningKeeps == ASSUME IInv, Running PROVE Kept /\ jobs' \in Seq(Job)
<1>1. jobs \in Seq(Job)
  BY DEF IInv, StoreTypes
<1>2. CASE Nothing \/ Submit \/ GiveUp \/ Exit \/ Drained \/ KillCommand
  <2>1. UNCHANGED <<tree, jobs>>
    BY <1>2 DEF Nothing, Moves, Submit, GiveUp, Exit, Drained, KillCommand, storeVars, discVars
  <2> QED
    BY <1>1, <2>1 DEF Kept
<1>3. CASE \E b \in BatchIds : Execute(b)
  <2>1. PICK b \in BatchIds : Execute(b)
    BY <1>3
  <2>2. PICK k \in DOMAIN batches[b].tasks, s \in Statuses :
          jobs' = [jobs EXCEPT ![batches[b].tasks[k]].status = s]
    BY <2>1 DEF Execute, Statuses
  <2> DEFINE t == batches[b].tasks[k]
  <2>3. t \in DOMAIN jobs
    BY DEF IInv, Whole, WholeBatch, AreStored
  <2>4. jobs' = [jobs EXCEPT ![t] = [jobs[t] EXCEPT !.status = s]]
    BY <2>2
  <2>5. jobs[t] \in Job /\ [jobs[t] EXCEPT !.status = s] \in Job
    <3> HIDE DEF t
    <3>1. jobs[t] \in Job
      BY <1>1, <2>3
    <3> QED
      BY <3>1 DEF Job
  <2> HIDE DEF t
  <2>6. jobs' \in Seq(Job)
    BY <1>1, <2>3, <2>4, <2>5
  <2>7. ASSUME NEW u \in DOMAIN jobs
        PROVE  /\ u \in DOMAIN jobs'
               /\ jobs'[u].input = jobs[u].input /\ jobs'[u].batch = jobs[u].batch
               /\ jobs'[u].mode = jobs[u].mode
    <3>1. jobs[u] \in Job
      BY <1>1
    <3> QED
      BY <1>1, <2>4, <3>1 DEF Job
  <2>8. UNCHANGED tree
    BY <2>1 DEF Execute, discVars
  <2> QED
    BY <2>6, <2>7, <2>8 DEF Kept
<1>4. CASE Boot
  <2> DEFINE Recovered(t) ==
               IF jobs[t].mode = "background" /\ jobs[t].status = "running"
               THEN [jobs[t] EXCEPT !.status = "interrupted"] ELSE jobs[t]
  <2>1. jobs' = [t \in DOMAIN jobs |-> Recovered(t)] /\ UNCHANGED tree
    BY <1>4 DEF Boot, discVars
  <2>2. ASSUME NEW t \in DOMAIN jobs
        PROVE  /\ Recovered(t) \in Job /\ Recovered(t).input = jobs[t].input
               /\ Recovered(t).batch = jobs[t].batch /\ Recovered(t).mode = jobs[t].mode
    <3>1. jobs[t] \in Job
      BY <1>1
    <3> QED
      BY <3>1 DEF Job, Statuses
  <2> HIDE DEF Recovered
  <2>3. jobs' \in [1..Len(jobs) -> Job] /\ Len(jobs) \in Nat
    BY <1>1, <2>1, <2>2
  <2>4. jobs' \in Seq(Job)
    BY <2>3
  <2> QED
    BY <2>1, <2>2, <2>4 DEF Kept
<1> QED
  BY <1>2, <1>3, <1>4 DEF Running

\* With the tasks kept and the batches unchanged, these two remain.
LEMMA WholeKept == ASSUME IInv, Kept, UNCHANGED batches PROVE Whole'
<1>1. ASSUME NEW b \in BatchIds PROVE WholeBatch(b)'
  <2> DEFINE ts == batches[b].tasks
  <2>1. AreStored(ts) /\ Belong(ts, b, batches[b].mode) /\ Distinct(ts)
    BY DEF IInv, Whole, WholeBatch
  <2>2. PICK us, runMode : us = ts /\ runMode = batches[b].mode
    OBVIOUS
  <2>3. AreStored(us)' /\ Belong(us, b, runMode)' /\ Distinct(us)'
    BY <2>1, <2>2, KeptTasks
  <2>4. batches'[b].tasks = us /\ batches'[b].mode = runMode
    BY <2>2
  <2> QED
    BY <2>3, <2>4 DEF WholeBatch
<1> QED
  BY <1>1 DEF Whole

\* They remain when a whole batch is stored, too.
LEMMA WholeStored ==
  ASSUME IInv, Kept, NEW n \in BatchIds, NEW batch \in Batch,
         batches' = [batches EXCEPT ![n] = batch],
         AreStored(batch.tasks), Belong(batch.tasks, n, batch.mode), Distinct(batch.tasks)
  PROVE  Whole'
<1>1. ASSUME NEW b \in BatchIds PROVE WholeBatch(b)'
  <2>1. PICK ts, runMode : ts = batches'[b].tasks /\ runMode = batches'[b].mode
    OBVIOUS
  <2>2. AreStored(ts) /\ Belong(ts, b, runMode) /\ Distinct(ts)
    <3>1. CASE b = n
      BY <2>1, <3>1 DEF IInv, StoreTypes
    <3>2. CASE b # n
      <4>1. batches'[b] = batches[b]
        BY <3>2 DEF IInv, StoreTypes
      <4> QED
        BY <2>1, <4>1 DEF IInv, Whole, WholeBatch
    <3> QED
      BY <3>1, <3>2
  <2>3. AreStored(ts)' /\ Belong(ts, b, runMode)' /\ Distinct(ts)'
    BY <2>2, KeptTasks
  <2> QED
    BY <2>1, <2>3 DEF WholeBatch
<1> QED
  BY <1>1 DEF Whole

LEMMA RetryingKept ==
  ASSUME IInv, Kept, UNCHANGED <<retry.of, retry.left, retry.made, retries>>
  PROVE  Retrying'
<1>1. /\ AreStored(retry.made) /\ AreStored(retry.left)
      /\ retry.made \in Seq(Nat) /\ retry.left \in Seq(Nat)
  BY DEF IInv, Retrying, StoreTypes
<1>2. PICK mk, lf : mk = retry.made /\ lf = retry.left
  OBVIOUS
<1>3. ASSUME NEW i \in DOMAIN (mk \o lf) PROVE (mk \o lf)[i] \in DOMAIN jobs
  <2>1. mk \in Seq(Nat) /\ lf \in Seq(Nat)
    BY <1>1, <1>2
  <2>2. \/ i \in DOMAIN mk /\ (mk \o lf)[i] = mk[i]
        \/ i - Len(mk) \in DOMAIN lf /\ (mk \o lf)[i] = lf[i - Len(mk)]
    BY <2>1, Concatenated
  <2> QED
    BY <1>1, <1>2, <2>2 DEF AreStored
<1>4. AreStored(mk \o lf)
  BY <1>3 DEF AreStored
<1>5. PICK all, n : all = mk \o lf /\ n = retries + 1
  OBVIOUS
<1>6. AreStored(mk)' /\ AreStored(lf)' /\ Distinct(all)' /\ Belong(mk, n, "background")'
  BY <1>1, <1>2, <1>4, <1>5, KeptTasks DEF IInv, Retrying
<1>7. /\ retry'.made = mk /\ retry'.left = lf /\ retry'.made \o retry'.left = all
      /\ retries' + 1 = n
      /\ mk # <<>> \/ lf # <<>> => retry'.of \in BatchIds
  BY <1>2, <1>5 DEF IInv, Retrying
<1> QED
  BY <1>6, <1>7 DEF Retrying

LEMMA CreatingKept ==
  ASSUME IInv, Kept, UNCHANGED <<discVars, bg, made>>, 
         command' \in {"create", "discover"} => UNCHANGED command
  PROVE  Creating'
<1>1. Inputs' = Inputs /\ RunMode' = RunMode /\ (Worthwhile <=> Worthwhile')
  BY DEF Inputs, RunMode, Worthwhile, Invalid, discVars, inspectVars
<1>2. CASE command' = "create"
  <2>1. AreStored(made)' /\ Belong(made, 1, RunMode)'
    BY <1>1, <1>2, KeptTasks DEF IInv, Creating
  <2>2. ASSUME NEW i \in DOMAIN made PROVE jobs'[made[i]].input = Inputs[i]
    BY <1>2 DEF IInv, Creating, AreStored, Kept
  <2> QED
    BY <1>1, <1>2, <2>1, <2>2 DEF IInv, Creating
<1>3. CASE command' # "create"
  BY <1>3 DEF IInv, Creating
<1> QED
  BY <1>2, <1>3

LEMMA RunningInv == ASSUME IInv, Running PROVE IInv'
<1>1. Kept /\ jobs' \in Seq(Job)
  BY RunningKeeps
<1>2. /\ UNCHANGED <<discVars, batches, bg, made, retry, retries>>
      /\ command' \in {command, "refused", "done", "killed"}
  BY DEF Running, Nothing, Moves, Submit, GiveUp, Exit, Execute, Drained, KillCommand, Boot,
     storeVars, commandVars, managerVars
<1>3. UNCHANGED discVars => DInv'
  BY DiscStep DEF IInv
<1>4. StoreTypes'
  BY <1>1, <1>2 DEF IInv, StoreTypes
<1>5. Creating'
  BY <1>1, <1>2, CreatingKept
<1> QED
  BY <1>1, <1>2, <1>3, <1>4, <1>5, WholeKept, RetryingKept DEF IInv

LEMMA DiscoveringInv == ASSUME IInv, Discovering PROVE IInv'
<1>1. /\ UNCHANGED <<jobs, batches, command, bg, made, retry, retries>>
      /\ command = "discover" /\ Discover
  BY DEF Discovering, storeVars, commandVars, managerVars
<1>2. DInv'
  BY <1>1, DiscStep DEF IInv
<1>3. Kept
  BY <1>1 DEF Kept, Discover, RefuseRoot, Visit, Sort, SkipLink, SkipPath, SkipExtension,
     SkipInvalid, SkipContent, Accept, Inspected, NewPath, SkipCurrent
<1>4. StoreTypes' /\ Creating'
  BY <1>1 DEF IInv, StoreTypes, Creating
<1> QED
  BY <1>1, <1>2, <1>3, <1>4, WholeKept, RetryingKept DEF IInv

LEMMA BeginInv == ASSUME IInv, Begin PROVE IInv'
<1>1. /\ UNCHANGED <<discVars, jobs, batches, bg, made, retry, retries>>
      /\ command = "discover" /\ command' = "create" /\ made = <<>> /\ Worthwhile
  BY DEF Begin, Moves, storeVars, managerVars, Worthwhile, IInv, Creating
<1>2. DInv'
  BY <1>1, DiscStep DEF IInv
<1>3. Kept
  BY <1>1 DEF Kept, discVars
<1>4. StoreTypes'
  BY <1>1 DEF IInv, StoreTypes
<1>5. Creating'
  <2>1. Len(Inputs') \in Nat /\ Worthwhile'
    <3>1. Worthwhile'
      BY <1>1 DEF Worthwhile, Invalid, discVars, inspectVars
    <3>2. Inputs' = Inputs
      BY <1>1 DEF Inputs, discVars, inspectVars
    <3> QED
      BY <1>1, <3>1, <3>2, InputFacts DEF IInv
  <2> QED
    BY <1>1, <2>1 DEF Creating, AreStored, Belong
<1> QED
  BY <1>1, <1>2, <1>3, <1>4, <1>5, WholeKept, RetryingKept DEF IInv

\* A new task leaves the others as they are.
LEMMA NewTask ==
  ASSUME IInv, NEW job \in Job, jobs' = Append(jobs, job), UNCHANGED tree
  PROVE  /\ Kept /\ jobs' \in Seq(Job)
         /\ Len(jobs') = Len(jobs) + 1 /\ Len(jobs') \in Nat /\ Len(jobs') \in DOMAIN jobs'
         /\ Len(jobs') \notin DOMAIN jobs /\ jobs'[Len(jobs')] = job
<1>1. jobs \in Seq(Job)
  BY DEF IInv, StoreTypes
<1>2. /\ jobs' \in Seq(Job) /\ Len(jobs') = Len(jobs) + 1 /\ Len(jobs) \in Nat
      /\ jobs'[Len(jobs) + 1] = job
      /\ \A t \in DOMAIN jobs : t \in DOMAIN jobs' /\ jobs'[t] = jobs[t]
  BY <1>1
<1>3. Kept
  BY <1>2 DEF Kept
<1> QED
  BY <1>1, <1>2, <1>3

LEMMA CreateJobInv == ASSUME IInv, CreateJob PROVE IInv'
<1> DEFINE input == Inputs[Len(made) + 1]
           job   == NewJob(input, RunMode, 1, 0)
           id    == Len(jobs')
<1>1. /\ UNCHANGED <<discVars, batches, bg, retry, retries, command>> /\ command = "create"
      /\ Len(made) < Len(Inputs)
      /\ jobs' = Append(jobs, job) /\ made' = Append(made, id)
  BY DEF CreateJob, Moves, managerVars
<1>2. Worthwhile /\ Inputs \in Seq(Files) /\ made \in Seq(Nat)
  BY <1>1, InputFacts DEF IInv, Creating, StoreTypes
<1>3. job \in Job
  <2>1. input \in Files
    BY <1>1, <1>2
  <2>2. RunMode \in Modes /\ 1 \in BatchIds
    BY BoundsAssumption DEF RunMode, Modes, BatchIds
  <2> HIDE DEF input
  <2> QED
    BY <2>1, <2>2 DEF NewJob, Job, Statuses
<1>4. UNCHANGED tree
  BY <1>1 DEF discVars
<1>5. job.input = input /\ job.batch = 1 /\ job.mode = RunMode
  BY DEF NewJob
<1> HIDE DEF job
<1>6. /\ Kept /\ jobs' \in Seq(Job) /\ id \in Nat
      /\ id \in DOMAIN jobs' /\ jobs'[id] = job
  BY <1>1, <1>3, <1>4, NewTask
<1> HIDE DEF id
<1>7. DInv'
  BY <1>1, DiscStep DEF IInv
<1>8. /\ made' \in Seq(Nat) /\ DOMAIN made' = DOMAIN made \cup {Len(made) + 1}
      /\ Len(made') = Len(made) + 1 /\ Len(made) \in Nat
      /\ made'[Len(made) + 1] = id /\ \A i \in DOMAIN made : made'[i] = made[i]
  BY <1>1, <1>2, <1>6
<1>9. StoreTypes'
  BY <1>1, <1>6, <1>8 DEF IInv, StoreTypes
<1>10. Creating'
  <2>1. Inputs' = Inputs /\ RunMode' = RunMode /\ Worthwhile'
    BY <1>1, <1>2 DEF Inputs, RunMode, Worthwhile, Invalid, discVars, inspectVars
  <2>2. AreStored(made) /\ Belong(made, 1, RunMode)
        /\ \A i \in DOMAIN made : jobs[made[i]].input = Inputs[i]
    BY <1>1 DEF IInv, Creating
  <2>3. ASSUME NEW i \in DOMAIN made'
        PROVE  /\ made'[i] \in DOMAIN jobs'
               /\ jobs'[made'[i]].batch = 1 /\ jobs'[made'[i]].mode = RunMode
               /\ jobs'[made'[i]].input = Inputs[i]
    <3>1. CASE i \in DOMAIN made
      BY <1>6, <1>8, <2>2, <3>1 DEF AreStored, Belong, Kept
    <3>2. CASE i = Len(made) + 1
      BY <1>5, <1>6, <1>8, <3>2
    <3> QED
      BY <1>8, <3>1, <3>2
  <2>4. Len(made') <= Len(Inputs)
    BY <1>1, <1>2, <1>8
  <2> QED
    BY <1>1, <2>1, <2>3, <2>4 DEF Creating, AreStored, Belong
<1> QED
  BY <1>1, <1>6, <1>7, <1>9, <1>10, WholeKept, RetryingKept DEF IInv

\* The batch whose tasks have all been created is whole.
LEMMA CreateBatchInv == ASSUME IInv, CreateBatch PROVE IInv'
<1> DEFINE batch == [tasks |-> made, mode |-> RunMode, options |-> accepted # <<>>]
<1>1. /\ UNCHANGED <<discVars, jobs, bg, made, retry, retries>> /\ command = "create"
      /\ command' = RunMode /\ Len(made) = Len(Inputs)
      /\ batches' = [batches EXCEPT ![1] = batch]
  BY DEF CreateBatch, Moves, managerVars
<1>2. /\ Worthwhile /\ made \in Seq(Nat) /\ 1 \in BatchIds /\ batches \in [BatchIds -> Batch]
      /\ RunMode \in Modes
  BY <1>1, BoundsAssumption DEF IInv, Creating, StoreTypes, BatchIds, RunMode, Modes
<1>3. DInv'
  BY <1>1, DiscStep DEF IInv
<1>4. Kept
  BY <1>1 DEF Kept, discVars
<1>5. batch \in Batch /\ batch.tasks = made /\ batch.mode = RunMode
  BY <1>2 DEF Batch
<1> HIDE DEF batch
<1>6. batches' \in [BatchIds -> Batch]
  BY <1>1, <1>2, <1>5
<1>7. StoreTypes'
  BY <1>1, <1>2, <1>6 DEF IInv, StoreTypes, Modes
<1>8. AreStored(made) /\ Belong(made, 1, RunMode) /\ Distinct(made)
  <2>1. /\ AreStored(made) /\ Belong(made, 1, RunMode)
        /\ \A i \in DOMAIN made : jobs[made[i]].input = Inputs[i]
    BY <1>1 DEF IInv, Creating
  <2>2. DOMAIN made = DOMAIN Inputs
    BY <1>1, <1>2, InputFacts DEF IInv
  <2>3. \A i, j \in DOMAIN Inputs : tree.content[Inputs[i]] = tree.content[Inputs[j]] => i = j
    BY <1>2, InputFacts DEF IInv
  <2> QED
    BY <2>1, <2>2, <2>3 DEF Distinct
<1>9. Whole'
  BY <1>1, <1>2, <1>4, <1>5, <1>8, WholeStored
<1>10. Creating'
  BY <1>1 DEF Creating, RunMode
<1> QED
  BY <1>1, <1>3, <1>4, <1>7, <1>9, <1>10, RetryingKept DEF IInv

\* There is no retry afterwards.
LEMMA NoRetrying == ASSUME retry' = NoRetry PROVE Retrying'
<1>1. retry'.made = <<>> /\ retry'.left = <<>>
  BY DEF NoRetry
<1>2. DOMAIN (<<>> \o <<>>) = {}
  OBVIOUS
<1> QED
  BY <1>1, <1>2 DEF Retrying, AreStored, Belong, Distinct

LEMMA CrashInv == ASSUME IInv, Crash \/ RetryStart PROVE IInv'
<1>1. UNCHANGED <<discVars, jobs, batches, bg, command, made, retries>> /\ retry' = NoRetry
  BY DEF Crash, RetryStart, storeVars, commandVars
<1>2. DInv'
  BY <1>1, DiscStep DEF IInv
<1>3. Kept
  BY <1>1 DEF Kept, discVars
<1>4. StoreTypes'
  BY <1>1, EmptySeq DEF IInv, StoreTypes, NoRetry
<1> QED
  BY <1>1, <1>2, <1>3, <1>4, WholeKept, CreatingKept, NoRetrying DEF IInv

\* What a retry takes up are tasks of a whole batch, each once.
LEMMA RetryInv == ASSUME IInv, NEW b \in BatchIds, Retry(b) PROVE IInv'
<1> DEFINE all == batches[b].tasks
<1>1. PICK ts \in {all} \cup {<<t>> : t \in Tasks(b)} :
        \E again \in Picked(ts, {t \in ToSet(ts) : jobs[t].status \in Unsuccessful}) :
          retry' = [NoRetry EXCEPT !.of = b, !.left = again]
  BY DEF Retry
<1>2. PICK again \in Picked(ts, {t \in ToSet(ts) : jobs[t].status \in Unsuccessful}) :
        retry' = [NoRetry EXCEPT !.of = b, !.left = again]
  BY <1>1
<1>3. /\ UNCHANGED <<discVars, jobs, batches, bg, command, made>>
      /\ retries < MaxRetries /\ retries' = retries + 1
  BY DEF Retry, storeVars, commandVars
<1>4. all \in Seq(Nat) /\ AreStored(all) /\ Distinct(all)
  <2>1. batches[b] \in Batch
    BY DEF IInv, StoreTypes
  <2> QED
    BY <2>1 DEF IInv, Whole, WholeBatch, Batch
<1> HIDE DEF all
<1>5. \A t \in Tasks(b) : t \in ToSet(all) /\ t \in Nat
  BY <1>4 DEF Tasks, ToSet, all
<1>6. ts \in Seq(Nat) /\ IsInjective(ts) /\ ToSet(ts) \subseteq ToSet(all)
  <2>1. CASE ts = all
    BY <1>4, <2>1 DEF Distinct, IsInjective
  <2>2. ASSUME NEW t \in Tasks(b), ts = <<t>>
        PROVE  ts \in Seq(Nat) /\ IsInjective(ts) /\ ToSet(ts) \subseteq ToSet(all)
    <3>1. ts \in Seq(Nat) /\ DOMAIN ts = {1} /\ ts[1] = t
      BY <1>5, <2>2
    <3> QED
      BY <1>5, <3>1 DEF IsInjective, ToSet
  <2> QED
    BY <1>1, <2>1, <2>2
<1>7. again \in Seq(Nat) /\ IsInjective(again) /\ ToSet(again) \subseteq ToSet(all)
  <2> DEFINE undone == {t \in ToSet(ts) : jobs[t].status \in Unsuccessful}
  <2>1. undone \subseteq ToSet(ts) /\ undone \subseteq Nat
    BY <1>6 DEF ToSet
  <2>2. again \in Picked(ts, undone)
    OBVIOUS
  <2> HIDE DEF undone
  <2>3. again \in Seq(undone) /\ ToSet(again) = undone /\ IsInjective(again)
    BY <1>6, <2>1, <2>2, PickedMembers, PickedInjective
  <2> QED
    BY <1>6, <2>1, <2>3, SeqMonotonic
<1>8. AreStored(again) /\ Distinct(again)
  <2>1. ASSUME NEW i \in DOMAIN again PROVE \E k \in DOMAIN all : again[i] = all[k]
    BY <1>7 DEF ToSet
  <2>2. AreStored(again)
    BY <1>4, <2>1 DEF AreStored
  <2>3. ASSUME NEW i \in DOMAIN again, NEW j \in DOMAIN again,
               tree.content[jobs[again[i]].input] = tree.content[jobs[again[j]].input]
        PROVE  i = j
    <3>1. PICK k \in DOMAIN all, l \in DOMAIN all : again[i] = all[k] /\ again[j] = all[l]
      BY <2>1
    <3>2. k = l
      BY <1>4, <2>3, <3>1 DEF Distinct
    <3> QED
      BY <1>7, <3>1, <3>2 DEF IsInjective
  <2> QED
    BY <2>2, <2>3 DEF Distinct
<1>9. /\ retry' = [of |-> b, left |-> again, made |-> <<>>, stored |-> FALSE]
      /\ <<>> \o again = again
  BY <1>2, <1>7, ConcatEmptySeq DEF NoRetry
<1>10. Retrying'
  <2>1. /\ retry'.left = again /\ retry'.made = <<>>
        /\ retry'.made \o retry'.left = again /\ retry'.of \in BatchIds
    BY <1>9
  <2>2. AreStored(again)' /\ Distinct(again)'
    BY <1>3, <1>8 DEF AreStored, Distinct, discVars
  <2> QED
    BY <2>1, <2>2 DEF Retrying, AreStored, Belong, Distinct
<1>11. DInv'
  BY <1>3, DiscStep DEF IInv
<1>12. Kept
  BY <1>3 DEF Kept, discVars
<1>13. StoreTypes'
  <2>1. retries' \in 0..MaxRetries
    BY <1>3, BoundsAssumption DEF IInv, StoreTypes
  <2>2. retry' \in [of : Nat, left : Seq(Nat), made : Seq(Nat), stored : BOOLEAN]
    BY <1>7, <1>9, EmptySeq DEF BatchIds
  <2> QED
    BY <1>3, <2>1, <2>2 DEF IInv, StoreTypes
<1> QED
  BY <1>3, <1>10, <1>11, <1>12, <1>13, WholeKept, CreatingKept DEF IInv

\* The new task takes the place of the one that it repeats.
LEMMA RetryJobInv == ASSUME IInv, RetryJob PROVE IInv'
<1>1. PICK mk, lf, n, id :
        mk = retry.made /\ lf = retry.left /\ n = retries + 1 /\ id = Len(jobs')
  OBVIOUS
<1> DEFINE old == Head(lf)
           job == NewJob(jobs[old].input, "background", n, old)
<1>2. /\ UNCHANGED <<discVars, batches, bg, command, made, retries>> /\ lf # <<>>
      /\ jobs' = Append(jobs, job)
      /\ retry' = [retry EXCEPT !.left = Tail(lf), !.made = Append(mk, id)]
  BY <1>1 DEF RetryJob, commandVars
<1>3. /\ lf \in Seq(Nat) /\ mk \in Seq(Nat) /\ jobs \in Seq(Job)
      /\ AreStored(lf) /\ AreStored(mk) /\ Distinct(mk \o lf) /\ Belong(mk, n, "background")
  BY <1>1 DEF IInv, StoreTypes, Retrying
<1>4. n \in BatchIds
  BY <1>1, BoundsAssumption DEF IInv, StoreTypes, BatchIds
<1>5. old \in DOMAIN jobs /\ old \in Nat
  <2>1. old \in Nat /\ 1 \in DOMAIN lf /\ old = lf[1]
    BY <1>2, <1>3
  <2> QED
    BY <1>3, <2>1 DEF AreStored
<1> HIDE DEF old
<1>6. /\ job \in Job /\ job.input = jobs[old].input
      /\ job.batch = n /\ job.mode = "background"
  <2>1. jobs[old] \in Job
    BY <1>3, <1>5
  <2>2. jobs[old].input \in Files
    BY <2>1 DEF Job
  <2> QED
    BY <1>4, <1>5, <2>2 DEF NewJob, Job, Modes, Statuses
<1> HIDE DEF job
<1>7. UNCHANGED tree
  BY <1>2 DEF discVars
<1>8. /\ Kept /\ jobs' \in Seq(Job) /\ id \in Nat
      /\ id \in DOMAIN jobs' /\ jobs'[id] = job
  BY <1>1, <1>2, <1>6, <1>7, NewTask
<1>9. DInv'
  BY <1>2, DiscStep DEF IInv
<1>10. PICK now, next : now = Append(mk, id) /\ next = Tail(lf)
  OBVIOUS
<1>11. now \in Seq(Nat) /\ next \in Seq(Nat)
  BY <1>2, <1>3, <1>8, <1>10
<1>12. /\ retry' \in [of : Nat, left : Seq(Nat), made : Seq(Nat), stored : BOOLEAN]
       /\ retry'.left = next /\ retry'.made = now
  <2>1. retry \in [of : Nat, left : Seq(Nat), made : Seq(Nat), stored : BOOLEAN]
    BY DEF IInv, StoreTypes
  <2> QED
    BY <1>2, <1>10, <1>11, <2>1
<1>13. StoreTypes'
  BY <1>2, <1>8, <1>12 DEF IInv, StoreTypes
<1>14. AreStored(now)' /\ Belong(now, n, "background")'
  <2>1. AreStored(mk)' /\ Belong(mk, n, "background")'
    BY <1>3, <1>8, KeptTasks
  <2>2. ASSUME NEW i \in DOMAIN now
        PROVE  (i \in DOMAIN mk /\ now[i] = mk[i]) \/ now[i] = id
    BY <1>3, <1>8, <1>10, AppendedElement
  <2> QED
    BY <1>6, <1>8, <2>1, <2>2 DEF AreStored, Belong
<1>15. AreStored(next)'
  <2>1. AreStored(lf)'
    BY <1>3, <1>8, KeptTasks
  <2>2. ASSUME NEW i \in DOMAIN next PROVE \E k \in DOMAIN lf : next[i] = lf[k]
    <3>1. i + 1 \in DOMAIN lf /\ next[i] = lf[i + 1]
      BY <1>2, <1>3, <1>10
    <3> QED
      BY <3>1
  <2> QED
    BY <2>1, <2>2 DEF AreStored
<1>16. PICK all, then : all = mk \o lf /\ then = now \o next
  OBVIOUS
<1>17. Distinct(then)'
  <2>1. ASSUME NEW i \in DOMAIN then
        PROVE  i \in DOMAIN all /\ jobs'[then[i]].input = jobs[all[i]].input
    <3>1. /\ i \in DOMAIN all
          /\ (all[i] = old /\ then[i] = id) \/ then[i] = all[i]
      <4>1. i \in DOMAIN (Append(mk, id) \o Tail(lf))
        BY <1>10, <1>16
      <4>2. /\ i \in DOMAIN (mk \o lf)
            /\ \/ /\ (mk \o lf)[i] = Head(lf)
                  /\ (Append(mk, id) \o Tail(lf))[i] = id
               \/ (Append(mk, id) \o Tail(lf))[i] = (mk \o lf)[i]
        <5>1. mk \in Seq(Nat) /\ lf \in Seq(Nat) /\ lf # <<>> /\ id \in Nat
          BY <1>2, <1>3, <1>8
        <5> QED
          BY <4>1, <5>1, MovedOn
      <4> QED
        BY <1>10, <1>16, <4>2 DEF old
    <3>2. CASE all[i] = old /\ then[i] = id
      BY <1>6, <1>8, <3>1, <3>2
    <3>3. CASE then[i] = all[i]
      <4>1. all[i] \in DOMAIN jobs
        BY <1>3, <1>16, <3>1, Concatenated DEF AreStored
      <4> QED
        BY <1>8, <3>1, <3>3, <4>1 DEF Kept
    <3> QED
      BY <3>1, <3>2, <3>3
  <2> QED
    BY <1>3, <1>7, <1>16, <2>1, ZenonT(60) DEF Distinct
<1>18. Retrying'
  <2>1. /\ retry'.made = now /\ retry'.left = next /\ retry'.made \o retry'.left = then
        /\ retries' + 1 = n
    BY <1>1, <1>2, <1>12, <1>16
  <2>2. retry'.of \in BatchIds
    BY <1>1, <1>2 DEF IInv, Retrying, StoreTypes
  <2> QED
    BY <1>14, <1>15, <1>17, <2>1, <2>2 DEF Retrying
<1> QED
  BY <1>2, <1>8, <1>9, <1>13, <1>18, WholeKept, CreatingKept DEF IInv

\* The batch whose tasks have all been made is whole.
LEMMA RetryBatchInv == ASSUME IInv, RetryBatch PROVE IInv'
<1> DEFINE batch == [tasks |-> retry.made, mode |-> "background",
                     options |-> batches[retry.of].options]
<1>1. /\ UNCHANGED <<discVars, jobs, bg, command, made, retries>> /\ retry.left = <<>>
      /\ batches' = [batches EXCEPT ![retries + 1] = batch]
      /\ retry' = [retry EXCEPT !.stored = TRUE]
  BY DEF RetryBatch, commandVars
<1>2. retry \in [of : Nat, left : Seq(Nat), made : Seq(Nat), stored : BOOLEAN]
  BY DEF IInv, StoreTypes
<1>3. retries + 1 \in BatchIds
  BY BoundsAssumption DEF IInv, StoreTypes, BatchIds
<1>4. retry.of \in BatchIds
  BY DEF IInv, Retrying, RetryBatch
<1>5. batch \in Batch /\ batch.tasks = retry.made /\ batch.mode = "background"
  <2>1. batches[retry.of] \in Batch
    BY <1>4 DEF IInv, StoreTypes
  <2>2. batches[retry.of].options \in BOOLEAN
    BY <2>1 DEF Batch
  <2> QED
    BY <1>2, <2>2 DEF Batch, Modes
<1> HIDE DEF batch
<1>6. AreStored(retry.made) /\ Belong(retry.made, retries + 1, "background")
      /\ Distinct(retry.made)
  <2>1. retry.made \o retry.left = retry.made
    BY <1>1, <1>2, ConcatEmptySeq
  <2> QED
    BY <2>1 DEF IInv, Retrying
<1>7. Kept
  BY <1>1 DEF Kept, discVars
<1>8. Whole'
  BY <1>1, <1>3, <1>5, <1>6, <1>7, WholeStored
<1>9. DInv'
  BY <1>1, DiscStep DEF IInv
<1>10. StoreTypes'
  <2>1. batches' \in [BatchIds -> Batch]
    BY <1>1, <1>3, <1>5 DEF IInv, StoreTypes
  <2> QED
    BY <1>1, <1>2, <2>1 DEF IInv, StoreTypes
<1>11. Retrying'
  <2>1. retry'.made = retry.made /\ retry'.left = retry.left /\ retry'.of = retry.of
    BY <1>1, <1>2
  <2> QED
    BY <1>1, <1>7, <2>1, RetryingKept
<1> QED
  BY <1>1, <1>7, <1>8, <1>9, <1>10, <1>11, CreatingKept DEF IInv

-----------------------------------------------------------------------------
(* The theorems.                                                           *)

LEMMA Start == Init => IInv
<1> SUFFICES ASSUME Init PROVE IInv
  OBVIOUS
<1> USE DEF Init
<1>1. DInv
  BY DiscStart
<1>2. \A b \in BatchIds : batches[b] = NoBatch
  OBVIOUS
<1>3. StoreTypes
  <2>1. NoBatch \in Batch
    BY EmptySeq DEF NoBatch, Batch, Modes
  <2>2. jobs \in Seq(Job) /\ made \in Seq(Nat)
    BY EmptySeq
  <2>3. retry \in [of : Nat, left : Seq(Nat), made : Seq(Nat), stored : BOOLEAN]
    BY EmptySeq DEF NoRetry
  <2> QED
    BY <2>1, <2>2, <2>3, BoundsAssumption DEF StoreTypes
<1>4. Creating
  BY DEF Creating
<1>5. Whole
  BY <1>2 DEF Whole, WholeBatch, NoBatch, AreStored, Belong, Distinct
<1>6. Retrying
  <2>1. retry.made = <<>> /\ retry.left = <<>>
    BY DEF NoRetry
  <2>2. DOMAIN (<<>> \o <<>>) = {}
    OBVIOUS
  <2> QED
    BY <2>1, <2>2 DEF Retrying, AreStored, Belong, Distinct
<1> QED
  BY <1>1, <1>3, <1>4, <1>5, <1>6 DEF IInv

LEMMA Step == IInv /\ [Next]_vars => IInv'
<1> SUFFICES ASSUME IInv, [Next]_vars PROVE IInv'
  OBVIOUS
<1>1. CASE Running
  BY <1>1, RunningInv
<1>2. CASE Discovering
  BY <1>2, DiscoveringInv
<1>3. CASE Begin
  BY <1>3, BeginInv
<1>4. CASE CreateJob
  BY <1>4, CreateJobInv
<1>5. CASE CreateBatch
  BY <1>5, CreateBatchInv
<1>6. CASE Crash \/ RetryStart
  BY <1>6, CrashInv
<1>7. CASE \E b \in BatchIds : Retry(b)
  BY <1>7, RetryInv
<1>8. CASE RetryJob
  BY <1>8, RetryJobInv
<1>9. CASE RetryBatch
  BY <1>9, RetryBatchInv
<1>10. CASE UNCHANGED vars
  <2>1. UNCHANGED <<discVars, jobs, batches, bg, command, made, retry, retries>>
    BY <1>10 DEF vars, storeVars, commandVars, managerVars
  <2>2. DInv'
    BY <2>1, DiscStep DEF IInv
  <2>3. Kept
    BY <2>1 DEF Kept, discVars
  <2>4. StoreTypes'
    BY <2>1 DEF IInv, StoreTypes
  <2> QED
    BY <2>1, <2>2, <2>3, <2>4, WholeKept, CreatingKept, RetryingKept DEF IInv
<1> QED
  BY <1>1, <1>2, <1>3, <1>4, <1>5, <1>6, <1>7, <1>8, <1>9, <1>10 DEF Next, Running

LEMMA Invariance == Spec => []IInv
  BY Start, Step, PTL DEF Spec

\* The command inspects the files that the walk may reach, all of them and in
\* their order, and nothing that a link or an excluded directory leads to, for any
\* tree (discover_directory).
THEOREM VisibleFound == Spec => []FindsTheVisible
<1>1. IInv => FindsTheVisible
  BY DEF IInv, DInv
<1> QED
  BY <1>1, Invariance, PTL

\* Every content among the candidates is transcribed exactly once, for any tree and
\* any names, those that occur twice included (_inspect).
THEOREM ContentOnce == Spec => []EveryContentOnce
<1>1. IInv => EveryContentOnce
  BY DiscInvariants DEF IInv
<1> QED
  BY <1>1, Invariance, PTL

\* A stored batch has all of its tasks, which are of different contents: for any
\* number of retries, of kills of the command and of crashes of the manager.
THEOREM BatchWhole == Spec => []BatchIsWhole
<1>1. ASSUME IInv PROVE BatchIsWhole
  <2> SUFFICES ASSUME NEW b \in Stored
               PROVE  /\ Tasks(b) \subseteq DOMAIN jobs
                      /\ \A t \in Tasks(b) : jobs[t].batch = b /\ jobs[t].mode = batches[b].mode
                      /\ Distinct(batches[b].tasks)
    BY DEF BatchIsWhole, Distinct
  <2>1. WholeBatch(b)
    BY <1>1 DEF IInv, Whole, Stored
  <2> QED
    BY <2>1 DEF WholeBatch, AreStored, Belong, Tasks, ToSet
<1> QED
  BY <1>1, Invariance, PTL
=============================================================================
