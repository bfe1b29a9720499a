--------------------------- MODULE FuzzLoop_proofs ---------------------------
(***************************************************************************)
(* rvMutator and the loop of Run, for any sizes of tests, corpus and data  *)
(* and any number of iterations.                                           *)
(*                                                                         *)
(* The mutator.  A list that is going to be numbered again keeps its old   *)
(* words in the order of their old labels, whatever was dropped, put in,   *)
(* merged or cut off: hence the map from old to new labels is monotone and *)
(* a word that jumped forward still does.  Seeds are distinct and those of *)
(* the corpus are never lost, since a full list takes out the seed it puts *)
(* back.                                                                   *)
(*                                                                         *)
(* The loop.  Its steps are steps of rvMutator, so that what is proved of  *)
(* the mutator holds in it.  And a test that is kept was not killed: a     *)
(* timer kills the child that the main thread waits for or none, and a     *)
(* call whose simulator was killed sees its exit code, since no child ends *)
(* between the kill and the return.                                        *)
(***************************************************************************)
EXTENDS FuzzLoop, TLAPS, FiniteSetTheorems

-----------------------------------------------------------------------------
(* The mutator: what a test and a draft are                                 *)

\* a test: its labels are positions and its jumps go forward
Forward(s) == /\ s \in Seq(Words)
              /\ \A i \in DOMAIN s : /\ s[i].label = i - 1
                                     /\ s[i].jump => s[i].target >= i

InBounds(s) == \A i \in DOMAIN s : s[i].target <= Len(s)

\* a list before it is numbered again: old words in order, new ones anywhere
Drafts == [label : Nat \cup {NoLabel}, jump : BOOLEAN, target : Nat \cup {NoLabel}, populated : BOOLEAN]
Draft(w) ==
  /\ w \in Seq(Drafts)
  /\ \A i \in DOMAIN w : w[i].populated => /\ w[i].label \in Nat
                                           /\ w[i].jump => w[i].target > w[i].label
  /\ \A i, j \in DOMAIN w : w[i].populated /\ w[j].populated /\ i < j => w[i].label < w[j].label

SeedsDistinct ==
  /\ \A i, j \in DOMAIN data_seeds : data_seeds[i] = data_seeds[j] => i = j
  /\ Len(data_seeds) < MaxSeeds => \A i \in DOMAIN data_seeds : data_seeds[i] < Len(data_seeds)

SeedThere(seed) == \E i \in DOMAIN data_seeds : data_seeds[i] = seed

MutatorIInv ==
  /\ MutatorTypeOK /\ NoLoop /\ Compilable /\ SeedsDistinct
  /\ \A si \in corpus : SeedThere(si.seed)
  /\ input # NoInput => SeedThere(input.seed)

-----------------------------------------------------------------------------
(* Numbering                                                                *)

\* What a word of a draft may refer to is a label of the test or the end, and
\* a later one if the word jumps.
LEMMA TargetsForward ==
  ASSUME NEW w, Draft(w), NEW i \in DOMAIN w, NEW t \in Targets(w, i)
  PROVE  /\ t \in Nat \cup {NoLabel} /\ t <= Len(w)
         /\ w[i].jump => t >= i
<1> DEFINE M == Mapped(w, w[i].target)
<1>1. /\ Len(w) \in Nat /\ DOMAIN w = 1 .. Len(w) /\ i \in Nat /\ 1 <= i /\ i <= Len(w)
      /\ w[i] \in Drafts
  BY DEF Draft
<1>2. CASE ~w[i].populated
  <2>1. t \in Symbols(w[i].jump, i - 1, Len(w))
    BY <1>2 DEF Targets
  <2>2. CASE w[i].jump
    <3>1. t \in (i - 1) + 1 .. Len(w)
      BY <2>1, <2>2 DEF Symbols
    <3> QED BY <3>1, <1>1 DEF NoLabel
  <2>3. CASE ~w[i].jump
    <3>1. t \in {NoLabel} \cup (0 .. Len(w))
      BY <2>1, <2>3 DEF Symbols
    <3> QED BY <3>1, <1>1, <2>3 DEF NoLabel
  <2> QED BY <2>2, <2>3
<1>3. CASE w[i].populated /\ w[i].target = NoLabel
  <2>1. t = NoLabel
    BY <1>3 DEF Targets
  <2>2. ~w[i].jump
    <3> SUFFICES ASSUME w[i].jump PROVE FALSE
      OBVIOUS
    <3>1. w[i].label \in Nat /\ w[i].target > w[i].label
      BY <1>3 DEF Draft
    <3> QED BY <3>1, <1>3 DEF NoLabel
  <2> QED BY <2>1, <2>2, <1>1 DEF NoLabel
<1>4. CASE w[i].populated /\ w[i].target # NoLabel /\ M = {}
  <2>1. t \in i .. Len(w)
    BY <1>4 DEF Targets
  <2> QED BY <2>1, <1>1
<1>5. CASE w[i].populated /\ w[i].target # NoLabel /\ M # {}
  <2>1. PICK j \in M : t = j - 1
    BY <1>5 DEF Targets
  <2>2. j \in DOMAIN w /\ w[j].populated /\ w[j].label = w[i].target
    BY <2>1 DEF Mapped
  <2>3. j \in Nat /\ 1 <= j /\ j <= Len(w)
    BY <2>2, <1>1
  <2>4. ASSUME w[i].jump PROVE j > i
    <3>1. w[i].label \in Nat /\ w[j].label \in Nat /\ w[i].label < w[j].label
      BY <2>2, <2>4, <1>5 DEF Draft
    <3>2. ~(j < i)
      <4> SUFFICES ASSUME j < i PROVE FALSE
        OBVIOUS
      <4>1. w[j].label < w[i].label
        BY <2>2, <1>5 DEF Draft
      <4> QED BY <4>1, <3>1
    <3>3. j # i
      BY <3>1
    <3> QED BY <3>2, <3>3, <2>3, <1>1
  <2> QED BY <2>1, <2>3, <2>4, <1>1
<1> QED BY <1>2, <1>3, <1>4, <1>5

\* A draft that has been numbered again is a test.
LEMMA CompletedForward ==
  ASSUME NEW w, Draft(w), NEW s \in Completed(w)
  PROVE  Forward(s) /\ InBounds(s)
<1>1. Len(w) \in Nat /\ DOMAIN w = 1 .. Len(w) /\ \A i \in DOMAIN w : w[i] \in Drafts
  BY DEF Draft
<1>2. PICK t \in [DOMAIN w -> Labels] :
        /\ \A i \in DOMAIN w : t[i] \in Targets(w, i)
        /\ s = [i \in DOMAIN w |-> [label |-> i - 1, jump |-> w[i].jump, target |-> t[i], populated |-> TRUE]]
  BY DEF Completed
<1>3. ASSUME NEW i \in DOMAIN w
      PROVE  /\ t[i] \in Nat \cup {NoLabel} /\ t[i] <= Len(w)
             /\ w[i].jump => t[i] >= i
  <2>1. t[i] \in Targets(w, i)
    BY <1>2
  <2> QED BY <2>1, TargetsForward
<1>4. DOMAIN s = DOMAIN w /\ \A i \in DOMAIN w : /\ s[i] \in Words /\ s[i].label = i - 1
                                                /\ s[i].jump = w[i].jump /\ s[i].target = t[i]
  <2> SUFFICES ASSUME NEW i \in DOMAIN w
               PROVE  /\ s[i] \in Words /\ s[i].label = i - 1
                      /\ s[i].jump = w[i].jump /\ s[i].target = t[i]
    BY <1>2
  <2>1. s[i] = [label |-> i - 1, jump |-> w[i].jump, target |-> t[i], populated |-> TRUE]
    BY <1>2
  <2>2. i - 1 \in Nat /\ w[i].jump \in BOOLEAN
    BY <1>1 DEF Drafts
  <2> QED BY <2>1, <2>2, <1>3 DEF Words
<1>5. s \in Seq(Words) /\ Len(s) = Len(w)
  <2>1. s \in [1 .. Len(w) -> Words]
    BY <1>1, <1>2, <1>4
  <2> QED BY <2>1, <1>1
<1> QED BY <1>3, <1>4, <1>5 DEF Forward, InBounds

LEMMA NewWordIsDraft ==
  ASSUME NEW jump \in BOOLEAN
  PROVE  NewWord(jump) \in Drafts /\ ~NewWord(jump).populated
BY DEF NewWord, Drafts

\* generated words
LEMMA GeneratedDraft == ASSUME NEW w \in Generated PROVE Draft(w)
<1>1. PICK j \in [1 .. NumWords -> BOOLEAN] : w = [i \in 1 .. NumWords |-> NewWord(j[i])]
  BY DEF Generated
<1>2. NumWords \in Nat
  BY MutatorAssumption
<1>3. \A i \in 1 .. NumWords : w[i] \in Drafts /\ ~w[i].populated
  BY <1>1, NewWordIsDraft
<1>4. DOMAIN w = 1 .. NumWords /\ w \in [1 .. NumWords -> Drafts]
  BY <1>1, <1>3
<1>5. w \in Seq(Drafts)
  BY <1>2, <1>4
<1> QED BY <1>3, <1>4, <1>5 DEF Draft

\* What mutate_words makes of a test: the words it keeps stay in order.
LEMMA MutatedDraft ==
  ASSUME NEW s, Forward(s), NEW w \in MutateWords(s)
  PROVE  Draft(w)
<1> PICK p \in Picks(Len(s), MaxWords) :
        w \in {[i \in DOMAIN p |-> IF p[i].new THEN NewWord(j[i]) ELSE s[p[i].from]] :
                 j \in [DOMAIN p -> BOOLEAN]}
  BY DEF MutateWords
<1>1. PICK j \in [DOMAIN p -> BOOLEAN] :
        w = [i \in DOMAIN p |-> IF p[i].new THEN NewWord(j[i]) ELSE s[p[i].from]]
  OBVIOUS
<1>2. PICK m \in 0 .. MaxWords : p \in [1 .. m -> [from : 1 .. Len(s), new : BOOLEAN]]
  BY DEF Picks
<1>3. m \in Nat /\ DOMAIN p = 1 .. m /\ Len(s) \in Nat /\ DOMAIN s = 1 .. Len(s)
  BY <1>2, MutatorAssumption DEF Forward
<1>4. \A i, k \in DOMAIN p : i < k => \/ p[i].from < p[k].from
                                      \/ p[i].from = p[k].from /\ ~p[i].new /\ p[k].new
  BY DEF Picks
<1>5. ASSUME NEW i \in DOMAIN p
      PROVE  /\ p[i].from \in DOMAIN s /\ p[i].new \in BOOLEAN
             /\ p[i].new => w[i] = NewWord(j[i]) /\ j[i] \in BOOLEAN
             /\ ~p[i].new => w[i] = s[p[i].from]
  <2>1. p[i] \in [from : 1 .. Len(s), new : BOOLEAN]
    BY <1>2, <1>3
  <2> QED BY <2>1, <1>1, <1>3
<1>6. ASSUME NEW i \in DOMAIN p, ~p[i].new
      PROVE  /\ w[i] \in Drafts /\ w[i].label = p[i].from - 1 /\ w[i].label \in Nat
             /\ w[i].jump => w[i].target > w[i].label
  <2> DEFINE k == p[i].from
  <2>1. w[i] = s[k] /\ k \in 1 .. Len(s)
    BY <1>5, <1>6, <1>3
  <2>2. s[k] \in Words /\ s[k].label = k - 1 /\ (s[k].jump => s[k].target >= k)
    BY <2>1, <1>3 DEF Forward
  <2>3. s[k] \in Drafts
    BY <2>2 DEF Words, Drafts
  <2>4. s[k].label \in Nat /\ s[k].target \in Nat \cup {NoLabel}
    BY <2>2 DEF Words
  <2> HIDE DEF k
  <2>5. k \in Nat /\ k - 1 < k
    BY <2>1, <1>3
  <2>6. s[k].jump => s[k].target > s[k].label
    BY <2>2, <2>4, <2>5 DEF NoLabel
  <2> QED BY <2>1, <2>2, <2>3, <2>4, <2>6 DEF k
<1>7. ASSUME NEW i \in DOMAIN p, p[i].new
      PROVE  w[i] \in Drafts /\ ~w[i].populated
  BY <1>5, <1>7, NewWordIsDraft
<1>8. DOMAIN w = DOMAIN p /\ w \in Seq(Drafts)
  <2>1. w \in [1 .. m -> Drafts]
    BY <1>1, <1>3, <1>5, <1>6, <1>7
  <2> QED BY <2>1, <1>3
<1>9. ASSUME NEW i \in DOMAIN p, NEW k \in DOMAIN p, w[i].populated, w[k].populated, i < k
      PROVE  w[i].label < w[k].label
  <2>1. ~p[i].new /\ ~p[k].new
    BY <1>7, <1>9, <1>5
  <2>2. p[i].from < p[k].from
    BY <2>1, <1>4, <1>9
  <2>3. w[i].label = p[i].from - 1 /\ w[k].label = p[k].from - 1
    BY <2>1, <1>6
  <2>4. p[i].from \in Nat /\ p[k].from \in Nat
    BY <1>5, <1>3
  <2> QED BY <2>2, <2>3, <2>4
<1>10. ASSUME NEW i \in DOMAIN p, w[i].populated
       PROVE  w[i].label \in Nat /\ (w[i].jump => w[i].target > w[i].label)
  <2>1. ~p[i].new
    BY <1>7, <1>10, <1>5
  <2> QED BY <2>1, <1>6
<1> QED BY <1>8, <1>9, <1>10 DEF Draft

\* Two tests that are merged have labels that are positions.
LEMMA MergedForward ==
  ASSUME NEW a, Forward(a), NEW b, Forward(b), NEW s \in Merged(a, b)
  PROVE  Forward(s)
<1>1. PICK x \in {x \in 0 .. Len(a) : x <= Len(b)} :
        s = [i \in 1 .. Len(b) |-> IF i <= x THEN a[i] ELSE b[i]]
  BY DEF Merged
<1>2. /\ Len(a) \in Nat /\ DOMAIN a = 1 .. Len(a)
      /\ Len(b) \in Nat /\ DOMAIN b = 1 .. Len(b)
      /\ \A i \in 1 .. Len(a) : a[i] \in Words
      /\ \A i \in 1 .. Len(b) : b[i] \in Words
  BY DEF Forward
<1>3. \A i \in 1 .. Len(b) : /\ s[i] \in Words /\ s[i].label = i - 1
                             /\ s[i].jump => s[i].target >= i
  <2> SUFFICES ASSUME NEW i \in 1 .. Len(b)
               PROVE  /\ s[i] \in Words /\ s[i].label = i - 1
                      /\ s[i].jump => s[i].target >= i
    OBVIOUS
  <2>1. CASE i <= x
    <3>1. i \in DOMAIN a /\ s[i] = a[i]
      BY <2>1, <1>1, <1>2
    <3> QED BY <3>1, <1>2 DEF Forward
  <2>2. CASE ~(i <= x)
    <3>1. i \in DOMAIN b /\ s[i] = b[i]
      BY <2>2, <1>1, <1>2
    <3> QED BY <3>1, <1>2 DEF Forward
  <2> QED BY <2>1, <2>2
<1>4. DOMAIN s = 1 .. Len(b) /\ s \in Seq(Words)
  <2>1. s \in [1 .. Len(b) -> Words]
    BY <1>1, <1>3
  <2> QED BY <2>1, <1>2
<1> QED BY <1>3, <1>4 DEF Forward

-----------------------------------------------------------------------------
(* Seeds                                                                    *)

SeedTypes == data_seeds \in Seq(0 .. MaxSeeds - 1) /\ Len(data_seeds) <= MaxSeeds

\* A seed that is added is there, none is lost and none is there twice.
LEMMA AddDataKeeps ==
  ASSUME SeedTypes, SeedsDistinct, AddData
  PROVE  /\ SeedTypes' /\ SeedsDistinct'
         /\ \E new \in 0 .. MaxSeeds - 1 : new = NewSeed /\ SeedThere(new)'
         /\ \A seed : SeedThere(seed) => SeedThere(seed)'
<1>0. Len(data_seeds) \in Nat
  BY DEF SeedTypes
<1> PICK n \in Nat : n = Len(data_seeds)
  BY <1>0
<1>1. /\ n = Len(data_seeds) /\ n <= MaxSeeds /\ MaxSeeds \in Nat /\ MaxSeeds >= 1
      /\ DOMAIN data_seeds = 1 .. n /\ \A i \in 1 .. n : data_seeds[i] \in 0 .. MaxSeeds - 1
  BY MutatorAssumption DEF SeedTypes
<1>2. CASE n < MaxSeeds
  <2>1. NewSeed = n /\ n \in 0 .. MaxSeeds - 1
    BY <1>1, <1>2 DEF NewSeed
  <2>2. data_seeds' = Append(data_seeds, n)
    <3>1. Len(data_seeds) # MaxSeeds
      BY <1>1, <1>2
    <3> QED BY <3>1, <2>1 DEF AddData
  <2>3. /\ data_seeds' \in Seq(0 .. MaxSeeds - 1) /\ Len(data_seeds') = n + 1
        /\ DOMAIN data_seeds' = 1 .. n + 1
        /\ data_seeds'[n + 1] = n /\ \A i \in 1 .. n : data_seeds'[i] = data_seeds[i]
    BY <1>1, <2>1, <2>2 DEF SeedTypes
  <2>4. \A i \in 1 .. n : data_seeds[i] < n
    BY <1>1, <1>2 DEF SeedsDistinct
  <2>5. SeedTypes'
    BY <1>1, <1>2, <2>3 DEF SeedTypes
  <2>6. SeedsDistinct'
    <3>1. ASSUME NEW i \in 1 .. n + 1, NEW j \in 1 .. n + 1, data_seeds'[i] = data_seeds'[j]
          PROVE  i = j
      <4>1. CASE i \in 1 .. n /\ j \in 1 .. n
        BY <4>1, <3>1, <2>3, <1>1 DEF SeedsDistinct
      <4>2. CASE i = n + 1 /\ j \in 1 .. n
        <5>1. data_seeds'[i] = n /\ data_seeds'[j] < n
          BY <4>2, <2>3, <2>4
        <5> QED BY <5>1, <3>1, <1>1
      <4>3. CASE j = n + 1 /\ i \in 1 .. n
        <5>1. data_seeds'[j] = n /\ data_seeds'[i] < n
          BY <4>3, <2>3, <2>4
        <5> QED BY <5>1, <3>1, <1>1
      <4> QED BY <4>1, <4>2, <4>3, <1>1
    <3>2. ASSUME NEW i \in 1 .. n + 1 PROVE data_seeds'[i] < n + 1
      <4>1. CASE i = n + 1
        BY <4>1, <2>3, <1>1
      <4>2. CASE i \in 1 .. n
        <5>1. data_seeds'[i] = data_seeds[i] /\ data_seeds[i] < n /\ data_seeds[i] \in 0 .. MaxSeeds - 1
          BY <4>2, <2>3, <2>4, <1>1
        <5> QED BY <5>1, <1>1
      <4> QED BY <4>1, <4>2, <1>1
    <3> QED BY <3>1, <3>2, <2>3 DEF SeedsDistinct
  <2>7. ASSUME NEW new, new = n PROVE SeedThere(new)'
    BY <2>3, <2>7, <1>1 DEF SeedThere
  <2>8. ASSUME NEW seed, SeedThere(seed) PROVE SeedThere(seed)'
    BY <2>3, <2>8, <1>1 DEF SeedThere
  <2> QED BY <2>1, <2>5, <2>6, <2>7, <2>8
<1>3. CASE n = MaxSeeds
  <2>1. NewSeed = data_seeds[1] /\ data_seeds[1] \in 0 .. MaxSeeds - 1
    BY <1>1, <1>3 DEF NewSeed, SeedTypes
  <2>2. data_seeds' = Append(Tail(data_seeds), data_seeds[1])
    BY <1>3, <2>1 DEF AddData
  <2>3. /\ Tail(data_seeds) \in Seq(0 .. MaxSeeds - 1) /\ Len(Tail(data_seeds)) = n - 1
        /\ \A i \in 1 .. n - 1 : Tail(data_seeds)[i] = data_seeds[i + 1]
    BY <1>1, <1>3 DEF SeedTypes
  <2>4. /\ data_seeds' \in Seq(0 .. MaxSeeds - 1) /\ Len(data_seeds') = n
        /\ DOMAIN data_seeds' = 1 .. n
        /\ data_seeds'[n] = data_seeds[1] /\ \A i \in 1 .. n - 1 : data_seeds'[i] = data_seeds[i + 1]
    BY <1>1, <2>1, <2>2, <2>3
  <2>5. SeedTypes'
    BY <1>1, <1>3, <2>4 DEF SeedTypes
  <2>6. SeedsDistinct'
    <3>1. ASSUME NEW i \in 1 .. n, NEW j \in 1 .. n, data_seeds'[i] = data_seeds'[j]
          PROVE  i = j
      <4>1. CASE i # n /\ j # n
        <5>0. i \in 1 .. n - 1 /\ j \in 1 .. n - 1
          BY <4>1, <1>1
        <5>1. data_seeds[i + 1] = data_seeds[j + 1] /\ i + 1 \in 1 .. n /\ j + 1 \in 1 .. n
          BY <5>0, <3>1, <2>4, <1>1
        <5>2. i + 1 = j + 1
          BY <5>1, <1>1 DEF SeedsDistinct
        <5> QED BY <5>2, <1>1
      <4>2. CASE i = n /\ j # n
        <5>1. data_seeds[1] = data_seeds[j + 1] /\ 1 \in 1 .. n /\ j + 1 \in 1 .. n
          BY <4>2, <3>1, <2>4, <1>1
        <5>2. 1 = j + 1
          BY <5>1, <1>1 DEF SeedsDistinct
        <5> QED BY <5>2, <1>1
      <4>3. CASE j = n /\ i # n
        <5>1. data_seeds[1] = data_seeds[i + 1] /\ 1 \in 1 .. n /\ i + 1 \in 1 .. n
          BY <4>3, <3>1, <2>4, <1>1
        <5>2. 1 = i + 1
          BY <5>1, <1>1 DEF SeedsDistinct
        <5> QED BY <5>2, <1>1
      <4> QED BY <4>1, <4>2, <4>3
    <3> QED BY <3>1, <2>4, <1>1, <1>3 DEF SeedsDistinct
  <2>7. ASSUME NEW new, new = data_seeds[1] PROVE SeedThere(new)'
    <3>1. n \in 1 .. n
      BY <1>1, <1>3
    <3> QED BY <3>1, <2>4, <2>7 DEF SeedThere
  <2>8. ASSUME NEW seed, SeedThere(seed) PROVE SeedThere(seed)'
    <3>1. PICK i \in 1 .. n : data_seeds[i] = seed
      BY <2>8, <1>1 DEF SeedThere
    <3>2. CASE i = 1
      <4>1. n \in 1 .. n
        BY <1>1, <1>3
      <4>2. data_seeds'[n] = seed
        BY <3>1, <3>2, <2>4, <4>1
      <4> QED BY <4>1, <4>2, <2>4 DEF SeedThere
    <3>3. CASE i # 1
      <4>1. i - 1 \in 1 .. n - 1 /\ (i - 1) + 1 = i
        BY <3>3, <1>1
      <4>2. data_seeds'[i - 1] = seed /\ i - 1 \in 1 .. n
        BY <4>1, <2>4, <3>1, <1>1
      <4> QED BY <4>2, <2>4 DEF SeedThere
    <3> QED BY <3>2, <3>3
  <2> QED BY <2>1, <2>5, <2>6, <2>7, <2>8
<1> QED BY <1>1, <1>2, <1>3

LEMMA FunctionIsSeq ==
  ASSUME NEW S, NEW m \in Nat, NEW f \in [1 .. m -> S]
  PROVE  f \in Seq(S) /\ Len(f) = m
OBVIOUS

\* A seed that is used moves to the end: the seeds stay the same.
LEMMA UseSeedKeeps ==
  ASSUME SeedTypes, SeedsDistinct, NEW used, UseSeed(used)
  PROVE  /\ SeedTypes' /\ SeedsDistinct'
         /\ SeedThere(used)
         /\ \A seed : SeedThere(seed) => SeedThere(seed)'
<1>0. Len(data_seeds) \in Nat
  BY DEF SeedTypes
<1> PICK n \in Nat : n = Len(data_seeds)
  BY <1>0
<1>1. /\ n = Len(data_seeds) /\ n <= MaxSeeds /\ MaxSeeds \in Nat
      /\ DOMAIN data_seeds = 1 .. n /\ \A i \in 1 .. n : data_seeds[i] \in 0 .. MaxSeeds - 1
  BY MutatorAssumption DEF SeedTypes
<1>2. PICK k \in 1 .. n :
        /\ data_seeds[k] = used
        /\ data_seeds' = [i \in 1 .. n |-> IF i < k THEN data_seeds[i]
                                          ELSE IF i < n THEN data_seeds[i + 1] ELSE used]
  BY <1>1 DEF UseSeed
<1> DEFINE at(i) == IF i < k THEN i ELSE IF i < n THEN i + 1 ELSE k
<1>3. /\ \A i \in 1 .. n : at(i) \in 1 .. n
      /\ \A i, j \in 1 .. n : at(i) = at(j) => i = j
  BY <1>2
<1>4. \A i \in 1 .. n : data_seeds'[i] = data_seeds[at(i)]
  <2> SUFFICES ASSUME NEW i \in 1 .. n PROVE data_seeds'[i] = data_seeds[at(i)]
    OBVIOUS
  <2>1. CASE i < k
    BY <2>1, <1>2
  <2>2. CASE ~(i < k) /\ i < n
    BY <2>2, <1>2
  <2>3. CASE ~(i < k) /\ ~(i < n)
    BY <2>3, <1>2
  <2> QED BY <2>1, <2>2, <2>3
<1>5. \A i \in 1 .. n : \E j \in 1 .. n : at(j) = i
  <2> SUFFICES ASSUME NEW i \in 1 .. n PROVE \E j \in 1 .. n : at(j) = i
    OBVIOUS
  <2>1. CASE i < k
    <3>1. at(i) = i
      BY <2>1
    <3> QED BY <3>1
  <2>2. CASE i = k
    <3>1. at(n) = i /\ n \in 1 .. n
      BY <2>2, <1>2
    <3> QED BY <3>1
  <2>3. CASE i > k
    <3>1. at(i - 1) = i /\ i - 1 \in 1 .. n
      BY <2>3, <1>2
    <3> QED BY <3>1
  <2> QED BY <2>1, <2>2, <2>3, <1>2
<1> HIDE DEF at
<1>6. data_seeds' \in Seq(0 .. MaxSeeds - 1) /\ Len(data_seeds') = n /\ DOMAIN data_seeds' = 1 .. n
  <2>1. DOMAIN data_seeds' = 1 .. n /\ data_seeds' = [i \in 1 .. n |-> data_seeds'[i]]
    BY <1>2
  <2>2. \A i \in 1 .. n : data_seeds'[i] \in 0 .. MaxSeeds - 1
    BY <1>1, <1>3, <1>4
  <2>3. data_seeds' \in [1 .. n -> 0 .. MaxSeeds - 1]
    BY <2>1, <2>2
  <2>4. data_seeds' \in Seq(0 .. MaxSeeds - 1) /\ Len(data_seeds') = n
    BY <2>3, FunctionIsSeq
  <2> QED BY <2>1, <2>4
<1>7. SeedTypes'
  BY <1>1, <1>6 DEF SeedTypes
<1>8. SeedsDistinct'
  <2>1. ASSUME NEW i \in 1 .. n, NEW j \in 1 .. n, data_seeds'[i] = data_seeds'[j]
        PROVE  i = j
    <3>1. at(i) \in 1 .. n /\ at(j) \in 1 .. n /\ data_seeds[at(i)] = data_seeds[at(j)]
      BY <2>1, <1>3, <1>4
    <3>2. at(i) = at(j)
      BY <3>1, <1>1 DEF SeedsDistinct
    <3> QED BY <3>2, <1>3
  <2>2. ASSUME n < MaxSeeds, NEW i \in 1 .. n PROVE data_seeds'[i] < n
    BY <2>2, <1>1, <1>3, <1>4 DEF SeedsDistinct
  <2> QED BY <2>1, <2>2, <1>6 DEF SeedsDistinct
<1>9. SeedThere(used)
  BY <1>1, <1>2 DEF SeedThere
<1>10. ASSUME NEW seed, SeedThere(seed) PROVE SeedThere(seed)'
  <2>1. PICK i \in 1 .. n : data_seeds[i] = seed
    BY <1>10, <1>1 DEF SeedThere
  <2>2. PICK j \in 1 .. n : at(j) = i
    BY <1>5
  <2> QED BY <2>1, <2>2, <1>4, <1>6 DEF SeedThere
<1> QED BY <1>7, <1>8, <1>9, <1>10

-----------------------------------------------------------------------------
(* The invariant                                                            *)

\* what a test that is built on a draft looks like
LEMMA TestIsForward ==
  ASSUME NEW w, Draft(w), NEW seed \in -1 .. MaxSeeds - 1, Test(w, seed)
  PROVE  /\ Forward(input'.words) /\ InBounds(input'.words)
         /\ input'.seed = seed
<1>1. PICK words \in Completed(w) : input' = [words |-> words, seed |-> seed]
  BY DEF Test
<1>2. Forward(words) /\ InBounds(words)
  BY CompletedForward
<1> QED BY <1>1, <1>2

TestOK(si) == /\ Forward(si.words) /\ InBounds(si.words)
              /\ si.seed \in -1 .. MaxSeeds - 1

\* the invariant with one condition for every test
TestsIInv ==
  /\ phase \in Phases /\ SeedTypes /\ SeedsDistinct
  /\ \A si \in corpus : TestOK(si) /\ SeedThere(si.seed)
  /\ TestOK(input)
  /\ input # NoInput => SeedThere(input.seed)

LEMMA InvariantForms == MutatorIInv <=> TestsIInv
<1>1. ASSUME MutatorIInv, NEW si \in Tests PROVE TestOK(si)
  <2>1. si.words \in Seq(Words) /\ si.seed \in -1 .. MaxSeeds - 1
    BY <1>1 DEF MutatorIInv, MutatorTypeOK
  <2>2. \A i \in DOMAIN si.words : /\ si.words[i].jump => si.words[i].target >= i
                                   /\ si.words[i].target <= Len(si.words)
                                   /\ si.words[i].label = i - 1
    BY <1>1 DEF MutatorIInv, NoLoop, Compilable
  <2> QED BY <2>1, <2>2 DEF TestOK, Forward, InBounds
<1>2. ASSUME TestsIInv, NEW si \in Tests PROVE TestOK(si)
  BY <1>2 DEF TestsIInv, Tests
<1>3. ASSUME \A si \in Tests : TestOK(si)
      PROVE  /\ NoLoop /\ Compilable
             /\ \A si \in Tests : si.words \in Seq(Words) /\ si.seed \in -1 .. MaxSeeds - 1
  BY <1>3 DEF TestOK, Forward, InBounds, NoLoop, Compilable
<1>4. MutatorIInv => TestsIInv
  BY <1>1 DEF MutatorIInv, MutatorTypeOK, TestsIInv, SeedTypes, Tests
<1>5. TestsIInv => MutatorIInv
  BY <1>2, <1>3 DEF MutatorIInv, MutatorTypeOK, TestsIInv, SeedTypes
<1> QED BY <1>4, <1>5

LEMMA InitOK == Init => TestsIInv
<1> SUFFICES ASSUME Init PROVE TestsIInv
  OBVIOUS
<1>1. TestOK(NoInput)
  BY MutatorAssumption DEF TestOK, NoInput, Forward, InBounds
<1>2. SeedTypes /\ SeedsDistinct
  BY MutatorAssumption DEF Init, SeedTypes, SeedsDistinct
<1> QED BY <1>1, <1>2 DEF Init, TestsIInv, Phases

LEMMA StepOK == TestsIInv /\ [Next]_vars => TestsIInv'
<1> SUFFICES ASSUME TestsIInv, [Next]_vars PROVE TestsIInv'
  OBVIOUS
<1> USE DEF TestsIInv
<1>1. CASE Generate
  <2>1. PICK w \in Generated : Test(w, NewSeed)
    BY <1>1 DEF Generate
  <2>2. SeedTypes' /\ SeedsDistinct' /\ \A seed : SeedThere(seed) => SeedThere(seed)'
    BY <1>1, AddDataKeeps DEF Generate
  <2>3. PICK new \in 0 .. MaxSeeds - 1 : new = NewSeed /\ SeedThere(new)'
    BY <1>1, AddDataKeeps DEF Generate
  <2>4. Test(w, new) /\ new \in -1 .. MaxSeeds - 1
    BY <2>1, <2>3, MutatorAssumption
  <2>5. Forward(input'.words) /\ InBounds(input'.words) /\ input'.seed = new
    BY <2>4, GeneratedDraft, TestIsForward
  <2>6. TestOK(input)'
    BY <2>4, <2>5 DEF TestOK, Forward, InBounds
  <2>7. SeedThere(input.seed)'
    BY <2>3, <2>5 DEF SeedThere
  <2>8. \A si \in corpus' : TestOK(si)' /\ SeedThere(si.seed)'
    BY <1>1, <2>2 DEF Generate, TestOK
  <2> QED BY <1>1, <2>2, <2>6, <2>7, <2>8 DEF Generate
<1>2. ASSUME NEW si \in corpus, NEW s, Forward(s), NEW w \in MutateWords(s), Test(w, si.seed),
             UseSeed(si.seed), UNCHANGED <<phase, corpus>>
      PROVE  TestsIInv'
  <2>1. SeedTypes' /\ SeedsDistinct' /\ \A seed : SeedThere(seed) => SeedThere(seed)'
    BY <1>2, UseSeedKeeps
  <2>2. Draft(w) /\ si.seed \in -1 .. MaxSeeds - 1
    BY <1>2, MutatedDraft DEF TestOK
  <2>3. Forward(input'.words) /\ InBounds(input'.words) /\ input'.seed = si.seed
    BY <1>2, <2>2, TestIsForward
  <2>4. TestOK(input)'
    BY <2>2, <2>3 DEF TestOK, Forward, InBounds
  <2>5. SeedThere(input.seed)'
    BY <2>1, <2>3 DEF SeedThere
  <2>6. \A x \in corpus' : TestOK(x)' /\ SeedThere(x.seed)'
    BY <1>2, <2>1 DEF TestOK
  <2> QED BY <1>2, <2>1, <2>4, <2>5, <2>6
<1>3. CASE Mutate
  <2>1. PICK si \in corpus : (\E w \in MutateWords(si.words) : Test(w, si.seed)) /\ UseSeed(si.seed)
    BY <1>3 DEF Mutate
  <2>2. Forward(si.words)
    BY <2>1 DEF TestOK
  <2> QED BY <1>2, <1>3, <2>1, <2>2 DEF Mutate
<1>4. CASE Merge
  <2>1. PICK si1 \in corpus, si2 \in corpus :
          /\ \E s \in Merged(si1.words, si2.words) : \E w \in MutateWords(s) : Test(w, si1.seed)
          /\ UseSeed(si1.seed)
    BY <1>4 DEF Merge
  <2>2. Forward(si1.words) /\ Forward(si2.words)
    BY <2>1 DEF TestOK
  <2>3. PICK s \in Merged(si1.words, si2.words) : \E w \in MutateWords(s) : Test(w, si1.seed)
    BY <2>1
  <2>4. Forward(s)
    BY <2>2, <2>3, MergedForward
  <2> QED BY <1>2, <1>4, <2>1, <2>3, <2>4 DEF Merge
<1>5. CASE Found
  <2>1. TestOK(NoInput)
    BY MutatorAssumption DEF TestOK, NoInput, Forward, InBounds
  <2>2. /\ corpus' = corpus \cup {input} /\ phase' \in Phases
        /\ input' = NoInput /\ data_seeds' = data_seeds /\ input # NoInput
    BY <1>5 DEF Found, Phases
  <2>3. \A si \in corpus' : TestOK(si)' /\ SeedThere(si.seed)'
    BY <2>2 DEF TestOK, SeedThere
  <2>4. TestOK(input)'
    BY <2>1, <2>2 DEF TestOK
  <2>5. SeedTypes' /\ SeedsDistinct'
    BY <2>2 DEF SeedTypes, SeedsDistinct
  <2> QED BY <2>2, <2>3, <2>4, <2>5
<1>6. CASE Dropped
  <2>1. TestOK(NoInput)
    BY MutatorAssumption DEF TestOK, NoInput, Forward, InBounds
  <2>2. SeedTypes' /\ SeedsDistinct' /\ \A seed : SeedThere(seed) => SeedThere(seed)'
    BY <1>6 DEF Dropped, SeedTypes, SeedsDistinct, SeedThere
  <2> QED BY <1>6, <2>1, <2>2 DEF Dropped, TestOK
<1>7. CASE UpdateCorpus
  <2>1. SeedTypes' /\ SeedsDistinct' /\ \A seed : SeedThere(seed) => SeedThere(seed)'
    BY <1>7, AddDataKeeps DEF UpdateCorpus
  <2> QED BY <1>7, <2>1 DEF UpdateCorpus, TestOK
<1>8. CASE UNCHANGED vars
  BY <1>8 DEF vars, SeedTypes, SeedsDistinct, SeedThere, TestOK
<1> QED BY <1>1, <1>3, <1>4, <1>5, <1>6, <1>7, <1>8 DEF Next

LEMMA TestsInvariant == Spec => []TestsIInv
<1>1. Init => TestsIInv
  BY InitOK
<1>2. TestsIInv /\ [Next]_vars => TestsIInv'
  BY StepOK
<1> QED BY <1>1, <1>2, PTL DEF Spec

-----------------------------------------------------------------------------
(* Theorems                                                                 *)

\* Tests, the corpus and the list of seeds keep their types; there are never
\* more than max_data_seeds seeds (rvMutator).
THEOREM MutatorTypeCorrect == Spec => []MutatorTypeOK
<1>1. TestsIInv => MutatorTypeOK
  BY InvariantForms DEF MutatorIInv
<1> QED BY <1>1, TestsInvariant, PTL

\* No test of any length loops, after any number of mutations and merges of
\* any tests (inst_generator.py, reset_labels, mutate_words, get).
THEOREM TestsEnd == Spec => []NoLoop
<1>1. TestsIInv => NoLoop
  BY InvariantForms DEF MutatorIInv
<1> QED BY <1>1, TestsInvariant, PTL

\* Every label a test refers to is defined in it (get_insts, repop_label).
THEOREM TestsCompile == Spec => []Compilable
<1>1. TestsIInv => Compilable
  BY InvariantForms DEF MutatorIInv
<1> QED BY <1>1, TestsInvariant, PTL

\* Every test the mutator gives ends and compiles.
THEOREM TestsWellFormed == Spec => []WellFormed
<1>1. NoLoop /\ Compilable => WellFormed
  BY DEF WellFormed
<1> QED BY <1>1, TestsEnd, TestsCompile, PTL

\* The assertion of update_data_seeds holds for every test of the corpus.
THEOREM SeedsStayKnown == Spec => []SeedsKnown
<1>1. TestsIInv => SeedsKnown
  <2> SUFFICES ASSUME TestsIInv, NEW si \in corpus
               PROVE  Cardinality({i \in DOMAIN data_seeds : data_seeds[i] = si.seed}) = 1
    BY DEF SeedsKnown
  <2>1. PICK k \in DOMAIN data_seeds : data_seeds[k] = si.seed
    BY DEF TestsIInv, SeedThere
  <2>2. {i \in DOMAIN data_seeds : data_seeds[i] = si.seed} = {k}
    BY <2>1 DEF TestsIInv, SeedsDistinct
  <2>3. Cardinality({k}) = 1
    BY FS_Singleton
  <2> QED BY <2>2, <2>3
<1> QED BY <1>1, TestsInvariant, PTL

-----------------------------------------------------------------------------
(* The loop: where a call of run_isa_test is                                *)

Waiting == {"compiling", "converting", "simulating"}
Steps   == Waiting \cup {"compile", "compiled", "ready", "armed", "returned", "timed_out", "in_time"}
Children == [name : {"none", "cc", "elf2hex", "spike"}, run : Nat, up : BOOLEAN]

-----------------------------------------------------------------------------
(* The calls of run_isa_test                                                *)

CallTypes ==
  /\ main \in Steps /\ run \in Nat \ {0}
  /\ child \in Children /\ code \in {-9, 0, 1}
  /\ list \in [Runs -> Children]
  /\ result \in [Runs -> {"none", "NORMAL", "ISA_TIMEOUT", "ISA_ASSERT"}]
  /\ killed \subseteq Nat

\* a child that runs is the one the main thread waits for, and a timer's
\* thread has found this one or none
ChildWaitedFor ==
  /\ child.up => /\ child.run = run /\ main \in Waiting
                 /\ child.name = "spike" <=> main = "simulating"
  /\ \A r \in Runs : list[r] # Sim!NoChild => list[r] = child /\ child.up

\* who was killed sees it when the call returns
KillSeen ==
  /\ \A r \in killed : r <= run
  /\ run \in killed => /\ main \in {"simulating", "returned", "timed_out", "in_time"}
                       /\ ~child.up /\ code = -9

Results == \A r \in Runs : /\ r >= run => result[r] = "none"
                           /\ result[r] = "NORMAL" => r \notin killed

CallIInv == CallTypes /\ ChildWaitedFor /\ KillSeen /\ Results

-----------------------------------------------------------------------------
(* The transitions                                                          *)

Returned == loop \in {"log", "rtl", "keep"} => run - 1 \in Runs /\ result[run - 1] = "NORMAL"

\* the transitions of the test at hand are not those of a test that was kept
NewTransitions ==
  loop \in {"rtl", "again", "keep"} => /\ trns # {} /\ trns \subseteq comb_t
                                       /\ \A k \in kept : k.trns \cap trns = {}

KeptTests ==
  /\ \A k \in kept : /\ k.trns # {} /\ k.trns \subseteq comb_t
                     /\ k.call \in Runs /\ result[k.call] = "NORMAL"
  /\ \A k, l \in kept : k.call # l.call => k.trns \cap l.trns = {}

LoopIInv == CallIInv /\ Returned /\ NewTransitions /\ KeptTests

-----------------------------------------------------------------------------
(* Steps of a call keep its invariant                                       *)

LEMMA RunIsNat == Runs \subseteq Nat \ {0}
BY FuzzAssumption

\* a result is set once, by the call that returns
ResultsKept == \/ run' = run /\ result' = result
               \/ /\ run \in Runs /\ run' = run + 1
                  /\ \A r \in Runs : r # run => result'[r] = result[r]

LEMMA SpawnKeeps ==
  ASSUME CallIInv, NEW name, NEW to, ~child.up,
         \/ name = "cc" /\ to = "compiling"
         \/ name = "elf2hex" /\ to = "converting"
         \/ name = "spike" /\ to = "simulating",
         main \in {"compile", "compiled", "armed"}, main' = to, Sim!Spawn(name),
         UNCHANGED <<run, code, list, result, killed>>
  PROVE  CallIInv'
<1> USE RunIsNat DEF CallIInv, CallTypes, Children, Steps, Waiting
<1>1. child' = [name |-> name, run |-> run, up |-> TRUE]
  BY DEF Sim!Spawn
<1>2. CallTypes'
  BY <1>1
<1>3. ChildWaitedFor'
  <2>1. \A r \in Runs : list[r] = Sim!NoChild
    BY DEF ChildWaitedFor
  <2> QED BY <1>1, <2>1 DEF ChildWaitedFor, Sim!NoChild
<1>4. KillSeen' /\ Results'
  BY DEF KillSeen, Results
<1> QED BY <1>2, <1>3, <1>4

\* the main thread goes on without a child
LEMMA QuietKeeps ==
  ASSUME CallIInv, ~child.up, run \notin killed, main' \in Steps,
         UNCHANGED <<run, child, code, list, result, killed>>
  PROVE  CallIInv'
BY DEF CallIInv, CallTypes, ChildWaitedFor, KillSeen, Results, Sim!NoChild

LEMMA MainKeeps ==
  ASSUME CallIInv, run \in Runs, Sim!Main
  PROVE  /\ CallIInv' /\ ResultsKept
         /\ run' = run + 1 => result'[run] # "none"
<1> USE RunIsNat DEF Steps, Waiting
<1>1. ASSUME main \notin Waiting PROVE ~child.up
  BY <1>1 DEF CallIInv, ChildWaitedFor
<1>2. ASSUME main \notin {"simulating", "returned", "timed_out", "in_time"} PROVE run \notin killed
  BY <1>2 DEF CallIInv, KillSeen
<1>3. ASSUME UNCHANGED <<run, result>> PROVE ResultsKept /\ run' # run + 1
  BY <1>3 DEF ResultsKept
<1>4. CASE Sim!Prepare
  <2>1. UNCHANGED <<run, code, list, result, killed>> /\ main \in {"compile", "compiled"}
    BY <1>4 DEF Sim!Prepare, Sim!Goto
  <2>2. ~child.up /\ run \notin killed
    BY <1>1, <1>2, <2>1
  <2>3. CASE Sim!Spawn("cc") /\ main' = "compiling"
    BY <2>1, <2>2, <2>3, SpawnKeeps, <1>3
  <2>4. CASE Sim!Spawn("elf2hex") /\ main' = "converting"
    BY <2>1, <2>2, <2>4, SpawnKeeps, <1>3
  <2>5. CASE main' = "ready" /\ UNCHANGED child
    BY <2>1, <2>2, <2>5, QuietKeeps, <1>3
  <2> QED BY <1>4, <2>3, <2>4, <2>5 DEF Sim!Prepare, Sim!Goto
<1>5. CASE Sim!Prepared
  <2>1. /\ UNCHANGED <<run, child, code, list, result, killed>> /\ ~child.up
        /\ main \in {"compiling", "converting"} /\ main' \in Steps
    BY <1>5 DEF Sim!Prepared, Sim!Goto
  <2> QED BY <1>2, <1>3, <2>1, QuietKeeps
<1>6. CASE Sim!StartTimer
  <2>1. /\ UNCHANGED <<run, child, code, list, result, killed>>
        /\ main = "ready" /\ main' = "armed"
    BY <1>6 DEF Sim!StartTimer, Sim!Goto
  <2> QED BY <1>1, <1>2, <1>3, <2>1, QuietKeeps
<1>7. CASE Sim!CallSpike
  <2>1. /\ UNCHANGED <<run, code, list, result, killed>> /\ Sim!Spawn("spike")
        /\ main = "armed" /\ main' = "simulating"
    BY <1>7 DEF Sim!CallSpike, Sim!Goto
  <2> QED BY <1>1, <1>3, <2>1, SpawnKeeps
<1>8. CASE Sim!Cancel \/ Sim!ReadStop
  <2>1. /\ UNCHANGED <<run, child, code, list, result, killed>> /\ ~child.up
        /\ main' \in {"returned", "timed_out", "in_time"}
    BY <1>1, <1>8 DEF Sim!Cancel, Sim!ReadStop, Sim!Goto
  <2>2. CallIInv'
    BY <2>1 DEF CallIInv, CallTypes, ChildWaitedFor, KillSeen, Results, Sim!NoChild
  <2> QED BY <1>3, <2>1, <2>2
<1>9. CASE Sim!Return
  <2>1. /\ main \in {"timed_out", "in_time"} /\ main' = "compile" /\ run' = run + 1
        /\ UNCHANGED <<child, code, list, killed>>
        /\ \E res \in {"NORMAL", "ISA_TIMEOUT", "ISA_ASSERT"} :
             /\ result' = [result EXCEPT ![run] = res]
             /\ res = "NORMAL" => code = 0
    BY <1>9 DEF Sim!Return
  <2>2. ~child.up
    BY <1>1, <2>1
  <2>3. PICK res \in {"NORMAL", "ISA_TIMEOUT", "ISA_ASSERT"} :
          /\ result' = [result EXCEPT ![run] = res]
          /\ res = "NORMAL" => code = 0
    BY <2>1
  <2>4. CallTypes'
    BY <2>1, <2>3 DEF CallIInv, CallTypes
  <2>5. ChildWaitedFor'
    BY <2>1, <2>2 DEF CallIInv, ChildWaitedFor, Sim!NoChild
  <2>6. \A r \in killed : r \in Nat /\ r <= run
    BY DEF CallIInv, CallTypes, KillSeen
  <2>7. KillSeen'
    <3>1. run' \notin killed'
      BY <2>1, <2>6
    <3>2. \A r \in killed' : r <= run'
      BY <2>1, <2>6
    <3> QED BY <3>1, <3>2 DEF KillSeen
  <2>8. res = "NORMAL" => run \notin killed
    BY <2>3 DEF CallIInv, KillSeen
  <2>9. \A r \in Runs : result'[r] = IF r = run THEN res ELSE result[r]
    BY <2>3 DEF CallIInv, CallTypes
  <2>10. Results'
    <3> SUFFICES ASSUME NEW r \in Runs
                 PROVE  /\ r >= run + 1 => result'[r] = "none"
                        /\ result'[r] = "NORMAL" => r \notin killed
      BY <2>1 DEF Results
    <3>1. CASE r = run
      BY <3>1, <2>8, <2>9
    <3>2. CASE r # run
      <4>1. r >= run + 1 => r >= run
        OBVIOUS
      <4> QED BY <3>2, <4>1, <2>9 DEF CallIInv, Results
    <3> QED BY <3>1, <3>2
  <2>11. ResultsKept /\ result'[run] # "none"
    BY <2>1, <2>9 DEF ResultsKept
  <2> QED BY <2>4, <2>5, <2>7, <2>10, <2>11 DEF CallIInv
<1> QED BY <1>4, <1>5, <1>6, <1>7, <1>8, <1>9 DEF Sim!Main

\* the child that ends is the one all lists name
LEMMA GoneKeeps ==
  ASSUME CallIInv, child.up, Sim!Gone, code' \in {-9, 0, 1}, UNCHANGED <<main, run, result>>,
         \/ killed' = killed
         \/ child.name = "spike" /\ killed' = killed \cup {child.run} /\ code' = -9
  PROVE  CallIInv'
<1> USE RunIsNat DEF CallIInv, CallTypes, Children
<1>1. /\ child.run = run /\ main \in Waiting
      /\ child.name = "spike" <=> main = "simulating"
      /\ run \notin killed
  BY DEF ChildWaitedFor, KillSeen
<1>2. child' = [child EXCEPT !.up = FALSE] /\ child' \in Children /\ ~child'.up
  BY DEF Sim!Gone
<1>3. \A r \in Runs : list'[r] = Sim!NoChild
  BY DEF Sim!Gone, ChildWaitedFor
<1>4. CallTypes'
  <2>1. list' = [r \in Runs |-> list'[r]]
    BY DEF Sim!Gone
  <2>2. Sim!NoChild \in Children
    BY DEF Sim!NoChild
  <2>3. list' \in [Runs -> Children]
    BY <1>3, <2>1, <2>2
  <2> QED BY <1>1, <1>2, <2>3
<1>5. ChildWaitedFor'
  BY <1>2, <1>3 DEF ChildWaitedFor
<1>6. KillSeen'
  BY <1>1, <1>2 DEF KillSeen
<1>7. Results'
  BY <1>1 DEF Results
<1> QED BY <1>4, <1>5, <1>6, <1>7

LEMMA BesideKeeps ==
  ASSUME CallIInv, Sim!ChildEnds \/ \E r \in Runs : Sim!Timers(r)
  PROVE  CallIInv' /\ UNCHANGED <<run, result>>
<1>1. CASE Sim!ChildEnds
  BY <1>1, GoneKeeps DEF Sim!ChildEnds
<1>2. ASSUME NEW r \in Runs, Sim!Fire(r) \/ Sim!SetStop(r)
      PROVE  CallIInv' /\ UNCHANGED <<run, result>>
  BY <1>2 DEF Sim!Fire, Sim!SetStop, CallIInv, CallTypes, ChildWaitedFor, KillSeen, Results,
              Sim!NoChild
<1>3. ASSUME NEW r \in Runs, Sim!ListChildren(r)
      PROVE  CallIInv' /\ UNCHANGED <<run, result>>
  <2>1. /\ list' = [list EXCEPT ![r] = IF child.up THEN child ELSE Sim!NoChild]
        /\ UNCHANGED <<main, run, child, code, result, killed>>
    BY <1>3 DEF Sim!ListChildren
  <2>2. Sim!NoChild \in Children
    BY DEF Sim!NoChild, Children
  <2>3. CallTypes'
    BY <2>1, <2>2 DEF CallIInv, CallTypes
  <2>4. ChildWaitedFor'
    BY <2>1 DEF CallIInv, CallTypes, ChildWaitedFor
  <2>5. KillSeen' /\ Results'
    BY <2>1 DEF CallIInv, KillSeen, Results
  <2> QED BY <2>1, <2>3, <2>4, <2>5 DEF CallIInv
<1>4. ASSUME NEW r \in Runs, Sim!KillChildren(r)
      PROVE  CallIInv' /\ UNCHANGED <<run, result>>
  <2>1. UNCHANGED <<main, run, result>>
    BY <1>4 DEF Sim!KillChildren
  <2>2. CASE list[r] # Sim!NoChild
    <3>1. child.up
      BY <2>2 DEF CallIInv, ChildWaitedFor
    <3>2. /\ Sim!Gone /\ code' = -9
          /\ killed' = IF child.name = "spike" THEN killed \cup {child.run} ELSE killed
      BY <1>4, <2>2 DEF Sim!KillChildren
    <3> QED BY <2>1, <3>1, <3>2, GoneKeeps
  <2>3. CASE list[r] = Sim!NoChild
    <3>1. UNCHANGED <<child, list, code, killed>>
      BY <1>4, <2>3 DEF Sim!KillChildren
    <3> QED BY <2>1, <3>1 DEF CallIInv, CallTypes, ChildWaitedFor, KillSeen, Results, Sim!NoChild
  <2> QED BY <2>2, <2>3
<1> QED BY <1>1, <1>2, <1>3, <1>4 DEF Sim!Timers

-----------------------------------------------------------------------------
(* The loop                                                                 *)

\* results that are there stay
LEMMA KeptTestsFrame ==
  ASSUME KeptTests, CallIInv, ResultsKept, UNCHANGED kept, comb_t \subseteq comb_t'
  PROVE  KeptTests'
<1>1. \A r \in Runs : result[r] = "NORMAL" => result'[r] = "NORMAL"
  BY RunIsNat DEF ResultsKept, CallIInv, CallTypes, Results
<1> QED BY <1>1 DEF KeptTests

\* an iteration that ends, or a step that does not look at the transitions
LEMMA LoopFrame ==
  ASSUME LoopIInv, CallIInv', ResultsKept, UNCHANGED <<trns, comb_t, kept>>,
         loop' \in {"log", "rtl", "keep"} => run' - 1 \in Runs /\ result'[run' - 1] = "NORMAL",
         loop' \in {"rtl", "again", "keep"} => loop \in {"rtl", "again", "keep"}
  PROVE  LoopIInv'
<1>1. KeptTests'
  BY KeptTestsFrame DEF LoopIInv
<1> QED BY <1>1 DEF LoopIInv, Returned, NewTransitions

LEMMA LoopInitOK == LoopInit => LoopIInv
<1> SUFFICES ASSUME LoopInit PROVE LoopIInv
  OBVIOUS
<1>1. CallTypes
  BY RunIsNat DEF LoopInit, Sim!Init, CallTypes, Steps, Children, Sim!NoChild
<1>2. ChildWaitedFor /\ KillSeen /\ Results
  BY DEF LoopInit, Sim!Init, ChildWaitedFor, KillSeen, Results, Sim!NoChild
<1>3. Returned /\ NewTransitions /\ KeptTests
  BY DEF LoopInit, Returned, NewTransitions, KeptTests
<1> QED BY <1>1, <1>2, <1>3 DEF LoopIInv, CallIInv

LEMMA LoopStepOK == LoopIInv /\ [LoopNext]_allVars => LoopIInv'
<1> SUFFICES ASSUME LoopIInv, [LoopNext]_allVars PROVE LoopIInv'
  OBVIOUS
<1>0. ASSUME UNCHANGED <<main, run, child, code, list, result, killed>>
      PROVE  CallIInv' /\ ResultsKept
  BY <1>0 DEF LoopIInv, CallIInv, CallTypes, ChildWaitedFor, KillSeen, Results, ResultsKept,
              Sim!NoChild
<1>1. CASE Get \/ Update
  <2>1. UNCHANGED <<isaVars, trns, comb_t, kept>> /\ loop' \in {"get", "isa"}
    BY <1>1 DEF Get, Update, Goto, loopVars
  <2> QED BY <2>1, <1>0, LoopFrame DEF isaVars
<1>2. CASE Simulate
  <2>1. /\ loop \in {"isa", "again"} /\ run \in Runs /\ Sim!Main
        /\ UNCHANGED <<trns, comb_t, kept>>
        /\ IF run' = run THEN loop' = loop
           ELSE IF result'[run] # "NORMAL" THEN loop' = "get"
           ELSE loop' = IF loop = "isa" THEN "log" ELSE "keep"
    BY <1>2 DEF Simulate, Continue
  <2>2. CallIInv' /\ ResultsKept
    BY <2>1, MainKeeps DEF LoopIInv
  <2>3. run \in Nat /\ (run' = run \/ run' = run + 1)
    BY <2>1, <2>2, RunIsNat DEF ResultsKept
  <2>4. CASE run' = run
    BY <2>1, <2>2, <2>4, LoopFrame
  <2>5. CASE run' = run + 1
    <3>1. run' - 1 = run /\ run' # run
      BY <2>3, <2>5
    <3> QED BY <2>1, <2>2, <3>1, LoopFrame
  <2> QED BY <2>3, <2>4, <2>5
<1>3. CASE CompileFails
  <2>1. /\ main = "compiling" /\ ~child.up /\ main' = "compile" /\ loop' = "get"
        /\ UNCHANGED <<run, child, code, list, result, killed, trns, comb_t, kept>>
    BY <1>3 DEF CompileFails, Continue
  <2>2. CallIInv' /\ ResultsKept
    <3>1. run \notin killed
      BY <2>1 DEF LoopIInv, CallIInv, KillSeen
    <3> QED BY <2>1, <3>1, QuietKeeps DEF LoopIInv, ResultsKept, Steps
  <2> QED BY <2>1, <2>2, LoopFrame
<1>4. CASE Extract
  <2>1. PICK seen \in SUBSET Transitions :
          /\ comb_t' = comb_t \cup seen /\ trns' = seen \ comb_t
          /\ trns' = {} => loop' = "get"
          /\ trns' # {} => loop' = "rtl"
    BY <1>4 DEF Extract, Continue
  <2>2. loop = "log" /\ UNCHANGED <<isaVars, kept>>
    BY <1>4 DEF Extract
  <2>3. CallIInv' /\ ResultsKept
    BY <2>2, <1>0 DEF isaVars
  <2>4. KeptTests'
    BY <2>1, <2>2, <2>3, KeptTestsFrame DEF LoopIInv
  <2>5. Returned'
    BY <2>1, <2>2 DEF LoopIInv, Returned, isaVars
  <2>6. NewTransitions'
    BY <2>1, <2>2 DEF LoopIInv, KeptTests, NewTransitions
  <2> QED BY <2>3, <2>4, <2>5, <2>6 DEF LoopIInv
<1>5. CASE RtlFails
  <2>1. loop' = "get" /\ UNCHANGED <<main, run, child, code, list, result, killed, trns, comb_t, kept>>
    BY <1>5 DEF RtlFails, Continue
  <2> QED BY <2>1, <1>0, LoopFrame
<1>6. CASE RtlReturns
  <2>1. loop = "rtl" /\ loop' \in {"keep", "again", "get"} /\ UNCHANGED <<isaVars, trns, comb_t, kept>>
    BY <1>6 DEF RtlReturns, Continue
  <2>2. CallIInv' /\ ResultsKept
    BY <2>1, <1>0 DEF isaVars
  <2>3. run' - 1 \in Runs /\ result'[run' - 1] = "NORMAL"
    BY <2>1 DEF LoopIInv, Returned, isaVars
  <2> QED BY <2>1, <2>2, <2>3, LoopFrame
<1>7. CASE Keep
  <2> DEFINE new == [call |-> run - 1, trns |-> trns]
  <2>1. /\ loop = "keep" /\ loop' = "get" /\ kept' = kept \cup {new}
        /\ UNCHANGED <<isaVars, trns, comb_t>>
    BY <1>7 DEF Keep, Goto
  <2>2. CallIInv'
    BY <2>1, <1>0 DEF isaVars
  <2>3. /\ new.call \in Runs /\ result[new.call] = "NORMAL"
        /\ new.trns # {} /\ new.trns \subseteq comb_t
        /\ \A k \in kept : k.trns \cap new.trns = {}
    BY <2>1 DEF LoopIInv, Returned, NewTransitions
  <2> HIDE DEF new
  <2>4. KeptTests'
    <3>1. \A k \in kept' : k \in kept \/ k = new
      BY <2>1
    <3>2. UNCHANGED <<comb_t, result>>
      BY <2>1 DEF isaVars
    <3>3. ASSUME NEW k \in kept'
          PROVE  /\ k.trns # {} /\ k.trns \subseteq comb_t'
                 /\ k.call \in Runs /\ result'[k.call] = "NORMAL"
      BY <2>3, <3>1, <3>2 DEF LoopIInv, KeptTests
    <3>4. ASSUME NEW k \in kept', NEW l \in kept', k.call # l.call
          PROVE  k.trns \cap l.trns = {}
      <4>1. CASE k \in kept /\ l \in kept
        BY <3>4, <4>1 DEF LoopIInv, KeptTests
      <4>2. CASE k = new /\ l \in kept
        BY <2>3, <4>2
      <4>3. CASE k \in kept /\ l = new
        BY <2>3, <4>3
      <4> QED BY <3>1, <3>4, <4>1, <4>2, <4>3
    <3> QED BY <3>3, <3>4 DEF KeptTests
  <2> QED BY <2>1, <2>2, <2>4 DEF LoopIInv, Returned, NewTransitions
<1>8. CASE Beside
  <2>1. CallIInv' /\ UNCHANGED <<run, result>> /\ UNCHANGED loopVars
    BY <1>8, BesideKeeps DEF Beside, LoopIInv
  <2>2. UNCHANGED <<loop, trns, comb_t, kept>>
    BY <2>1 DEF loopVars
  <2>3. ResultsKept
    BY <2>1 DEF ResultsKept
  <2>4. loop' \in {"log", "rtl", "keep"} => run' - 1 \in Runs /\ result'[run' - 1] = "NORMAL"
    BY <2>1, <2>2 DEF LoopIInv, Returned
  <2> QED BY <2>1, <2>2, <2>3, <2>4, LoopFrame
<1>9. CASE UNCHANGED allVars
  <2>1. UNCHANGED <<main, run, child, code, list, result, killed, loop, trns, comb_t, kept>>
    BY <1>9 DEF allVars, isaVars, loopVars
  <2>2. loop' \in {"log", "rtl", "keep"} => run' - 1 \in Runs /\ result'[run' - 1] = "NORMAL"
    BY <2>1 DEF LoopIInv, Returned
  <2> QED BY <2>1, <2>2, <1>0, LoopFrame
<1> QED BY <1>1, <1>2, <1>3, <1>4, <1>5, <1>6, <1>7, <1>8, <1>9 DEF LoopNext

LEMMA LoopInductive == LoopSpec => []LoopIInv
<1>1. LoopInit => LoopIInv
  BY LoopInitOK
<1>2. LoopIInv /\ [LoopNext]_allVars => LoopIInv'
  BY LoopStepOK
<1> QED BY <1>1, <1>2, PTL DEF LoopSpec

-----------------------------------------------------------------------------
(* Theorems of the loop                                                     *)

\* Every step of the loop is one of the mutator or leaves it alone: a test is
\* got when the one before it is found or dropped, and only Run calls it.
LEMMA LoopUsesMutator == LoopSpec => Spec
<1>1. LoopInit => Init
  BY DEF LoopInit
<1>2. [LoopNext]_allVars => [Next]_vars
  <2> SUFFICES ASSUME LoopNext PROVE Next \/ UNCHANGED vars
    BY DEF allVars
  <2> USE DEF Next
  <2>1. CASE Get \/ Update
    BY <2>1 DEF Get, Update
  <2>2. CASE Simulate \/ CompileFails
    BY <2>2 DEF Simulate, CompileFails, Continue
  <2>3. CASE Extract \/ RtlFails \/ RtlReturns
    BY <2>3 DEF Extract, RtlFails, RtlReturns, Continue
  <2>4. CASE Keep \/ Beside
    BY <2>4 DEF Keep, Beside
  <2> QED BY <2>1, <2>2, <2>3, <2>4 DEF LoopNext
<1> QED BY <1>1, <1>2, PTL DEF LoopSpec, Spec

\* Every test the loop runs ends and compiles, and its seed is known.
THEOREM LoopTestsWellFormed == LoopSpec => []WellFormed
BY LoopUsesMutator, TestsWellFormed, PTL

\* The assertion of update_data_seeds holds in the loop, whatever update_corpus
\* reads between two iterations.
THEOREM LoopSeedsKnown == LoopSpec => []SeedsKnown
BY LoopUsesMutator, SeedsStayKnown, PTL

\* A test is kept for what it did itself, whenever timers fire, for any number
\* of calls (run_isa_test, isa_timeout, extract_transitions, Run).
THEOREM KeptForWhatItDid == LoopSpec => []KeptRan
<1>1. LoopIInv => KeptRan
  BY DEF LoopIInv, CallIInv, Results, KeptTests, KeptRan
<1> QED BY <1>1, LoopInductive, PTL
=============================================================================
