------------------------------- MODULE Mutator -------------------------------
(***************************************************************************)
(* rvMutator of src/mutator.py with the words of src/word.py and the       *)
(* symbols that src/inst_generator.py gives them: a test is a list of      *)
(* words, generated, or mutated or merged from tests of the corpus, and    *)
(* the seed of its data. Of a word only its label and the label it refers  *)
(* to are kept. Prefix, main part and suffix have labels of their own and  *)
(* go through the same operations, the merge is for the main part alone:   *)
(* one part is modelled, the main one. One process; the files of the other *)
(* children come in through update_corpus.                                 *)
(***************************************************************************)
EXTENDS Integers, Sequences, FiniteSets

CONSTANTS
  NumWords,   \* num_words: words of a generated test
  MaxWords,   \* max_nWords: words a mutated test may have
  MaxSeeds,   \* max_data_seeds
  MaxCorpus,  \* bound: tests in the corpus
  NoGuide     \* no_guide: tests are only generated

ASSUME MutatorAssumption == /\ NumWords \in Nat /\ MaxWords \in Nat /\ MaxCorpus \in Nat
                            /\ MaxSeeds \in Nat \ {0} /\ NoGuide \in BOOLEAN

VARIABLES
  phase,       \* GENERATION, MUTATION or MERGE
  corpus,      \* the tests in the corpus
  data_seeds,  \* seeds of random_data, the one used last at the end
  input        \* the test that runs, or NoInput between two tests

vars == <<phase, corpus, data_seeds, input>>

Phases   == {"GENERATION", "MUTATION", "MERGE"}
NoLabel  == -1
Labels   == NoLabel .. IF NumWords < MaxWords THEN MaxWords ELSE NumWords  \* there are no others
NoInput  == [words |-> <<>>, seed |-> -1]

Init == /\ phase = "GENERATION"
        /\ corpus = {}
        /\ data_seeds = <<>>
        /\ input = NoInput

-----------------------------------------------------------------------------
(* Words: jump says whether the label is the target of a jump, a branch or  *)
(* a return; another word may load from a label or from data (NoLabel)      *)

NewWord(jump) == [label |-> NoLabel, jump |-> jump, target |-> NoLabel, populated |-> FALSE]

\* the labels a new word may refer to
Symbols(jump, label, max) == IF jump THEN label + 1 .. max ELSE {NoLabel} \cup (0 .. max)

\* the words that the map from old to new labels is made of
Mapped(w, old) == {j \in DOMAIN w : w[j].populated /\ w[j].label = old}

\* mutant of Targets: any label will do if the word referred to is gone
Targets_Anywhere(w, i) ==
  IF ~w[i].populated THEN Symbols(w[i].jump, i - 1, Len(w))
  ELSE IF w[i].target = NoLabel THEN {NoLabel}
  ELSE IF Mapped(w, w[i].target) = {} THEN 0 .. Len(w)
  ELSE {j - 1 : j \in {k \in Mapped(w, w[i].target) : \A l \in Mapped(w, w[i].target) : l <= k}}

\* what word i of w may refer to once the words are numbered again: a word of a
\* seed follows the word it referred to, and goes to any later label if that
\* one is gone; the word that comes last counts if two had the same label
Targets(w, i) ==
  IF ~w[i].populated THEN Symbols(w[i].jump, i - 1, Len(w))
  ELSE IF w[i].target = NoLabel THEN {NoLabel}
  ELSE IF Mapped(w, w[i].target) = {} THEN i .. Len(w)
  ELSE {j - 1 : j \in {k \in Mapped(w, w[i].target) : \A l \in Mapped(w, w[i].target) : l <= k}}

\* reset_labels and populate_word: the tests that may come of w
Completed(w) ==
  {[i \in DOMAIN w |-> [label |-> i - 1, jump |-> w[i].jump, target |-> t[i], populated |-> TRUE]] :
     t \in {t \in [DOMAIN w -> Labels] : \A i \in DOMAIN w : t[i] \in Targets(w, i)}}

Generated == {[i \in 1 .. NumWords |-> NewWord(j[i])] : j \in [1 .. NumWords -> BOOLEAN]}

\* What mutate_words may pick from n words, at most max of them, in order: words
\* of the seed and after each of these perhaps a new one.
Picks(n, max) ==
  {p \in UNION {[1 .. m -> [from : 1 .. n, new : BOOLEAN]] : m \in 0 .. max} :
     /\ \A i, j \in DOMAIN p : i < j => \/ p[i].from < p[j].from
                                        \/ p[i].from = p[j].from /\ ~p[i].new /\ p[j].new
     /\ \A j \in DOMAIN p : p[j].new => \E i \in DOMAIN p : p[i].from = p[j].from /\ ~p[i].new}

MutateWords(s) ==
  UNION {{[i \in DOMAIN p |-> IF p[i].new THEN NewWord(j[i]) ELSE s[p[i].from]] :
            j \in [DOMAIN p -> BOOLEAN]} : p \in Picks(Len(s), MaxWords)}

\* the first words of one test and the rest of another
Merged(a, b) ==
  {[i \in 1 .. Len(b) |-> IF i <= x THEN a[i] ELSE b[i]] : x \in {x \in 0 .. Len(a) : x <= Len(b)}}

-----------------------------------------------------------------------------
(* Data: seeds are used again, the one that was not used for longest first  *)

NewSeed == IF Len(data_seeds) = MaxSeeds THEN Head(data_seeds) ELSE Len(data_seeds)

\* mutant of AddData: the new seed is the number of seeds, also when one is taken out
AddData_Count == data_seeds' = IF Len(data_seeds) = MaxSeeds THEN Append(Tail(data_seeds), Len(data_seeds) - 1)
                               ELSE Append(data_seeds, Len(data_seeds))

AddData == data_seeds' = Append(IF Len(data_seeds) = MaxSeeds THEN Tail(data_seeds) ELSE data_seeds,
                                NewSeed)

\* update_data_seeds asserts that the seed is there once
UseSeed(seed) ==
  /\ Cardinality({i \in DOMAIN data_seeds : data_seeds[i] = seed}) = 1
  /\ \E k \in DOMAIN data_seeds :
       /\ data_seeds[k] = seed
       /\ data_seeds' = [i \in DOMAIN data_seeds |->
                           IF i < k THEN data_seeds[i]
                           ELSE IF i < Len(data_seeds) THEN data_seeds[i + 1] ELSE seed]

-----------------------------------------------------------------------------
(* The iterations                                                           *)

Test(w, seed) == \E words \in Completed(w) : input' = [words |-> words, seed |-> seed]

Generate == /\ phase = "GENERATION" /\ input = NoInput
            /\ \E w \in Generated : Test(w, NewSeed)
            /\ AddData /\ UNCHANGED <<phase, corpus>>

Mutate == /\ phase = "MUTATION" /\ input = NoInput
          /\ \E si \in corpus :
               /\ \E w \in MutateWords(si.words) : Test(w, si.seed)
               /\ UseSeed(si.seed)
          /\ UNCHANGED <<phase, corpus>>

Merge == /\ phase = "MERGE" /\ input = NoInput
         /\ \E si1, si2 \in corpus :
              /\ \E s \in Merged(si1.words, si2.words) : \E w \in MutateWords(s) : Test(w, si1.seed)
              /\ UseSeed(si1.seed)
         /\ UNCHANGED <<phase, corpus>>

\* an iteration with new transitions: the test is added, then the phase drawn
Found == /\ input # NoInput
         /\ input \in corpus \/ Cardinality(corpus) < MaxCorpus
         /\ corpus' = corpus \cup {input}
         /\ phase' \in IF NoGuide THEN {"GENERATION"} ELSE Phases
         /\ input' = NoInput
         /\ UNCHANGED data_seeds

\* an iteration that ends earlier
Dropped == input # NoInput /\ input' = NoInput /\ UNCHANGED <<phase, corpus, data_seeds>>

\* update_corpus reads a file: its data are added, the test is not, since
\* read_siminput returns three values and two are expected
UpdateCorpus == input = NoInput /\ AddData /\ UNCHANGED <<phase, corpus, input>>

Next == Generate \/ Mutate \/ Merge \/ Found \/ Dropped \/ UpdateCorpus

Spec == Init /\ [][Next]_vars

-----------------------------------------------------------------------------
(* Properties                                                               *)

Words == [label : Nat, jump : BOOLEAN, target : Nat \cup {NoLabel}, populated : {TRUE}]
Tests == corpus \cup {input}

\* The type of every variable; there are never more than max_data_seeds seeds,
\* each below that number (add_data).
MutatorTypeOK ==
  /\ phase \in Phases
  /\ data_seeds \in Seq(0 .. MaxSeeds - 1) /\ Len(data_seeds) <= MaxSeeds
  /\ \A si \in Tests : si.words \in Seq(Words) /\ si.seed \in -1 .. MaxSeeds - 1

\* A test moves forward and ends: every jump, branch and return goes to a later
\* word or to the end, also after words have been dropped, put in, cut off and
\* numbered again ("Guarantee forward progress and end (No loop)" of
\* inst_generator.py; reset_labels, repop_label, get).
NoLoop == \A si \in Tests : \A i \in DOMAIN si.words : si.words[i].jump => si.words[i].target >= i

\* A test compiles: each label it refers to is the label of one of its words
\* or the one after the last ("Compilable" of inst_generator.py; get_insts).
Compilable ==
  \A si \in Tests : \A i \in DOMAIN si.words :
    /\ si.words[i].target <= Len(si.words)
    /\ si.words[i].label = i - 1

\* Whatever was done to it, a test still ends and compiles: see both parts.
WellFormed == NoLoop /\ Compilable

\* The seed of every test in the corpus is known, once: the assertion of
\* update_data_seeds holds whatever was generated, mutated and read from the
\* files of other children before (add_data, update_data_seeds, update_corpus).
SeedsKnown ==
  \A si \in corpus : Cardinality({i \in DOMAIN data_seeds : data_seeds[i] = si.seed}) = 1
=============================================================================
