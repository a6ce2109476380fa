----------------------------- MODULE Evaluation -----------------------------
(***************************************************************************)
(* Scoring answers against a golden set (evaluation.py, goldens.py).  A    *)
(* score is counted in units of 1/Scale.  An example is a question with    *)
(* what may be expected of its answer: a word of it (or None), a ground    *)
(* truth (or no words), and the names of the sources it should draw on.    *)
(***************************************************************************)
EXTENDS Fakes

CONSTANTS
    None,       \* no word
    Scale,      \* what a score of 1 is worth
    Thresholds  \* EvalThresholds, in percent

ASSUME EvaluationAssumption ==
    /\ None \notin Word /\ Scale \in Nat \ {0}
    /\ Thresholds \in [{"faithfulness", "relevancy", "precision", "recall"} -> 0..100]

(* What an example may be.                                                 *)
Examples == [question : Seq(Word), expected : Word \cup {None}, truth : Seq(Word),
             relevant : SUBSET Word]

Fraction(part, whole) == (Scale * Cardinality(part)) \div Cardinality(whole)

(* _coverage                                                               *)
Coverage(reference, produced) ==
    IF ContentTokens(reference) = {} THEN Scale
    ELSE Fraction(SharedWords(reference, produced), ContentTokens(reference))

(* _context_scores                                                         *)
ContextScores(cited, relevant) ==
    IF relevant = {} THEN [precision |-> Scale, recall |-> Scale]
    ELSE IF cited = {} THEN [precision |-> 0, recall |-> 0]
    ELSE [precision |-> Fraction(cited \cap relevant, cited),
          recall |-> Fraction(cited \cap relevant, relevant)]

Quotes(answer) == FlattenSeq([i \in DOMAIN answer.citations |-> answer.citations[i].text])

(* Mutant: the arguments of _coverage change places.                       *)
FaithfulnessSwapped(answer) ==
    IF answer.outcome # "answered" THEN Scale
    ELSE IF Quotes(answer) = <<>> THEN 0
    ELSE Coverage(Quotes(answer), answer.text)

(* _faithfulness                                                           *)
Faithfulness(answer) ==
    IF answer.outcome # "answered" THEN Scale
    ELSE IF Quotes(answer) = <<>> THEN 0
    ELSE Coverage(answer.text, Quotes(answer))

(* _answer_relevancy                                                       *)
Relevancy(example, answer) ==
    Coverage(IF example.truth # <<>> THEN example.truth
             ELSE IF example.expected # None THEN <<example.expected>>
             ELSE example.question, answer.text)

Matched(example, answer) ==
    example.expected = None \/ example.expected \in ToSet(answer.text)

CitedDocuments(answer) == {answer.citations[i].document : i \in DOMAIN answer.citations}

(* The labels of an example: the ids its names were given, those of names  *)
(* that are not in the corpus left out.                                    *)
Labels(example, corpus) ==
    {source.bytes : source \in {c \in ToSet(corpus) : c.name \in example.relevant}}

(* EvalCaseResult                                                          *)
Scored(example, labels, answer) ==
    [matched |-> Matched(example, answer),
     grounded |-> answer.outcome = "answered",
     faithfulness |-> Faithfulness(answer),
     relevancy |-> Relevancy(example, answer),
     precision |-> ContextScores(CitedDocuments(answer), labels).precision,
     recall |-> ContextScores(CitedDocuments(answer), labels).recall]

(* EvalReport.check: a mean below its floor.  No results, and all means    *)
(* are 0.                                                                  *)
Summed(results, metric) ==
    Total([i \in DOMAIN results |-> results[i][metric]], Len(results))

Falls(results, metric) ==
    IF results = <<>> THEN Thresholds[metric] > 0
    ELSE 100 * Summed(results, metric) < Thresholds[metric] * Scale * Len(results)

Passes(results) == \A metric \in DOMAIN Thresholds : ~Falls(results, metric)
=============================================================================
