---------------------------- MODULE CommandLine ----------------------------
(***************************************************************************)
(* The shell commands of cli.py: ingest, query and eval, each a process of *)
(* its own, and the store file they share.  A step is what a process does  *)
(* between two accesses to that file, one source of an ingest, or one      *)
(* example of an eval.  Nothing locks the file, write_text truncates it    *)
(* first, and a process may be killed anywhere.                            *)
(***************************************************************************)
EXTENDS Evaluation

CONSTANTS
    Shell,          \* processes
    Namespace,      \* values of --namespace
    Source,         \* files: [name, image, bytes]
    Unreadable,     \* those of Source that cannot be read
    Targets,        \* what ingest is pointed at: the files of a path, in order
    Questions,      \* what is asked
    Contextualizer, \* "none" is --no-contextualize
    Goldens,        \* golden sets: [corpus, examples]
    MaxCommands     \* bound: commands run

ASSUME CommandLineAssumption ==
    /\ Source \subseteq [name : Word, image : BOOLEAN, bytes : Seq(Word \cup {FormFeed})]
    /\ Unreadable \subseteq Source /\ Targets \subseteq Seq(Source)
    /\ Questions \subseteq Seq(Word)
    /\ Contextualizer \subseteq {"none", "fake", "heading-window"}
    /\ Namespace # {} /\ Goldens \subseteq [corpus : Seq(Source), examples : Seq(Examples)]
    /\ MaxCommands \in Nat

VARIABLES
    store,     \* [file, kit]: what is at --store
    pc,        \* pc[s]: where process s is
    args,      \* args[s]: its arguments
    kit,       \* kit[s]: its FakeEngineKit, a shelf for every namespace
    queue,     \* queue[s]: sources, or examples, it has still to take
    answer,    \* answer[s]: what a query printed
    results,   \* results[s]: the examples an eval has scored
    commands,  \* how many commands were started
    saved,     \* history: <<namespace, document>> of ingests that exited with 0
    raced      \* history: two saves overlapped, or one was cut short

process == <<pc, args, kit, queue, answer, results>>
vars == <<store, process, commands, saved, raced>>

EmptyKit == [n \in Namespace |-> EmptyShelf]
NoArgs == [ns |-> None, target |-> <<>>, contextualizer |-> None,
           question |-> <<>>, golden |-> None]

Init ==
    /\ store = [file |-> "absent", kit |-> EmptyKit]
    /\ pc = [s \in Shell |-> "idle"]
    /\ args = [s \in Shell |-> NoArgs]
    /\ kit = [s \in Shell |-> EmptyKit]
    /\ queue = [s \in Shell |-> <<>>]
    /\ answer = [s \in Shell |-> Refusal]
    /\ results = [s \in Shell |-> <<>>]
    /\ commands = 0 /\ saved = {} /\ raced = FALSE

Go(s, to) == pc' = [pc EXCEPT ![s] = to]

Launch(s, to, arguments) ==
    /\ pc[s] = "idle" /\ commands < MaxCommands
    /\ commands' = commands + 1
    /\ args' = [args EXCEPT ![s] = arguments]
    /\ Go(s, to)

-----------------------------------------------------------------------------
(* ingest                                                                  *)

StartIngest(s) ==
    /\ \E n \in Namespace, t \in Targets, c \in Contextualizer :
          Launch(s, "load", [NoArgs EXCEPT !.ns = n, !.target = t, !.contextualizer = c])
    /\ UNCHANGED <<store, kit, queue, answer, results, saved, raced>>

(* The path does not exist.                                                *)
StartNowhere(s) ==
    /\ Launch(s, "failed", NoArgs)
    /\ UNCHANGED <<store, kit, queue, answer, results, saved, raced>>

Readable == store.file \in {"absent", "whole"}

(* Between its load and the end of its save.                               *)
Saving(s) == pc[s] \in {"ingest", "write"}

(* Mutant: a kit is restored without the other namespaces.                 *)
LoadKitOfScope(s) == [EmptyKit EXCEPT ![args[s].ns] = store.kit[args[s].ns]]

LoadKit(s) == store.kit

LoadForIngest(s) ==
    /\ pc[s] = "load" /\ Readable
    /\ kit' = [kit EXCEPT ![s] = LoadKit(s)]
    /\ queue' = [queue EXCEPT ![s] = args[s].target]
    /\ Go(s, IF args[s].target = <<>> THEN "failed" ELSE "ingest")
    /\ raced' = (raced \/ \E o \in Shell \ {s} : Saving(o))
    /\ UNCHANGED <<store, args, answer, results, commands, saved>>

(* json.loads of an empty file, or of one with something after the end.    *)
LoadFails(s) ==
    /\ pc[s] \in {"load", "read"} /\ ~Readable
    /\ Go(s, "failed")
    /\ UNCHANGED <<store, args, kit, queue, answer, results, commands, saved, raced>>

TakeSource(s, ns, contextualizer) ==
    /\ queue[s] # <<>>
    /\ kit' = [kit EXCEPT ![s][ns] = Ingested(@, contextualizer, Head(queue[s]))]
    /\ queue' = [queue EXCEPT ![s] = Tail(@)]

IngestNext(s) ==
    /\ pc[s] = "ingest"
    /\ queue[s] # <<>> /\ Head(queue[s]) \notin Unreadable
    /\ TakeSource(s, args[s].ns, args[s].contextualizer)
    /\ UNCHANGED <<store, pc, args, answer, results, commands, saved, raced>>

(* Reading a source raises: what was ingested before it is not saved.      *)
IngestFails(s) ==
    /\ pc[s] = "ingest"
    /\ queue[s] # <<>> /\ Head(queue[s]) \in Unreadable
    /\ Go(s, "failed")
    /\ UNCHANGED <<store, args, kit, queue, answer, results, commands, saved, raced>>

(* _save_kit: the file is opened, and is empty.                            *)
Truncate(s) ==
    /\ pc[s] = "ingest" /\ queue[s] = <<>>
    /\ store' = [file |-> "empty", kit |-> EmptyKit]
    /\ Go(s, "write")
    /\ UNCHANGED <<args, kit, queue, answer, results, commands, saved, raced>>

(* It is written.  Over what another process wrote since it was opened,    *)
(* the end of that may stick out.                                          *)
Write(s) ==
    /\ pc[s] = "write"
    /\ \/ store' = [file |-> "whole", kit |-> kit[s]]
       \/ store.file # "empty" /\ store' = [file |-> "garbled", kit |-> EmptyKit]
    /\ saved' = saved \cup {<<args[s].ns, args[s].target[i].bytes>> : i \in DOMAIN args[s].target}
    /\ Go(s, "done")
    /\ UNCHANGED <<args, kit, queue, answer, results, commands, raced>>

-----------------------------------------------------------------------------
(* query                                                                   *)

StartQuery(s) ==
    /\ store.file # "absent"
    /\ \E n \in Namespace, q \in Questions :
          Launch(s, "read", [NoArgs EXCEPT !.ns = n, !.question = q])
    /\ UNCHANGED <<store, kit, queue, answer, results, saved, raced>>

(* There is no store: the user is told to ingest first.                    *)
QueryNothing(s) ==
    /\ store.file = "absent"
    /\ Launch(s, "failed", NoArgs)
    /\ UNCHANGED <<store, kit, queue, answer, results, saved, raced>>

AnswerQuery(s) ==
    /\ pc[s] = "read" /\ Readable
    /\ kit' = [kit EXCEPT ![s] = LoadKit(s)]
    /\ answer' = [answer EXCEPT ![s] = Query(kit'[s][args[s].ns], args[s].question)]
    /\ Go(s, "answered")
    /\ UNCHANGED <<store, args, queue, results, commands, saved, raced>>

-----------------------------------------------------------------------------
(* eval: run_golden_eval over a kit of its own, and the gate.              *)

GoldenNamespace == CHOOSE n \in Namespace : TRUE

StartEval(s) ==
    /\ \E g \in Goldens :
          /\ Launch(s, "golden", [NoArgs EXCEPT !.ns = GoldenNamespace, !.golden = g])
          /\ queue' = [queue EXCEPT ![s] = g.corpus]
    /\ UNCHANGED <<store, kit, answer, results, saved, raced>>

IngestGolden(s) ==
    /\ pc[s] = "golden"
    /\ TakeSource(s, args[s].ns, "fake")
    /\ UNCHANGED <<store, pc, args, answer, results, commands, saved, raced>>

EndGolden(s) ==
    /\ pc[s] = "golden" /\ queue[s] = <<>>
    /\ queue' = [queue EXCEPT ![s] = args[s].golden.examples]
    /\ Go(s, "score")
    /\ UNCHANGED <<store, args, kit, answer, results, commands, saved, raced>>

ScoreExample(s) ==
    /\ pc[s] = "score" /\ queue[s] # <<>>
    /\ LET example == Head(queue[s])
       IN  results' = [results EXCEPT ![s] = Append(@,
               Scored(example, Labels(example, args[s].golden.corpus),
                      Query(kit[s][args[s].ns], example.question)))]
    /\ queue' = [queue EXCEPT ![s] = Tail(@)]
    /\ UNCHANGED <<store, pc, args, kit, answer, commands, saved, raced>>

Gate(s) ==
    /\ pc[s] = "score" /\ queue[s] = <<>>
    /\ Go(s, IF Passes(results[s]) THEN "passed" ELSE "failed")
    /\ UNCHANGED <<store, args, kit, queue, answer, results, commands, saved, raced>>

-----------------------------------------------------------------------------
Ended(s) == pc[s] \in {"done", "failed", "answered", "passed"}

(* A process ends, of itself or because it is killed.                      *)
Reset(s) ==
    /\ Go(s, "idle")
    /\ args' = [args EXCEPT ![s] = NoArgs]
    /\ kit' = [kit EXCEPT ![s] = EmptyKit]
    /\ queue' = [queue EXCEPT ![s] = <<>>]
    /\ answer' = [answer EXCEPT ![s] = Refusal]
    /\ results' = [results EXCEPT ![s] = <<>>]
    /\ UNCHANGED <<store, commands, saved>>

Exit(s) == Ended(s) /\ Reset(s) /\ UNCHANGED raced

Kill(s) ==
    /\ pc[s] \notin {"idle", "done", "failed", "answered", "passed"}
    /\ Reset(s)
    /\ raced' = (raced \/ pc[s] = "write")

(* No more commands are run.                                               *)
Finished ==
    /\ commands = MaxCommands /\ \A s \in Shell : pc[s] = "idle"
    /\ UNCHANGED vars

Next ==
    \/ \E s \in Shell :
          \/ StartIngest(s) \/ StartNowhere(s) \/ LoadForIngest(s) \/ LoadFails(s)
          \/ IngestNext(s) \/ IngestFails(s) \/ Truncate(s) \/ Write(s)
          \/ StartQuery(s) \/ QueryNothing(s) \/ AnswerQuery(s)
          \/ StartEval(s) \/ IngestGolden(s) \/ EndGolden(s) \/ ScoreExample(s) \/ Gate(s)
          \/ Exit(s) \/ Kill(s)
    \/ Finished

Spec == Init /\ [][Next]_vars
-----------------------------------------------------------------------------
(* Properties.                                                             *)

(* Every kit, loaded or on disk, is one the stores can serve: the vector   *)
(* and the lexical store hold the same chunks, no id twice, and the chunks *)
(* of a document are numbered from 0, in the order of its pages.           *)
ShelfOK(shelf) ==
    LET ids == [i \in DOMAIN shelf.lexical |-> ChunkId(shelf.lexical[i])]
    IN  /\ shelf.vector = shelf.lexical
        /\ IsInjective(ids) /\ IsInjective(shelf.documents)
        /\ \A i \in DOMAIN ids :
              /\ shelf.lexical[i].document \in ToSet(shelf.documents)
              /\ shelf.lexical[i].ordinal > 0 =>
                    /\ i > 1 /\ ids[i - 1] = <<ids[i][1], ids[i][2] - 1>>
                    /\ shelf.lexical[i - 1].page <= shelf.lexical[i].page

TypeOK ==
    /\ store.file \in {"absent", "empty", "garbled", "whole"}
    /\ \A s \in Shell :
          pc[s] \in {"idle", "load", "ingest", "write", "read", "golden", "score",
                     "done", "failed", "answered", "passed"}
    /\ \A n \in Namespace : ShelfOK(store.kit[n]) /\ \A s \in Shell : ShelfOK(kit[s][n])
    /\ commands \in 0..MaxCommands

(* "so they work as separate processes": as long as no two saves overlap   *)
(* and none is cut short, a document whose ingest exited with 0 is in the  *)
(* store, in its own namespace, for good, whatever other commands run,     *)
(* fail, or are killed; and the store can always be loaded again.          *)
SerialSavesLast ==
    ~raced => \A d \in saved :
        \/ store.file = "whole" /\ d[2] \in ToSet(store.kit[d[1]].documents)
        \/ \E s \in Shell : pc[s] = "write" /\ d[2] \in ToSet(kit[s][d[1]].documents)

(* The words a document has on its pages.                                  *)
Matches(d, question) == SharedWords(Transcribe(d), question) # {}

(* A question is answered if and only if a document registered in its      *)
(* namespace has a content word of it: however many chunks the dense       *)
(* search finds by stop words or by bucket alone, the cut at retrieve_k    *)
(* leaves one that matches (retrieve_k has to be two at least).  The       *)
(* answer then quotes passages of such documents, each once, and its text  *)
(* is one of them.                                                         *)
AnswersTheMatch ==
    \A s \in Shell : pc[s] = "answered" =>
        LET matching == {d \in ToSet(kit[s][args[s].ns].documents) :
                            Matches(d, args[s].question)}
            cited == answer[s].citations
        IN  args[s].question \notin SmallTalk =>
              /\ (answer[s].outcome = "answered") = (matching # {})
              /\ CitedDocuments(answer[s]) \subseteq matching
              /\ IsInjective(cited)
              /\ cited # <<>> => \E i \in DOMAIN cited : cited[i].text = answer[s].text

(* The gate scores what it says it does: over these adapters no answer is  *)
(* unfaithful; an example whose matching documents are all labelled has    *)
(* full precision and some recall, full recall when there is just one; and *)
(* a labelled negative, its ground truth the not-found message, is scored  *)
(* in full for the honest refusal.                                         *)
GoldenGate ==
    \A s \in Shell : \A i \in DOMAIN results[s] :
        LET example == args[s].golden.examples[i]
            corpus == ToSet(args[s].golden.corpus)
            labelled == {c.bytes : c \in {x \in corpus : x.name \in example.relevant}}
            matching == {d \in {c.bytes : c \in corpus} : Matches(d, example.question)}
            r == results[s][i]
        IN  /\ r.faithfulness = Scale
            /\ (matching # {} /\ matching \subseteq labelled) =>
                  /\ r.grounded /\ r.precision = Scale /\ r.recall > 0
                  /\ Cardinality(labelled) = 1 => r.recall = Scale
            /\ (matching = {} /\ example.relevant = {} /\ example.truth = Message) =>
                  /\ ~r.grounded
                  /\ r.relevancy = Scale /\ r.precision = Scale /\ r.recall = Scale
=============================================================================
