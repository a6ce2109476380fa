---------------------------- MODULE MCCommandLine ----------------------------
(* A small instance of CommandLine for TLC: a document of stop words only, *)
(* one of two pages, the same bytes as an image, and one whose word falls  *)
(* into the bucket of another.                                             *)
EXTENDS CommandLine

ShellSymmetry == Permutations(Shell)

FileNames == {"stops", "pets", "scan", "wild", "lost"}
Words == {"the", "cat", "dog", "fox", "hi", "nothing"} \cup FileNames
Buckets ==
    [w \in Words |->
        CASE w \in {"cat", "fox"} -> 1 [] w = "dog" -> 2 [] w = "the" -> 3 [] OTHER -> 4]

File(name, image, bytes) == [name |-> name, image |-> image, bytes |-> bytes]

StopsFile == File("stops", FALSE, <<"the", "the", "the">>)
PetsFile == File("pets", FALSE, <<"cat", "dog", "ff", "the", "cat">>)
ScanFile == File("scan", TRUE, <<"cat", "dog", "ff", "the", "cat">>)
WildFile == File("wild", FALSE, <<"fox", "ff", "ff">>)
LostFile == File("lost", FALSE, <<"dog">>)

Sources == {StopsFile, PetsFile, ScanFile, WildFile, LostFile}
UnreadableFiles == {LostFile}
TargetPaths ==
    {<<>>, <<ScanFile>>, <<StopsFile, WildFile>>, <<PetsFile, ScanFile>>, <<WildFile, LostFile>>}

NotFound == <<"nothing">>
Hello == {<<"hi">>}
Asked == {<<"the", "cat">>, <<"dog">>, <<"the">>, <<"the", "the", "fox">>, <<"hi">>}

Example(question, expected, truth, relevant) ==
    [question |-> question, expected |-> expected, truth |-> truth, relevant |-> relevant]

GoldenSets ==
    {[corpus |-> <<StopsFile, PetsFile, ScanFile>>,
      examples |-> <<Example(<<"the", "dog">>, "dog", <<"dog", "cat">>, {"scan"}),
                     Example(<<"fox">>, None, NotFound, {})>>],
     [corpus |-> <<WildFile, LostFile>>,
      examples |-> <<Example(<<"dog", "fox">>, "fox", <<>>, {"wild", "lost"}),
                     Example(<<"the", "fox">>, None, <<>>, {"wild", "pets"}),
                     Example(<<"dog">>, "cat", <<>>, {"stops"})>>]}

Floors == [m \in {"faithfulness", "relevancy", "precision", "recall"} |->
              IF m = "relevancy" THEN 60 ELSE 70]
=============================================================================
