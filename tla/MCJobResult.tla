----------------------------- MODULE MCJobResult -----------------------------
(* TLC instance of JobResult. *)
EXTENDS JobResult, TLC

MCNames == ("ann"  :> [label |-> "PERSON", score |-> 5]) @@ ("anne" :> [label |-> "PERSON", score |-> 7])
           @@ ("date" :> [label |-> "DATE", score |-> 6]) @@ ("rumour" :> [label |-> "DATE", score |-> 1])
MCAlike(a, b) == a = b \/ {a, b} = {"ann", "anne"}
MCThreshold(label) == IF label = "DATE" THEN 3 ELSE 5
MCRules == {"date"}

Document(markdown, items, pages) ==
    [kind |-> "document", markdown |-> markdown, items |-> items, pages |-> pages, pdf |-> TRUE,
     counted |-> TRUE, garbled |-> FALSE, segments |-> <<>>]
On(p, words) == [page |-> p, words |-> words]

(* A thin page on which vision sees nothing, two that it can read, of      *)
(* which the budget pays for one, and a good one with a table, "x"; a text *)
(* of a page that there is not, and one of no page.                        *)
Scan == Document(<<"of", "rumour", "ann", "x", "date">>,
                 <<On(4, <<"ann">>), On(1, <<"of">>), On(9, <<"rumour">>), On(0, <<"of">>), On(3, <<"x">>),
                   On(4, <<"date">>)>>,
                 <<<<>>, <<"ann", "of", "rome">>, <<"date">>, <<"x">>>>)

(* Good text among signs of a broken encoding; only the whole is known.    *)
Unlisted == [Document(<<"ann", "of", "rome", "date", "x">>, <<>>, <<<<"ann", "of">>, <<>>>>) EXCEPT !.garbled = TRUE]
Uncounted == [Unlisted EXCEPT !.counted = FALSE]

(* The same words again and again, long enough for windows.                *)
Letter == [Document(<<"ann", "rumour", "anne", "date", "ann", "rumour", "anne", "x">>, <<>>, <<<<>>>>)
              EXCEPT !.pdf = FALSE]
Empty == Document(<<>>, <<>>, <<<<>>>>)

Talk == [Empty EXCEPT !.kind = "audio", !.pages = <<>>, !.pdf = FALSE, !.counted = FALSE,
         !.segments = <<[speaker |-> "s1", words |-> <<"ann", "x">>], [speaker |-> "s1", words |-> <<"date">>],
                        [speaker |-> "", words |-> <<"anne">>]>>]

Photo == [Empty EXCEPT !.kind = "image", !.pages = <<<<"ann", "of", "rome", "date", "x">>>>]

Blank == [Photo EXCEPT !.pages = <<<<>>>>]

Served == [url |-> TRUE, served |-> <<"m1", "m2">>, named |-> "m2"]
NotConfigured == [url |-> FALSE, served |-> <<>>, named |-> "m1"]

Env(doc, features, stages, regex, may, most) ==
    [document |-> doc, features |-> features, stages |-> stages, regex |-> regex, ocr |-> TRUE,
     batches |-> TRUE, llm |-> Served, may |-> may, most |-> most]

Full == {"embeddings", "entities"}
Rag  == {"embeddings", "inferences"}

Inferred(doc, batches) ==
    [Env(doc, {"inferences", "inference_embeddings"}, Rag, FALSE, {"service", "llm", "crash", "expiry"}, 2)
        EXCEPT !.batches = batches]

MCEnvironments ==
    {Env(d, {}, Full, TRUE, {"vision", "late", "crash", "cancel"}, 1) : d \in {Scan, Unlisted, Uncounted, Empty}}
    \cup {Env(Letter, {}, Full, TRUE, {"service", "expiry", "model", "crash"}, 2)}
    \cup {Inferred(Talk, TRUE), Inferred(Photo, FALSE)}
    \cup {[Inferred(d, FALSE) EXCEPT !.may = {"vision", "crash", "cancel"}, !.most = 1] : d \in {Talk, Blank}}
    \cup {[Inferred(Photo, b) EXCEPT !.llm = NotConfigured, !.most = 0] : b \in BOOLEAN}
=============================================================================
