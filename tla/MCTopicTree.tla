---- MODULE MCTopicTree ----
EXTENDS TopicTree, TLC

\* Filters whose levels overlap: exact, each wildcard, both, and one that
\* validFilter refuses; a second client that shares some of the levels.
FiltersOverlap == "c1" :> {<<"a">>, <<"a", "#">>, <<"+", "b">>, <<"#", "a">>}
                  @@ "c2" :> {<<"a", "#">>, <<"#">>}
RetainedDeep   == {<<"a">>, <<"a", "b", "a">>}
TopicsOverlap  == {<<"a">>, <<"a", "b">>, <<"a", "b", "a">>}

\* Every shape of filter a client may ask for retained messages with.
SearchesAll == {<<"+">>, <<"#">>, <<"a">>, <<"a", "#">>, <<"+", "b">>, <<"a", "+">>,
                <<"+", "#">>, <<"a", "+", "#">>, <<"b", "#">>}

\* One filter and its "#".
FiltersNested == "c1" :> {<<"a">>, <<"a", "#">>}
TopicsNested  == {<<"a">>, <<"a", "b">>}
====
