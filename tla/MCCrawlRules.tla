---------------------------- MODULE MCCrawlRules ----------------------------
(* Two pages found on different ones, and a URL that cannot be crawled;      *)
(* `here' matches only on its primary, `all' everything, `bad' is no regular *)
(* expression.                                                               *)
EXTENDS CrawlRules

MCUrl == {"a", "b", "mailto"}
MCPrimaryOf == [u \in MCUrl |-> IF u = "a" THEN "top" ELSE "other"]
MCPattern == {"here", "all", "bad"}
MCMatching == ({"all"} \X {"top", "other"} \X MCUrl) \cup {<<"here", "top", "a">>}
MCLists == {<<>>, <<"here">>, <<"here", "bad", "all">>, <<"all", "here">>, <<"bad", "here">>}
=============================================================================
