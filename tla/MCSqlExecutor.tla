----------------------------- MODULE MCSqlExecutor -----------------------------
(* Three calls compete for two permits: one makes any request, one a       *)
(* request with an answer, and one takes a permit only to be rejected.  A  *)
(* view costs two of the three units a query may scan, so a self-join      *)
(* exceeds the limit; freshness is not bound.                              *)
EXTENDS SqlExecutor

CONSTANTS a, b, c, traffic, freshness

MCCalls == {a, b, c}

MCBindings == [v \in {traffic} |-> 2]

Ask(legal, views, answer) ==
    [legal |-> legal, views |-> views, bindings |-> MCBindings, answer |-> answer]

Plain == Ask(TRUE, <<traffic>>, "rows")

MCRequests ==
    [x \in MCCalls |->
        CASE x = a -> {Plain,
                       Ask(FALSE, <<traffic>>, "rows"),
                       Ask(TRUE, <<traffic, traffic>>, "rows"),
                       Ask(TRUE, <<traffic, freshness>>, "rows"),
                       Ask(TRUE, <<traffic>>, "row_limit")}
          [] x = b -> {Plain}
          [] x = c -> {Ask(FALSE, <<traffic>>, "rows")}]
=============================================================================
