--------------------------- MODULE MCBronzeDownload ----------------------------
(* Three hours over one or two threads, three requests for each.  A        *)
(* response is good, malformed, corrupt, shorter or longer than declared.  *)
(* Retry-After is no number, negative, the longest obeyed, or longer.      *)
EXTENDS BronzeDownload

Response(declared, delivered, quality) ==
    [declared |-> declared, delivered |-> delivered, quality |-> quality]

MCBodies == {Response(1, 1, "records"),
             Response(1, 1, "malformed"),
             Response(1, 1, "corrupt"),
             Response(2, 1, "records"),
             Response(1, 2, "records")}

RetryAfter(seconds) == [number |-> TRUE, seconds |-> seconds]

MCRetryAfters == {[number |-> FALSE, seconds |-> 0],
                  RetryAfter(-1), RetryAfter(30), RetryAfter(31)}
=============================================================================
