----------------------------- MODULE MCBackend -----------------------------
(* Small instances of a backend worker for TLC. *)
EXTENDS Backend

Secs(n) == [kind |-> "secs", secs |-> n]
Text    == [kind |-> "text", secs |-> 0]
Marker  == [kind |-> "marker", secs |-> 0]

\* No argument; a time that is short, below a limit with a fraction, above most
\* limits, longer than any that converts, negative, and NaN; and what is no time.
Requests == {<<>>, <<Secs(1)>>, <<Secs(5)>>, <<Secs(9), Text>>, <<Secs(13)>>,
             <<Secs(-1)>>, <<Secs(NaN)>>, <<Text>>, <<Secs(1), Marker>>, <<Marker, Secs(1)>>}

\* With two units a millisecond: an increment of 1.5 ms, at most 5 and 3.5 ms.
Sleeper == [inc |-> 3, max |-> 10, limit |-> 7, ignore |-> FALSE, once |-> FALSE,
            glob |-> "none", work |-> "sleep", args |-> <<>>]

\* The built-in workload with a limit below -backoff-max, without a limit, with
\* one of half a millisecond, with an increment of as much, with a time of its
\* own, and without back-off; with bounds that are too long to be converted or
\* NaN; a binary with a device file; a direct run of either.
Accepted == {
  Sleeper,
  [Sleeper EXCEPT !.limit = 0, !.inc = 2],
  [Sleeper EXCEPT !.limit = 1],
  [Sleeper EXCEPT !.limit = 0, !.inc = 1, !.max = 5],
  [Sleeper EXCEPT !.ignore = TRUE, !.args = <<Secs(8)>>],
  [Sleeper EXCEPT !.inc = 0, !.max = 0],
  [Sleeper EXCEPT !.max = 14, !.limit = 0],
  [Sleeper EXCEPT !.max = NaN, !.limit = 15],
  [Sleeper EXCEPT !.limit = NaN],
  [Sleeper EXCEPT !.inc = NaN],
  [Sleeper EXCEPT !.work = "path", !.glob = "matching", !.args = <<Marker>>],
  [Sleeper EXCEPT !.once = TRUE, !.args = <<Secs(8)>>],
  [Sleeper EXCEPT !.once = TRUE, !.work = "path"]}

Rejected == {
  [Sleeper EXCEPT !.max = 0],
  [Sleeper EXCEPT !.inc = -1, !.limit = -1],
  [Sleeper EXCEPT !.args = <<Marker>>],
  [Sleeper EXCEPT !.glob = "unmatched"],
  [Sleeper EXCEPT !.work = "other"]}

CommandLines == Accepted \cup Rejected

OnlySleeper == {Sleeper}

Limits == {-1, 0, 1, 5, 9, 13}

=============================================================================
