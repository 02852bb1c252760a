------------------------------ MODULE MCRetry ------------------------------
EXTENDS Retry, TLC

Object(max, del, back, cap) ==
  ("max_attempts" :> max) @@ ("delay" :> del) @@ ("backoff2" :> back) @@ ("max_delay" :> cap)

\* Retry objects: waits that grow by a factor of 2 and of 1.5 and reach their cap after
\* several attempts, one cut at once, one that never grows, none of the fields, a factor
\* below one, one that starts above its cap, products and a first delay that leave the
\* range of Duration, and a single attempt.
SmallRetries ==
  {Object(5, 1, 4, 6), Object(5, 2, 3, 9), Object(4, 3, 4, 4), Object(3, 1, 2, 0),
   Object(3, 0, 4, 2), Object(4, 4, 1, 6), Object(3, 7, 3, 4), Object(4, 5, 20, 9),
   Object(4, 12, 6, 15), Object(4, 20, 4, 3), Object(0, 1, 4, 1), <<>>}
=============================================================================
