---------------------------- MODULE MCHttpClient ----------------------------
(* The two kinds of policy for TLC: the proceedings' and OpenReview's.     *)
EXTENDS HttpClient

SmallRules == [login : BOOLEAN, min_interval : {2}, attempts : {3}, backoff : {<<1, 3>>},
               jitter : {0, 1}, hint_pad : {0, 1}, max_wait : {4}, cap_waits : BOOLEAN, wait_after_last : BOOLEAN]

MCPolicies == {r \in SmallRules : /\ r.cap_waits = r.login /\ r.wait_after_last # r.login
                                  /\ (r.hint_pad = 1) = r.login /\ r.jitter = r.hint_pad}
=============================================================================
