----------------------------- MODULE HttpClient -----------------------------
(***************************************************************************)
(* One crawler's HTTP client: HttpClient.send of ingest/sources/http.py    *)
(* with its pacing, retries and waits, and the OpenReview session on top   *)
(* (openreview_client.py): log in, send the token, log in once more when   *)
(* it is refused.                                                          *)
(*                                                                         *)
(* Requests go one at a time and nothing is scheduled but time, so every   *)
(* time here is relative: how long ago the last exchange ended, how long   *)
(* the server still asked to be left alone, how long the client sleeps.    *)
(***************************************************************************)
EXTENDS Integers, FiniteSetsExt

CONSTANTS
    Policies,    \* the rules a source may have: records of Policy's fields
    Hints,       \* the waits a 429 or 5xx may name (Retry-After, ratelimit-reset)
    Resets,      \* the resets a spent budget may name
    NoReset,     \* the wait for a spent budget that names none (60 seconds)
    Unnamed      \* no wait named

(* The policies the sources are given, and the waits a server may name, as   *)
(* whole units of time.                                                    *)
Rules == [login : BOOLEAN, min_interval : Nat, attempts : Nat \ {0}, backoff : Nat \X Nat,
          jitter : Nat, hint_pad : Nat, max_wait : Nat, cap_waits : BOOLEAN, wait_after_last : BOOLEAN]

ASSUME ClientAssumption ==
    /\ Policies \subseteq Rules
    /\ Hints \subseteq Nat /\ Resets \subseteq Nat /\ NoReset \in Nat
    /\ \A r \in Policies : \A n \in 0..r.attempts : 2 ^ n \in Nat

VARIABLES
    policy,      \* the source's rules
    stage,       \* where the client is: idle, sending, sleeping, aborted
    then,        \* where it goes when it wakes up
    what,        \* the request being sent: "get" or "login"
    token,       \* has the client a session token? (sources without a login always have)
    fresh,       \* was the token made for the request under way?
    attempt,     \* the attempts made of this request
    since,       \* time since the last exchange ended, up to min_interval
    sleep,       \* the wait still to be slept
    owed,        \* history: how long the server asked not to be asked again
    early        \* history: was a request sent before that?

clientVars == <<policy, stage, then, what, token, fresh, attempt, since, sleep, owed, early>>

ClientInit ==
    /\ policy \in Policies
    /\ stage = "idle" /\ then = "idle" /\ what = "get" /\ token = ~policy.login /\ fresh = FALSE
    /\ attempt = 0 /\ since = policy.min_interval /\ sleep = 0
    /\ owed = 0 /\ early = FALSE

-----------------------------------------------------------------------------
(* Waits.                                                                  *)

Least(a, b) == IF a < b THEN a ELSE b
Most(a, b) == IF a > b THEN a ELSE b

(* The first step doubled with every attempt, up to a cap, and a jitter.     *)
Backoff(jitter) == Least(policy.backoff[1] * 2 ^ attempt, policy.backoff[2]) + jitter

(* The wait before the next attempt, or Unnamed for one past max_wait that *)
(* aborts the crawl.                                                       *)
Bounded(wait) ==
    IF wait <= policy.max_wait THEN wait
    ELSE IF policy.cap_waits THEN policy.max_wait ELSE Unnamed

(* A busy server's own wait, padded; the client's back-off when it names none.*)
RetryWait(hint, jitter) ==
    LET wait == Bounded(IF hint = Unnamed THEN Backoff(jitter) ELSE hint)
    IN  IF wait = Unnamed THEN Unnamed ELSE wait + IF hint = Unnamed THEN 0 ELSE policy.hint_pad

(* A spent budget's wait, never longer than max_wait.                       *)
BudgetWait(reset) ==
    Least(IF reset = Unnamed THEN NoReset ELSE reset, policy.max_wait) + policy.hint_pad

(* What a named wait asks of the client: no more than max_wait, the longest  *)
(* a crawl may be parked.                                                  *)
Asked(named) == IF named = Unnamed THEN 0 ELSE Least(named, policy.max_wait)

Passed(t) == Most(owed - t, 0)

(* Sleep, then go on.                                                       *)
SleepThen(wait, next) ==
    /\ sleep' = wait /\ then' = next
    /\ stage' = IF wait = 0 THEN next ELSE "sleeping"

-----------------------------------------------------------------------------
(* A page that is not in the cache is asked for, one at a time.             *)
Ask ==
    /\ stage = "idle"
    /\ stage' = "sending" /\ attempt' = 0 /\ fresh' = FALSE
    /\ what' = IF token THEN "get" ELSE "login"
    /\ UNCHANGED <<policy, then, token, since, sleep, owed, early>>

(* The source is busy with what it has.                                     *)
Work ==
    /\ stage = "idle"
    /\ since' = Least(since + 1, policy.min_interval) /\ owed' = Passed(1)
    /\ UNCHANGED <<policy, stage, then, what, token, fresh, attempt, sleep, early>>

(* _pace, then the exchange, which ends with `named`, the wait the answer   *)
(* names if any.                                                           *)
Exchange(named) ==
    LET pause == policy.min_interval - since
    IN  /\ stage = "sending"
        /\ early' = (early \/ owed > pause)
        /\ since' = 0
        /\ owed' = Most(Passed(pause), Asked(named))
        /\ UNCHANGED policy

(* As in a client that does not rest after its last attempt, yet goes on.    *)
RetryUnrested ==
    /\ \E hint \in Hints \cup {Unnamed}, jitter \in 0..policy.jitter :
         LET last == attempt + 1 = policy.attempts
         IN  /\ Exchange(hint)
             /\ attempt' = attempt + 1
             /\ IF last THEN SleepThen(0, IF policy.wait_after_last THEN "idle" ELSE "aborted")
                ELSE IF RetryWait(hint, jitter) = Unnamed THEN SleepThen(0, "aborted")
                ELSE SleepThen(RetryWait(hint, jitter), "sending")
    /\ UNCHANGED <<what, token, fresh>>

(* A 429, a 5xx, a network error, a truncated 200: wait and try again, or   *)
(* give up after the last attempt, rested if the policy says so.            *)
Retry ==
    /\ \E hint \in Hints \cup {Unnamed}, jitter \in 0..policy.jitter :
         LET last == attempt + 1 = policy.attempts
             next == IF ~last THEN "sending"
                     ELSE IF policy.wait_after_last THEN "idle" ELSE "aborted"
         IN  /\ Exchange(hint)
             /\ attempt' = attempt + 1
             /\ IF last /\ ~policy.wait_after_last THEN SleepThen(0, next)
                ELSE IF RetryWait(hint, jitter) = Unnamed THEN SleepThen(0, "aborted")
                ELSE SleepThen(RetryWait(hint, jitter), next)
    /\ UNCHANGED <<what, token, fresh>>

(* A whole 200 the source takes: the page, or the session to ask with.      *)
Taken(wait) ==
    /\ IF what = "login" THEN SleepThen(wait, "sending") /\ attempt' = 0
       ELSE SleepThen(wait, "idle") /\ UNCHANGED attempt
    /\ what' = "get" /\ token' = TRUE
    /\ UNCHANGED fresh

(* As in a session renewed whenever it is refused.                           *)
RefusedAgain(wait) ==
    /\ policy.login
    /\ IF what = "login"
       THEN SleepThen(wait, "aborted") /\ UNCHANGED <<what, fresh, attempt>>
       ELSE SleepThen(wait, "sending") /\ what' = "login" /\ fresh' = TRUE /\ attempt' = 0
    /\ UNCHANGED token

(* A session refused (a 401, a page that is not JSON): log in once more, and *)
(* only once.                                                              *)
Refused(wait) ==
    /\ policy.login
    /\ IF what = "login" \/ fresh
       THEN SleepThen(wait, "aborted") /\ UNCHANGED <<what, fresh, attempt>>
       ELSE SleepThen(wait, "sending") /\ what' = "login" /\ fresh' = TRUE /\ attempt' = 0
    /\ UNCHANGED token

Answer == Exchange(Unnamed) /\ (Taken(0) \/ Refused(0))

(* A 200 with the window's budget spent: its reset is waited out before the  *)
(* source sees the page.                                                    *)
SpentAnswer ==
    \E reset \in Resets \cup {Unnamed} :
        Exchange(reset) /\ (Taken(BudgetWait(reset)) \/ Refused(BudgetWait(reset)))

(* Any other status is for the source: a page that is not there, or an       *)
(* HTTPRefused that ends the crawl, as a body over the cap does.             *)
Other ==
    /\ Exchange(Unnamed)
    /\ \E next \in IF policy.login THEN {"aborted"} ELSE {"idle", "aborted"} : SleepThen(0, next)
    /\ UNCHANGED <<what, token, fresh, attempt>>

WakeUp ==
    /\ stage = "sleeping"
    /\ since' = Least(since + sleep, policy.min_interval) /\ owed' = Passed(sleep)
    /\ sleep' = 0 /\ stage' = then
    /\ UNCHANGED <<policy, then, what, token, fresh, attempt, early>>

(* The crawl ended, or is killed anywhere: the next run has a new client.    *)
Restart ==
    /\ stage # "idle"
    /\ stage' = "idle" /\ then' = "idle" /\ what' = "get" /\ token' = ~policy.login /\ fresh' = FALSE
    /\ attempt' = 0 /\ since' = policy.min_interval /\ sleep' = 0 /\ owed' = 0
    /\ UNCHANGED <<policy, early>>

Sends == Retry \/ Answer \/ SpentAnswer \/ Other

ClientNext == Ask \/ Work \/ Sends \/ WakeUp \/ Restart

ClientSpec == ClientInit /\ [][ClientNext]_clientVars

(* The client runs: an exchange ends within its timeout, a sleep passes.     *)
FairClientSpec == ClientSpec /\ WF_clientVars(Sends) /\ WF_clientVars(WakeUp)

-----------------------------------------------------------------------------
(* No request goes out before a wait named by an earlier answer to this      *)
(* client is over (a busy answer's, or a spent budget's, up to max_wait),    *)
(* whichever request it was for, also after the last attempt.               *)
NamedWaitsHonoured == ~early

(* "A hostile header can't park a run longer": no sleep exceeds max_wait and *)
(* its pad, whatever wait the server names or the back-off reaches.          *)
NeverParkedLonger == sleep <= policy.max_wait + policy.hint_pad

(* The waits are those a named wait asks for, and never longer.              *)
WaitsHold == NamedWaitsHonoured /\ NeverParkedLonger

(* Whatever the server answers, every request ends: retries are bounded, and *)
(* a session refused again after a fresh login is not tried a third time.    *)
RequestsEnd == stage = "sending" ~> stage \in {"idle", "aborted"}
=============================================================================
