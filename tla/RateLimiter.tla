---------------------------- MODULE RateLimiter ----------------------------
(***************************************************************************)
(* FixedWindowRateLimiter of stores.py: per (principal, tool) a deque of   *)
(* the stamps of the admitted calls.  check() runs under the lock, but the *)
(* stamp was read before, so stamps may arrive out of order and only the   *)
(* expired front of the deque is dropped.                                  *)
(***************************************************************************)
EXTENDS Naturals, Sequences, FiniteSets

CONSTANTS
    Buckets,        \* keys (principal_id, tool_name)
    RateLimit,      \* the count of rate_limit
    RateWindow      \* the window of rate_limit

ASSUME RateLimiterAssumption ==
    /\ RateLimit \in Nat
    /\ RateWindow \in Nat \ {0}

VARIABLES
    window,         \* _calls: bucket -> stamps of the admitted calls
    checked         \* history: bucket -> the newest stamp checked so far, admitted or not,
                    \* and of each admitted call its stamp and that newest one

rateVars == <<window, checked>>

Checked == [newest : Nat, admitted : Seq([at : Nat, newest : Nat])]

RateTypeOK ==
    /\ window \in [Buckets -> Seq(Nat)]
    /\ checked \in [Buckets -> Checked]

RateInit ==
    /\ window = [b \in Buckets |-> << >>]
    /\ checked = [b \in Buckets |-> [newest |-> 0, admitted |-> << >>]]

\* Mutant: the whole deque goes as soon as its first stamp has expired.
InWindowReset(stamps, now) ==
    IF stamps # << >> /\ now >= stamps[1] + RateWindow THEN << >> ELSE stamps

\* The deque once its expired front is dropped: the suffix that starts at the
\* first stamp still inside the window.
InWindow(stamps, now) ==
    LET live == {i \in 1..Len(stamps) : now < stamps[i] + RateWindow}
        first == CHOOSE i \in live : \A j \in live : i <= j
    IN  IF live = {} THEN << >> ELSE SubSeq(stamps, first, Len(stamps))

Admits(b, now) == Len(InWindow(window[b], now)) < RateLimit

Newest(b, now) == IF now > checked[b].newest THEN now ELSE checked[b].newest

\* check() that returns: the call's own stamp is appended.
Admit(b, now) ==
    LET newest == Newest(b, now) IN
    /\ Admits(b, now)
    /\ window' = [window EXCEPT ![b] = Append(InWindow(@, now), now)]
    /\ checked' = [checked EXCEPT ![b] =
          [newest |-> newest,
           admitted |-> Append(@.admitted, [at |-> now, newest |-> newest])]]

\* check() that raises RateLimitExceeded; the expired front is gone all the same.
Refuse(b, now) ==
    /\ ~Admits(b, now)
    /\ window' = [window EXCEPT ![b] = InWindow(@, now)]
    /\ checked' = [checked EXCEPT ![b] = [@ EXCEPT !.newest = Newest(b, now)]]

\* The calls admitted to a bucket with a stamp in the window that starts at t, before
\* any call stamped after that window was checked.
TimelyIn(b, t) ==
    {i \in DOMAIN checked[b].admitted :
        /\ checked[b].admitted[i].at >= t
        /\ checked[b].admitted[i].newest < t + RateWindow}

\* Of the calls stamped in any window of time, the limiter admits no more than its limit,
\* and beyond that only calls that a call stamped after the window overtook on the way to
\* the limiter (FixedWindowRateLimiter.check drops what is older than the stamp it is
\* given, a stamp read before the lock is taken).
WindowsLimited ==
    \A b \in Buckets : \A t \in 0 .. checked[b].newest :
        Cardinality(TimelyIn(b, t)) <= RateLimit
============================================================================
