------------------------------ MODULE Throttle ------------------------------
(***************************************************************************)
(* The limiters kept in an API process's memory: failed credentials by     *)
(* address, failed sign-ins to the portal, and requests per credential.    *)
(* A request asks the limiter, then is judged, then reports a failure;     *)
(* requests run in threads, so others come between.  A behaviour is about  *)
(* one limiter.                                                            *)
(***************************************************************************)
EXTENDS Integers, Sequences, FiniteSets, SequencesExt

CONSTANTS
    Requests,       \* threads
    Clients,        \* addresses, each one its own /64
    V6Clients,      \* those with IPv6 addresses, all of one /48
    Prefix48,       \* that /48
    Limit,          \* max_failures, MAX_FAILURES or per_minute
    Factor,         \* PREFIX48_FACTOR
    Window,
    MaxTracked,
    MaxFailures, MaxClock, None

VARIABLES
    limiter,        \* "auth", "login" or "rate"
    stamps,         \* the limiter's lists of times, least recently failed first
    open,           \* the client of each request that passed the limiter
    happened,       \* history: what was to be counted, <<key, time>> in order
    forgotten,      \* history: how much of it a bucket dropped for others had seen
    now

vars == <<limiter, stamps, open, happened, forgotten, now>>

Buckets == Clients \cup {Prefix48}
Entry == [key : Buckets, at : Seq(0..MaxClock)]

TypeOK ==
    /\ limiter \in {"auth", "login", "rate"}
    /\ stamps \in Seq(Entry)
    /\ \A i, j \in DOMAIN stamps : stamps[i].key = stamps[j].key => i = j
    /\ open \in [Requests -> Clients \cup {None}]
    /\ happened \in Seq(Buckets \X (0..MaxClock))
    /\ forgotten \in [Buckets -> 0..MaxFailures]
    /\ now \in 0..MaxClock

Init ==
    /\ limiter \in {"auth", "login", "rate"}
    /\ stamps = <<>> /\ happened = <<>> /\ forgotten = [k \in Buckets |-> 0]
    /\ open = [r \in Requests |-> None]
    /\ now = 0

-----------------------------------------------------------------------------
\* The buckets of a client: its /64 and then its /48 for failed credentials, the
\* client (or the credential) itself for the other two.
buckets(c) == IF limiter = "auth" /\ c \in V6Clients THEN <<c, Prefix48>> ELSE <<c>>
BucketsOf(c) == Range(buckets(c))
Budget(key) == IF key = Prefix48 THEN Limit * Factor ELSE Limit

Recent_Longer(at) == SelectSeq(at, LAMBDA t : now - t <= Window)
Recent(at) == SelectSeq(at, LAMBDA t : now - t < Window)
KeptIn(all, key) == LET entries == SelectSeq(all, LAMBDA e : e.key = key) IN
                    IF entries = <<>> THEN <<>> ELSE Recent(Head(entries).at)
Kept(key) == KeptIn(stamps, key)

\* Seconds to wait on account of one bucket.
WaitFor(key) == IF Len(Kept(key)) >= Budget(key) THEN Head(Kept(key)) + Window - now + 1 ELSE 0

retry_after(c) == LET waits == {WaitFor(k) : k \in BucketsOf(c)} IN
                  CHOOSE w \in waits : \A v \in waits : v <= w

Newest(s, n) == IF Len(s) <= n THEN s ELSE SubSeq(s, Len(s) - n + 1, Len(s))

Truncated(at, n) == IF limiter = "auth" THEN Newest(at, n) ELSE at

\* A bucket moves to the end when it fails.
Recorded(all, key) ==
    Append(SelectSeq(all, LAMBDA e : e.key # key),
           [key |-> key, at |-> Truncated(Append(KeptIn(all, key), now), Budget(key))])

\* The first are dropped when there are too many.
Dropped(all) == IF limiter = "auth" /\ Len(all) > MaxTracked
                THEN SubSeq(all, Len(all) - MaxTracked + 1, Len(all)) ELSE all

KeysOf(all) == {all[i].key : i \in DOMAIN all}

\* One turn of the loop over a client's buckets, and what it adds to the history.
\* A /48 that the turn of its /64 dropped starts again from nothing.
Turn(m, key) ==
    LET all == Dropped(Recorded(m.stamps, key))
        log == Append(m.happened, <<key, now>>)
    IN [stamps |-> all, happened |-> log,
        forgotten |-> [k \in Buckets |-> IF k \in (KeysOf(m.stamps) \cup {key}) \ KeysOf(all)
                                         THEN Len(log) ELSE m.forgotten[k]]]

-----------------------------------------------------------------------------
LimitReached(key) == Len(Kept(key)) >= Budget(key)

\* retry_after or allowed: the request goes on to be judged.
Ask(r, c) ==
    /\ limiter \in {"auth", "login"} /\ open[r] = None
    /\ \A k \in BucketsOf(c) : ~LimitReached(k)
    /\ open' = [open EXCEPT ![r] = c]
    /\ UNCHANGED <<limiter, stamps, happened, forgotten, now>>

record_failure(r) ==
    /\ open[r] # None /\ Len(happened) + Len(buckets(open[r])) <= MaxFailures
    /\ LET m == FoldLeft(Turn, [stamps |-> stamps, happened |-> happened, forgotten |-> forgotten],
                         buckets(open[r]))
       IN stamps' = m.stamps /\ happened' = m.happened /\ forgotten' = m.forgotten
    /\ open' = [open EXCEPT ![r] = None]
    /\ UNCHANGED <<limiter, now>>

\* A good credential changes nothing; a sign-in clears the client's failures.
Succeeds(r) ==
    /\ open[r] # None
    /\ open' = [open EXCEPT ![r] = None]
    /\ IF limiter = "login"
       THEN /\ stamps' = SelectSeq(stamps, LAMBDA e : e.key # open[r])
            /\ happened' = SelectSeq(happened, LAMBDA h : h[1] # open[r])
       ELSE UNCHANGED <<stamps, happened>>
    /\ UNCHANGED <<limiter, forgotten, now>>

\* One request with a credential: counted and let through, or refused.
take(c) ==
    /\ limiter = "rate" /\ Len(happened) < MaxFailures
    /\ ~LimitReached(c)
    /\ stamps' = Recorded(stamps, c)
    /\ happened' = Append(happened, <<c, now>>)
    /\ UNCHANGED <<limiter, open, forgotten, now>>

Tick == now < MaxClock /\ now' = now + 1 /\ UNCHANGED <<limiter, stamps, open, happened, forgotten>>

Next ==
    \/ \E r \in Requests : \/ \E c \in Clients : Ask(r, c)
                           \/ record_failure(r)
                           \/ Succeeds(r)
    \/ \E c \in Clients : take(c)
    \/ Tick

Spec == Init /\ [][Next]_vars

-----------------------------------------------------------------------------
(* Properties. *)

\* What happened to a bucket since it was last dropped, after a moment.
Within(key, from) == Cardinality({i \in DOMAIN happened :
                                    /\ happened[i][1] = key /\ happened[i][2] > from
                                    /\ i > forgotten[key]})

\* The limiter keeps only the last failures of a bucket, and decides as if it
\* kept all since the bucket last made room for others.
DecidesByTheWindow ==
    \A k \in Buckets : (Len(Kept(k)) >= Budget(k)) = (Within(k, now - Window) >= Budget(k))

\* A bucket is dropped only for as many others as the limiter tracks, which all
\* failed after it did ("evicts the one that failed least recently").
DroppedForOthers ==
    \A k \in Buckets : forgotten[k] > 0 =>
        \E i \in 1..forgotten[k] :
            /\ happened[i][1] = k
            /\ Cardinality({happened[j][1] : j \in i + 1..forgotten[k]} \ {k}) >= MaxTracked

\* A client that stays away for as long as it is told is let in, although
\* failures in flight were counted beyond the limit (signing in tells no time).
WaitSuffices ==
    limiter # "login" => \A c \in Clients : retry_after(c) > 0 =>
        \A k \in BucketsOf(c) : Within(k, now + retry_after(c) - Window) < Budget(k)

\* Failures are reported after the limiter was asked: requests in flight may
\* exceed the limit together, by fewer than there are threads.  A credential's
\* requests are counted as they are let in, and never exceed it.
OvershootBounded ==
    \A k \in Clients :
        Within(k, now - Window) <= IF limiter = "rate" THEN Limit
                                   ELSE Limit + Cardinality(Requests) - 1
=============================================================================
