------------------------------ MODULE Connect ------------------------------
(***************************************************************************)
(* Domain Connect and the setup page for one domain.  A link is prepared   *)
(* in one transaction, signed with none open, and recorded in another; the *)
(* claim and the domain may change in between.  Links and setup pages are  *)
(* limited per window, and after a link was issued or the customer came    *)
(* back the worker checks the domain more often.                           *)
(*                                                                         *)
(* Transactions that decide by the domain hold its application's row       *)
(* (lock_application).  delete_domain, reissue_claim and lease_domain do   *)
(* not ask for it: on SQLite there is one writer and they wait all the     *)
(* same; on PostgreSQL they commit inside such a transaction, whose flush  *)
(* then writes the columns that differ from the row it had loaded.         *)
(***************************************************************************)
EXTENDS Integers, Sequences, FiniteSets

CONSTANTS
    Backends,           \* of {"sqlite", "postgresql"}
    Calls,              \* open requests to the API and the setup page
    SettingsSigner,     \* DOMAIN_CONNECT_SIGNER, or None
    OperatorSigners,    \* signers an operator may set
    None,
    Window,             \* the limits' window, and URL_TTL
    MaxLinks, MaxSessions,                      \* per domain and window
    FastWindow, FastInterval, Backoff, Lease,   \* of the checks
    Ttls,               \* of setup pages
    MaxTokens, MaxIssued, MaxPages, MaxClock

VARIABLES
    backend,
    domain,         \* [status, deleted, token, started, due, passing]
    operatorSigner, \* the operator's row, or None
    links,          \* CONNECT_URL_ISSUED events: [token, at, expires]
    sessions,       \* connect_sessions: [at, expires, revoked]
    call,           \* [pc, token, expires]
    worker,         \* [busy, token, until, last]: the claim whose records it
                    \* queries, its lease, and how the last run ended
    tx,             \* who holds the application's row: [op, seen, at], or NoTx
    now

vars == <<backend, domain, operatorSigner, links, sessions, call, worker, tx, now>>

\* What is asked of the constants: times and limits are numbers, a link is
\* allowed at all, and only so many requests are open at once.
ConnectConstants ==
    /\ Window \in Nat /\ FastWindow \in Nat /\ FastInterval \in Nat
    /\ Backoff \in Nat /\ Lease \in Nat
    /\ MaxLinks \in Nat \ {0} /\ IsFiniteSet(Calls)
    /\ Backends \subseteq {"sqlite", "postgresql"}

Far == MaxClock + Backoff + Lease
Unset == -1             \* next_check_at is NULL: due
NoTx == [op |-> "none"]
Idle == [pc |-> "idle", token |-> 0, expires |-> 0]
Rows == [status : {"connectable", "suspended", "deleting"}, deleted : BOOLEAN,
         token : 0..MaxTokens, started : -FastWindow..MaxClock, due : Unset..Far,
         passing : BOOLEAN]

TypeOK ==
    /\ backend \in Backends
    /\ domain \in Rows
    /\ operatorSigner \in OperatorSigners \cup {None}
    /\ links \in Seq([token : 1..MaxTokens, at : 0..MaxClock, expires : 0..Far])
    /\ sessions \in Seq([at : 0..MaxClock, expires : 0..Far, revoked : BOOLEAN])
    /\ call \in [Calls -> [pc : {"idle", "signing", "recording"},
                           token : 0..MaxTokens, expires : 0..Far]]
    /\ worker \in [busy : BOOLEAN, token : 0..MaxTokens, until : 0..Far,
                   last : {"done", "failed", "overtaken"}]
    /\ tx \in {NoTx} \cup [op : {"record", "return", "recheck", "apply"},
                           seen : Rows, at : 0..MaxClock]
    /\ now \in 0..MaxClock

\* A domain just registered, never checked.
Init ==
    /\ backend \in Backends
    /\ domain = [status |-> "connectable", deleted |-> FALSE, token |-> 1,
                 started |-> -FastWindow, due |-> Unset, passing |-> FALSE]
    /\ operatorSigner = None
    /\ links = <<>> /\ sessions = <<>>
    /\ call = [c \in Calls |-> Idle]
    /\ worker = [busy |-> FALSE, token |-> 0, until |-> 0, last |-> "done"]
    /\ tx = NoTx
    /\ now = 0

-----------------------------------------------------------------------------
(* Reading and writing. *)

\* The operator's row if set, else the settings.
signer_config == IF operatorSigner # None THEN operatorSigner ELSE SettingsSigner

InWindow(rows) == Cardinality({i \in DOMAIN rows : rows[i].at > now - Window})

fast_recheck_due(d, t) == t - d.started \in 0..(FastWindow - 1)

open_session(s) == /\ ~sessions[s].revoked /\ sessions[s].expires > now
                   /\ ~domain.deleted

\* The limits of the domain.  Those of the application count what its other
\* domains issued: whatever they refuse is a request that changes nothing.
LinksAllowed == InWindow(links) < MaxLinks
SessionsAllowed == InWindow(sessions) < MaxSessions

Free == tx.op = "none"

\* A transaction that locks nothing waits for the writer on SQLite only.
MayWrite == backend = "sqlite" => Free

\* The lock first, then the domain as it is committed.
lock_application(op) ==
    /\ Free
    /\ tx' = [op |-> op, seen |-> domain, at |-> now]

\* A flush leaves a column alone that is as it was loaded.
Flushed(loaded, new, current) == IF new = loaded THEN current ELSE new

\* Never later than it is, unless that is NULL.
make_checks_due(due, at) == IF due = Unset \/ due > at THEN at ELSE due

-----------------------------------------------------------------------------
(* Signers. *)

set_remote_signer(x) ==
    /\ MayWrite
    /\ operatorSigner' = x
    /\ UNCHANGED <<backend, domain, links, sessions, call, worker, tx, now>>

reset_signer ==
    /\ MayWrite /\ operatorSigner # None
    /\ operatorSigner' = None
    /\ UNCHANGED <<backend, domain, links, sessions, call, worker, tx, now>>

-----------------------------------------------------------------------------
(* Links. *)

\* Everything the signer needs is copied out and the transaction ends.
prepare_connect(c) ==
    /\ call[c].pc = "idle"
    /\ domain.status = "connectable" /\ ~domain.deleted
    /\ signer_config # None
    /\ domain.token # 0
    /\ LinksAllowed
    /\ call' = [call EXCEPT ![c] = [pc |-> "signing", token |-> domain.token,
                                   expires |-> now + Window]]
    /\ UNCHANGED <<backend, domain, operatorSigner, links, sessions, worker, tx, now>>

\* The API or the setup page asks for a link.
connect_domain(c) == prepare_connect(c)
apply(c, s) == open_session(s) /\ prepare_connect(c)

\* The signer refused, was unavailable or limited the rate.
SigningFailed(c) ==
    /\ call[c].pc = "signing"
    /\ call' = [call EXCEPT ![c] = Idle]
    /\ UNCHANGED <<backend, domain, operatorSigner, links, sessions, worker, tx, now>>

StillClaimed_AnyClaim(c) == domain.token # 0
StillClaimed(c) == domain.token # 0 /\ domain.token = call[c].token

\* Signed; then, under the application's lock, the claim is compared.
record_connect(c) ==
    /\ call[c].pc = "signing" /\ Len(links) < MaxIssued
    /\ \/ /\ ~domain.deleted /\ StillClaimed(c)
          /\ lock_application("record")
          /\ call' = [call EXCEPT ![c].pc = "recording"]
       \/ /\ domain.deleted \/ ~StillClaimed(c)
          /\ Free /\ UNCHANGED tx
          /\ call' = [call EXCEPT ![c] = Idle]
    /\ UNCHANGED <<backend, domain, operatorSigner, links, sessions, worker, now>>

\* The checks are made due soon and the link is an event.
CommitRecord(c) ==
    /\ call[c].pc = "recording"
    /\ domain' = [domain EXCEPT !.started = tx.at,
                    !.due = Flushed(tx.seen.due,
                              make_checks_due(tx.seen.due, tx.at + FastInterval), @)]
    /\ links' = Append(links, [token |-> call[c].token, at |-> tx.at,
                               expires |-> call[c].expires])
    /\ call' = [call EXCEPT ![c] = Idle]
    /\ tx' = NoTx
    /\ UNCHANGED <<backend, operatorSigner, sessions, worker, now>>

\* The sealed state the provider sends the customer back with.
OpenState(l) == now <= links[l].expires

\* The customer comes back, any number of times.
connect_returned(l) ==
    /\ OpenState(l)
    /\ ~domain.deleted /\ domain.status = "connectable"
    /\ lock_application("return")
    /\ UNCHANGED <<backend, domain, operatorSigner, links, sessions, call, worker, now>>

CommitReturn ==
    /\ tx.op = "return"
    /\ domain' = [domain EXCEPT !.started = tx.at,
                    !.due = Flushed(tx.seen.due, make_checks_due(tx.seen.due, tx.at), @)]
    /\ tx' = NoTx
    /\ UNCHANGED <<backend, operatorSigner, links, sessions, call, worker, now>>

-----------------------------------------------------------------------------
(* The setup page. *)

\* Under the lock.  It only adds a row, and opening a page asks again whether
\* the domain is deleted, so what commits meanwhile makes no difference.
create_session(ttl) ==
    /\ Free /\ ~domain.deleted /\ SessionsAllowed /\ Len(sessions) < MaxPages
    /\ sessions' = Append(sessions, [at |-> now, expires |-> now + ttl, revoked |-> FALSE])
    /\ UNCHANGED <<backend, domain, operatorSigner, links, call, worker, tx, now>>

revoke_session(s) ==
    /\ MayWrite
    /\ sessions' = [sessions EXCEPT ![s].revoked = TRUE]
    /\ UNCHANGED <<backend, domain, operatorSigner, links, call, worker, tx, now>>

\* A recheck asked for through the API; its own limits may refuse it, which
\* changes nothing.
request_recheck ==
    /\ ~domain.deleted /\ domain.status # "deleting"
    /\ lock_application("recheck")
    /\ UNCHANGED <<backend, domain, operatorSigner, links, sessions, call, worker, now>>

CommitRecheck ==
    /\ tx.op = "recheck"
    /\ domain' = [domain EXCEPT !.due = Flushed(tx.seen.due, tx.at, @)]
    /\ tx' = NoTx
    /\ UNCHANGED <<backend, operatorSigner, links, sessions, call, worker, now>>

\* The same from the setup page.
check_now(s) == open_session(s) /\ request_recheck

-----------------------------------------------------------------------------
(* The rest of the system, as far as it concerns links; how these overlap    *)
(* among themselves is in DomainLifecycle.                                   *)

\* Every check starts over.
reissue_claim ==
    /\ MayWrite /\ ~domain.deleted /\ domain.token < MaxTokens
    /\ domain' = [domain EXCEPT !.token = @ + 1, !.due = Unset, !.passing = FALSE]
    /\ UNCHANGED <<backend, operatorSigner, links, sessions, call, worker, tx, now>>

delete_domain ==
    /\ MayWrite /\ ~domain.deleted
    /\ domain' = [domain EXCEPT !.status = "deleting", !.deleted = TRUE, !.token = 0]
    /\ UNCHANGED <<backend, operatorSigner, links, sessions, call, worker, tx, now>>

lease_domain ==
    /\ MayWrite /\ ~worker.busy /\ ~domain.deleted /\ domain.due <= now
    /\ worker' = [busy |-> TRUE, token |-> domain.token, until |-> now + Lease,
                  last |-> "done"]
    /\ domain' = [domain EXCEPT !.due = now + Lease]
    /\ UNCHANGED <<backend, operatorSigner, links, sessions, call, tx, now>>

NextCheck_BacksOff(d, passing, at) == at + Backoff
NextCheck(d, passing, at) ==
    IF ~passing /\ fast_recheck_due(d, at) /\ FastInterval < Backoff
    THEN at + FastInterval ELSE at + Backoff

Finished(how) == worker' = [worker EXCEPT !.busy = FALSE, !.last = how]

\* The run raises an exception or the process ends: the lease stays.
RunFails ==
    /\ worker.busy
    /\ Finished("failed")
    /\ tx' = IF tx.op = "apply" THEN NoTx ELSE tx
    /\ UNCHANGED <<backend, domain, operatorSigner, links, sessions, call, now>>

\* The queries are done: under the lock the domain is read again.  The results
\* of a claim that has changed are discarded and the checks due at once.
process_domain ==
    /\ worker.busy /\ Free
    /\ \/ /\ domain.deleted
          /\ Finished("done") /\ UNCHANGED <<domain, tx>>
       \/ /\ ~domain.deleted /\ domain.token # worker.token
          /\ Finished("done") /\ domain' = [domain EXCEPT !.due = now] /\ UNCHANGED tx
       \/ /\ ~domain.deleted /\ domain.token = worker.token
          /\ lock_application("apply") /\ UNCHANGED <<domain, worker>>
    /\ UNCHANGED <<backend, operatorSigner, links, sessions, call, now>>

\* Both checks and the status, and the commit.
apply_dns_outcomes ==
    /\ worker.busy /\ tx.op = "apply"
    /\ \E passing \in BOOLEAN :
         \E status \in IF passing THEN {"connectable"} ELSE {tx.seen.status, "suspended"} :
           domain' = [domain EXCEPT
                        !.passing = Flushed(tx.seen.passing, passing, @),
                        !.due = Flushed(tx.seen.due, NextCheck(tx.seen, passing, tx.at), @),
                        !.status = Flushed(tx.seen.status, status, @)]
    /\ Finished(IF domain = tx.seen THEN "done" ELSE "overtaken")
    /\ tx' = NoTx
    /\ UNCHANGED <<backend, operatorSigner, links, sessions, call, now>>

Tick == /\ now < MaxClock /\ now' = now + 1
        /\ UNCHANGED <<backend, domain, operatorSigner, links, sessions, call, worker, tx>>

Next ==
    \/ \E x \in OperatorSigners : set_remote_signer(x)
    \/ reset_signer
    \/ \E c \in Calls :
         \/ connect_domain(c)
         \/ \E s \in DOMAIN sessions : apply(c, s)
         \/ SigningFailed(c)
         \/ record_connect(c) \/ CommitRecord(c)
    \/ \E l \in DOMAIN links : connect_returned(l)
    \/ CommitReturn
    \/ \E ttl \in Ttls : create_session(ttl)
    \/ \E s \in DOMAIN sessions : revoke_session(s) \/ check_now(s)
    \/ request_recheck \/ CommitRecheck
    \/ reissue_claim \/ delete_domain
    \/ lease_domain \/ process_domain \/ apply_dns_outcomes \/ RunFails
    \/ Tick

Spec == Init /\ [][Next]_vars

-----------------------------------------------------------------------------
(* Properties. *)

\* A link handed to a customer carries the token of the claim that is live at
\* that moment, although the claim may be re-issued while it is signed.  On
\* PostgreSQL a re-issue or a deletion may still commit after record_connect
\* compared the claim: then the token is the one it read.
LinkNamesLiveClaimStep ==
    \A l \in DOMAIN links' : l \notin DOMAIN links =>
        \/ links'[l].token = domain.token /\ ~domain.deleted
        \/ /\ backend = "postgresql" /\ domain # tx.seen
           /\ links'[l].token = tx.seen.token /\ ~tx.seen.deleted

\* What was in flight when a domain was deleted neither issues nor schedules
\* anything for it; on PostgreSQL a transaction that had read the domain
\* before may still commit, and brings neither the domain nor its claim back.
DeletedStaysQuietStep ==
    domain.deleted /\ (domain' # domain \/ links' # links) =>
        /\ backend = "postgresql"
        /\ ~Free /\ ~tx.seen.deleted /\ tx' = NoTx
        /\ domain'.deleted /\ domain'.token = domain.token

\* Links are counted before they are signed: open requests may exceed the
\* limit together, but those issued and those being signed by fewer than
\* there are requests.
LinksOvershootBounded ==
    InWindow(links) + Cardinality({c \in Calls : call[c].pc \in {"signing", "recording"}})
        <= MaxLinks + Cardinality(Calls) - 1

\* "At most 10 Domain Connect links per domain per hour": the limit as it is
\* documented.
LinksLimited == InWindow(links) <= MaxLinks

\* For FAST_RECHECK_WINDOW after a link was issued or the customer came back,
\* a domain whose checks fail is checked again within FAST_RECHECK_INTERVAL,
\* whatever the worker was doing when the window began; unless the last run
\* failed, which leaves its lease, or (on PostgreSQL) wrote its results over a
\* claim re-issued meanwhile.
FastWhileConnecting ==
    fast_recheck_due(domain, now) /\ ~worker.busy /\ ~domain.passing /\ ~domain.deleted
    => \/ domain.due <= now + FastInterval
       \/ worker.last = "failed" /\ domain.due = worker.until
       \/ worker.last = "overtaken" /\ backend = "postgresql"

\* A link keeps its promises: links signed at the same time exceed the window's
\* limit by fewer than there are requests, and the checks that follow stay due
\* at the fast interval, or at the end of the lease of a run that failed.
LinksKeepTheirPromise == LinksOvershootBounded /\ FastWhileConnecting

\* What LinksFollowTheDomain asks of one step.
LinksFollowTheDomainStep == LinkNamesLiveClaimStep /\ DeletedStaysQuietStep

\* A link is recorded only for the claim that is live then, or was when the
\* recording transaction read it; what was in flight when a domain was deleted
\* issues nothing for it, except what had read it before on PostgreSQL.
LinksFollowTheDomain == [][LinksFollowTheDomainStep]_vars
=============================================================================
