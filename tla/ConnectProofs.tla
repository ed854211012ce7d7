--------------------------- MODULE ConnectProofs ---------------------------
(***************************************************************************)
(* Theorems about Connect, for any number of open requests, any limits,    *)
(* windows and intervals, on either backend.  Co is the part of            *)
(* MCOperations that is Connect, with constants of its own; what is shown  *)
(* of Co!Spec is at the end carried over to the specification the run      *)
(* checks.                                                                 *)
(***************************************************************************)
EXTENDS MCOperations, FiniteSetTheorems, SequenceTheorems, TLAPS

-----------------------------------------------------------------------------
(* Types. *)

DomainRow == [status : {"connectable", "suspended", "deleting"}, deleted : BOOLEAN,
              token : Nat, started : Int, due : Int, passing : BOOLEAN]
Link == [token : Nat, at : Nat, expires : Nat]
Call == [pc : {"idle", "signing", "recording"}, token : Nat, expires : Nat]
Worker == [busy : BOOLEAN, token : Nat, until : Int, last : {"done", "failed", "overtaken"}]
Tx == [op : {"record", "return", "recheck", "apply"}, seen : DomainRow, at : Nat]

TypeInv ==
    /\ connectBackend \in {"sqlite", "postgresql"}
    /\ domain \in DomainRow
    /\ links \in Seq(Link) /\ connectCall \in [Calls -> Call]
    /\ connectWorker \in Worker /\ connectNow \in Nat
    /\ tx = Co!NoTx \/ tx \in Tx

\* What a transaction that holds the application's row has seen: a live domain,
\* and on SQLite the domain as it still is.
Seen ==
    ~Co!Free =>
        /\ ~tx.seen.deleted /\ tx.at <= connectNow /\ tx.seen.started <= tx.at
        /\ connectBackend = "sqlite" => domain = tx.seen

\* One request records: it has the row, and its claim is the one it has seen.
Recording ==
    \A c \in Calls : connectCall[c].pc = "recording" =>
        /\ tx.op = "record" /\ connectCall[c].token = tx.seen.token
        /\ \A d \in Calls : connectCall[d].pc = "recording" => d = c

\* The checks' next time while a transaction is open: as it was seen, reset by
\* a re-issue, or the lease of a worker.
DueMeanwhile ==
    ~Co!Free =>
        \/ domain.due = tx.seen.due \/ domain.due = -1
        \/ /\ connectWorker.busy \/ connectWorker.last = "failed"
           /\ domain.due = connectWorker.until

\* While the worker runs: its lease, or soon.
DueWhileBusy ==
    connectWorker.busy =>
        domain.due = connectWorker.until \/ domain.due <= connectNow + FastInterval

Scheduled ==
    /\ domain.started <= connectNow
    /\ DueMeanwhile /\ DueWhileBusy /\ Co!FastWhileConnecting

Held == TypeInv /\ Seen /\ Recording /\ Scheduled

LEMMA InitHeld == ASSUME Co!ConnectConstants, Co!Init PROVE Held
<1>1. domain \in DomainRow /\ domain.started <= 0 /\ domain.due = -1
  BY DEF Co!Init, Co!ConnectConstants, DomainRow, Co!Unset
<1>2. connectCall \in [Calls -> Call] /\ \A c \in Calls : connectCall[c].pc = "idle"
  BY DEF Co!Init, Call, Co!Idle
<1>3. /\ links \in Seq(Link) /\ connectNow = 0 /\ tx = Co!NoTx
      /\ connectBackend \in {"sqlite", "postgresql"}
  BY DEF Co!Init, Co!ConnectConstants
<1>4. connectWorker \in Worker /\ ~connectWorker.busy
  BY DEF Co!Init, Worker
<1>5. TypeInv
  BY <1>1, <1>2, <1>3, <1>4 DEF TypeInv
<1>6. Seen /\ Recording
  BY <1>2, <1>3 DEF Seen, Recording, Co!Free, Co!NoTx
<1>7. Scheduled
  BY <1>1, <1>3, <1>4
     DEF Scheduled, DueMeanwhile, DueWhileBusy, Co!FastWhileConnecting, Co!ConnectConstants, Co!Free, Co!NoTx
<1> QED
  BY <1>5, <1>6, <1>7 DEF Held

LEMMA IdleCall == Co!Idle \in Call /\ Co!Idle.pc = "idle"
BY DEF Co!Idle, Call

-----------------------------------------------------------------------------
(* What each step does, as far as links and the domain are concerned. *)

\* Nothing but the requests changes.
LEMMA SameSchedule ==
    ASSUME Scheduled, Seen, UNCHANGED <<connectBackend, domain, connectWorker, tx, connectNow>>
    PROVE  Scheduled' /\ Seen'
BY DEF Scheduled, Seen, DueMeanwhile, DueWhileBusy, Co!FastWhileConnecting, Co!fast_recheck_due, Co!Free

\* A request is prepared, or ends with nothing done.
LEMMA CallStep ==
    ASSUME Co!ConnectConstants, Held, NEW c \in Calls,
           Co!prepare_connect(c) \/ Co!SigningFailed(c)
    PROVE  /\ Held' /\ UNCHANGED <<domain, links, connectNow>>
           /\ \A d \in Calls \ {c} : connectCall'[d] = connectCall[d]
           /\ connectCall'[c].pc = "signing" => Co!prepare_connect(c)
           /\ connectCall'[c].pc # "recording"
<1>0. connectNow + Window \in Nat /\ domain.token \in Nat /\ connectCall \in [Calls -> Call]
  BY DEF Held, TypeInv, DomainRow, Co!ConnectConstants
<1>u. UNCHANGED <<connectBackend, domain, links, connectWorker, tx, connectNow>>
  BY DEF Co!prepare_connect, Co!SigningFailed
<1>1. CASE Co!prepare_connect(c)
  <2> DEFINE x == [pc |-> "signing", token |-> domain.token, expires |-> connectNow + Window]
  <2>1. x \in Call /\ x.pc = "signing"
    BY <1>0 DEF Call
  <2>2. connectCall' = [connectCall EXCEPT ![c] = x]
    BY <1>1 DEF Co!prepare_connect
  <2> HIDE DEF x
  <2>3. connectCall' \in [Calls -> Call] /\ connectCall'[c] = x
        /\ \A d \in Calls \ {c} : connectCall'[d] = connectCall[d]
    BY <1>0, <2>1, <2>2
  <2>4. TypeInv' /\ Recording'
    BY <1>u, <2>1, <2>3 DEF Held, TypeInv, Recording
  <2> QED
    BY <1>1, <1>u, <2>1, <2>3, <2>4, SameSchedule DEF Held
<1>2. CASE Co!SigningFailed(c)
  <2>2. connectCall' = [connectCall EXCEPT ![c] = Co!Idle]
    BY <1>2 DEF Co!SigningFailed
  <2>3. connectCall' \in [Calls -> Call] /\ connectCall'[c] = Co!Idle
        /\ \A d \in Calls \ {c} : connectCall'[d] = connectCall[d]
    BY <1>0, <2>2, IdleCall
  <2>4. TypeInv' /\ Recording'
    BY <1>u, <2>3, IdleCall DEF Held, TypeInv, Recording
  <2> QED
    BY <1>u, <2>3, <2>4, IdleCall, SameSchedule DEF Held
<1> QED
  BY <1>1, <1>2

\* The row is taken and the domain read: what has been seen is the domain.
LEMMA Locked ==
    ASSUME Held, NEW op \in {"record", "return", "recheck", "apply"},
           Co!lock_application(op), ~domain.deleted,
           UNCHANGED <<connectBackend, domain, connectWorker, connectNow>>
    PROVE  /\ Co!Free /\ tx' \in Tx /\ tx'.op = op /\ tx'.seen = domain
           /\ Seen' /\ Scheduled'
<1> DEFINE x == [op |-> op, seen |-> domain, at |-> connectNow]
<1>1. Co!Free /\ tx' = x
  BY DEF Co!lock_application
<1>2. x \in Tx /\ x.op = op /\ x.seen = domain /\ x.at = connectNow
  BY DEF Held, TypeInv, Tx
<1>3. domain \in DomainRow /\ connectNow \in Nat /\ domain.started \in Int
  BY DEF Held, TypeInv, DomainRow
<1> HIDE DEF x
<1>4. Seen'
  BY <1>1, <1>2, <1>3 DEF Held, Seen, Scheduled
<1>5. Scheduled'
  BY <1>1, <1>2, <1>3
     DEF Held, Scheduled, DueMeanwhile, DueWhileBusy, Co!FastWhileConnecting, Co!fast_recheck_due
<1> QED
  BY <1>1, <1>2, <1>4, <1>5

\* record_connect takes the row for the claim it compared, or ends the request.
LEMMA RecordStep ==
    ASSUME Co!ConnectConstants, Held, NEW c \in Calls, Co!record_connect(c)
    PROVE  /\ Held' /\ UNCHANGED <<domain, links, connectNow>>
           /\ \A d \in Calls \ {c} : connectCall'[d] = connectCall[d]
           /\ connectCall[c].pc = "signing"
<1>u. UNCHANGED <<connectBackend, domain, links, connectWorker, connectNow>>
      /\ connectCall[c].pc = "signing" /\ Co!Free
  BY DEF Co!record_connect, Co!lock_application
<1>0. connectCall \in [Calls -> Call] /\ \A d \in Calls : connectCall[d].pc # "recording"
  BY <1>u DEF Held, TypeInv, Recording, Co!Free
<1>1. CASE /\ ~domain.deleted /\ Co!StillClaimed(c) /\ Co!lock_application("record")
           /\ connectCall' = [connectCall EXCEPT ![c].pc = "recording"]
  <2>1. tx' \in Tx /\ tx'.op = "record" /\ tx'.seen = domain /\ Seen' /\ Scheduled'
    BY <1>1, <1>u, Locked
  <2>2. [connectCall[c] EXCEPT !.pc = "recording"] \in Call
    BY <1>0 DEF Call
  <2>3. /\ connectCall' \in [Calls -> Call]
        /\ \A d \in Calls \ {c} : connectCall'[d] = connectCall[d]
        /\ connectCall'[c].token = connectCall[c].token
    BY <1>0, <1>1, <2>2 DEF Call
  <2>5. TypeInv'
    BY <1>u, <2>1, <2>3 DEF Held, TypeInv
  <2>6. Recording'
    BY <1>0, <1>1, <2>1, <2>3 DEF Recording, Co!StillClaimed
  <2> QED
    BY <1>u, <2>1, <2>3, <2>5, <2>6 DEF Held
<1>2. CASE tx' = tx /\ connectCall' = [connectCall EXCEPT ![c] = Co!Idle]
  <2>3. connectCall' \in [Calls -> Call] /\ connectCall'[c] = Co!Idle
        /\ \A d \in Calls \ {c} : connectCall'[d] = connectCall[d]
    BY <1>0, <1>2, IdleCall
  <2>4. TypeInv' /\ Recording'
    BY <1>0, <1>u, <1>2, <2>3, IdleCall DEF Held, TypeInv, Recording
  <2> QED
    BY <1>2, <1>u, <2>3, <2>4, SameSchedule DEF Held
<1> QED
  BY <1>1, <1>2 DEF Co!record_connect

\* connect_returned and request_recheck take the row of a live domain.
LEMMA BeginStep ==
    ASSUME Co!ConnectConstants, Held,
           (\E l \in DOMAIN links : Co!connect_returned(l)) \/ Co!request_recheck
    PROVE  Held' /\ UNCHANGED <<domain, links, connectCall, connectNow>>
<1>1. PICK op \in {"return", "recheck"} :
        /\ Co!lock_application(op) /\ ~domain.deleted
        /\ UNCHANGED <<connectBackend, domain, links, connectCall, connectWorker, connectNow>>
  BY DEF Co!connect_returned, Co!request_recheck
<1>2. Co!Free /\ tx' \in Tx /\ Seen' /\ Scheduled'
  BY <1>1, Locked
<1>3. \A c \in Calls : connectCall[c].pc # "recording"
  BY <1>2 DEF Held, Recording, Co!Free
<1>4. TypeInv' /\ Recording'
  BY <1>1, <1>2, <1>3 DEF Held, TypeInv, Recording
<1> QED
  BY <1>1, <1>2, <1>4 DEF Held

\* The domain's row while a transaction is open.
LEMMA RowTypes ==
    ASSUME Held
    PROVE  /\ domain \in DomainRow /\ domain.due \in Int /\ domain.started \in Int
           /\ domain.token \in Nat /\ connectNow \in Nat
           /\ ~Co!Free => /\ tx \in Tx /\ tx.seen \in DomainRow /\ tx.seen.due \in Int
                          /\ tx.seen.started \in Int /\ tx.at \in Nat /\ tx.at <= connectNow
                          /\ tx.seen.started <= tx.at /\ ~tx.seen.deleted
BY DEF Held, TypeInv, Seen, DomainRow, Tx, Co!Free, Co!NoTx

LEMMA RowWith ==
    ASSUME domain \in DomainRow, NEW s \in Int, NEW x \in Int,
           domain' = [domain EXCEPT !.started = s, !.due = x]
    PROVE  /\ domain' \in DomainRow /\ domain'.started = s /\ domain'.due = x
           /\ domain'.deleted = domain.deleted /\ domain'.token = domain.token
BY DEF DomainRow

\* A commit writes what its transaction computed over the row as it is now: a
\* deleted row was seen live, which only PostgreSQL allows.
LEMMA WrittenQuietly ==
    ASSUME Held, ~Co!Free, tx' = Co!NoTx, domain'.deleted = domain.deleted,
           domain'.token = domain.token
    PROVE  Co!DeletedStaysQuietStep
BY RowTypes DEF Held, TypeInv, Seen, Co!DeletedStaysQuietStep

\* The row is given back.
LEMMA Released ==
    ASSUME tx' = Co!NoTx
    PROVE  Seen' /\ DueMeanwhile'
BY DEF Seen, DueMeanwhile, Co!NoTx, Co!Free

\* The next time a request's commit leaves, if it starts or extends the window.
LEMMA Hastened ==
    ASSUME Co!ConnectConstants, Held, ~Co!Free, NEW at \in Nat, at <= connectNow + FastInterval,
           domain' \in DomainRow, domain'.started = tx.at,
           domain'.due = Co!Flushed(tx.seen.due, Co!make_checks_due(tx.seen.due, at), domain.due),
           tx' = Co!NoTx, UNCHANGED <<connectBackend, connectWorker, connectNow>>
    PROVE  Seen' /\ Scheduled'
<1>0. FastInterval \in Nat /\ FastWindow \in Nat
  BY DEF Co!ConnectConstants
<1>1. domain'.due <= connectNow + FastInterval \/ domain'.due = domain.due
  BY <1>0, RowTypes DEF Co!Flushed, Co!make_checks_due, Co!Unset
<1>2. \/ domain'.due <= connectNow + FastInterval
      \/ /\ connectWorker.busy \/ connectWorker.last = "failed"
         /\ domain'.due = connectWorker.until
  <2>1. CASE domain'.due <= connectNow + FastInterval
    BY <2>1
  <2>2. CASE domain'.due = domain.due /\ ~(domain'.due <= connectNow + FastInterval)
    <3>1. domain.due # -1
      BY <1>0, <2>2, RowTypes
    <3>2. domain.due # tx.seen.due
      BY <1>0, <2>2, RowTypes DEF Co!Flushed, Co!make_checks_due, Co!Unset
    <3> QED
      BY <2>2, <3>1, <3>2 DEF Held, Scheduled, DueMeanwhile
  <2> QED
    BY <1>1, <2>1, <2>2
<1>3. DueWhileBusy'
  BY <1>2 DEF DueWhileBusy
<1>4. Co!FastWhileConnecting'
  BY <1>2 DEF Co!FastWhileConnecting
<1>5. domain'.started <= connectNow'
  BY RowTypes
<1> QED
  BY <1>3, <1>4, <1>5, Released DEF Scheduled

LEMMA NobodyElseRecords ==
    ASSUME Held, tx.op # "record"
    PROVE  \A c \in Calls : connectCall[c].pc # "recording"
BY DEF Held, Recording

\* The commit of record_connect.
LEMMA CommitRecordStep ==
    ASSUME Co!ConnectConstants, Held, NEW c \in Calls, Co!CommitRecord(c)
    PROVE  /\ Held' /\ Co!LinksFollowTheDomainStep /\ connectNow' = connectNow
           /\ \A d \in Calls \ {c} : connectCall'[d] = connectCall[d]
           /\ connectCall[c].pc = "recording" /\ connectCall'[c].pc = "idle"
           /\ Len(links') = Len(links) + 1 /\ \A i \in 1..Len(links) : links'[i] = links[i]
<1> DEFINE at == tx.at + FastInterval
           due == Co!Flushed(tx.seen.due, Co!make_checks_due(tx.seen.due, at), domain.due)
           x == [token |-> connectCall[c].token, at |-> tx.at, expires |-> connectCall[c].expires]
<1>1. /\ domain' = [domain EXCEPT !.started = tx.at, !.due = due]
      /\ links' = Append(links, x)
      /\ connectCall' = [connectCall EXCEPT ![c] = Co!Idle]
      /\ tx' = Co!NoTx /\ UNCHANGED <<connectBackend, connectWorker, connectNow>>
      /\ connectCall[c].pc = "recording"
  BY DEF Co!CommitRecord
<1>2. ~Co!Free /\ connectCall[c].token = tx.seen.token
  BY <1>1 DEF Held, Recording, Co!Free
<1>3. FastInterval \in Nat /\ at \in Nat /\ at <= connectNow + FastInterval
  BY <1>2, RowTypes DEF Co!ConnectConstants
<1>4. connectCall \in [Calls -> Call] /\ connectCall[c] \in Call /\ links \in Seq(Link)
  BY DEF Held, TypeInv
<1>5. x \in Link /\ x.token = tx.seen.token
  BY <1>2, <1>4, RowTypes DEF Call, Link
<1> HIDE DEF at, x
<1>6. due \in Int /\ tx.at \in Int /\ domain \in DomainRow
  BY <1>2, <1>3, RowTypes DEF Co!Flushed, Co!make_checks_due
<1>a. due = Co!Flushed(tx.seen.due, Co!make_checks_due(tx.seen.due, at), domain.due)
  OBVIOUS
<1> HIDE DEF due
<1>7. /\ domain' \in DomainRow /\ domain'.started = tx.at /\ domain'.deleted = domain.deleted
      /\ domain'.token = domain.token /\ domain'.due = due
  BY <1>1, <1>6, RowWith
<1>8. Seen' /\ Scheduled'
  BY <1>1, <1>2, <1>3, <1>7, <1>a, Hastened
<1>9. /\ links' \in Seq(Link) /\ Len(links') = Len(links) + 1 /\ Len(links) \in Nat
      /\ DOMAIN links = 1..Len(links) /\ DOMAIN links' = 1..(Len(links) + 1)
      /\ \A i \in 1..Len(links) : links'[i] = links[i]
      /\ links'[Len(links) + 1] = x
  BY <1>1, <1>4, <1>5, AppendProperties, LenProperties
<1>10. /\ connectCall' \in [Calls -> Call] /\ connectCall'[c] = Co!Idle
       /\ \A d \in Calls \ {c} : connectCall'[d] = connectCall[d]
  BY <1>1, <1>4, IdleCall
<1>11. TypeInv'
  BY <1>1, <1>7, <1>9, <1>10 DEF Held, TypeInv
<1>12. Recording'
  BY <1>1, <1>10, IdleCall DEF Held, Recording
<1>13. Co!LinkNamesLiveClaimStep
  <2> SUFFICES ASSUME NEW l \in DOMAIN links', l \notin DOMAIN links
               PROVE  \/ links'[l].token = domain.token /\ ~domain.deleted
                      \/ /\ connectBackend = "postgresql" /\ domain # tx.seen
                         /\ links'[l].token = tx.seen.token /\ ~tx.seen.deleted
    BY DEF Co!LinkNamesLiveClaimStep
  <2>1. l = Len(links) + 1
    BY <1>9
  <2>2. links'[l].token = tx.seen.token
    BY <1>5, <1>9, <2>1
  <2> QED
    BY <1>2, <2>2, RowTypes DEF Held, TypeInv, Seen
<1>14. Co!DeletedStaysQuietStep
  BY <1>1, <1>2, <1>7, WrittenQuietly
<1> QED
  BY <1>1, <1>8, <1>9, <1>10, <1>11, <1>12, <1>13, <1>14, IdleCall
     DEF Held, Co!LinksFollowTheDomainStep

\* The commits of connect_returned and request_recheck.
LEMMA CommitStep ==
    ASSUME Co!ConnectConstants, Held, Co!CommitReturn \/ Co!CommitRecheck
    PROVE  /\ Held' /\ Co!LinksFollowTheDomainStep
           /\ UNCHANGED <<links, connectCall, connectNow>>
<1>1. /\ ~Co!Free /\ tx.op # "record" /\ tx' = Co!NoTx
      /\ UNCHANGED <<connectBackend, links, connectCall, connectWorker, connectNow>>
  BY DEF Co!CommitReturn, Co!CommitRecheck, Co!Free
<1>2. FastInterval \in Nat /\ tx.at \in Nat /\ tx.at <= connectNow + FastInterval
  BY <1>1, RowTypes DEF Co!ConnectConstants
<1>3. /\ Scheduled' /\ Seen' /\ domain' \in DomainRow
      /\ domain'.deleted = domain.deleted /\ domain'.token = domain.token
  <2>1. CASE Co!CommitReturn
    <3> DEFINE due == Co!Flushed(tx.seen.due, Co!make_checks_due(tx.seen.due, tx.at), domain.due)
    <3>1. domain' = [domain EXCEPT !.started = tx.at, !.due = due]
      BY <2>1 DEF Co!CommitReturn
    <3>2. due \in Int /\ tx.at \in Int /\ domain \in DomainRow
      BY <1>1, <1>2, RowTypes DEF Co!Flushed, Co!make_checks_due
    <3>3. due = Co!Flushed(tx.seen.due, Co!make_checks_due(tx.seen.due, tx.at), domain.due)
      OBVIOUS
    <3> HIDE DEF due
    <3>4. /\ domain' \in DomainRow /\ domain'.started = tx.at /\ domain'.deleted = domain.deleted
          /\ domain'.token = domain.token /\ domain'.due = due
      BY <3>1, <3>2, RowWith
    <3> QED
      BY <1>1, <1>2, <3>3, <3>4, Hastened
  <2>2. CASE Co!CommitRecheck
    <3>1. domain' = [domain EXCEPT !.due = Co!Flushed(tx.seen.due, tx.at, domain.due)]
      BY <2>2 DEF Co!CommitRecheck
    <3>2. Co!Flushed(tx.seen.due, tx.at, domain.due) \in {tx.at, domain.due}
      BY DEF Co!Flushed
    <3>3. /\ domain' \in DomainRow /\ domain'.started = domain.started
          /\ domain'.deleted = domain.deleted /\ domain'.token = domain.token
          /\ domain'.passing = domain.passing /\ domain'.due \in {tx.at, domain.due}
      BY <1>1, <1>2, <3>1, <3>2, RowTypes DEF DomainRow
    <3>4. DueWhileBusy' /\ Co!FastWhileConnecting' /\ domain'.started <= connectNow'
      BY <1>1, <1>2, <3>3
         DEF Held, Scheduled, DueWhileBusy, Co!FastWhileConnecting, Co!fast_recheck_due
    <3> QED
      BY <1>1, <3>3, <3>4, Released DEF Scheduled
  <2> QED
    BY <2>1, <2>2
<1>4. TypeInv' /\ Recording'
  BY <1>1, <1>3, NobodyElseRecords DEF Held, TypeInv, Recording
<1>5. Co!LinksFollowTheDomainStep
  BY <1>1, <1>3, WrittenQuietly DEF Co!LinksFollowTheDomainStep, Co!LinkNamesLiveClaimStep
<1> QED
  BY <1>1, <1>3, <1>4, <1>5 DEF Held

\* Re-issues, deletions and leases: they wait for the writer on SQLite.
LEMMA OutsideStep ==
    ASSUME Co!ConnectConstants, Held, Co!reissue_claim \/ Co!delete_domain \/ Co!lease_domain
    PROVE  /\ Held' /\ Co!LinksFollowTheDomainStep
           /\ UNCHANGED <<links, connectCall, connectNow>>
<1>1. /\ Co!MayWrite /\ ~domain.deleted
      /\ UNCHANGED <<connectBackend, links, connectCall, tx, connectNow>>
  BY DEF Co!reissue_claim, Co!delete_domain, Co!lease_domain
<1>2. FastInterval \in Nat /\ Lease \in Nat
  BY DEF Co!ConnectConstants
<1>3. /\ domain' \in DomainRow /\ domain'.started = domain.started /\ connectWorker' \in Worker
      /\ \/ domain'.deleted /\ domain'.due = domain.due /\ connectWorker' = connectWorker
         \/ domain'.due = -1 /\ connectWorker' = connectWorker
         \/ connectWorker'.busy /\ domain'.due = connectWorker'.until
  <2>1. CASE Co!reissue_claim
    <3> DEFINE t == domain.token + 1
    <3>1. /\ domain' = [domain EXCEPT !.token = t, !.due = -1, !.passing = FALSE]
          /\ connectWorker' = connectWorker /\ connectWorker \in Worker
      BY <2>1 DEF Co!reissue_claim, Held, TypeInv, Co!Unset
    <3>a. t \in Nat /\ -1 \in Int
      BY RowTypes
    <3> HIDE DEF t
    <3>2. domain' \in DomainRow /\ domain'.due = -1 /\ domain'.started = domain.started
      BY <3>1, <3>a, RowTypes DEF DomainRow
    <3> QED
      BY <3>1, <3>2
  <2>2. CASE Co!delete_domain
    <3>1. /\ domain' = [domain EXCEPT !.status = "deleting", !.deleted = TRUE, !.token = 0]
          /\ connectWorker' = connectWorker /\ connectWorker \in Worker
      BY <2>2 DEF Co!delete_domain, Held, TypeInv
    <3>2. domain' \in DomainRow /\ domain'.deleted = TRUE /\ domain'.due = domain.due
          /\ domain'.started = domain.started
      BY <3>1, RowTypes DEF DomainRow
    <3> QED
      BY <3>1, <3>2
  <2>3. CASE Co!lease_domain
    BY <1>2, <2>3, RowTypes DEF Co!lease_domain, DomainRow, Worker
  <2> QED
    BY <2>1, <2>2, <2>3
<1>4. TypeInv' /\ Recording'
  BY <1>1, <1>3 DEF Held, TypeInv, Recording
<1>5. Seen'
  BY <1>1 DEF Held, Seen, Co!MayWrite, Co!Free
<1>6. DueMeanwhile' /\ DueWhileBusy' /\ Co!FastWhileConnecting'
  BY <1>1, <1>2, <1>3, RowTypes
     DEF Held, Scheduled, DueMeanwhile, DueWhileBusy, Co!FastWhileConnecting, Co!Free
<1>7. Scheduled'
  BY <1>1, <1>3, <1>6 DEF Held, Scheduled
<1>8. Co!LinksFollowTheDomainStep
  BY <1>1 DEF Co!LinksFollowTheDomainStep, Co!LinkNamesLiveClaimStep, Co!DeletedStaysQuietStep
<1> QED
  BY <1>1, <1>4, <1>5, <1>7, <1>8 DEF Held

LEMMA FinishedWorker ==
    ASSUME Held, NEW how \in {"done", "failed", "overtaken"}, Co!Finished(how)
    PROVE  /\ connectWorker' \in Worker /\ ~connectWorker'.busy /\ connectWorker'.last = how
           /\ connectWorker'.until = connectWorker.until
BY DEF Held, TypeInv, Worker, Co!Finished

\* A run that fails leaves its lease and gives the row back.
LEMMA FailStep ==
    ASSUME Co!ConnectConstants, Held, Co!RunFails
    PROVE  /\ Held' /\ Co!LinksFollowTheDomainStep
           /\ UNCHANGED <<links, connectCall, connectNow>>
<1>1. /\ connectWorker.busy /\ Co!Finished("failed")
      /\ UNCHANGED <<connectBackend, domain, links, connectCall, connectNow>>
      /\ tx' = IF tx.op = "apply" THEN Co!NoTx ELSE tx
  BY DEF Co!RunFails
<1>2. /\ connectWorker' \in Worker /\ ~connectWorker'.busy /\ connectWorker'.last = "failed"
      /\ connectWorker'.until = connectWorker.until
  BY <1>1, FinishedWorker
<1>3. TypeInv' /\ Recording'
  <2>1. CASE tx.op = "apply"
    BY <1>1, <1>2, <2>1, NobodyElseRecords DEF Held, TypeInv, Recording
  <2>2. CASE tx' = tx
    BY <1>1, <1>2, <2>2 DEF Held, TypeInv, Recording
  <2> QED
    BY <1>1, <2>1, <2>2
<1>4. Seen' /\ DueMeanwhile'
  <2>1. CASE tx' = Co!NoTx
    BY <2>1, Released
  <2>2. CASE tx' = tx
    BY <1>1, <1>2, <2>2 DEF Held, Seen, Scheduled, DueMeanwhile, Co!Free
  <2> QED
    BY <1>1, <2>1, <2>2
<1>5. DueWhileBusy' /\ Co!FastWhileConnecting' /\ domain'.started <= connectNow'
  BY <1>1, <1>2 DEF Held, Scheduled, DueWhileBusy, Co!FastWhileConnecting
<1>6. Co!LinksFollowTheDomainStep
  BY <1>1 DEF Co!LinksFollowTheDomainStep, Co!LinkNamesLiveClaimStep, Co!DeletedStaysQuietStep
<1> QED
  BY <1>1, <1>3, <1>4, <1>5, <1>6 DEF Held, Scheduled

\* The worker reads the domain again under the lock.
LEMMA ReadAgainStep ==
    ASSUME Co!ConnectConstants, Held, Co!process_domain
    PROVE  /\ Held' /\ Co!LinksFollowTheDomainStep
           /\ UNCHANGED <<links, connectCall, connectNow>>
<1>1. /\ connectWorker.busy /\ Co!Free
      /\ UNCHANGED <<connectBackend, links, connectCall, connectNow>>
  BY DEF Co!process_domain
<1>n. \A c \in Calls : connectCall[c].pc # "recording"
  BY <1>1, NobodyElseRecords DEF Co!Free
<1>2. CASE domain.deleted /\ Co!Finished("done") /\ UNCHANGED <<domain, tx>>
  <2>1. connectWorker' \in Worker /\ ~connectWorker'.busy
    BY <1>2, FinishedWorker
  <2>2. TypeInv' /\ Recording'
    BY <1>1, <1>2, <1>n, <2>1 DEF Held, TypeInv, Recording
  <2>3. Seen' /\ Scheduled'
    BY <1>1, <1>2, <2>1
       DEF Held, Seen, Scheduled, DueMeanwhile, DueWhileBusy, Co!FastWhileConnecting, Co!Free
  <2> QED
    BY <1>1, <1>2, <2>2, <2>3
       DEF Held, Co!LinksFollowTheDomainStep, Co!LinkNamesLiveClaimStep, Co!DeletedStaysQuietStep
<1>3. CASE /\ ~domain.deleted /\ Co!Finished("done") /\ UNCHANGED tx
           /\ domain' = [domain EXCEPT !.due = connectNow]
  <2>1. connectWorker' \in Worker /\ ~connectWorker'.busy
    BY <1>3, FinishedWorker
  <2>2. domain' \in DomainRow /\ domain'.started = domain.started /\ domain'.due = connectNow
    BY <1>3, RowTypes DEF DomainRow
  <2>3. TypeInv' /\ Recording'
    BY <1>1, <1>3, <1>n, <2>1, <2>2 DEF Held, TypeInv, Recording
  <2>4. FastInterval \in Nat
    BY DEF Co!ConnectConstants
  <2>5. Seen' /\ Scheduled'
    BY <1>1, <1>3, <2>1, <2>2, <2>4, RowTypes
       DEF Held, Seen, Scheduled, DueMeanwhile, DueWhileBusy, Co!FastWhileConnecting, Co!Free
  <2> QED
    BY <1>1, <1>3, <2>3, <2>5
       DEF Held, Co!LinksFollowTheDomainStep, Co!LinkNamesLiveClaimStep, Co!DeletedStaysQuietStep
<1>4. CASE /\ ~domain.deleted /\ Co!lock_application("apply") /\ UNCHANGED <<domain, connectWorker>>
  <2>1. tx' \in Tx /\ Seen' /\ Scheduled'
    BY <1>1, <1>4, Locked
  <2>2. TypeInv' /\ Recording'
    BY <1>1, <1>4, <1>n, <2>1 DEF Held, TypeInv, Recording
  <2> QED
    BY <1>1, <1>4, <2>1, <2>2
       DEF Held, Co!LinksFollowTheDomainStep, Co!LinkNamesLiveClaimStep, Co!DeletedStaysQuietStep
<1> QED
  BY <1>2, <1>3, <1>4 DEF Co!process_domain

\* The results of a run are committed.
LEMMA ApplyStep ==
    ASSUME Co!ConnectConstants, Held, Co!apply_dns_outcomes
    PROVE  /\ Held' /\ Co!LinksFollowTheDomainStep
           /\ UNCHANGED <<links, connectCall, connectNow>>
<1>1. /\ tx.op = "apply" /\ ~Co!Free /\ tx' = Co!NoTx
      /\ Co!Finished(IF domain = tx.seen THEN "done" ELSE "overtaken")
      /\ UNCHANGED <<connectBackend, links, connectCall, connectNow>>
  BY DEF Co!apply_dns_outcomes, Co!Free
<1>2. PICK passing \in BOOLEAN :
        \E status \in IF passing THEN {"connectable"} ELSE {tx.seen.status, "suspended"} :
           domain' = [domain EXCEPT
                        !.passing = Co!Flushed(tx.seen.passing, passing, domain.passing),
                        !.due = Co!Flushed(tx.seen.due, Co!NextCheck(tx.seen, passing, tx.at), domain.due),
                        !.status = Co!Flushed(tx.seen.status, status, domain.status)]
  BY DEF Co!apply_dns_outcomes
<1>3. PICK status \in IF passing THEN {"connectable"} ELSE {tx.seen.status, "suspended"} :
           domain' = [domain EXCEPT
                        !.passing = Co!Flushed(tx.seen.passing, passing, domain.passing),
                        !.due = Co!Flushed(tx.seen.due, Co!NextCheck(tx.seen, passing, tx.at), domain.due),
                        !.status = Co!Flushed(tx.seen.status, status, domain.status)]
  BY <1>2
<1> DEFINE p == Co!Flushed(tx.seen.passing, passing, domain.passing)
           n == Co!NextCheck(tx.seen, passing, tx.at)
           t == Co!Flushed(tx.seen.due, n, domain.due)
           s == Co!Flushed(tx.seen.status, status, domain.status)
<1>4. FastInterval \in Nat /\ FastWindow \in Nat /\ Backoff \in Nat
  BY DEF Co!ConnectConstants
<1>5. /\ n \in Int /\ n \in {tx.at + FastInterval, tx.at + Backoff}
      /\ ~passing /\ Co!fast_recheck_due(tx.seen, tx.at) => n <= tx.at + FastInterval
  BY <1>1, <1>4, RowTypes DEF Co!NextCheck
<1>6. /\ t \in Int /\ p \in BOOLEAN /\ s \in {"connectable", "suspended", "deleting"}
      /\ domain = tx.seen => t = n /\ p = passing
  <2>1. tx.seen.status \in {"connectable", "suspended", "deleting"} /\ domain.passing \in BOOLEAN
        /\ domain.status \in {"connectable", "suspended", "deleting"}
    BY <1>1, RowTypes DEF DomainRow
  <2>2. status \in {"connectable", "suspended", "deleting"}
    BY <2>1
  <2>3. s \in {"connectable", "suspended", "deleting"}
    BY <2>1, <2>2 DEF Co!Flushed
  <2>4. t \in Int /\ (domain = tx.seen => t = n)
    BY <1>5, RowTypes DEF Co!Flushed
  <2>5. p \in BOOLEAN /\ (domain = tx.seen => p = passing)
    BY <2>1 DEF Co!Flushed
  <2> QED
    BY <2>3, <2>4, <2>5
<1>7. domain' = [domain EXCEPT !.passing = p, !.due = t, !.status = s]
  BY <1>3
<1> HIDE DEF p, n, t, s
<1>8. /\ domain' \in DomainRow /\ domain'.started = domain.started /\ domain'.due = t
      /\ domain'.passing = p /\ domain'.deleted = domain.deleted /\ domain'.token = domain.token
  BY <1>6, <1>7, RowTypes DEF DomainRow
<1>9. /\ connectWorker' \in Worker /\ ~connectWorker'.busy
      /\ domain # tx.seen => connectWorker'.last = "overtaken"
  <2>1. CASE domain = tx.seen
    BY <1>1, <2>1, FinishedWorker
  <2>2. CASE domain # tx.seen
    BY <1>1, <2>2, FinishedWorker
  <2> QED
    BY <2>1, <2>2
<1>10. Co!FastWhileConnecting'
  <2>1. CASE domain # tx.seen
    BY <1>1, <1>9, <2>1 DEF Held, TypeInv, Seen, Co!FastWhileConnecting
  <2>2. CASE domain = tx.seen
    <3> SUFFICES ASSUME Co!fast_recheck_due(domain', connectNow'), ~p
                 PROVE  domain'.due <= connectNow' + FastInterval
      BY <1>8 DEF Co!FastWhileConnecting
    <3>1. Co!fast_recheck_due(tx.seen, tx.at)
      BY <1>1, <1>4, <1>8, <2>2, RowTypes DEF Co!fast_recheck_due
    <3>2. n <= tx.at + FastInterval
      BY <1>5, <1>6, <2>2, <3>1
    <3> QED
      BY <1>1, <1>4, <1>5, <1>6, <1>8, <2>2, <3>2, RowTypes
  <2> QED
    BY <2>1, <2>2
<1>11. Scheduled' /\ Seen'
  BY <1>1, <1>8, <1>9, <1>10, Released DEF Held, Scheduled, DueWhileBusy
<1>12. TypeInv' /\ Recording'
  BY <1>1, <1>8, <1>9, NobodyElseRecords DEF Held, TypeInv, Recording
<1>13. Co!LinksFollowTheDomainStep
  BY <1>1, <1>8, WrittenQuietly DEF Co!LinksFollowTheDomainStep, Co!LinkNamesLiveClaimStep
<1> QED
  BY <1>1, <1>11, <1>12, <1>13 DEF Held

\* Signers and setup pages are not the domain's.
LEMMA QuietStep ==
    ASSUME Held,
           \/ \E x \in OperatorSigners : Co!set_remote_signer(x)
           \/ Co!reset_signer
           \/ \E ttl \in Ttls : Co!create_session(ttl)
           \/ \E s \in DOMAIN sessions : Co!revoke_session(s)
           \/ UNCHANGED Co!vars
    PROVE  Held' /\ UNCHANGED <<domain, links, connectCall, connectNow>>
<1>1. UNCHANGED <<connectBackend, domain, links, connectCall, connectWorker, tx, connectNow>>
  BY DEF Co!set_remote_signer, Co!reset_signer, Co!create_session, Co!revoke_session, Co!vars
<1>2. TypeInv' /\ Recording'
  BY <1>1 DEF Held, TypeInv, Recording
<1> QED
  BY <1>1, <1>2, SameSchedule DEF Held

LEMMA TickStep ==
    ASSUME Co!ConnectConstants, Held, Co!Tick
    PROVE  Held' /\ UNCHANGED <<domain, links, connectCall>> /\ connectNow' = connectNow + 1
<1>1. /\ UNCHANGED <<connectBackend, domain, links, connectCall, connectWorker, tx>>
      /\ connectNow' = connectNow + 1
  BY DEF Co!Tick
<1>2. FastInterval \in Nat /\ FastWindow \in Nat /\ connectNow \in Nat /\ domain.started \in Int
      /\ domain.due \in Int
  BY RowTypes DEF Co!ConnectConstants
<1>3. TypeInv' /\ Recording' /\ DueMeanwhile'
  BY <1>1, <1>2 DEF Held, TypeInv, Recording, Scheduled, DueMeanwhile, Co!Free
<1>4. Seen'
  BY <1>1, <1>2, RowTypes DEF Held, Seen, Co!Free
<1>5. domain'.started <= connectNow' /\ DueWhileBusy'
  BY <1>1, <1>2 DEF Held, Scheduled, DueWhileBusy
<1>6. Co!fast_recheck_due(domain', connectNow') => Co!fast_recheck_due(domain, connectNow)
  BY <1>1, <1>2 DEF Held, Scheduled, Co!fast_recheck_due
<1>7. Co!FastWhileConnecting'
  BY <1>1, <1>2, <1>6 DEF Held, Scheduled, Co!FastWhileConnecting
<1> QED
  BY <1>1, <1>3, <1>4, <1>5, <1>7 DEF Held, Scheduled

\* Every step, by what it does.
LEMMA Steps ==
    ASSUME [Co!Next]_(Co!vars)
    PROVE  \/ \E c \in Calls : Co!prepare_connect(c) \/ Co!SigningFailed(c)
           \/ \E c \in Calls : Co!record_connect(c)
           \/ \E c \in Calls : Co!CommitRecord(c)
           \/ (\E l \in DOMAIN links : Co!connect_returned(l)) \/ Co!request_recheck
           \/ Co!CommitReturn \/ Co!CommitRecheck
           \/ Co!reissue_claim \/ Co!delete_domain \/ Co!lease_domain
           \/ Co!RunFails \/ Co!process_domain \/ Co!apply_dns_outcomes
           \/ (\/ \E x \in OperatorSigners : Co!set_remote_signer(x)
               \/ Co!reset_signer
               \/ \E ttl \in Ttls : Co!create_session(ttl)
               \/ \E s \in DOMAIN sessions : Co!revoke_session(s)
               \/ UNCHANGED Co!vars)
           \/ Co!Tick
BY DEF Co!Next, Co!connect_domain, Co!apply, Co!check_now

LEMMA HeldStep == ASSUME Co!ConnectConstants, Held, [Co!Next]_(Co!vars) PROVE Held'
BY CallStep, RecordStep, CommitRecordStep, BeginStep, CommitStep, OutsideStep, FailStep,
   ReadAgainStep, ApplyStep, QuietStep, TickStep, Steps

-----------------------------------------------------------------------------
(* The limit. *)

\* The instance counts as FiniteSets does.
LEMMA SameCounting ==
    \A S : (Co!IsFiniteSet(S) <=> IsFiniteSet(S)) /\ Co!Cardinality(S) = Cardinality(S)
BY DEF Co!IsFiniteSet, IsFiniteSet, Co!Cardinality, Cardinality

Signing == {c \in Calls : connectCall[c].pc \in {"signing", "recording"}}
Recent == {i \in DOMAIN links : links[i].at > connectNow - Window}

LEMMA Counted ==
    ASSUME Co!ConnectConstants, Held
    PROVE  /\ IsFiniteSet(Signing) /\ IsFiniteSet(Recent)
           /\ Cardinality(Signing) \in Nat /\ Cardinality(Recent) \in Nat
           /\ Cardinality(Signing) <= Cardinality(Calls) /\ Cardinality(Calls) \in Nat
<1>1. IsFiniteSet(Calls) /\ Signing \subseteq Calls
  BY SameCounting DEF Co!ConnectConstants, Signing
<1>2. IsFiniteSet(Signing) /\ Cardinality(Signing) <= Cardinality(Calls)
  BY <1>1, FS_Subset
<1>3. DOMAIN links = 1..Len(links) /\ Len(links) \in Nat
  BY LenProperties DEF Held, TypeInv
<1>4. IsFiniteSet(DOMAIN links) /\ Recent \subseteq DOMAIN links
  BY <1>3, FS_Interval DEF Recent
<1>5. IsFiniteSet(Recent)
  BY <1>4, FS_Subset
<1> QED
  BY <1>1, <1>2, <1>5, FS_CardinalityType

Overshoot ==
    Cardinality(Recent) + Cardinality(Signing) <= MaxLinks + Cardinality(Calls) - 1

LEMMA SameOvershoot == Overshoot <=> Co!LinksOvershootBounded
BY SameCounting DEF Overshoot, Co!LinksOvershootBounded, Co!InWindow, Recent, Signing

\* Nothing is added: links leave the window and requests end.
LEMMA NoMore ==
    ASSUME Co!ConnectConstants, Held, Overshoot, Held', Recent' \subseteq Recent,
           Signing' \subseteq Signing
    PROVE  Overshoot'
<1>1. Cardinality(Recent') <= Cardinality(Recent) /\ Cardinality(Signing') <= Cardinality(Signing)
      /\ Cardinality(Recent') \in Nat /\ Cardinality(Signing') \in Nat
  BY Counted, FS_Subset, FS_CardinalityType
<1>2. MaxLinks \in Nat /\ Cardinality(Calls) \in Nat /\ Cardinality(Recent) \in Nat
      /\ Cardinality(Signing) \in Nat
  BY Counted DEF Co!ConnectConstants
<1> QED
  BY <1>1, <1>2 DEF Overshoot

LEMMA PrepareCounts ==
    ASSUME Co!ConnectConstants, Held, NEW c \in Calls, Co!prepare_connect(c)
    PROVE  Overshoot'
<1>1. Held' /\ UNCHANGED <<links, connectNow>>
  BY CallStep
<1>2. Recent' = Recent /\ Cardinality(Recent) < MaxLinks
  BY <1>1, SameCounting DEF Co!prepare_connect, Co!LinksAllowed, Co!InWindow, Recent
<1>3. Signing' \subseteq Calls /\ IsFiniteSet(Calls)
  BY SameCounting DEF Signing, Co!ConnectConstants
<1>4. Cardinality(Signing') <= Cardinality(Calls) /\ IsFiniteSet(Signing')
  BY <1>3, FS_Subset
<1>5. Cardinality(Signing') \in Nat /\ Cardinality(Calls) \in Nat /\ Cardinality(Recent) \in Nat
      /\ MaxLinks \in Nat
  BY <1>4, Counted, FS_CardinalityType DEF Co!ConnectConstants
<1> QED
  BY <1>2, <1>4, <1>5 DEF Overshoot

\* A link that is recorded was being signed.
LEMMA RecordCounts ==
    ASSUME Co!ConnectConstants, Held, Overshoot, NEW c \in Calls, Co!CommitRecord(c)
    PROVE  Overshoot'
<1>0. /\ Held' /\ connectNow' = connectNow
      /\ Len(links') = Len(links) + 1 /\ \A i \in 1..Len(links) : links'[i] = links[i]
  BY CommitRecordStep
<1>1. Signing' = Signing \ {c} /\ c \in Signing
  BY CommitRecordStep DEF Signing
<1> DEFINE n == Len(links) + 1
<1>2. DOMAIN links = 1..Len(links) /\ DOMAIN links' = 1..n /\ Len(links) \in Nat
  BY <1>0, LenProperties DEF Held, TypeInv
<1>3. Recent' \subseteq Recent \cup {n}
  BY <1>0, <1>2 DEF Recent
<1>4. IsFiniteSet(Recent) /\ Cardinality(Recent) \in Nat /\ IsFiniteSet(Signing)
      /\ Cardinality(Signing) \in Nat /\ Cardinality(Calls) \in Nat /\ MaxLinks \in Nat
  BY Counted DEF Co!ConnectConstants
<1>5. n \notin Recent
  BY <1>2 DEF Recent
<1> HIDE DEF n
<1>6. IsFiniteSet(Recent \cup {n}) /\ Cardinality(Recent \cup {n}) = Cardinality(Recent) + 1
  BY <1>4, <1>5, FS_AddElement
<1>7. Cardinality(Recent') <= Cardinality(Recent) + 1 /\ Cardinality(Recent') \in Nat
  BY <1>3, <1>6, FS_Subset, FS_CardinalityType
<1>8. Cardinality(Signing') = Cardinality(Signing) - 1
  BY <1>1, <1>4, FS_RemoveElement
<1> QED
  BY <1>4, <1>7, <1>8 DEF Overshoot

LEMMA OvershootInit == ASSUME Co!ConnectConstants, Co!Init PROVE Overshoot
<1>1. Held
  BY InitHeld
<1>2. Signing = {} /\ Recent = {}
  BY DEF Co!Init, Co!Idle, Signing, Recent
<1>3. Cardinality(Signing) = 0 /\ Cardinality(Recent) = 0
  BY <1>2, FS_EmptySet
<1> QED
  BY <1>1, <1>3, Counted DEF Overshoot, Co!ConnectConstants

LEMMA OvershootStep ==
    ASSUME Co!ConnectConstants, Held, Overshoot, [Co!Next]_(Co!vars) PROVE Overshoot'
<1>0. Held'
  BY HeldStep
<1>1. ASSUME NEW c \in Calls, Co!prepare_connect(c) \/ Co!SigningFailed(c) PROVE Overshoot'
  <2>1. CASE Co!prepare_connect(c)
    BY <2>1, PrepareCounts
  <2>2. CASE ~Co!prepare_connect(c)
    <3>1. /\ UNCHANGED <<links, connectNow>>
          /\ \A d \in Calls \ {c} : connectCall'[d] = connectCall[d]
          /\ connectCall'[c].pc \notin {"signing", "recording"}
      BY <1>1, <2>2, CallStep
    <3>2. Recent' \subseteq Recent /\ Signing' \subseteq Signing
      BY <3>1 DEF Recent, Signing
    <3> QED
      BY <1>0, <3>2, NoMore
  <2> QED
    BY <2>1, <2>2
<1>2. ASSUME NEW c \in Calls, Co!record_connect(c) PROVE Overshoot'
  <2>1. /\ UNCHANGED <<links, connectNow>>
        /\ \A d \in Calls \ {c} : connectCall'[d] = connectCall[d]
        /\ connectCall[c].pc = "signing"
    BY <1>2, RecordStep
  <2>2. Recent' \subseteq Recent /\ Signing' \subseteq Signing
    BY <2>1 DEF Recent, Signing
  <2> QED
    BY <1>0, <2>2, NoMore
<1>3. ASSUME NEW c \in Calls, Co!CommitRecord(c) PROVE Overshoot'
  BY <1>3, RecordCounts
<1>4. CASE UNCHANGED <<links, connectCall, connectNow>>
  <2>1. Recent' \subseteq Recent /\ Signing' \subseteq Signing
    BY <1>4 DEF Recent, Signing
  <2> QED
    BY <1>0, <2>1, NoMore
<1>5. CASE UNCHANGED <<links, connectCall>> /\ connectNow' = connectNow + 1
  <2>1. DOMAIN links = 1..Len(links)
    BY LenProperties DEF Held, TypeInv
  <2>2. ASSUME NEW i \in DOMAIN links, links[i].at > connectNow' - Window
        PROVE  links[i].at > connectNow - Window
    <3>1. links[i] \in Link
      BY ElementOfSeq, <2>1 DEF Held, TypeInv
    <3>2. links[i].at \in Nat /\ connectNow \in Nat /\ Window \in Nat
      BY <3>1 DEF Link, Held, TypeInv, Co!ConnectConstants
    <3> QED
      BY <1>5, <2>2, <3>2
  <2>3. Signing' = Signing
    BY <1>5 DEF Signing
  <2>4. Recent' = {i \in DOMAIN links : links[i].at > connectNow' - Window}
    BY <1>5 DEF Recent
  <2>5. Recent' \subseteq Recent
    BY <2>2, <2>4 DEF Recent
  <2> QED
    BY <1>0, <2>3, <2>5, NoMore
<1> QED
  BY <1>1, <1>2, <1>3, <1>4, <1>5, BeginStep, CommitStep, OutsideStep, FailStep,
     ReadAgainStep, ApplyStep, QuietStep, TickStep, Steps

-----------------------------------------------------------------------------
(* Links follow the domain and keep their promises. *)

LEMMA Follows ==
    ASSUME Co!ConnectConstants, Held, [Co!Next]_(Co!vars) PROVE Co!LinksFollowTheDomainStep
<1>1. CASE UNCHANGED <<domain, links>>
  BY <1>1 DEF Co!LinksFollowTheDomainStep, Co!LinkNamesLiveClaimStep, Co!DeletedStaysQuietStep
<1> QED
  BY <1>1, CallStep, RecordStep, CommitRecordStep, BeginStep, CommitStep, OutsideStep, FailStep,
     ReadAgainStep, ApplyStep, QuietStep, TickStep, Steps

\* A link carries the token of the claim that is live when it is recorded, or
\* was when the recording transaction read it; of what was in flight when the
\* domain was deleted only what had read it before still commits.
LEMMA LinksAlwaysFollow ==
    ASSUME Co!ConnectConstants
    PROVE  Co!Spec => Co!LinksFollowTheDomain
<1>1. Co!Init => Held
  BY InitHeld
<1>2. Held /\ [Co!Next]_(Co!vars) => Held' /\ Co!LinksFollowTheDomainStep
  BY HeldStep, Follows
<1> QED
  BY <1>1, <1>2, PTL DEF Co!Spec, Co!LinksFollowTheDomain

\* Links signed at the same time exceed the limit by fewer than there are
\* requests, and a domain someone is connecting stays due at the fast interval
\* or at the end of a failed run's lease.
LEMMA PromisesAlwaysKept ==
    ASSUME Co!ConnectConstants
    PROVE  Co!Spec => []Co!LinksKeepTheirPromise
<1>1. Co!Init => Held /\ Overshoot
  BY InitHeld, OvershootInit
<1>2. Held /\ Overshoot /\ [Co!Next]_(Co!vars) => (Held /\ Overshoot)'
  BY HeldStep, OvershootStep
<1>3. Held /\ Overshoot => Co!LinksKeepTheirPromise
  BY SameOvershoot DEF Held, Scheduled, Co!LinksKeepTheirPromise
<1> QED
  BY <1>1, <1>2, <1>3, PTL DEF Co!Spec

-----------------------------------------------------------------------------
(* The same of the behaviours of MCOperations that are about Connect. *)

LEMMA ConnectInFocus ==
    /\ OperationsInit /\ focus = "connect" => Co!Init
    /\ [OperationsNext]_operationsVars /\ focus = "connect"
         => (focus = "connect")' /\ [Co!Next]_(Co!vars)
    /\ [OperationsNext]_operationsVars /\ ~(focus = "connect")
         => ~(focus = "connect")'
BY DEF OperationsInit, OperationsNext, operationsVars, connectVars, Co!vars

\* A link carries the token of the claim that is live when it is recorded
\* (record_connect) or, on PostgreSQL, was when the recording transaction read
\* it; of what was in flight when the domain was deleted only a transaction on
\* PostgreSQL that had read it before still commits, and it brings neither the
\* domain nor its claim back.
THEOREM LinksFollow == OperationsSpec => LinksFollowTheDomain
<1>1. Co!Spec => Co!LinksFollowTheDomain
  BY LinksAlwaysFollow, PartsAssumption
<1>2. [Co!LinksFollowTheDomainStep]_(Co!vars) => [focus = "connect" => Co!LinksFollowTheDomainStep]_connectVars
  BY DEF connectVars, Co!vars
<1> QED
  BY <1>1, <1>2, ConnectInFocus, PTL
  DEF OperationsSpec, Co!Spec, Co!LinksFollowTheDomain, LinksFollowTheDomain

\* Links signed at the same time exceed the limit by fewer than there are
\* requests, and a domain someone is connecting stays due at the fast interval,
\* or at the end of the lease when the last run failed, or when on PostgreSQL
\* it was overtaken by a re-issue; whatever happens between preparing, signing
\* and recording.
THEOREM PromisesKept == OperationsSpec => []LinksKeepTheirPromise
<1>1. Co!Spec => []Co!LinksKeepTheirPromise
  BY PromisesAlwaysKept, PartsAssumption
<1> QED
  BY <1>1, ConnectInFocus, PTL DEF OperationsSpec, Co!Spec, LinksKeepTheirPromise
============================================================================
