---------------------------- MODULE MCOperations ----------------------------
(***************************************************************************)
(* Administration (keys, credentials, webhook secrets, origins), and two   *)
(* other parts that operators and customers reach through several surfaces *)
(* at once: Domain Connect with the setup page, and the gates of the       *)
(* surfaces themselves.  They share no state; a behaviour is one of the    *)
(* part in focus and the others stay as they began.                        *)
(***************************************************************************)
EXTENDS Administration, TLC

CONSTANTS
    SettingsSigner, OperatorSigners, Window, MaxLinks, MaxSessions, FastWindow,
    FastInterval, Backoff, Lease, Ttls, MaxTokens, MaxIssued, MaxPages,
    ConnectClock,                                                           \* Connect
    Kinds, Tokens, Passwords, MaxApps, MaxChildren, Ttl                     \* Surfaces

VARIABLES
    focus,
    connectBackend, domain, operatorSigner, links, sessions, connectCall,
    connectWorker, tx, connectNow,
    surfaceBackend, kind, applications, children, stored, password, ownSecret,
    cookies, lastSet, surfaceCall, surfaceNow

connectVars == <<connectBackend, domain, operatorSigner, links, sessions, connectCall,
                 connectWorker, tx, connectNow>>
surfacesVars == <<surfaceBackend, kind, applications, children, stored, password,
                  ownSecret, cookies, lastSet, surfaceCall, surfaceNow>>
operationsVars == <<focus, vars, connectVars, surfacesVars>>

Co == INSTANCE Connect WITH
        backend <- connectBackend, call <- connectCall, worker <- connectWorker,
        now <- connectNow, MaxClock <- ConnectClock

Su == INSTANCE Surfaces WITH
        MaxRows <- MaxChildren, backend <- surfaceBackend, call <- surfaceCall,
        now <- surfaceNow

\* What the theorems about the parts ask of their constants.
ASSUME PartsAssumption == Co!ConnectConstants /\ Su!SurfacesConstants

-----------------------------------------------------------------------------
\* The part in focus begins as it does, the others have no state.
Quiet == /\ backend = "sqlite" /\ subject = "secret" /\ now = 0
         /\ assertionKeys = <<>> /\ credentials = <<>> /\ origins = <<>>
         /\ secret = [current |-> 1, previous |-> 0, until |-> 0, overtaken |-> FALSE]
         /\ call = [c \in Calls |-> Closed]

NoCo ==
    /\ connectBackend = None /\ domain = None /\ operatorSigner = None /\ links = None
    /\ sessions = None /\ connectCall = None /\ connectWorker = None /\ tx = None
    /\ connectNow = None

NoSu ==
    /\ surfaceBackend = None /\ kind = None /\ applications = None
    /\ children = None /\ stored = None /\ password = None /\ ownSecret = None
    /\ cookies = None /\ lastSet = None /\ surfaceCall = None /\ surfaceNow = None

OperationsInit ==
    /\ focus \in {"administration", "connect", "surfaces"}
    /\ IF focus = "administration" THEN Init ELSE Quiet
    /\ IF focus = "connect" THEN Co!Init ELSE NoCo
    /\ IF focus = "surfaces" THEN Su!Init ELSE NoSu

OperationsNext ==
    /\ UNCHANGED focus
    /\ \/ /\ focus = "administration" /\ Next
          /\ UNCHANGED <<connectVars, surfacesVars>>
       \/ /\ focus = "connect" /\ Co!Next
          /\ UNCHANGED <<vars, surfacesVars>>
       \/ /\ focus = "surfaces" /\ Su!Next
          /\ UNCHANGED <<vars, connectVars>>

OperationsSpec == OperationsInit /\ [][OperationsNext]_operationsVars

\* Identifiers are only compared, and every property is a safety property.
Symmetry == Permutations(Calls)

-----------------------------------------------------------------------------
(* Properties: those of the extended module, and those of the part in focus. *)

\* A link keeps its promises: links signed at the same time exceed the window's
\* limit by fewer than there are requests, and the checks that follow stay due
\* at the fast interval, or at the end of the lease of a run that failed.
LinksKeepTheirPromise ==
    focus = "connect" =>
        Co!LinksKeepTheirPromise

\* A link is recorded only for the claim that is live then, or was when the
\* recording transaction read it; what was in flight when a domain was deleted
\* issues nothing for it, except what had read it before on PostgreSQL.
LinksFollowTheDomain ==
    [][focus = "connect" => Co!LinksFollowTheDomainStep]_connectVars

\* On SQLite a deleted application is not brought back by a form, an operator
\* call or a command that loaded it before.
DeletionSticks == focus = "surfaces" => Su!DeletionSticks

\* The operator API admits the token set last, the portal no session of an
\* earlier password.
GatesFollowTheSecrets ==
    focus = "surfaces" => Su!GatesFollowTheSecrets

\* A call commits what was meant when it does: nothing of a deleted
\* application's archive through its successor's slug, no live domain with an
\* application unless that was asked for, nothing under a replaced token.  On
\* SQLite, whose writers follow one another.
CommitsAsMeant ==
    [][focus = "surfaces" => Su!CommitsAsMeantStep]_surfacesVars
=============================================================================
