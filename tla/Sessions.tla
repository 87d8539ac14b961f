------------------------------ MODULE Sessions ------------------------------
(***************************************************************************)
(* Sessions of users (auth.service and its repository): a row in the       *)
(* database, and a copy of it in Redis which the JWT strategy fills on a   *)
(* miss and which signing out and refreshing delete.  The two writes of a  *)
(* sign-out run side by side (Promise.all), and a request may have read    *)
(* the row before and fill the cache after them.                           *)
(***************************************************************************)
EXTENDS Rows

CONSTANTS
  SessionIds,
  Callers,       \* requests in flight at once
  CacheTtl,      \* MAX_CACHE_TTL_SECONDS
  AccessLife,    \* of an access token
  RefreshLife,   \* of a refresh token
  MaxDelay,      \* the longest a request takes
  MaxClock       \* bound

Times == 0..(MaxClock + RefreshLife + CacheTtl)
SessionRow == [revokedAt : Times \cup { None }, expires : Times]
CopyRow == [expires : Times, until : 0..(MaxClock + CacheTtl)]
CallRow == [op : { "fill", "rotate", "revoke" }, s : SessionIds, todo : SUBSET { "row", "key" },
            expires : Times \cup { None }, at : 0..MaxClock, old : BOOLEAN, wiped : BOOLEAN]

ASSUME SessionAssumption ==
  /\ CacheTtl \in Nat /\ AccessLife \in Nat /\ RefreshLife \in Nat /\ MaxDelay \in Nat /\ MaxClock \in Nat
  /\ None \notin Times /\ None \notin SessionRow /\ None \notin CopyRow /\ None \notin CallRow

VARIABLES
  session,       \* rows of UserSession
  copy,          \* what Redis holds of them
  clock,
  call,          \* what each request is doing
  raced          \* sessions whose copy was filled from an old row, or not deleted

sessionVars == <<session, copy, clock, call, raced>>

Active(s) == session[s] # None /\ session[s].revokedAt = None /\ session[s].expires > clock

SessionInit ==
  /\ session = [s \in SessionIds |-> None] /\ copy = [s \in SessionIds |-> None]
  /\ clock = 0 /\ call = [c \in Callers |-> None] /\ raced = {}

\* What others have read of session s is old from now on.
Outdated(c, s, next) ==
  call' = [d \in Callers |->
    IF d = c THEN next
    ELSE IF call[d] # None /\ call[d].s = s THEN [call[d] EXCEPT !.old = TRUE] ELSE call[d]]

\* login, and the registrations.
IssueSession(c, s) ==
  /\ call[c] = None /\ session[s] = None
  /\ session' = [session EXCEPT ![s] = [revokedAt |-> None, expires |-> clock + RefreshLife]]
  /\ UNCHANGED <<copy, clock, call, raced>>

-----------------------------------------------------------------------------
(* A request with an access token: JwtStrategy.validate.                    *)

\* The copy answers, or the row is read: because there is no copy, or because
\* Redis is away.
ValidateFromDb(c, s) ==
  /\ call[c] = None /\ Active(s)
  /\ call' = [call EXCEPT ![c] = [op |-> "fill", s |-> s, todo |-> {}, expires |-> session[s].expires,
                                  at |-> clock, old |-> FALSE, wiped |-> FALSE]]
  /\ UNCHANGED <<session, copy, clock, raced>>

\* Broken variant: for as long as the access token lives.
TtlOfToken(left) == left

Ttl(left) == Min({ left, CacheTtl })

FillCopy(c, left) ==
  /\ call[c] # None /\ call[c].op = "fill"
  /\ copy' = [copy EXCEPT ![call[c].s] = [expires |-> call[c].expires, until |-> clock + Ttl(left)]]
  /\ raced' = IF call[c].old THEN raced \cup { call[c].s } ELSE raced \ { call[c].s }
  /\ call' = [call EXCEPT ![c] = None]
  /\ UNCHANGED <<session, clock>>

-----------------------------------------------------------------------------
(* refreshSession, logout and revokeSession.                                *)

\* Broken variant: refreshing leaves the copy alone.
WritesOfRevocation(op) == IF op = "revoke" THEN { "row", "key" } ELSE { "row" }

Writes(op) == { "row", "key" }

BeginRefresh(c, s) ==
  /\ call[c] = None /\ Active(s)
  /\ call' = [call EXCEPT ![c] = [op |-> "rotate", s |-> s, todo |-> Writes("rotate"), expires |-> clock + RefreshLife,
                                  at |-> clock, old |-> FALSE, wiped |-> FALSE]]
  /\ UNCHANGED <<session, copy, clock, raced>>

BeginLogout(c, s) ==
  /\ call[c] = None /\ session[s] # None
  /\ call' = [call EXCEPT ![c] = [op |-> "revoke", s |-> s, todo |-> Writes("revoke"), expires |-> None,
                                  at |-> clock, old |-> FALSE, wiped |-> FALSE]]
  /\ UNCHANGED <<session, copy, clock, raced>>

\* Once both of its writes are done the request is answered.
After(c, write) ==
  IF call[c].todo = { write } THEN None
  ELSE [call[c] EXCEPT !.todo = @ \ { write }, !.wiped = @ \/ write = "key"]

WriteRow(c) ==
  /\ call[c] # None /\ "row" \in call[c].todo
  /\ LET s == call[c].s IN
     /\ session' = [session EXCEPT ![s] =
          IF call[c].op = "rotate" THEN [@ EXCEPT !.expires = call[c].expires]
          ELSE IF @.revokedAt = None THEN [@ EXCEPT !.revokedAt = clock] ELSE @]
     /\ Outdated(c, s, After(c, "row"))
     /\ raced' = IF call[c].wiped /\ copy[s] # None THEN raced \cup { s } ELSE raced
  /\ UNCHANGED <<copy, clock>>

DeleteKey(c) ==
  /\ call[c] # None /\ "key" \in call[c].todo
  /\ copy' = [copy EXCEPT ![call[c].s] = None] /\ raced' = raced \ { call[c].s }
  /\ call' = [call EXCEPT ![c] = After(c, "key")]
  /\ UNCHANGED <<session, clock>>

\* safeRedisOp swallows the error.
KeySurvives(c) ==
  /\ call[c] # None /\ "key" \in call[c].todo
  /\ raced' = raced \cup { call[c].s } /\ call' = [call EXCEPT ![c] = After(c, "key")]
  /\ UNCHANGED <<session, copy, clock>>

\* Time passes, no request takes longer than MaxDelay, and copies expire.
TimePasses ==
  /\ clock < MaxClock /\ clock' = clock + 1
  /\ \A c \in Callers : call[c] # None => clock' <= call[c].at + MaxDelay
  /\ copy' = [s \in SessionIds |-> IF copy[s] # None /\ copy[s].until <= clock' THEN None ELSE copy[s]]
  /\ UNCHANGED <<session, call, raced>>

SessionNext ==
  \/ \E c \in Callers :
       \/ \E s \in SessionIds : IssueSession(c, s) \/ ValidateFromDb(c, s) \/ BeginRefresh(c, s) \/ BeginLogout(c, s)
       \/ \E left \in 1..AccessLife : FillCopy(c, left)
       \/ WriteRow(c) \/ DeleteKey(c) \/ KeySurvives(c)
  \/ TimePasses

SessionSpec == SessionInit /\ [][SessionNext]_sessionVars
-----------------------------------------------------------------------------
(* Properties.                                                              *)

SessionTypeOK ==
  /\ session \in [SessionIds -> SessionRow \cup { None }] /\ copy \in [SessionIds -> CopyRow \cup { None }]
  /\ call \in [Callers -> CallRow \cup { None }] /\ clock \in 0..MaxClock /\ raced \subseteq SessionIds

Changing(s) == \E c \in Callers : call[c] # None /\ call[c].s = s /\ call[c].todo # {}

\* Once no sign-out or refresh of a session is under way its copy says what the
\* row says, unless it was filled from a row read before or could not be
\* deleted.
CopyAgrees ==
  \A s \in SessionIds \ raced :
    copy[s] # None /\ ~Changing(s) => session[s].revokedAt = None /\ copy[s].expires = session[s].expires

\* A copy outlives the sign-out of its session by MAX_CACHE_TTL_SECONDS at
\* most, counted from the end of the requests that were under way
\* (jwt.strategy.ts:126-129).
CopyIsShortLived ==
  \A s \in SessionIds :
    copy[s] # None /\ session[s].revokedAt # None => copy[s].until <= session[s].revokedAt + MaxDelay + CacheTtl

\* A session's copy in the cache agrees with its row, and where it does not it
\* is soon gone.
SessionsAgree == SessionTypeOK /\ CopyAgrees /\ CopyIsShortLived
=============================================================================
