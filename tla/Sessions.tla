------------------------------- MODULE Sessions -------------------------------
(***************************************************************************)
(* The in-memory session store: Redfish login, the checks every request    *)
(* passes, logout, and the pruning that bounds the store.  A request is    *)
(* checked when it arrives and again when the client for PVE is made, and  *)
(* the credentials of its token are looked up after that, so time passes   *)
(* (and, with threads, other requests run) between the three.              *)
(*                                                                         *)
(* The store lives and dies with the daemon: a restart begins anew.        *)
(***************************************************************************)
EXTENDS Naturals, FiniteSets

CONSTANTS
  Workers,              \* request threads (the shipped daemon runs one)
  Users, NoUser,        \* users of PVE
  ConfiguredUser,       \* PROXMOX_USER, the daemon's own account
  Tokens, NoToken,      \* session tokens; bound: this many are ever issued
  AUTH,                 \* how requests authenticate
  SESSION_TTL_SECONDS, MAX_SESSIONS,
  MaxTime               \* bound: how far the clock goes

ASSUME SessionsAssumption ==
  /\ IsFiniteSet(Workers) /\ IsFiniteSet(Tokens)
  /\ NoToken \notin Tokens
  /\ NoUser \notin Users /\ ConfiguredUser \notin Users /\ NoUser # ConfiguredUser
  /\ AUTH \in {"None", "Basic", "Session"}
  /\ SESSION_TTL_SECONDS \in Nat /\ MAX_SESSIONS \in Nat /\ MaxTime \in Nat

VARIABLES
  sessions,  \* sessions[t]: the user of token t and when it was created
  owner,     \* history: owner[t] is the user that token t was issued to
  now,       \* time.time()
  pc, req    \* where each worker is, and what it knows of its request

vars == <<sessions, owner, now, pc, req>>

Done == {"ready", "answered", "refused", "dropped"}
Steps == {"prune", "insert", "api", "credentials", "logout"}

\* A request has a token and the user of its Basic header, if any; a login has a
\* user, a logout the token to delete. "as" is whom PVE is called as.
Requests == [token : Tokens \cup {NoToken}, user : Users \cup {NoUser},
             target : Tokens \cup {NoToken}, as : Users \cup {NoUser, ConfiguredUser}]
NoRequest == [token |-> NoToken, user |-> NoUser, target |-> NoToken, as |-> NoUser]

SessionsTypeOK ==
  /\ DOMAIN sessions \subseteq DOMAIN owner /\ DOMAIN owner \subseteq Tokens
  /\ sessions = [t \in DOMAIN sessions |-> sessions[t]]
  /\ owner = [t \in DOMAIN owner |-> owner[t]]
  /\ \A t \in DOMAIN sessions : /\ sessions[t].username = owner[t]
                                /\ sessions[t].created \in Nat
  /\ \A t \in DOMAIN owner : owner[t] \in Users
  /\ now \in Nat
  /\ pc \in [Workers -> Done \cup Steps]
  /\ req \in [Workers -> Requests]
  /\ \A w \in Workers : pc[w] \in {"prune", "insert"} => req[w].user \in Users

Init ==
  /\ sessions = [t \in {} |-> <<>>]
  /\ owner = [t \in {} |-> <<>>]
  /\ now = 0
  /\ pc = [w \in Workers |-> "ready"]
  /\ req = [w \in Workers |-> NoRequest]

-----------------------------------------------------------------------------
Goto(w, label) == pc' = [pc EXCEPT ![w] = label]
Advance(w, label, r) == Goto(w, label) /\ req' = [req EXCEPT ![w] = r]

Live == DOMAIN sessions
Expired(t) == now - sessions[t].created >= SESSION_TTL_SECONDS
KeepOnly(kept) == sessions' = [t \in kept |-> sessions[t]]

-----------------------------------------------------------------------------
(* POST SessionService/Sessions. *)

\* PVE accepts the credentials or does not.
Login(w, u) ==
  /\ pc[w] \in Done
  /\ DOMAIN owner # Tokens
  /\ \E label \in {"prune", "refused"} : Advance(w, label, [NoRequest EXCEPT !.user = u])
  /\ UNCHANGED <<sessions, owner, now>>

\* Mutant: only expired sessions are dropped.
Prune_ExpiredOnly(w) ==
  /\ pc[w] = "prune"
  /\ KeepOnly({t \in Live : ~Expired(t)})
  /\ Goto(w, "insert")
  /\ UNCHANGED <<owner, now, req>>

\* Mutant: the list is sorted the other way round.
Prune_Youngest(w) ==
  /\ pc[w] = "prune"
  /\ LET fresh == {t \in Live : ~Expired(t)} IN
     \E kept \in SUBSET fresh :
        /\ IF Cardinality(fresh) > MAX_SESSIONS
             THEN Cardinality(kept) = MAX_SESSIONS ELSE kept = fresh
        /\ \A t \in kept, s \in fresh \ kept : sessions[s].created >= sessions[t].created
        /\ KeepOnly(kept)
  /\ Goto(w, "insert")
  /\ UNCHANGED <<owner, now, req>>

\* _prune_sessions: expired sessions go, then the oldest beyond the cap.
Prune(w) ==
  /\ pc[w] = "prune"
  /\ LET fresh == {t \in Live : ~Expired(t)} IN
     \E kept \in SUBSET fresh :
        /\ IF Cardinality(fresh) > MAX_SESSIONS
             THEN Cardinality(kept) = MAX_SESSIONS ELSE kept = fresh
        /\ \A t \in kept, s \in fresh \ kept : sessions[s].created <= sessions[t].created
        /\ KeepOnly(kept)
  /\ Goto(w, "insert")
  /\ UNCHANGED <<owner, now, req>>

\* The new session is stored after the pruning, under a token never used before.
Insert(w) ==
  /\ pc[w] = "insert"
  /\ \E token \in Tokens \ DOMAIN owner :
       /\ sessions' = [t \in Live \cup {token} |->
                         IF t = token THEN [username |-> req[w].user, created |-> now]
                                      ELSE sessions[t]]
       /\ owner' = [t \in DOMAIN owner \cup {token} |->
                      IF t = token THEN req[w].user ELSE owner[t]]
  /\ Goto(w, "answered")
  /\ UNCHANGED <<now, req>>

-----------------------------------------------------------------------------
(* validate_token. *)

\* authenticate_user: PVE's verdict on a Basic header, which is also "no" when PVE is
\* out of reach.
Verdicts(user) == IF user = NoUser THEN {FALSE} ELSE BOOLEAN

Valid(r, accepted) == CASE AUTH = "None"    -> TRUE
                        [] AUTH = "Basic"   -> accepted
                        [] AUTH = "Session" -> r.token \in Live /\ ~Expired(r.token)

\* A token found expired is deleted.
Validate(w, r, valid, invalid) ==
  /\ \E accepted \in Verdicts(r.user) :
       Advance(w, IF Valid(r, accepted) THEN valid ELSE invalid, r)
  /\ IF AUTH = "Session" /\ r.token \in Live /\ Expired(r.token)
       THEN KeepOnly(Live \ {r.token}) ELSE UNCHANGED sessions
  /\ UNCHANGED <<owner, now>>

\* do_GET, do_POST, do_PATCH and do_DELETE of anything that calls PVE.
Request(w, token, user) ==
  /\ pc[w] \in Done
  /\ Validate(w, [NoRequest EXCEPT !.token = token, !.user = user], "api", "refused")

\* What becomes of a request when get_proxmox_api raises: do_PATCH answers it with a 500,
\* where no handler catches the exception there is no answer.
Raised == {"refused", "dropped"}

\* get_proxmox_api: the second check, after which it raises.
MakeApi(w) ==
  /\ pc[w] = "api"
  /\ \E how \in Raised : Validate(w, req[w], "credentials", how)

\* Mutant: an expired session's credentials are not used.
Credentials_ChecksTtl(w) ==
  LET r == req[w] IN
  CASE r.user # NoUser                           -> r.user
    [] r.user = NoUser /\ r.token \in Live /\ ~Expired(r.token) -> sessions[r.token].username
    [] OTHER                                     -> ConfiguredUser

\* _client_credentials: the Basic header first, then the token's session, expired
\* or not; get_proxmox_api falls back to the configured account.
Credentials(w) ==
  LET r == req[w] IN
  CASE r.user # NoUser                        -> r.user
    [] r.user = NoUser /\ r.token \in Live    -> sessions[r.token].username
    [] OTHER                                  -> ConfiguredUser

\* The client for PVE is made, and the request carried out with it; or PVE cannot
\* be reached.
CallPve(w) ==
  /\ pc[w] = "credentials"
  /\ \/ Advance(w, "answered", [req[w] EXCEPT !.as = Credentials(w)])
     \/ (\E how \in Raised : Goto(w, how)) /\ UNCHANGED req
  /\ UNCHANGED <<sessions, owner, now>>

-----------------------------------------------------------------------------
(* DELETE SessionService/Sessions/{token}: any valid request may log out any  *)
(* session.                                                                   *)

AskLogout(w, token, user, target) ==
  /\ pc[w] \in Done
  /\ Validate(w, [token |-> token, user |-> user, target |-> target, as |-> NoUser],
              "logout", "refused")

\* delete_session
Logout(w) ==
  /\ pc[w] = "logout"
  /\ Goto(w, IF req[w].target \in Live THEN "answered" ELSE "refused")
  /\ KeepOnly(Live \ {req[w].target})
  /\ UNCHANGED <<owner, now, req>>

-----------------------------------------------------------------------------
Tick == /\ now < MaxTime
        /\ now' = now + 1
        /\ UNCHANGED <<sessions, owner, pc, req>>

Step(w) == Prune(w) \/ Insert(w) \/ MakeApi(w) \/ CallPve(w) \/ Logout(w)

\* A request comes with a token, with a well-formed Basic header, with both or with
\* neither.
Ask(w) == \/ \E u \in Users : Login(w, u)
          \/ \E token \in Tokens \cup {NoToken}, user \in Users \cup {NoUser} :
               \/ Request(w, token, user)
               \/ \E target \in Tokens : AskLogout(w, token, user, target)

Next == (\E w \in Workers : Ask(w) \/ Step(w)) \/ Tick

Spec == Init /\ [][Next]_vars

-----------------------------------------------------------------------------
(* Properties. *)

\* "Hard cap ... on the number of concurrent sessions" (MAX_SESSIONS), and _prune_sessions'
\* docstring, "bound the store to MAX_SESSIONS".
SessionsBounded == Cardinality(Live) <= MAX_SESSIONS

\* What the code does achieve: the store is pruned before a session is added, so it holds at
\* most one more than its cap for each thread, those about to be added included.
SurplusBounded ==
  Cardinality(Live) + Cardinality({w \in Workers : pc[w] = "insert"})
    <= MAX_SESSIONS + Cardinality(Workers)

SessionsInv == SessionsTypeOK /\ SurplusBounded

\* _prune_sessions, "oldest evicted": a session that is still valid leaves the store
\* only by a logout, or because the store is over its cap and none older stays.
OnlyOldestEvicted ==
  [][\A t \in Live \ Live' : ~Expired(t) =>
        \/ \E w \in Workers : pc[w] = "logout" /\ req[w].target = t
        \/ /\ Cardinality(Live) > MAX_SESSIONS
           /\ \A s \in Live' : sessions[t].created <= sessions[s].created]_vars

\* get_proxmox_api, "Use the CALLER's credentials": with one thread, a request with
\* a token calls PVE as the user that logged in with it and never as the daemon's
\* own account, though the token may expire between the checks.
CallersCredentials ==
  [][\A w \in Workers :
        AUTH = "Session" /\ pc[w] = "credentials" /\ pc'[w] = "answered" /\ req[w].user = NoUser
          => req[w].token \in DOMAIN owner /\ req'[w].as = owner[req[w].token]]_vars
=============================================================================
