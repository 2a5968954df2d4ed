--------------------------- MODULE Sessions_proofs ---------------------------
(***************************************************************************)
(* The session store, for any number of threads, tokens and users.         *)
(***************************************************************************)
EXTENDS Sessions, FiniteSetTheorems, TLAPS

Inserting == {w \in Workers : pc[w] = "insert"}

\* The sizes SurplusBounded adds up are numbers.
LEMMA SizesAreNumbers ==
  ASSUME SessionsTypeOK
  PROVE  /\ IsFiniteSet(Live) /\ Cardinality(Live) \in Nat
         /\ IsFiniteSet(Inserting) /\ Cardinality(Inserting) \in Nat
         /\ Cardinality(Workers) \in Nat
<1>1. Live \in SUBSET Tokens /\ Inserting \in SUBSET Workers
  BY DEF SessionsTypeOK, Live, Inserting
<1>2. IsFiniteSet(Tokens) /\ IsFiniteSet(Workers)
  BY SessionsAssumption
<1> QED  BY <1>1, <1>2, FS_Subset, FS_CardinalityType

\* A step after which no session and no thread about to store one has been added
\* keeps the bound.
LEMMA BoundKept ==
  ASSUME SessionsTypeOK, SurplusBounded, Live' \subseteq Live, Inserting' \subseteq Inserting
  PROVE  SurplusBounded'
<1>1. /\ Cardinality(Live') <= Cardinality(Live) /\ Cardinality(Live') \in Nat
      /\ Cardinality(Inserting') <= Cardinality(Inserting) /\ Cardinality(Inserting') \in Nat
  BY SizesAreNumbers, FS_Subset, FS_CardinalityType
<1> QED
  BY <1>1, SizesAreNumbers, SessionsAssumption DEF SurplusBounded, Inserting

\* A check of a token keeps the invariant: it stores no session, and may delete one.
LEMMA ValidateKeepsInv ==
  ASSUME SessionsInv, NEW w \in Workers, NEW r \in Requests,
         NEW valid \in (Done \cup Steps) \ {"prune", "insert"},
         NEW invalid \in Done, Validate(w, r, valid, invalid)
  PROVE  SessionsInv'
<1> USE DEF SessionsInv
<1>1. /\ \E label \in (Done \cup Steps) \ {"prune", "insert"} : Advance(w, label, r)
      /\ owner' = owner /\ now' = now
  BY DEF Validate, Done, Steps
<1>2. \E kept \in SUBSET Live : KeepOnly(kept)
  <2>1. sessions = [t \in Live |-> sessions[t]]  BY DEF SessionsTypeOK, Live
  <2> QED  BY <2>1 DEF Validate, KeepOnly
<1>3. SessionsTypeOK'
  BY <1>1, <1>2 DEF SessionsTypeOK, Advance, Goto, KeepOnly, Live
<1>4. Live' \subseteq Live /\ Inserting' \subseteq Inserting
  BY <1>1, <1>2 DEF SessionsTypeOK, Advance, Goto, KeepOnly, Live, Inserting
<1> QED  BY <1>3, <1>4, BoundKept

\* Every step keeps the types and the bound of the store.
LEMMA StepKeepsInv == SessionsInv /\ [Next]_vars => SessionsInv'
<1> SUFFICES ASSUME SessionsInv, [Next]_vars PROVE SessionsInv'
  OBVIOUS
<1> USE DEF SessionsInv
<1> USE SessionsAssumption
<1>1. ASSUME NEW w \in Workers, NEW u \in Users, Login(w, u)
      PROVE  SessionsInv'
  <2>1. SessionsTypeOK'
    BY <1>1 DEF Login, SessionsTypeOK, Advance, Goto, Requests, NoRequest, Done, Steps
  <2>2. Live' \subseteq Live /\ Inserting' \subseteq Inserting
    BY <1>1 DEF Login, SessionsTypeOK, Advance, Goto, Live, Inserting, Done
  <2> QED  BY <2>1, <2>2, BoundKept
<1>2. ASSUME NEW w \in Workers, Prune(w)
      PROVE  SessionsInv'
  <2> DEFINE fresh == {t \in Live : ~Expired(t)}
  <2>1. PICK kept \in SUBSET fresh :
           /\ IF Cardinality(fresh) > MAX_SESSIONS
                THEN Cardinality(kept) = MAX_SESSIONS ELSE kept = fresh
           /\ KeepOnly(kept)
    BY <1>2 DEF Prune
  <2>2. SessionsTypeOK'
    BY <1>2, <2>1 DEF Prune, SessionsTypeOK, Goto, KeepOnly, Live, Done, Steps
  <2>3. Live' = kept
    BY <2>1 DEF KeepOnly, Live
  <2>4. Cardinality(Live') <= MAX_SESSIONS /\ Cardinality(Live') \in Nat
    <3>1. fresh \in SUBSET Live  OBVIOUS
    <3>2. Cardinality(fresh) \in Nat
      BY <3>1, SizesAreNumbers, FS_Subset, FS_CardinalityType
    <3> HIDE DEF fresh
    <3> QED  BY <2>1, <2>3, <3>2
  <2>5. Cardinality(Inserting') <= Cardinality(Workers) /\ Cardinality(Inserting') \in Nat
    <3>1. Inserting' \in SUBSET Workers  BY DEF Inserting
    <3> QED  BY <3>1, FS_Subset, FS_CardinalityType
  <2>6. SurplusBounded'
    BY <2>4, <2>5, SizesAreNumbers DEF SurplusBounded, Inserting
  <2> QED  BY <2>2, <2>6
<1>3. ASSUME NEW w \in Workers, Insert(w)
      PROVE  SessionsInv'
  <2>1. PICK token \in Tokens \ DOMAIN owner :
           /\ sessions' = [t \in Live \cup {token} |->
                             IF t = token THEN [username |-> req[w].user, created |-> now]
                                          ELSE sessions[t]]
           /\ owner' = [t \in DOMAIN owner \cup {token} |->
                          IF t = token THEN req[w].user ELSE owner[t]]
    BY <1>3 DEF Insert
  <2>2. SessionsTypeOK'
    <3>1. pc' = [pc EXCEPT ![w] = "answered"] /\ req' = req /\ now' = now /\ pc[w] = "insert"
      BY <1>3 DEF Insert, Goto
    <3>2. req[w].user \in Users
      BY <3>1 DEF SessionsTypeOK
    <3>3. \A t \in DOMAIN sessions' : /\ sessions'[t].username = owner'[t]
                                      /\ sessions'[t].created \in Nat
      BY <2>1 DEF SessionsTypeOK, Live
    <3> QED  BY <2>1, <3>1, <3>2, <3>3 DEF SessionsTypeOK, Live, Done, Steps
  <2>3. Cardinality(Live') <= Cardinality(Live) + 1 /\ Cardinality(Live') \in Nat
    <3>1. Live' = Live \cup {token}  BY <2>1 DEF Live
    <3>2. IsFiniteSet(Live) /\ Cardinality(Live) \in Nat  BY SizesAreNumbers
    <3>3. Cardinality(Live \cup {token}) = IF token \in Live THEN Cardinality(Live)
                                                            ELSE Cardinality(Live) + 1
      BY <3>2, FS_AddElement
    <3> QED  BY <3>1, <3>2, <3>3
  <2>4. Cardinality(Inserting') = Cardinality(Inserting) - 1 /\ Cardinality(Inserting') \in Nat
    <3>1. Inserting' = Inserting \ {w} /\ w \in Inserting
      BY <1>3 DEF Insert, Goto, Inserting, SessionsTypeOK
    <3> QED  BY <3>1, SizesAreNumbers, FS_RemoveElement, FS_CardinalityType
  <2>5. SurplusBounded'
    BY <2>3, <2>4, SizesAreNumbers DEF SurplusBounded, Inserting
  <2> QED  BY <2>2, <2>5
<1>4. ASSUME NEW w \in Workers, NEW token \in Tokens \cup {NoToken},
             NEW user \in Users \cup {NoUser}, Request(w, token, user)
      PROVE  SessionsInv'
  <2>1. [NoRequest EXCEPT !.token = token, !.user = user] \in Requests
    BY DEF Requests, NoRequest
  <2> QED  BY <1>4, <2>1, ValidateKeepsInv DEF Request, Done, Steps
<1>5. ASSUME NEW w \in Workers, NEW token \in Tokens \cup {NoToken},
             NEW user \in Users \cup {NoUser}, NEW target \in Tokens,
             AskLogout(w, token, user, target)
      PROVE  SessionsInv'
  <2>1. [token |-> token, user |-> user, target |-> target, as |-> NoUser] \in Requests
    BY DEF Requests
  <2> QED  BY <1>5, <2>1, ValidateKeepsInv DEF AskLogout, Done, Steps
<1>6. ASSUME NEW w \in Workers, MakeApi(w)
      PROVE  SessionsInv'
  <2>1. req[w] \in Requests  BY DEF SessionsTypeOK
  <2>2. PICK how \in Done : Validate(w, req[w], "credentials", how)
    BY <1>6 DEF MakeApi, Raised, Done
  <2> QED  BY <2>1, <2>2, ValidateKeepsInv DEF Steps
<1>7. ASSUME NEW w \in Workers, CallPve(w)
      PROVE  SessionsInv'
  <2>1. Credentials(w) \in Users \cup {ConfiguredUser}
    BY DEF Credentials, SessionsTypeOK, Requests, Live
  <2>2. SessionsTypeOK'
    <3>1. req' \in [Workers -> Requests]
      <4>1. [req[w] EXCEPT !.as = Credentials(w)] \in Requests
        BY <2>1 DEF SessionsTypeOK, Requests
      <4> QED  BY <1>7, <4>1 DEF CallPve, Raised, Advance, SessionsTypeOK
    <3>2. \A v \in Workers : pc'[v] \in {"prune", "insert"} => v # w /\ req'[v] = req[v] /\ pc'[v] = pc[v]
      BY <1>7 DEF CallPve, Raised, Advance, Goto, SessionsTypeOK
    <3>3. pc' \in [Workers -> Done \cup Steps] /\ UNCHANGED <<sessions, owner, now>>
      BY <1>7 DEF CallPve, Raised, Advance, Goto, SessionsTypeOK, Done, Steps
    <3> QED  BY <3>1, <3>2, <3>3 DEF SessionsTypeOK
  <2>3. Live' \subseteq Live /\ Inserting' \subseteq Inserting
    BY <1>7 DEF CallPve, Raised, SessionsTypeOK, Advance, Goto, Live, Inserting
  <2> QED  BY <2>2, <2>3, BoundKept
<1>8. ASSUME NEW w \in Workers, Logout(w)
      PROVE  SessionsInv'
  <2>1. SessionsTypeOK'
    BY <1>8 DEF Logout, KeepOnly, Goto, SessionsTypeOK, Live, Done, Steps
  <2>2. Live' \subseteq Live /\ Inserting' \subseteq Inserting
    BY <1>8 DEF Logout, KeepOnly, Goto, SessionsTypeOK, Live, Inserting
  <2> QED  BY <2>1, <2>2, BoundKept
<1>9. ASSUME Tick
      PROVE  SessionsInv'
  BY <1>9 DEF Tick, SessionsTypeOK, SurplusBounded, Live
<1>10. ASSUME UNCHANGED vars
       PROVE  SessionsInv'
  BY <1>10 DEF vars, SessionsTypeOK, SurplusBounded, Live
<1> QED
  BY <1>1, <1>2, <1>3, <1>4, <1>5, <1>6, <1>7, <1>8, <1>9, <1>10 DEF Next, Ask, Step

\* MAX_SESSIONS bounds the store, up to one session for each thread, however many
\* threads, tokens and logins there are; and a session is of the user it was issued to.
THEOREM SessionsInvariant == Spec => []SessionsInv
<1>1. Init => SessionsInv
  <2> SUFFICES ASSUME Init PROVE SessionsInv
    OBVIOUS
  <2>1. SessionsTypeOK
    BY SessionsAssumption DEF Init, SessionsTypeOK, Requests, NoRequest, Done, Steps
  <2>2. Live = {} /\ Inserting = {}
    BY DEF Init, Live, Inserting
  <2>3. SurplusBounded
    BY <2>1, <2>2, FS_EmptySet, SizesAreNumbers, SessionsAssumption DEF SurplusBounded, Inserting
  <2> QED  BY <2>1, <2>3 DEF SessionsInv
<1> QED  BY <1>1, StepKeepsInv, PTL DEF Spec

-----------------------------------------------------------------------------
(* Who leaves the store. *)

\* What one step takes out of the store.
Evictions == \A t \in Live \ Live' : ~Expired(t) =>
               \/ \E w \in Workers : pc[w] = "logout" /\ req[w].target = t
               \/ /\ Cardinality(Live) > MAX_SESSIONS
                  /\ \A s \in Live' : sessions[t].created <= sessions[s].created

\* A check deletes no valid session.
LEMMA ValidateEvicts ==
  ASSUME SessionsInv, NEW w, NEW r, NEW valid, NEW invalid, Validate(w, r, valid, invalid)
  PROVE  Evictions
  BY DEF Evictions, Validate, KeepOnly, Live

\* Whatever the number of threads, a valid session is lost only to a logout, or as one
\* of the oldest of a store above its cap.
THEOREM OldestEvicted == Spec => OnlyOldestEvicted
<1>1. SessionsInv /\ [Next]_vars => [Evictions]_vars
  <2> SUFFICES ASSUME SessionsInv, Next PROVE Evictions
    OBVIOUS
  <2>1. ASSUME Live \subseteq Live'  PROVE Evictions
    BY <2>1 DEF Evictions
  <2>2. ASSUME NEW w \in Workers, Prune(w)  PROVE Evictions
    <3> DEFINE fresh == {t \in Live : ~Expired(t)}
    <3>1. PICK kept \in SUBSET fresh :
             /\ IF Cardinality(fresh) > MAX_SESSIONS
                  THEN Cardinality(kept) = MAX_SESSIONS ELSE kept = fresh
             /\ \A t \in kept, s \in fresh \ kept : sessions[s].created <= sessions[t].created
             /\ KeepOnly(kept)
      BY <2>2 DEF Prune
    <3>2. Live' = kept  BY <3>1 DEF KeepOnly, Live
    <3>3. SUFFICES ASSUME NEW t \in Live \ Live', ~Expired(t)
                   PROVE  /\ Cardinality(Live) > MAX_SESSIONS
                          /\ \A s \in Live' : sessions[t].created <= sessions[s].created
      BY DEF Evictions
    <3>4. t \in fresh \ kept  BY <3>2, <3>3
    <3>5. Cardinality(fresh) > MAX_SESSIONS
      <4> HIDE DEF fresh
      <4> QED  BY <3>1, <3>4
    <3>6. Cardinality(fresh) <= Cardinality(Live) /\ Cardinality(fresh) \in Nat
      <4>1. fresh \in SUBSET Live  OBVIOUS
      <4>2. IsFiniteSet(Live)  BY SizesAreNumbers DEF SessionsInv
      <4> HIDE DEF fresh
      <4> QED  BY <4>1, <4>2, FS_Subset, FS_CardinalityType
    <3>7. Cardinality(Live) \in Nat /\ MAX_SESSIONS \in Nat
      BY SizesAreNumbers, SessionsAssumption DEF SessionsInv
    <3> QED
      <4>1. Cardinality(Live) > MAX_SESSIONS
        <5> HIDE DEF fresh
        <5> QED  BY <3>5, <3>6, <3>7
      <4> QED  BY <4>1, <3>1, <3>2, <3>4
  <2>3. ASSUME NEW w \in Workers, Logout(w)  PROVE Evictions
    BY <2>3 DEF Logout, KeepOnly, Evictions, Live
  <2>4. ASSUME NEW w \in Workers, Ask(w) \/ MakeApi(w)  PROVE Evictions
    <3>1. CASE \E u \in Users : Login(w, u)
      BY <3>1, <2>1 DEF Login, Live
    <3> QED  BY <2>4, <3>1, ValidateEvicts DEF Ask, Request, AskLogout, MakeApi
  <2>5. ASSUME NEW w \in Workers, Insert(w) \/ CallPve(w)  PROVE Evictions
    BY <2>5, <2>1 DEF Insert, CallPve, Raised, Live
  <2>6. CASE Tick
    BY <2>6, <2>1 DEF Tick, Live
  <2> QED  BY <2>2, <2>3, <2>4, <2>5, <2>6 DEF Next, Step
<1> QED
  BY <1>1, SessionsInvariant, PTL DEF Spec, OnlyOldestEvicted, Evictions

-----------------------------------------------------------------------------
(* Whom PVE is called as. *)

\* A token that passed both checks is still in the store when its credentials are
\* looked up.
CheckedIsLive ==
  \A w \in Workers : AUTH = "Session" /\ pc[w] = "credentials" => req[w].token \in Live

SingleThread == \A v, w \in Workers : v = w

\* With one thread nothing comes between the second check and the look-up but time.
LEMMA StepKeepsChecked ==
  ASSUME SingleThread, SessionsInv, CheckedIsLive, [Next]_vars
  PROVE  CheckedIsLive'
<1>1. ASSUME NEW w \in Workers, Ask(w)  PROVE CheckedIsLive'
  <2>1. CASE \E u \in Users : Login(w, u)
    <3>1. pc'[w] # "credentials"
      BY <2>1 DEF Login, Advance, Goto, SessionsInv, SessionsTypeOK
    <3> QED  BY <3>1 DEF SingleThread, CheckedIsLive
  <2>2. ASSUME NEW r, NEW valid \in {"api", "logout"}, Validate(w, r, valid, "refused")
        PROVE  CheckedIsLive'
    <3>1. \E label \in {"api", "logout", "refused"} : pc' = [pc EXCEPT ![w] = label]
      BY <2>2 DEF Validate, Advance, Goto
    <3>2. pc'[w] # "credentials"
      BY <3>1 DEF SessionsInv, SessionsTypeOK
    <3> QED  BY <3>2 DEF SingleThread, CheckedIsLive
  <2> QED  BY <1>1, <2>1, <2>2 DEF Ask, Request, AskLogout
<1>2. ASSUME NEW w \in Workers, Step(w), ~MakeApi(w)  PROVE CheckedIsLive'
  <2>1. pc'[w] # "credentials"
    BY <1>2 DEF Step, Prune, Insert, CallPve, Raised, Logout, Advance, Goto, SessionsInv, SessionsTypeOK
  <2> QED  BY <2>1 DEF SingleThread, CheckedIsLive
<1>3. ASSUME NEW w \in Workers, MakeApi(w)  PROVE CheckedIsLive'
  <2> SUFFICES ASSUME AUTH = "Session", pc'[w] = "credentials"
               PROVE  req'[w].token \in Live'
    BY DEF SingleThread, CheckedIsLive
  <2>1. (\E accepted : Valid(req[w], accepted)) /\ req' = [req EXCEPT ![w] = req[w]]
    BY <1>3 DEF MakeApi, Raised, Validate, Advance, Goto, SessionsInv, SessionsTypeOK
  <2>2. req[w].token \in Live /\ ~Expired(req[w].token)
    BY <2>1 DEF Valid
  <2>3. sessions' = sessions
    BY <1>3, <2>2 DEF MakeApi, Validate
  <2>4. req'[w] = req[w]
    BY <2>1 DEF SessionsInv, SessionsTypeOK
  <2> QED  BY <2>2, <2>3, <2>4 DEF Live
<1>4. ASSUME Tick \/ UNCHANGED vars  PROVE CheckedIsLive'
  BY <1>4 DEF Tick, vars, CheckedIsLive, Live
<1> QED  BY <1>1, <1>2, <1>3, <1>4 DEF Next

\* What one step calls PVE as.
Calls == \A w \in Workers :
           AUTH = "Session" /\ pc[w] = "credentials" /\ pc'[w] = "answered" /\ req[w].user = NoUser
             => req[w].token \in DOMAIN owner /\ req'[w].as = owner[req[w].token]

\* Such a step calls PVE as the user the token was issued to.
LEMMA CallsAsTheCaller ==
  ASSUME SingleThread, SessionsInv, CheckedIsLive, Next
  PROVE  Calls
<1> SUFFICES ASSUME NEW w \in Workers, AUTH = "Session", pc[w] = "credentials",
                    pc'[w] = "answered", req[w].user = NoUser
             PROVE  req[w].token \in DOMAIN owner /\ req'[w].as = owner[req[w].token]
  BY DEF Calls
<1>1. req[w].token \in Live  BY DEF CheckedIsLive
<1>2. CallPve(w)
  <2>1. ~Tick  BY DEF Tick
  <2>2. Ask(w) \/ Step(w)  BY <2>1 DEF Next, SingleThread
  <2> QED
    BY <2>2 DEF Step, Ask, Login, Request, AskLogout, Prune, Insert, MakeApi, Logout, Done
<1>3. req' = [req EXCEPT ![w] = [req[w] EXCEPT !.as = Credentials(w)]]
  BY <1>2 DEF CallPve, Raised, Advance, Goto, SessionsInv, SessionsTypeOK
<1>4. req'[w].as = Credentials(w)
  BY <1>3 DEF SessionsInv, SessionsTypeOK, Requests
<1>5. Credentials(w) = sessions[req[w].token].username
  BY <1>1 DEF Credentials
<1> QED  BY <1>1, <1>4, <1>5 DEF SessionsInv, SessionsTypeOK, Live

\* In a daemon with one request thread, as shipped, a token acts for the user that
\* logged in with it and never for the daemon's own account, whenever it expires.
THEOREM OneThreadCallsAsTheCaller ==
  ASSUME SingleThread
  PROVE  Spec => CallersCredentials
<1>1. Init => CheckedIsLive
  BY DEF Init, CheckedIsLive
<1>2. SessionsInv /\ CheckedIsLive /\ [Next]_vars => CheckedIsLive'
  BY StepKeepsChecked
<1>3. SessionsInv /\ CheckedIsLive /\ [Next]_vars => [Calls]_vars
  BY CallsAsTheCaller
<1> QED
  BY <1>1, <1>2, <1>3, SessionsInvariant, PTL DEF Spec, CallersCredentials, Calls
=============================================================================
