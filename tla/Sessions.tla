-------------------------------- MODULE Sessions --------------------------------
(***************************************************************************)
(* Profiles, frontend sessions and API keys.                               *)
(*                                                                         *)
(* A request passes RabbitMiddleware and AuthMiddleware before its handler *)
(* runs; each makes calls to Tarantool, and requests interleave between    *)
(* the calls.  One call of the auth instance (roles/auth.lua) is atomic.   *)
(*                                                                         *)
(* A token carries its profile and its expiry in whole seconds and nothing *)
(* else, so two tokens of one profile issued in one second are the same    *)
(* token.  The token of a session is therefore written as the second it was*)
(* issued in, that of a key as the second it expires in.                   *)
(* The wallet stands for the pair of wallet and exchange that the unique   *)
(* index of space profile is over.  Bodies, wallets' signatures and the    *)
(* secrets that sign a payload are left out: requests here are well signed.*)
(***************************************************************************)
EXTENDS Integers, FiniteSets

CONSTANTS
    Wallets,              \* wallets that log in
    ApiKeys,              \* keys that generateSecret draws; each is drawn once
    SessionRequests,      \* bound: concurrent requests
    MaxSecrets,           \* MAX_SECRETS_PER_ACCOUNT
    SignatureLifetime,    \* seconds a signature may lie in the future
    JwtLifetime,          \* seconds a jwt lives
    RefreshLifetime,      \* seconds a refresh token lives
    KeyLifetimes,         \* expirations clients ask for
    LongLife,             \* 30 days of a refreshed key; half a year of a generated one
    MaxSeconds,           \* bound: seconds of the run
    MaxSessionCalls       \* bound: requests of the run

ASSUME SessionsAssumption ==
    /\ MaxSecrets \in Nat \ {0}
    /\ {SignatureLifetime, JwtLifetime, RefreshLifetime, LongLife} \subseteq Nat \ {0}
    /\ KeyLifetimes \subseteq Nat
    /\ MaxSeconds \in Nat /\ MaxSessionCalls \in Nat

VARIABLES
    second,         \* time.Now().Unix()
    accounts,       \* rows of space profile: [wallet, id]
    sessions,       \* rows of space frontend_secret: [id, issued]
    apiSecret,      \* space api_secret: [id, expiration, status] of a key
    apiJwt,         \* rows of space api_jwt: [key, expires]
    httpRequest,    \* the requests under way
    spent,          \* refresh tokens used by HandleJwt: [id, issued, at]
    drawn,          \* keys that were drawn so far
    httpCalls       \* requests so far

sessionVars == <<second, accounts, sessions, apiSecret, apiJwt, httpRequest, spent, drawn, httpCalls>>
authSpaces == <<accounts, sessions, apiSecret, apiJwt, spent, drawn>>

NoSecret == [id |-> 0, expiration |-> 0, status |-> "absent"]
Live(k) == apiSecret[k].status # "absent"
KeysOf(id) == {k \in ApiKeys : Live(k) /\ apiSecret[k].id = id}
IdsOf(w) == {a.id : a \in {b \in accounts : b.wallet = w}}
NoToken == [id |-> 0, issued |-> 0]
NoKey == "no key"
NoWallet == 0
IdleRequest == [op |-> "none", pc |-> "idle", ts |-> 0, id |-> 0, wallet |-> NoWallet,
                key |-> NoKey, token |-> NoToken, expires |-> 0]
Spend(t) == [id |-> t.id, issued |-> t.issued, at |-> second]
SpentTokens == {[id |-> t.id, issued |-> t.issued] : t \in spent}

SessionInit ==
    /\ second = 1
    /\ accounts = {} /\ sessions = {} /\ apiJwt = {} /\ spent = {} /\ drawn = {}
    /\ apiSecret = [k \in ApiKeys |-> NoSecret]
    /\ httpRequest = [r \in SessionRequests |-> IdleRequest]
    /\ httpCalls = 0

AtStage(r, pc) == httpRequest[r].pc = pc
Handles(r, op) == httpRequest[r].op = op /\ AtStage(r, "handler")
Continue(r, pc) == httpRequest' = [httpRequest EXCEPT ![r].pc = pc]
Reply(r) == httpRequest' = [httpRequest EXCEPT ![r] = IdleRequest]

-----------------------------------------------------------------------------
(* Tokens, signatures and the calls of the auth instance.                  *)

(* Not in the past and not too far ahead; 0 stands for no timestamp.       *)
Timely(ts) == (ts > 0 => ts >= second) /\ ts - second <= SignatureLifetime

(* Payload.Verify, and VerifyProfile of an onboarding.                     *)
Unexpired(ts) == second < ts

(* JwtToProfileID refuses a token that has expired.                        *)
JwtToProfileID(t, life) == second < t.issued + life

api_secret_validate(k) == Live(k) /\ apiSecret[k].expiration >= second

frontend_secret_create(id, old) ==
    sessions' = (sessions \ {old}) \cup {[id |-> id, issued |-> second]}

(* The smallest row of the profile by jwt, whichever that is.              *)
remove_session_secrets(id) ==
    LET mine == {s \in sessions : s.id = id}
    IN  IF mine = {} THEN UNCHANGED sessions ELSE \E s \in mine : sessions' = sessions \ {s}

api_secret_pair_create(k, id, life) ==
    /\ Cardinality(KeysOf(id)) < MaxSecrets
    /\ apiSecret' = [apiSecret EXCEPT ![k] =
                        [id |-> id, expiration |-> second + life, status |-> "pair"]]
    /\ apiJwt' = apiJwt \cup {[key |-> k, expires |-> second + life]}

api_delete_secret_key(k) ==
    /\ apiSecret' = [apiSecret EXCEPT ![k] = NoSecret]
    /\ apiJwt' = {j \in apiJwt : j.key # k}

(* Mutant: the status is not asked for.                                    *)
GeneratedAny(id) == KeysOf(id)

(* The keys that OnboardMarketMaker generates have a status of their own.  *)
Generated(id) == {k \in KeysOf(id) : apiSecret[k].status = "generated"}

Lapsed(id) == {k \in Generated(id) : apiSecret[k].expiration < second}

Deleted(id) == Lapsed(id)

(* The first generated key that has not expired, or a new one; the ones    *)
(* that expired are deleted on the way.                                    *)
get_or_refresh_api_secret_by_profile_id(k, id) ==
    LET kept == [x \in ApiKeys |-> IF x \in Deleted(id) THEN NoSecret ELSE apiSecret[x]]
    IN  apiSecret' = IF Generated(id) \ Lapsed(id) # {} THEN kept
                     ELSE [kept EXCEPT ![k] =
                              [id |-> id, expiration |-> second + LongLife, status |-> "generated"]]

-----------------------------------------------------------------------------
(* The middlewares.                                                        *)

(* A request arrives: an onboarding of a wallet with the cookie that its   *)
(* browser still has, a token to exchange, or a handler that AuthMiddleware*)
(* guards, with a jwt cookie or an API key.  A client may come with what   *)
(* it was given earlier and is no longer stored.                           *)
RabbitMiddleware(r) ==
    /\ AtStage(r, "idle") /\ httpCalls < MaxSessionCalls
    /\ \E ts \in {0} \cup second .. second + SignatureLifetime + 1 :
          LET new(op, pc) == [IdleRequest EXCEPT !.op = op, !.pc = pc, !.ts = ts]
          IN  /\ Timely(ts)
              /\ \/ \E w \in Wallets, t \in sessions \cup {NoToken} :
                       httpRequest' = [httpRequest EXCEPT ![r] =
                          [new("frontend", "lookup") EXCEPT !.wallet = w, !.token = t]]
                 \/ \E w \in Wallets :
                       httpRequest' = [httpRequest EXCEPT ![r] =
                          [new("marketMaker", "lookup") EXCEPT !.wallet = w]]
                 \/ \E t \in sessions \cup SpentTokens :
                       httpRequest' = [httpRequest EXCEPT ![r] =
                          [new("jwt", "handler") EXCEPT !.token = t]]
                 \/ \E k \in drawn :
                       httpRequest' = [httpRequest EXCEPT ![r] =
                          [new("keyJwt", "handler") EXCEPT !.key = k]]
                 \/ \E op \in {"create", "delete", "refresh", "remove"}, k \in drawn :
                       httpRequest' = [httpRequest EXCEPT ![r] = [new(op, "auth") EXCEPT !.key = k]]
                 \/ \E op \in {"create", "delete", "refresh", "remove"}, t \in sessions \cup SpentTokens :
                       httpRequest' = [httpRequest EXCEPT ![r] = [new(op, "auth") EXCEPT !.token = t]]
    /\ httpCalls' = httpCalls + 1
    /\ UNCHANGED <<second, authSpaces>>

(* The credential is looked up, then the payload is verified: all requests *)
(* here are POST or DELETE.                                                *)
AuthMiddleware(r) ==
    LET q == httpRequest[r]
        id == IF q.key # NoKey THEN apiSecret[q.key].id ELSE q.token.id
        admitted == /\ IF q.key # NoKey THEN api_secret_validate(q.key)
                       ELSE JwtToProfileID(q.token, JwtLifetime) /\ q.token \in sessions
                    /\ Unexpired(q.ts)
    IN  /\ AtStage(r, "auth")
        /\ IF admitted THEN httpRequest' = [httpRequest EXCEPT ![r].pc = "handler", ![r].id = id]
           ELSE Reply(r)
        /\ UNCHANGED <<second, authSpaces, httpCalls>>

-----------------------------------------------------------------------------
(* Onboarding.                                                             *)

LookUpWallet(r) ==
    LET q == httpRequest[r]
    IN  /\ AtStage(r, "lookup")
        /\ IF ~Unexpired(q.ts) THEN Reply(r)
           ELSE IF IdsOf(q.wallet) = {} THEN Continue(r, "profile")
           ELSE \E id \in IdsOf(q.wallet) :
                   httpRequest' = [httpRequest EXCEPT ![r].pc = "secret", ![r].id = id]
        /\ UNCHANGED <<second, authSpaces, httpCalls>>

(* The unique index over exchange and wallet.                              *)
WalletFree(w) == IdsOf(w) = {}

CreateProfile(r) ==
    LET q == httpRequest[r]
        id == Cardinality(accounts) + 1
    IN  /\ AtStage(r, "profile")
        /\ IF WalletFree(q.wallet)
           THEN /\ accounts' = accounts \cup {[wallet |-> q.wallet, id |-> id]}
                /\ httpRequest' = [httpRequest EXCEPT ![r].pc = "secret", ![r].id = id]
           ELSE Reply(r) /\ UNCHANGED accounts
        /\ UNCHANGED <<second, sessions, apiSecret, apiJwt, spent, drawn, httpCalls>>

OnboardFrontend(r) ==
    LET q == httpRequest[r]
    IN  /\ q.op = "frontend" /\ AtStage(r, "secret")
        /\ frontend_secret_create(q.id, q.token)
        /\ Reply(r)
        /\ UNCHANGED <<second, accounts, apiSecret, apiJwt, spent, drawn, httpCalls>>

OnboardMarketMaker(r) ==
    LET q == httpRequest[r]
    IN  /\ q.op = "marketMaker" /\ AtStage(r, "secret")
        /\ \E k \in ApiKeys \ drawn :
              /\ drawn' = drawn \cup {k}
              /\ get_or_refresh_api_secret_by_profile_id(k, q.id)
        /\ Reply(r)
        /\ UNCHANGED <<second, accounts, sessions, apiJwt, spent, httpCalls>>

-----------------------------------------------------------------------------
(* HandleJwt: a refresh token, or a key, for a jwt.                        *)

HandleJwt(r) ==
    LET q == httpRequest[r]
    IN  /\ \/ /\ Handles(r, "jwt")
              /\ JwtToProfileID(q.token, RefreshLifetime) /\ q.token \in sessions /\ Unexpired(q.ts)
              /\ Continue(r, "rotate")
           \/ /\ Handles(r, "jwt")
              /\ ~(JwtToProfileID(q.token, RefreshLifetime) /\ q.token \in sessions /\ Unexpired(q.ts))
              /\ Reply(r)
           \/ /\ Handles(r, "keyJwt")
              /\ IF Live(q.key) /\ Unexpired(q.ts) THEN Continue(r, "extend") ELSE Reply(r)
        /\ UNCHANGED <<second, authSpaces, httpCalls>>

(* The session of the refresh token gives way to a new one.                *)
CreateFromProfileID(r) ==
    LET q == httpRequest[r]
    IN  /\ AtStage(r, "rotate")
        /\ frontend_secret_create(q.token.id, q.token)
        /\ spent' = spent \cup {Spend(q.token)}
        /\ Reply(r)
        /\ UNCHANGED <<second, accounts, apiSecret, apiJwt, drawn, httpCalls>>

(* The key then lives as long as the jwt, be that longer or shorter.       *)
UpdateApiSecretExpire(r) ==
    LET q == httpRequest[r]
    IN  /\ AtStage(r, "extend")
        /\ IF Live(q.key) THEN apiSecret' = [apiSecret EXCEPT ![q.key].expiration = second + JwtLifetime]
           ELSE UNCHANGED apiSecret
        /\ Reply(r)
        /\ UNCHANGED <<second, accounts, sessions, apiJwt, spent, drawn, httpCalls>>

-----------------------------------------------------------------------------
(* The handlers of /secrets.                                               *)

HandleSecretCreate(r) ==
    LET q == httpRequest[r]
    IN  /\ Handles(r, "create")
        /\ \E k \in ApiKeys \ drawn, life \in KeyLifetimes :
              /\ drawn' = drawn \cup {k}
              /\ \/ api_secret_pair_create(k, q.id, life)
                 \/ /\ Cardinality(KeysOf(q.id)) >= MaxSecrets
                    /\ UNCHANGED <<apiSecret, apiJwt>>
        /\ Reply(r)
        /\ UNCHANGED <<second, accounts, sessions, spent, httpCalls>>

HandleSecretDelete(r) ==
    /\ Handles(r, "delete")
    /\ \E k \in KeysOf(httpRequest[r].id) : api_delete_secret_key(k)
    /\ Reply(r)
    /\ UNCHANGED <<second, accounts, sessions, spent, drawn, httpCalls>>

HandleSecretsSessionRemove(r) ==
    /\ Handles(r, "remove")
    /\ remove_session_secrets(httpRequest[r].id)
    /\ Reply(r)
    /\ UNCHANGED <<second, accounts, apiSecret, apiJwt, spent, drawn, httpCalls>>

(* The client sends a refresh token it was given with a key; the handler   *)
(* makes the new tokens, whether or not that one is still stored.          *)
HandleSecretRefresh(r) ==
    LET id == httpRequest[r].id
    IN  /\ Handles(r, "refresh")
        /\ \E token \in {j.expires : j \in {i \in apiJwt : apiSecret[i.key].id = id}} :
              httpRequest' = [httpRequest EXCEPT ![r].pc = "swap", ![r].expires = second + LongLife,
                                                 ![r].token = [id |-> id, issued |-> token]]
        /\ UNCHANGED <<second, authSpaces, httpCalls>>

(* A row with the token is looked up (its index is not unique, and any key *)
(* with that token may be the first), and gives way to one of the new      *)
(* token.  When a refresh or a deletion came first there is none.          *)
api_refresh_secret(r) ==
    LET q == httpRequest[r]
        rows == {j \in apiJwt : j.expires = q.token.issued /\ apiSecret[j.key].id = q.id}
    IN  /\ AtStage(r, "swap")
        /\ \/ \E j \in rows :
                 /\ apiJwt' = (apiJwt \ {j}) \cup {[key |-> j.key, expires |-> q.expires]}
                 /\ apiSecret' = [apiSecret EXCEPT ![j.key].expiration = q.expires]
           \/ rows = {} /\ UNCHANGED <<apiJwt, apiSecret>>
        /\ Reply(r)
        /\ UNCHANGED <<second, accounts, sessions, spent, drawn, httpCalls>>

(* A request that the handler refuses: nothing to delete or to refresh.    *)
Refuse(r) ==
    LET id == httpRequest[r].id
    IN  /\ \/ Handles(r, "delete") /\ KeysOf(id) = {}
           \/ Handles(r, "refresh") /\ {i \in apiJwt : Live(i.key) /\ apiSecret[i.key].id = id} = {}
        /\ Reply(r)
        /\ UNCHANGED <<second, authSpaces, httpCalls>>

SecondPasses ==
    /\ second < MaxSeconds
    /\ second' = second + 1
    /\ UNCHANGED <<authSpaces, httpRequest, httpCalls>>

SessionNext ==
    \/ \E r \in SessionRequests :
          \/ RabbitMiddleware(r) \/ AuthMiddleware(r)
          \/ LookUpWallet(r) \/ CreateProfile(r) \/ OnboardFrontend(r) \/ OnboardMarketMaker(r)
          \/ HandleJwt(r) \/ CreateFromProfileID(r) \/ UpdateApiSecretExpire(r)
          \/ HandleSecretCreate(r) \/ HandleSecretDelete(r) \/ HandleSecretsSessionRemove(r)
          \/ HandleSecretRefresh(r) \/ api_refresh_secret(r) \/ Refuse(r)
    \/ SecondPasses

SessionSpec == SessionInit /\ [][SessionNext]_sessionVars

-----------------------------------------------------------------------------
(* A wallet has one profile, whoever onboards it at the same time: the     *)
(* lookup and the insert are two calls, and the unique index decides.      *)
OneProfilePerWallet == \A a, b \in accounts : a.wallet = b.wallet => a = b

(* Every key of a client has one refresh token, and no token is left of a *)
(* key that is gone, though keys are deleted while their token is being    *)
(* refreshed, refreshed twice at once, and deleted by an onboarding when   *)
(* they expire.                                                            *)
TokensFollowKeys ==
    /\ \A j \in apiJwt : Live(j.key)
    /\ \A k \in ApiKeys :
          apiSecret[k].status = "pair" => Cardinality({j \in apiJwt : j.key = k}) = 1

(* A profile has at most one generated key, on top of MAX_SECRETS others:  *)
(* expired ones do not pile up however often the market maker onboards.    *)
GeneratedKeysBounded ==
    \A a \in accounts :
       Cardinality(Generated(a.id)) <= 1 /\ Cardinality(KeysOf(a.id)) <= MaxSecrets + 1

(* A refresh token that was used is not accepted again: the session it     *)
(* belonged to is gone, unless the very same token was issued anew within  *)
(* the second it was issued in.                                            *)
SpentStaysSpent ==
    \A s \in sessions, t \in spent :
       s.id = t.id /\ s.issued = t.issued => t.at = t.issued

(* Profiles, keys, tokens and sessions fit each other after any            *)
(* interleaving of their requests (roles/auth.lua, HandleOnboarding).      *)
SessionsAgree ==
    OneProfilePerWallet /\ TokensFollowKeys /\ GeneratedKeysBounded /\ SpentStaysSpent

=============================================================================
