---------------------------- MODULE Requests_proof ----------------------------
(* Theorems about what requests do to each other: calls to an instance that*)
(* may be cut off (Broker), profiles with their sessions and keys          *)
(* (Sessions), the dead man's switch (DeadMansSwitch) and the referral     *)
(* service (Referrals), for any callers, keys, profiles, markets and       *)
(* services.                                                               *)
EXTENDS Broker, Sessions, DeadMansSwitch, Referrals, FiniteSetTheorems, TLAPS

-------------------------------------------------------------------------------
(* The broker.                                                             *)

CallT == [name : DOMAIN Sent \cup {"none"},
          at : {"look", "sent", "ran", "dial", "swap", "done"},
          conn : {"none", "up", "broken"},
          reply : {"none", "ok", "refused", "canceled", "notFound"},
          runs : Nat, losses : Nat]

(* A procedure that ran and whose reply has not been lost counts one run   *)
(* more than losses.                                                       *)
Explained(row) ==
    /\ row.runs <= row.losses + 1
    /\ row.at \notin {"ran", "done"} => row.runs <= row.losses
    /\ row.reply = "ok" => row.runs > 0

Holds(row) == row.at \in {"sent", "ran"}

(* The read lock is held exactly while the call is made.                   *)
BrokerIInv ==
    /\ call \in [Callers -> CallT]
    /\ \A c \in Callers : Explained(call[c])
    /\ \A c \in Callers : c \in readers <=> Holds(call[c])

LEMMA BrokerInitHolds == BrokerInit => BrokerIInv
BY BrokerAssumption DEF BrokerInit, BrokerIInv, CallT, Explained, Holds

(* A caller moves its own row only, and takes or frees the lock with it.   *)
LEMMA RowKeeps ==
    ASSUME BrokerIInv, NEW c \in Callers, NEW row \in CallT,
           Explained(row), call' = [call EXCEPT ![c] = row],
           readers' = IF Holds(row) THEN readers \cup {c} ELSE readers \ {c}
    PROVE  BrokerIInv'
BY DEF BrokerIInv

(* exec up to the call: the lock is taken when there is a connection.      *)
LEMMA LookKeeps ==
    ASSUME BrokerIInv, NEW c \in Callers, Look(c)
    PROVE  BrokerIInv'
<1> DEFINE row == call[c]
           absent == [row EXCEPT !.at = "done", !.reply = "notFound"]
           To(place) == [row EXCEPT !.at = place]
<1>1. row \in CallT /\ Explained(row) /\ row.at = "look" /\ c \notin readers
  BY DEF BrokerIInv, Look, At, Holds
<1>2. CASE call' = [call EXCEPT ![c] = absent] /\ UNCHANGED readers
  <2>1. absent \in CallT /\ Explained(absent) /\ ~Holds(absent)
    BY <1>1 DEF CallT, Explained, Holds
  <2>2. readers' = readers \ {c}
    BY <1>1, <1>2
  <2>3. QED
    BY <1>2, <2>1, <2>2, RowKeeps
<1>3. CASE call' = [call EXCEPT ![c] = To("dial")] /\ UNCHANGED readers
  <2>1. To("dial") \in CallT /\ Explained(To("dial")) /\ ~Holds(To("dial"))
    BY <1>1 DEF CallT, Explained, Holds
  <2>2. readers' = readers \ {c}
    BY <1>1, <1>3
  <2>3. QED
    BY <1>3, <2>1, <2>2, RowKeeps
<1>4. CASE call' = [call EXCEPT ![c] = To("sent")] /\ readers' = readers \cup {c}
  <2>1. To("sent") \in CallT /\ Explained(To("sent")) /\ Holds(To("sent"))
    BY <1>1 DEF CallT, Explained, Holds
  <2>2. QED
    BY <1>4, <2>1, RowKeeps
<1>5. QED
  BY <1>2, <1>3, <1>4 DEF Look, Move

(* A run is counted while the lock is held and its reply is still to come. *)
LEMMA RunKeeps ==
    ASSUME BrokerIInv, NEW c \in Callers, Run(c)
    PROVE  BrokerIInv'
<1> DEFINE row == call[c]
<1>1. row \in CallT /\ Explained(row) /\ row.at = "sent" /\ c \in readers
  BY DEF BrokerIInv, Run, At, Holds
<1>2. PICK reply \in {"ok", "refused"}, n \in {0, 1} :
        /\ call' = [call EXCEPT ![c].at = "ran", ![c].reply = reply, ![c].runs = @ + n]
        /\ reply = "ok" => n = 1
  BY DEF Run
<1> DEFINE new == [row EXCEPT !.at = "ran", !.reply = reply, !.runs = @ + n]
<1>3. new \in CallT /\ Explained(new) /\ Holds(new)
  <2>1. row.runs \in Nat /\ row.losses \in Nat /\ row.runs <= row.losses
    BY <1>1 DEF CallT, Explained
  <2>2. /\ new.at = "ran" /\ new.reply = reply
        /\ new.runs = row.runs + n /\ new.losses = row.losses
    BY <1>1 DEF CallT
  <2>3. new \in CallT
    <3>1. row.runs + n \in Nat
      BY <2>1
    <3>2. \A k \in Nat : [row EXCEPT !.at = "ran", !.reply = reply, !.runs = k] \in CallT
      BY <1>1 DEF CallT
    <3>3. QED
      BY <3>1, <3>2
  <2>4. Explained(new)
    BY <1>2, <2>1, <2>2 DEF Explained
  <2>5. QED
    BY <2>2, <2>3, <2>4 DEF Holds
<1>4. call' = [call EXCEPT ![c] = new]
  BY <1>2
<1>5. readers' = readers \cup {c}
  BY <1>1 DEF Run
<1> HIDE DEF new
<1>6. QED
  BY <1>3, <1>4, <1>5, RowKeeps

(* The answer frees the lock; the run it reports is the last one.          *)
LEMMA AnswerKeeps ==
    ASSUME BrokerIInv, NEW c \in Callers, Answer(c)
    PROVE  BrokerIInv'
<1> DEFINE new == [call[c] EXCEPT !.at = "done"]
<1>1. call[c] \in CallT /\ Explained(call[c]) /\ call[c].at = "ran"
  BY DEF BrokerIInv, Answer, At, Holds
<1>2. new \in CallT /\ Explained(new) /\ ~Holds(new)
  BY <1>1 DEF CallT, Explained, Holds
<1>3. call' = [call EXCEPT ![c] = new] /\ readers' = readers \ {c}
  BY <1>1 DEF Answer, Move, ReadUnlock
<1> HIDE DEF new
<1>4. QED
  BY <1>2, <1>3, RowKeeps

(* A lost call pays for the run it may have had.                           *)
LEMMA LoseKeeps ==
    ASSUME BrokerIInv, NEW c \in Callers, Lose(c)
    PROVE  BrokerIInv'
<1> DEFINE new == [call[c] EXCEPT !.at = "dial", !.reply = "none", !.losses = @ + 1]
<1>1. call[c] \in CallT /\ Explained(call[c]) /\ call[c].at \in {"sent", "ran"}
  BY DEF BrokerIInv, Lose, At, Holds
<1>2. new \in CallT /\ Explained(new) /\ ~Holds(new)
  <2>1. /\ call[c].runs \in Nat /\ call[c].losses \in Nat
        /\ call[c].runs <= call[c].losses + 1
    BY <1>1 DEF CallT, Explained
  <2>2. /\ new.at = "dial" /\ new.reply = "none"
        /\ new.runs = call[c].runs /\ new.losses = call[c].losses + 1
    BY <1>1 DEF CallT
  <2>3. new \in CallT
    <3>1. call[c].losses + 1 \in Nat
      BY <2>1
    <3>2. \A k \in Nat : [call[c] EXCEPT !.at = "dial", !.reply = "none", !.losses = k] \in CallT
      BY <1>1 DEF CallT
    <3>3. QED
      BY <3>1, <3>2
  <2>4. QED
    BY <2>1, <2>2, <2>3 DEF Explained, Holds
<1>3. call' = [call EXCEPT ![c] = new] /\ readers' = readers \ {c}
  BY <1>1 DEF Lose, ReadUnlock
<1> HIDE DEF new
<1>4. QED
  BY <1>2, <1>3, RowKeeps

(* A canceled call may have run, and is not repeated.                      *)
LEMMA CancelKeeps ==
    ASSUME BrokerIInv, NEW c \in Callers, CancelCall(c)
    PROVE  BrokerIInv'
<1> DEFINE new == [call[c] EXCEPT !.at = "done", !.reply = "canceled"]
<1>1. call[c] \in CallT /\ Explained(call[c]) /\ call[c].at \in {"sent", "ran"}
  BY DEF BrokerIInv, CancelCall, At, Holds
<1>2. new \in CallT /\ Explained(new) /\ ~Holds(new)
  BY <1>1 DEF CallT, Explained, Holds
<1>3. call' = [call EXCEPT ![c] = new] /\ readers' = readers \ {c}
  BY <1>1 DEF CancelCall, ReadUnlock
<1> HIDE DEF new
<1>4. QED
  BY <1>2, <1>3, RowKeeps

(* The lock is free while the caller connects again ...                    *)
LEMMA NewConnectionKeeps ==
    ASSUME BrokerIInv, NEW c \in Callers, NewConnection(c)
    PROVE  BrokerIInv'
<1> DEFINE new == [call[c] EXCEPT !.at = "swap", !.conn = "up"]
<1>1. call[c] \in CallT /\ Explained(call[c]) /\ call[c].at = "dial" /\ c \notin readers
  BY DEF BrokerIInv, NewConnection, At, Holds
<1>2. new \in CallT /\ Explained(new) /\ ~Holds(new)
  BY <1>1 DEF CallT, Explained, Holds
<1>3. call' = [call EXCEPT ![c] = new] /\ readers' = readers \ {c}
  BY <1>1 DEF NewConnection
<1> HIDE DEF new
<1>4. QED
  BY <1>2, <1>3, RowKeeps

(* ... and when it puts its connection in the pool.                        *)
LEMMA SwapKeeps ==
    ASSUME BrokerIInv, NEW c \in Callers, Swap(c)
    PROVE  BrokerIInv'
<1> DEFINE new == [call[c] EXCEPT !.at = "look", !.conn = "none"]
<1>1. call[c] \in CallT /\ Explained(call[c]) /\ call[c].at = "swap" /\ c \notin readers
  BY DEF BrokerIInv, Swap, At, Holds
<1>2. new \in CallT /\ Explained(new) /\ ~Holds(new)
  BY <1>1 DEF CallT, Explained, Holds
<1>3. call' = [call EXCEPT ![c] = new] /\ readers' = readers \ {c}
  BY <1>1 DEF Swap
<1> HIDE DEF new
<1>4. QED
  BY <1>2, <1>3, RowKeeps

(* A break spoils the new connection of a caller, and nothing else of it.  *)
LEMMA BreakKeeps ==
    ASSUME BrokerIInv, NEW t, Break(t)
    PROVE  BrokerIInv'
<1>1. ASSUME NEW c \in Callers
      PROVE  call'[c] \in CallT /\ Explained(call'[c]) /\ (Holds(call'[c]) <=> Holds(call[c]))
  <2>1. call[c] \in CallT /\ Explained(call[c])
    BY DEF BrokerIInv
  <2>2. call'[c] = call[c] \/ call'[c] = [call[c] EXCEPT !.conn = "broken"]
    BY DEF Break
  <2>3. QED
    BY <2>1, <2>2 DEF CallT, Explained, Holds
<1>2. call' \in [Callers -> CallT]
  BY <1>1 DEF Break
<1>3. QED
  BY <1>1, <1>2 DEF BrokerIInv, Break

(* The inductive invariant.                                                *)
THEOREM BrokerInvariance == BrokerSpec => []BrokerIInv
<1>1. BrokerIInv /\ [BrokerNext]_brokerVars => BrokerIInv'
  <2> SUFFICES ASSUME BrokerIInv, [BrokerNext]_brokerVars PROVE BrokerIInv'
    OBVIOUS
  <2>1. CASE UNCHANGED <<call, readers>>
    BY <2>1 DEF BrokerIInv
  <2>2. CASE \E t \in Asked : Recover(t)
    BY <2>1, <2>2 DEF Recover
  <2>3. QED
    BY <2>1, <2>2, LookKeeps, RunKeeps, AnswerKeeps, LoseKeeps, CancelKeeps,
       NewConnectionKeeps, SwapKeeps, BreakKeeps
       DEF BrokerNext, CallerStep, brokerVars
<1>2. QED
  BY <1>1, BrokerInitHolds, PTL DEF BrokerSpec

(* A call that is made again is one whose connection was lost, and a call  *)
(* that succeeded has run.                                                 *)
THEOREM RunsAreExplained == BrokerSpec => []RunsExplained
<1>1. BrokerIInv => RunsExplained
  BY DEF BrokerIInv, CallT, Explained, RunsExplained
<1>2. QED
  BY <1>1, BrokerInvariance, PTL

-------------------------------------------------------------------------------
(* Sessions.                                                               *)

TokenT == [id : Nat, issued : Nat]
SpentT == [id : Nat, issued : Nat, at : Nat]
AccountT == [wallet : Wallets, id : Nat]
SecretT == [id : Nat, expiration : Nat, status : {"absent", "pair", "generated"}]
JwtT == [key : ApiKeys, expires : Nat]
WalletT == Wallets \cup {NoWallet}
KeyT == ApiKeys \cup {NoKey}
RequestT == [op : {"none", "frontend", "marketMaker", "jwt", "keyJwt", "create", "delete", "refresh", "remove"},
             pc : {"idle", "lookup", "profile", "secret", "handler", "auth", "rotate", "extend", "swap"},
             ts : Nat, id : Nat, wallet : WalletT, key : KeyT, token : TokenT, expires : Nat]

(* A request that is going to swap its token found it among the sessions.  *)
RequestOK(q) ==
    /\ q.pc = "rotate" => q.token.issued <= second
    /\ q.pc \in {"lookup", "profile"} => q.wallet \in Wallets

RequestsOK ==
    /\ second \in Nat
    /\ httpRequest \in [SessionRequests -> RequestT]
    /\ \A r \in SessionRequests : RequestOK(httpRequest[r])

AccountsOK == accounts \subseteq AccountT /\ IsFiniteSet(accounts) /\ OneProfilePerWallet

(* A pair of a key and its token has one row each; what is generated or    *)
(* gone has no token.                                                      *)
OneToken(k) == \E j \in apiJwt : \A i \in apiJwt : i.key = k <=> i = j

PairsOf(id) == {k \in KeysOf(id) : apiSecret[k].status = "pair"}

KeyTypes ==
    /\ apiSecret \in [ApiKeys -> SecretT] /\ apiJwt \subseteq JwtT
    /\ drawn \subseteq ApiKeys /\ IsFiniteSet(drawn)
    /\ \A k \in ApiKeys : Live(k) => k \in drawn

TokensOfPairs ==
    /\ \A j \in apiJwt : apiSecret[j.key].status = "pair"
    /\ \A k \in ApiKeys : apiSecret[k].status = "pair" => OneToken(k)

KeysBounded ==
    \A id : (\A k, l \in Generated(id) : k = l) /\ Cardinality(PairsOf(id)) <= MaxSecrets

KeysOK == KeyTypes /\ TokensOfPairs /\ KeysBounded

(* Nothing is issued or spent in the future, nor spent before it is issued.*)
TokensOK ==
    /\ second \in Nat /\ sessions \subseteq TokenT /\ spent \subseteq SpentT
    /\ \A s \in sessions : s.issued <= second
    /\ \A t \in spent : t.issued <= t.at /\ t.at <= second
    /\ SpentStaysSpent

SessionsInv == RequestsOK /\ AccountsOK /\ KeysOK /\ TokensOK

LEMMA NoTokenOK == NoToken \in TokenT
BY DEF NoToken, TokenT

LEMMA IdleOK == IdleRequest \in RequestT /\ RequestOK(IdleRequest)
<1>1. NoKey \in KeyT /\ NoWallet \in WalletT /\ NoToken \in TokenT
  BY NoTokenOK DEF KeyT, WalletT
<1> HIDE DEF NoKey, NoWallet, NoToken
<1> QED
  BY <1>1 DEF IdleRequest, RequestT, RequestOK

LEMMA SessionsAssumed ==
    /\ MaxSecrets \in Nat /\ MaxSecrets > 0
    /\ SignatureLifetime \in Nat /\ JwtLifetime \in Nat /\ RefreshLifetime \in Nat /\ LongLife \in Nat
    /\ KeyLifetimes \subseteq Nat
BY SessionsAssumption

LEMMA SessionInitHolds == SessionInit => SessionsInv
<1> SUFFICES ASSUME SessionInit PROVE SessionsInv
  OBVIOUS
<1>1. RequestsOK
  BY IdleOK DEF SessionInit, RequestsOK
<1>2. AccountsOK
  BY FS_EmptySet DEF SessionInit, AccountsOK, OneProfilePerWallet
<1>3. NoSecret \in SecretT /\ NoSecret.status = "absent"
  BY DEF NoSecret, SecretT
<1>4. \A k \in ApiKeys : apiSecret[k] = NoSecret /\ ~Live(k)
  BY <1>3 DEF SessionInit, Live
<1>5. KeyTypes
  BY <1>3, <1>4, FS_EmptySet DEF SessionInit, KeyTypes
<1>6. TokensOfPairs
  BY <1>3, <1>4 DEF SessionInit, TokensOfPairs
<1>7. KeysBounded
  <2>1. \A id : Generated(id) = {} /\ PairsOf(id) = {}
    BY <1>4 DEF Generated, PairsOf, KeysOf
  <2> QED
    BY <2>1, FS_EmptySet, SessionsAssumed DEF KeysBounded
<1>8. TokensOK
  BY DEF SessionInit, TokensOK, SpentStaysSpent
<1> QED
  BY <1>1, <1>2, <1>5, <1>6, <1>7, <1>8 DEF SessionsInv, KeysOK

-------------------------------------------------------------------------------
(* What steps leave alone.                                                 *)

RequestMoves(r) ==
    \E q \in RequestT : RequestOK(q) /\ httpRequest' = [httpRequest EXCEPT ![r] = q]

LEMMA MovesKeepRequests ==
    ASSUME RequestsOK, NEW r \in SessionRequests, RequestMoves(r), UNCHANGED second
    PROVE  RequestsOK'
BY DEF RequestsOK, RequestMoves, RequestOK

LEMMA ReplyMoves ==
    ASSUME NEW r, Reply(r)
    PROVE  RequestMoves(r)
BY IdleOK DEF Reply, RequestMoves

LEMMA AccountsSame ==
    ASSUME AccountsOK, UNCHANGED accounts
    PROVE  AccountsOK'
BY DEF AccountsOK, OneProfilePerWallet

LEMMA KeysSame ==
    ASSUME KeysOK, UNCHANGED <<apiSecret, apiJwt, drawn>>
    PROVE  KeysOK'
<1>1. \A k : Live(k)' = Live(k)
  BY DEF Live
<1>2. \A id : KeysOf(id)' = KeysOf(id)
  BY <1>1 DEF KeysOf
<1>3. \A id : Generated(id)' = Generated(id) /\ PairsOf(id)' = PairsOf(id)
  BY <1>2 DEF Generated, PairsOf
<1>4. KeyTypes'
  BY <1>1 DEF KeysOK, KeyTypes
<1>5. TokensOfPairs'
  BY DEF KeysOK, TokensOfPairs, OneToken
<1>6. KeysBounded'
  BY <1>3 DEF KeysOK, KeysBounded
<1> QED
  BY <1>4, <1>5, <1>6 DEF KeysOK

LEMMA TokensSame ==
    ASSUME TokensOK, UNCHANGED <<second, sessions, spent>>
    PROVE  TokensOK'
BY DEF TokensOK, SpentStaysSpent

-------------------------------------------------------------------------------
(* Requests that change nothing but themselves.                            *)

RequestOnly(r) == RequestMoves(r) /\ UNCHANGED <<second, authSpaces>>

LEMMA RequestOnlyKeeps ==
    ASSUME SessionsInv, NEW r \in SessionRequests, RequestOnly(r)
    PROVE  SessionsInv'
<1>1. UNCHANGED <<second, accounts, sessions, apiSecret, apiJwt, spent, drawn>>
  BY DEF RequestOnly, authSpaces
<1>2. RequestMoves(r)
  BY DEF RequestOnly
<1>3. RequestsOK'
  BY <1>1, <1>2, MovesKeepRequests DEF SessionsInv
<1>4. AccountsOK'
  BY <1>1, AccountsSame DEF SessionsInv
<1>5. KeysOK'
  BY <1>1, KeysSame DEF SessionsInv
<1>6. TokensOK'
  BY <1>1, TokensSame DEF SessionsInv
<1> QED
  BY <1>3, <1>4, <1>5, <1>6 DEF SessionsInv

(* What a record of a request may be changed to.                           *)
LEMMA RequestParts ==
    ASSUME RequestsOK, NEW r \in SessionRequests
    PROVE  /\ httpRequest[r] \in RequestT /\ RequestOK(httpRequest[r])
           /\ httpRequest[r].token \in TokenT /\ httpRequest[r].id \in Nat /\ httpRequest[r].expires \in Nat
BY DEF RequestsOK, RequestT

LEMMA AcrossAuth ==
    ASSUME SessionsInv, NEW r \in SessionRequests, AuthMiddleware(r)
    PROVE  RequestOnly(r)
<1> DEFINE q == httpRequest[r]
<1>0. RequestsOK /\ KeysOK
  BY DEF SessionsInv
<1>1. q \in RequestT /\ RequestOK(q) /\ q.token.id \in Nat
  BY <1>0, RequestParts DEF TokenT
<1>2. q.key # NoKey => apiSecret[q.key].id \in Nat
  BY <1>0, <1>1 DEF RequestT, KeyT, KeysOK, KeyTypes, SecretT
<1>3. UNCHANGED <<second, authSpaces>>
  BY DEF AuthMiddleware
<1>4. CASE Reply(r)
  BY <1>3, <1>4, ReplyMoves DEF RequestOnly
<1>5. CASE ~Reply(r)
  <2>1. PICK id \in Nat : httpRequest' = [httpRequest EXCEPT ![r].pc = "handler", ![r].id = id]
    BY <1>1, <1>2, <1>5 DEF AuthMiddleware
  <2> DEFINE p == [q EXCEPT !.pc = "handler", !.id = id]
  <2>2. p \in RequestT
    BY <1>1 DEF RequestT
  <2>3. RequestOK(p)
    BY <1>1, <2>2 DEF RequestOK, RequestT
  <2>4. httpRequest' = [httpRequest EXCEPT ![r] = p]
    BY <2>1, <1>0 DEF RequestsOK
  <2> QED
    BY <1>3, <2>2, <2>3, <2>4 DEF RequestOnly, RequestMoves
<1> QED
  BY <1>4, <1>5

LEMMA AcrossLookUp ==
    ASSUME SessionsInv, NEW r \in SessionRequests, LookUpWallet(r)
    PROVE  RequestOnly(r)
<1> DEFINE q == httpRequest[r]
<1>0. RequestsOK /\ AccountsOK
  BY DEF SessionsInv
<1>1. q \in RequestT /\ RequestOK(q)
  BY <1>0, RequestParts
<1>3. UNCHANGED <<second, authSpaces>> /\ q.pc = "lookup"
  BY DEF LookUpWallet, AtStage
<1>4. CASE Reply(r)
  BY <1>3, <1>4, ReplyMoves DEF RequestOnly
<1>5. CASE Continue(r, "profile")
  <2> DEFINE p == [q EXCEPT !.pc = "profile"]
  <2>2. p \in RequestT
    BY <1>1 DEF RequestT
  <2>3. RequestOK(p)
    BY <1>1, <1>3, <2>2 DEF RequestOK, RequestT
  <2>4. httpRequest' = [httpRequest EXCEPT ![r] = p]
    BY <1>5, <1>0 DEF RequestsOK, Continue
  <2> QED
    BY <1>3, <2>2, <2>3, <2>4 DEF RequestOnly, RequestMoves
<1>6. CASE ~Reply(r) /\ ~Continue(r, "profile")
  <2>0. \E i \in IdsOf(q.wallet) : httpRequest' = [httpRequest EXCEPT ![r].pc = "secret", ![r].id = i]
    BY <1>6 DEF LookUpWallet
  <2>1. PICK id \in Nat : httpRequest' = [httpRequest EXCEPT ![r].pc = "secret", ![r].id = id]
    BY <2>0, <1>0 DEF IdsOf, AccountsOK, AccountT
  <2> DEFINE p == [q EXCEPT !.pc = "secret", !.id = id]
  <2>2. p \in RequestT
    BY <1>1 DEF RequestT
  <2>3. RequestOK(p)
    BY <1>1, <2>2 DEF RequestOK, RequestT
  <2>4. httpRequest' = [httpRequest EXCEPT ![r] = p]
    BY <2>1, <1>0 DEF RequestsOK
  <2> QED
    BY <1>3, <2>2, <2>3, <2>4 DEF RequestOnly, RequestMoves
<1> QED
  BY <1>4, <1>5, <1>6

LEMMA ExchangeMoves ==
    ASSUME SessionsInv, NEW r \in SessionRequests, HandleJwt(r)
    PROVE  RequestOnly(r)
<1> DEFINE q == httpRequest[r]
<1>0. RequestsOK /\ TokensOK
  BY DEF SessionsInv
<1>1. q \in RequestT /\ RequestOK(q)
  BY <1>0, RequestParts
<1>3. UNCHANGED <<second, authSpaces>>
  BY DEF HandleJwt
<1>4. CASE Reply(r)
  BY <1>3, <1>4, ReplyMoves DEF RequestOnly
<1>5. CASE Continue(r, "rotate") /\ q.token \in sessions
  <2> DEFINE p == [q EXCEPT !.pc = "rotate"]
  <2>1. q.token.issued <= second
    BY <1>0, <1>5 DEF TokensOK
  <2>2. p \in RequestT
    BY <1>1 DEF RequestT
  <2>3. RequestOK(p)
    BY <1>1, <2>1, <2>2 DEF RequestOK, RequestT
  <2>4. httpRequest' = [httpRequest EXCEPT ![r] = p]
    BY <1>5, <1>0 DEF RequestsOK, Continue
  <2> QED
    BY <1>3, <2>2, <2>3, <2>4 DEF RequestOnly, RequestMoves
<1>6. CASE Continue(r, "extend")
  <2> DEFINE p == [q EXCEPT !.pc = "extend"]
  <2>2. p \in RequestT
    BY <1>1 DEF RequestT
  <2>3. RequestOK(p)
    BY <1>1, <2>2 DEF RequestOK, RequestT
  <2>4. httpRequest' = [httpRequest EXCEPT ![r] = p]
    BY <1>6, <1>0 DEF RequestsOK, Continue
  <2> QED
    BY <1>3, <2>2, <2>3, <2>4 DEF RequestOnly, RequestMoves
<1> QED
  BY <1>4, <1>5, <1>6 DEF HandleJwt

LEMMA RefreshMoves ==
    ASSUME SessionsInv, NEW r \in SessionRequests, HandleSecretRefresh(r)
    PROVE  RequestOnly(r)
<1> DEFINE q == httpRequest[r]
<1>0. RequestsOK /\ TokensOK /\ KeysOK
  BY DEF SessionsInv
<1>1. q \in RequestT /\ RequestOK(q) /\ q.id \in Nat
  BY <1>0, RequestParts
<1>3. UNCHANGED <<second, authSpaces>>
  BY DEF HandleSecretRefresh
<1>4. \E token \in {j.expires : j \in {i \in apiJwt : apiSecret[i.key].id = q.id}} :
         httpRequest' = [httpRequest EXCEPT ![r].pc = "swap", ![r].expires = second + LongLife,
                                            ![r].token = [id |-> q.id, issued |-> token]]
  BY DEF HandleSecretRefresh
<1>5. {j.expires : j \in {i \in apiJwt : apiSecret[i.key].id = q.id}} \subseteq Nat
  BY <1>0 DEF KeysOK, KeyTypes, JwtT
<1>6. PICK token \in Nat :
         httpRequest' = [httpRequest EXCEPT ![r].pc = "swap", ![r].expires = second + LongLife,
                                            ![r].token = [id |-> q.id, issued |-> token]]
  BY <1>4, <1>5
<1>7. PICK expires \in Nat : expires = second + LongLife
  BY <1>0, SessionsAssumed DEF TokensOK
<1>8. PICK given \in TokenT : given = [id |-> q.id, issued |-> token]
  BY <1>1 DEF TokenT
<1> DEFINE p == [q EXCEPT !.pc = "swap", !.expires = expires, !.token = given]
<1>9. p \in RequestT
  BY <1>1 DEF RequestT
<1>10. RequestOK(p)
  BY <1>1, <1>9 DEF RequestOK, RequestT
<1>11. httpRequest' = [httpRequest EXCEPT ![r] = p]
  BY <1>6, <1>7, <1>8, <1>0 DEF RequestsOK
<1> QED
  BY <1>3, <1>9, <1>10, <1>11 DEF RequestOnly, RequestMoves

LEMMA RefusalMoves ==
    ASSUME NEW r \in SessionRequests, Refuse(r)
    PROVE  RequestOnly(r)
BY ReplyMoves DEF Refuse, RequestOnly

NewAt(op, pc, ts) == [IdleRequest EXCEPT !.op = op, !.pc = pc, !.ts = ts]

LEMMA NewRequest ==
    ASSUME NEW op \in {"frontend", "marketMaker", "jwt", "keyJwt", "create", "delete", "refresh", "remove"},
           NEW pc \in {"lookup", "handler", "auth"}, NEW ts \in Nat
    PROVE  NewAt(op, pc, ts) \in RequestT /\ NewAt(op, pc, ts).pc = pc
<1>1. IdleRequest \in RequestT
  BY IdleOK
<1> HIDE DEF IdleRequest
<1> QED
  BY <1>1 DEF RequestT, NewAt

LEMMA ArrivalMoves ==
    ASSUME SessionsInv, NEW r \in SessionRequests, RabbitMiddleware(r)
    PROVE  RequestOnly(r)
<1>0. RequestsOK /\ TokensOK /\ KeysOK
  BY DEF SessionsInv
<1> DEFINE tokens == sessions \cup SpentTokens
           ops == {"create", "delete", "refresh", "remove"}
           becomes(p) == httpRequest' = [httpRequest EXCEPT ![r] = p]
<1>1. sessions \cup {NoToken} \subseteq TokenT /\ tokens \subseteq TokenT
  BY <1>0, NoTokenOK DEF TokensOK, SpentTokens, SpentT, TokenT
<1>2. drawn \subseteq KeyT
  BY <1>0 DEF KeysOK, KeyTypes, KeyT
<1>3. UNCHANGED <<second, authSpaces>>
  BY DEF RabbitMiddleware
<1>4. {0} \cup (second .. second + SignatureLifetime + 1) \subseteq Nat
  BY <1>0, SessionsAssumed DEF TokensOK
<1>5. PICK ts \in Nat :
         \/ \E w \in Wallets, t \in sessions \cup {NoToken} :
               becomes([NewAt("frontend", "lookup", ts) EXCEPT !.wallet = w, !.token = t])
         \/ \E w \in Wallets : becomes([NewAt("marketMaker", "lookup", ts) EXCEPT !.wallet = w])
         \/ \E t \in tokens : becomes([NewAt("jwt", "handler", ts) EXCEPT !.token = t])
         \/ \E k \in drawn : becomes([NewAt("keyJwt", "handler", ts) EXCEPT !.key = k])
         \/ \E op \in ops, k \in drawn : becomes([NewAt(op, "auth", ts) EXCEPT !.key = k])
         \/ \E op \in ops, t \in tokens : becomes([NewAt(op, "auth", ts) EXCEPT !.token = t])
  BY <1>4 DEF RabbitMiddleware, NewAt
<1>6. SUFFICES ASSUME NEW p \in RequestT, RequestOK(p), becomes(p) PROVE RequestOnly(r)
  <2>1. CASE \E w \in Wallets, t \in sessions \cup {NoToken} :
               becomes([NewAt("frontend", "lookup", ts) EXCEPT !.wallet = w, !.token = t])
    <3>1. PICK w \in Wallets, t \in TokenT :
             becomes([NewAt("frontend", "lookup", ts) EXCEPT !.wallet = w, !.token = t])
      BY <2>1, <1>1
    <3>2. PICK n \in RequestT : n = NewAt("frontend", "lookup", ts) /\ n.pc = "lookup"
      BY NewRequest
    <3>3. [n EXCEPT !.wallet = w, !.token = t] \in RequestT
      BY <3>2 DEF RequestT, WalletT
    <3>4. RequestOK([n EXCEPT !.wallet = w, !.token = t])
      BY <3>2 DEF RequestT, RequestOK
    <3> QED
      BY <3>1, <3>2, <3>3, <3>4
  <2>2. CASE \E w \in Wallets : becomes([NewAt("marketMaker", "lookup", ts) EXCEPT !.wallet = w])
    <3>1. PICK w \in Wallets : becomes([NewAt("marketMaker", "lookup", ts) EXCEPT !.wallet = w])
      BY <2>2
    <3>2. PICK n \in RequestT : n = NewAt("marketMaker", "lookup", ts) /\ n.pc = "lookup"
      BY NewRequest
    <3>3. [n EXCEPT !.wallet = w] \in RequestT
      BY <3>2 DEF RequestT, WalletT
    <3>4. RequestOK([n EXCEPT !.wallet = w])
      BY <3>2 DEF RequestT, RequestOK
    <3> QED
      BY <3>1, <3>2, <3>3, <3>4
  <2>3. CASE \/ \E t \in tokens : becomes([NewAt("jwt", "handler", ts) EXCEPT !.token = t])
             \/ \E op \in ops, t \in tokens : becomes([NewAt(op, "auth", ts) EXCEPT !.token = t])
    <3>1. PICK op \in {"jwt"} \cup ops, pc \in {"handler", "auth"}, t \in TokenT :
             becomes([NewAt(op, pc, ts) EXCEPT !.token = t])
      BY <2>3, <1>1
    <3>2. PICK n \in RequestT : n = NewAt(op, pc, ts) /\ n.pc \in {"handler", "auth"}
      BY NewRequest
    <3>3. [n EXCEPT !.token = t] \in RequestT
      BY <3>2 DEF RequestT
    <3>4. RequestOK([n EXCEPT !.token = t])
      BY <3>2 DEF RequestT, RequestOK
    <3> QED
      BY <3>1, <3>2, <3>3, <3>4
  <2>4. CASE \/ \E k \in drawn : becomes([NewAt("keyJwt", "handler", ts) EXCEPT !.key = k])
             \/ \E op \in ops, k \in drawn : becomes([NewAt(op, "auth", ts) EXCEPT !.key = k])
    <3>1. PICK op \in {"keyJwt"} \cup ops, pc \in {"handler", "auth"}, k \in KeyT :
             becomes([NewAt(op, pc, ts) EXCEPT !.key = k])
      BY <2>4, <1>2
    <3>2. PICK n \in RequestT : n = NewAt(op, pc, ts) /\ n.pc \in {"handler", "auth"}
      BY NewRequest
    <3>3. [n EXCEPT !.key = k] \in RequestT
      BY <3>2 DEF RequestT
    <3>4. RequestOK([n EXCEPT !.key = k])
      BY <3>2 DEF RequestT, RequestOK
    <3> QED
      BY <3>1, <3>2, <3>3, <3>4
  <2> HIDE DEF becomes
  <2> QED
    BY <1>5, <2>1, <2>2, <2>3, <2>4
<1> QED
  BY <1>3, <1>6 DEF RequestOnly, RequestMoves

-------------------------------------------------------------------------------
(* A profile is created.                                                   *)

LEMMA ProfileCreated ==
    ASSUME SessionsInv, NEW r \in SessionRequests, CreateProfile(r)
    PROVE  SessionsInv'
<1> DEFINE q == httpRequest[r]
<1>0. RequestsOK /\ AccountsOK /\ KeysOK /\ TokensOK
  BY DEF SessionsInv
<1>1. UNCHANGED <<second, sessions, apiSecret, apiJwt, spent, drawn>>
  BY DEF CreateProfile
<1>2. KeysOK' /\ TokensOK'
  BY <1>0, <1>1, KeysSame, TokensSame
<1>3. q \in RequestT /\ RequestOK(q)
  BY <1>0, RequestParts
<1>4. q.wallet \in Wallets
  BY <1>3 DEF CreateProfile, AtStage, RequestOK
<1>5. PICK id \in Nat : id = Cardinality(accounts) + 1
  BY <1>0, FS_CardinalityType DEF AccountsOK
<1>6. CASE WalletFree(q.wallet)
  <2>1. accounts' = accounts \cup {[wallet |-> q.wallet, id |-> id]}
    BY <1>5, <1>6 DEF CreateProfile
  <2>2. httpRequest' = [httpRequest EXCEPT ![r].pc = "secret", ![r].id = id]
    BY <1>5, <1>6 DEF CreateProfile
  <2> DEFINE p == [q EXCEPT !.pc = "secret", !.id = id]
             a == [wallet |-> q.wallet, id |-> id]
  <2>3. p \in RequestT
    BY <1>3 DEF RequestT
  <2>4. RequestOK(p)
    BY <1>3, <2>3 DEF RequestOK, RequestT
  <2>5. httpRequest' = [httpRequest EXCEPT ![r] = p]
    BY <2>2, <1>0 DEF RequestsOK
  <2>6. RequestsOK'
    BY <1>0, <1>1, <2>3, <2>4, <2>5, MovesKeepRequests DEF RequestMoves
  <2>7. a \in AccountT /\ a.wallet = q.wallet
    BY <1>4 DEF AccountT
  <2>8. \A b \in accounts : b.wallet # q.wallet
    BY <1>6 DEF WalletFree, IdsOf
  <2>9. IsFiniteSet(accounts')
    BY <1>0, <2>1, FS_AddElement DEF AccountsOK
  <2>10. OneProfilePerWallet'
    <3> SUFFICES ASSUME NEW b \in accounts', NEW c \in accounts', b.wallet = c.wallet PROVE b = c
      BY DEF OneProfilePerWallet
    <3> HIDE DEF a
    <3>1. (b \in accounts \/ b = a) /\ (c \in accounts \/ c = a)
      BY <2>1 DEF a
    <3>2. CASE b \in accounts /\ c \in accounts
      BY <1>0, <3>2 DEF AccountsOK, OneProfilePerWallet
    <3>3. CASE b = a \/ c = a
      BY <3>1, <3>3, <2>7, <2>8
    <3> QED
      BY <3>1, <3>2, <3>3
  <2>11. AccountsOK'
    BY <1>0, <2>1, <2>7, <2>9, <2>10 DEF AccountsOK
  <2> QED
    BY <1>2, <2>6, <2>11 DEF SessionsInv
<1>7. CASE ~WalletFree(q.wallet)
  <2>1. Reply(r) /\ UNCHANGED accounts
    BY <1>7 DEF CreateProfile
  <2> QED
    BY <1>0, <1>1, <1>2, <2>1, ReplyMoves, MovesKeepRequests, AccountsSame DEF SessionsInv
<1> QED
  BY <1>6, <1>7

-------------------------------------------------------------------------------
(* Sessions begin and end.                                                 *)

LEMMA TokenIssued ==
    ASSUME TokensOK, NEW id \in Nat, NEW old, frontend_secret_create(id, old), UNCHANGED <<second, spent>>
    PROVE  TokensOK'
<1>1. PICK new \in TokenT : new = [id |-> id, issued |-> second]
  BY DEF TokenT, TokensOK
<1>2. new.id = id /\ new.issued = second /\ sessions' = (sessions \ {old}) \cup {new}
  BY <1>1 DEF frontend_secret_create
<1>3. \A t \in spent : t.issued \in Nat /\ t.at \in Nat
  BY DEF TokensOK, SpentT
<1>4. SpentStaysSpent'
  BY <1>2, <1>3 DEF TokensOK, SpentStaysSpent
<1> QED
  BY <1>2, <1>4 DEF TokensOK

LEMMA TokenRotated ==
    ASSUME TokensOK, NEW old \in TokenT, old.issued <= second,
           frontend_secret_create(old.id, old), spent' = spent \cup {Spend(old)}, UNCHANGED second
    PROVE  TokensOK'
<1>0. old.id \in Nat /\ old.issued \in Nat
  BY DEF TokenT
<1>1. PICK new \in TokenT : new = [id |-> old.id, issued |-> second]
  BY <1>0 DEF TokenT, TokensOK
<1>2. new.id = old.id /\ new.issued = second /\ sessions' = (sessions \ {old}) \cup {new}
  BY <1>1 DEF frontend_secret_create
<1>3. \A t \in spent : t.issued \in Nat /\ t.at \in Nat
  BY DEF TokensOK, SpentT
<1>4. PICK past \in SpentT : past = Spend(old)
  BY <1>0 DEF Spend, SpentT, TokensOK
<1>5. past.id = old.id /\ past.issued = old.issued /\ past.at = second
  BY <1>4 DEF Spend
<1>6. \A s \in sessions : s.id = old.id /\ s.issued = old.issued => s = old
  <2> SUFFICES ASSUME NEW s \in TokenT, s.id = old.id, s.issued = old.issued PROVE s = old
    BY DEF TokensOK
  <2> QED
    BY DEF TokenT
<1>7. SpentStaysSpent'
  <2> SUFFICES ASSUME NEW s \in sessions', NEW t \in spent', s.id = t.id, s.issued = t.issued
               PROVE  t.at = t.issued
    BY DEF SpentStaysSpent
  <2>1. t \in spent \/ t = past
    BY <1>4
  <2>2. CASE s = new
    BY <1>2, <1>3, <1>5, <2>1, <2>2 DEF TokensOK
  <2>3. CASE s # new
    <3>1. s \in sessions /\ s # old
      BY <1>2, <2>3
    <3>2. t # past
      BY <1>5, <1>6, <3>1
    <3> QED
      BY <2>1, <3>1, <3>2 DEF TokensOK, SpentStaysSpent
  <2> QED
    BY <2>2, <2>3
<1>8. sessions' \subseteq TokenT /\ \A s \in sessions' : s.issued <= second
  BY <1>2 DEF TokensOK
<1>9. spent' \subseteq SpentT /\ \A t \in spent' : t.issued <= t.at /\ t.at <= second
  BY <1>0, <1>4, <1>5 DEF TokensOK
<1> QED
  BY <1>7, <1>8, <1>9 DEF TokensOK

LEMMA TokenRemoved ==
    ASSUME TokensOK, sessions' \subseteq sessions, UNCHANGED <<second, spent>>
    PROVE  TokensOK'
BY DEF TokensOK, SpentStaysSpent

LEMMA SessionsChange ==
    ASSUME SessionsInv, NEW r \in SessionRequests,
           OnboardFrontend(r) \/ CreateFromProfileID(r) \/ HandleSecretsSessionRemove(r)
    PROVE  SessionsInv'
<1> DEFINE q == httpRequest[r]
<1>0. RequestsOK /\ AccountsOK /\ KeysOK /\ TokensOK
  BY DEF SessionsInv
<1>1. UNCHANGED <<second, accounts, apiSecret, apiJwt, drawn>> /\ Reply(r)
  BY DEF OnboardFrontend, CreateFromProfileID, HandleSecretsSessionRemove
<1>2. RequestsOK' /\ AccountsOK' /\ KeysOK'
  BY <1>0, <1>1, ReplyMoves, MovesKeepRequests, AccountsSame, KeysSame
<1>3. RequestOK(q) /\ q.id \in Nat /\ q.token \in TokenT
  BY <1>0, RequestParts
<1>4. CASE OnboardFrontend(r)
  BY <1>0, <1>2, <1>3, <1>4, TokenIssued DEF OnboardFrontend, SessionsInv
<1>5. CASE CreateFromProfileID(r)
  <2>1. q.token.issued <= second
    BY <1>3, <1>5 DEF CreateFromProfileID, AtStage, RequestOK
  <2> QED
    BY <1>0, <1>2, <1>3, <1>5, <2>1, TokenRotated DEF CreateFromProfileID, SessionsInv
<1>6. CASE HandleSecretsSessionRemove(r)
  <2>1. sessions' \subseteq sessions /\ UNCHANGED <<second, spent>>
    BY <1>6 DEF HandleSecretsSessionRemove, remove_session_secrets
  <2> QED
    BY <1>0, <1>2, <2>1, TokenRemoved DEF SessionsInv
<1> QED
  BY <1>1, <1>4, <1>5, <1>6

LEMMA SecondPassesKeeps ==
    ASSUME SessionsInv, SecondPasses
    PROVE  SessionsInv'
<1>0. RequestsOK /\ AccountsOK /\ KeysOK /\ TokensOK
  BY DEF SessionsInv
<1>1. UNCHANGED <<accounts, sessions, apiSecret, apiJwt, spent, drawn, httpRequest>>
  BY DEF SecondPasses, authSpaces
<1>2. second \in Nat /\ second' \in Nat /\ second <= second'
  BY <1>0 DEF SecondPasses, TokensOK
<1>3. AccountsOK' /\ KeysOK'
  BY <1>0, <1>1, AccountsSame, KeysSame
<1>4. \A q \in RequestT : q.token.issued \in Nat
  BY DEF RequestT, TokenT
<1>5. RequestsOK'
  <2> SUFFICES ASSUME NEW r \in SessionRequests PROVE RequestOK(httpRequest[r])'
    BY <1>0, <1>1, <1>2 DEF RequestsOK
  <2>1. httpRequest[r] \in RequestT /\ RequestOK(httpRequest[r])
    BY <1>0, RequestParts
  <2>2. httpRequest[r].token.issued \in Nat
    BY <1>4, <2>1
  <2> QED
    BY <1>1, <1>2, <2>1, <2>2 DEF RequestOK
<1>6. TokensOK'
  <2>1. (\A s \in sessions : s.issued \in Nat) /\ (\A t \in spent : t.at \in Nat)
    BY <1>0 DEF TokensOK, TokenT, SpentT
  <2>2. \A s \in sessions' : s.issued <= second'
    BY <1>0, <1>1, <1>2, <2>1 DEF TokensOK
  <2>3. \A t \in spent' : t.issued <= t.at /\ t.at <= second'
    BY <1>0, <1>1, <1>2, <2>1 DEF TokensOK
  <2> QED
    BY <1>0, <1>1, <1>2, <2>2, <2>3 DEF TokensOK, SpentStaysSpent
<1> QED
  BY <1>3, <1>5, <1>6 DEF SessionsInv

-------------------------------------------------------------------------------
(* Keys and their tokens.                                                  *)

LEMMA KeysFinite ==
    ASSUME KeyTypes
    PROVE  \A id : /\ IsFiniteSet(KeysOf(id)) /\ IsFiniteSet(PairsOf(id)) /\ IsFiniteSet(Generated(id))
                  /\ PairsOf(id) \subseteq KeysOf(id) /\ Generated(id) \subseteq KeysOf(id)
<1> TAKE id
<1>1. KeysOf(id) \subseteq drawn /\ PairsOf(id) \subseteq KeysOf(id) /\ Generated(id) \subseteq KeysOf(id)
  BY DEF KeyTypes, KeysOf, PairsOf, Generated
<1> QED
  BY <1>1, FS_Subset DEF KeyTypes

(* A live key was live before, with the same profile and status.           *)
NoneAdded ==
    /\ apiSecret' \in [ApiKeys -> SecretT]
    /\ \A k \in ApiKeys :
          Live(k)' => apiSecret'[k].id = apiSecret[k].id /\ apiSecret'[k].status = apiSecret[k].status

LEMMA BoundsKept ==
    ASSUME KeysOK, NoneAdded
    PROVE  KeysBounded'
<1>0. KeyTypes
  BY DEF KeysOK
<1>1. \A k \in ApiKeys : Live(k)' => Live(k)
  BY DEF NoneAdded, Live
<1> SUFFICES ASSUME NEW id
             PROVE  (\A k, l \in Generated(id)' : k = l) /\ Cardinality(PairsOf(id)') <= MaxSecrets
  BY DEF KeysBounded
<1>2. KeysOf(id)' \subseteq KeysOf(id)
  BY <1>1 DEF KeysOf, NoneAdded
<1>3. Generated(id)' \subseteq Generated(id) /\ PairsOf(id)' \subseteq PairsOf(id)
  BY <1>2 DEF Generated, PairsOf, KeysOf, NoneAdded
<1>4. IsFiniteSet(PairsOf(id))
  BY <1>0, KeysFinite
<1>5. Cardinality(PairsOf(id)') <= Cardinality(PairsOf(id))
  BY <1>3, <1>4, FS_Subset
<1>6. Cardinality(PairsOf(id)) \in Nat /\ Cardinality(PairsOf(id)') \in Nat
  BY <1>3, <1>4, FS_Subset, FS_CardinalityType
<1>7. Cardinality(PairsOf(id)) <= MaxSecrets /\ \A k, l \in Generated(id) : k = l
  BY DEF KeysOK, KeysBounded
<1>8. Cardinality(PairsOf(id)') <= MaxSecrets
  BY <1>5, <1>6, <1>7, SessionsAssumed
<1> QED
  BY <1>3, <1>7, <1>8

LEMMA TypesKept ==
    ASSUME KeyTypes, NoneAdded, apiJwt' \subseteq JwtT, UNCHANGED drawn
    PROVE  KeyTypes'
<1>1. \A k \in ApiKeys : Live(k)' => Live(k)
  BY DEF NoneAdded, Live
<1> QED
  BY <1>1 DEF KeyTypes, NoneAdded

(* Only the expiry of keys changes.                                        *)
LEMMA ExpiryChanges ==
    ASSUME KeysOK, NEW k \in ApiKeys, NEW at \in Nat,
           apiSecret' = [apiSecret EXCEPT ![k].expiration = at]
    PROVE  NoneAdded /\ \A x \in ApiKeys : apiSecret'[x].status = apiSecret[x].status
<1>1. apiSecret[k] \in SecretT
  BY DEF KeysOK, KeyTypes
<1>2. PICK s \in SecretT : s = [apiSecret[k] EXCEPT !.expiration = at]
  BY <1>1 DEF SecretT
<1>3. s.id = apiSecret[k].id /\ s.status = apiSecret[k].status
  BY <1>1, <1>2 DEF SecretT
<1>4. apiSecret' = [apiSecret EXCEPT ![k] = s]
  BY <1>2 DEF KeysOK, KeyTypes
<1> QED
  BY <1>3, <1>4 DEF NoneAdded, KeysOK, KeyTypes

LEMMA KeyExtended ==
    ASSUME KeysOK, second \in Nat, NEW k \in ApiKeys,
           apiSecret' = [apiSecret EXCEPT ![k].expiration = second + JwtLifetime], UNCHANGED <<apiJwt, drawn>>
    PROVE  KeysOK'
<1>1. second + JwtLifetime \in Nat
  BY SessionsAssumed
<1>2. NoneAdded /\ \A x \in ApiKeys : apiSecret'[x].status = apiSecret[x].status
  BY <1>1, ExpiryChanges
<1>3. KeyTypes' /\ KeysBounded'
  BY <1>2, TypesKept, BoundsKept DEF KeysOK, KeyTypes
<1>4. TokensOfPairs'
  BY <1>2 DEF KeysOK, KeyTypes, JwtT, TokensOfPairs, OneToken
<1> QED
  BY <1>3, <1>4 DEF KeysOK

(* The token gives way to another of its key.                              *)
LEMMA TokenReplaced ==
    ASSUME KeysOK, NEW j \in apiJwt, NEW at \in Nat,
           apiJwt' = (apiJwt \ {j}) \cup {[key |-> j.key, expires |-> at]},
           apiSecret' = [apiSecret EXCEPT ![j.key].expiration = at], UNCHANGED drawn
    PROVE  KeysOK'
<1>0. j \in JwtT /\ j.key \in ApiKeys
  BY DEF KeysOK, KeyTypes, JwtT
<1>1. NoneAdded /\ \A x \in ApiKeys : apiSecret'[x].status = apiSecret[x].status
  BY <1>0, ExpiryChanges
<1>2. PICK n \in JwtT : n = [key |-> j.key, expires |-> at] /\ n.key = j.key
  <2>1. [key |-> j.key, expires |-> at] \in JwtT
    BY <1>0 DEF JwtT
  <2> QED
    BY <2>1
<1>3. apiJwt' = (apiJwt \ {j}) \cup {n}
  BY <1>2
<1>4. KeyTypes' /\ KeysBounded'
  BY <1>1, <1>3, TypesKept, BoundsKept DEF KeysOK, KeyTypes
<1>5. TokensOfPairs
  BY DEF KeysOK
<1>6. \A i \in apiJwt : apiSecret'[i.key].status = "pair" /\ i.key \in ApiKeys
  BY <1>1, <1>5 DEF TokensOfPairs, KeysOK, KeyTypes, JwtT
<1>7. \A i \in apiJwt' : apiSecret'[i.key].status = "pair"
  BY <1>2, <1>3, <1>6
<1>8. ASSUME NEW k \in ApiKeys, apiSecret'[k].status = "pair" PROVE OneToken(k)'
  <2>1. PICK t \in apiJwt : \A i \in apiJwt : i.key = k <=> i = t
    BY <1>1, <1>5, <1>8 DEF TokensOfPairs, OneToken
  <2>2. CASE t = j
    <3>1. \A i \in apiJwt' : i.key = k <=> i = n
      BY <1>2, <1>3, <2>1, <2>2
    <3> QED
      BY <1>3, <3>1 DEF OneToken
  <2>3. CASE t # j
    <3>1. j.key # k
      BY <2>1, <2>3
    <3>2. \A i \in apiJwt' : i.key = k <=> i = t
      BY <1>2, <1>3, <2>1, <2>3, <3>1
    <3> QED
      BY <1>3, <2>1, <2>3, <3>2 DEF OneToken
  <2> QED
    BY <2>2, <2>3
<1> QED
  BY <1>4, <1>7, <1>8 DEF KeysOK, TokensOfPairs

LEMMA KeyDeleted ==
    ASSUME KeysOK, NEW k \in ApiKeys, api_delete_secret_key(k), UNCHANGED drawn
    PROVE  KeysOK'
<1>1. NoSecret \in SecretT /\ NoSecret.status = "absent"
  BY DEF NoSecret, SecretT
<1>2. apiSecret' = [apiSecret EXCEPT ![k] = NoSecret] /\ apiJwt' = {j \in apiJwt : j.key # k}
  BY DEF api_delete_secret_key
<1> HIDE DEF NoSecret
<1>3. NoneAdded
  BY <1>1, <1>2 DEF NoneAdded, KeysOK, KeyTypes, Live
<1>4. KeyTypes' /\ KeysBounded'
  BY <1>2, <1>3, TypesKept, BoundsKept DEF KeysOK, KeyTypes
<1>5. \A x \in ApiKeys : x # k => apiSecret'[x].status = apiSecret[x].status
  BY <1>2 DEF KeysOK, KeyTypes
<1>6. apiSecret'[k].status = "absent"
  BY <1>1, <1>2 DEF KeysOK, KeyTypes
<1>7. \A j \in apiJwt' : apiSecret'[j.key].status = "pair"
  BY <1>2, <1>5 DEF KeysOK, TokensOfPairs, KeyTypes, JwtT
<1>8. ASSUME NEW x \in ApiKeys, apiSecret'[x].status = "pair" PROVE OneToken(x)'
  <2>1. x # k /\ apiSecret[x].status = "pair"
    BY <1>5, <1>6, <1>8
  <2>2. PICK t \in apiJwt : \A i \in apiJwt : i.key = x <=> i = t
    BY <2>1 DEF KeysOK, TokensOfPairs, OneToken
  <2> QED
    BY <1>2, <2>1, <2>2 DEF OneToken
<1> QED
  BY <1>4, <1>7, <1>8 DEF KeysOK, TokensOfPairs

LEMMA PairCreated ==
    ASSUME KeysOK, second \in Nat, NEW k \in ApiKeys \ drawn, NEW id \in Nat, NEW life \in KeyLifetimes,
           api_secret_pair_create(k, id, life), drawn' = drawn \cup {k}
    PROVE  KeysOK'
<1>0. KeyTypes /\ TokensOfPairs /\ KeysBounded
  BY DEF KeysOK
<1>1. PICK at \in Nat : at = second + life
  BY SessionsAssumed
<1>2. PICK s \in SecretT : s = [id |-> id, expiration |-> at, status |-> "pair"]
  BY DEF SecretT
<1>3. PICK n \in JwtT : n = [key |-> k, expires |-> at] /\ n.key = k
  <2>1. [key |-> k, expires |-> at] \in JwtT
    BY DEF JwtT
  <2> QED
    BY <2>1
<1>4. s.id = id /\ s.status = "pair"
  BY <1>2
<1>5. apiSecret' = [apiSecret EXCEPT ![k] = s] /\ apiJwt' = apiJwt \cup {n} /\ Cardinality(KeysOf(id)) < MaxSecrets
  BY <1>1, <1>2, <1>3 DEF api_secret_pair_create
<1>6. ~Live(k)
  BY <1>0 DEF KeyTypes
<1>7. apiSecret' \in [ApiKeys -> SecretT] /\ apiSecret'[k] = s
      /\ \A x \in ApiKeys : x # k => apiSecret'[x] = apiSecret[x]
  BY <1>0, <1>5 DEF KeyTypes
<1>8. KeyTypes'
  <2>1. IsFiniteSet(drawn')
    BY <1>0, FS_AddElement DEF KeyTypes
  <2>2. \A x \in ApiKeys : Live(x)' => x \in drawn'
    BY <1>0, <1>7 DEF KeyTypes, Live
  <2> QED
    BY <1>0, <1>5, <1>7, <2>1, <2>2 DEF KeyTypes
<1>9. \A i \in apiJwt : i.key # k /\ i.key \in ApiKeys
  BY <1>0, <1>6 DEF TokensOfPairs, Live, KeyTypes, JwtT
<1>10. TokensOfPairs'
  <2>1. \A i \in apiJwt' : apiSecret'[i.key].status = "pair"
    BY <1>0, <1>3, <1>4, <1>5, <1>7, <1>9 DEF TokensOfPairs
  <2>2. ASSUME NEW x \in ApiKeys, apiSecret'[x].status = "pair" PROVE OneToken(x)'
    <3>1. CASE x = k
      <4>1. \A i \in apiJwt' : i.key = x <=> i = n
        BY <1>3, <1>5, <1>9, <3>1
      <4> QED
        BY <1>5, <4>1 DEF OneToken
    <3>2. CASE x # k
      <4>1. PICK t \in apiJwt : \A i \in apiJwt : i.key = x <=> i = t
        BY <1>0, <1>7, <2>2, <3>2 DEF TokensOfPairs, OneToken
      <4>2. \A i \in apiJwt' : i.key = x <=> i = t
        BY <1>3, <1>5, <1>9, <3>2, <4>1
      <4> QED
        BY <1>5, <4>1, <4>2 DEF OneToken
    <3> QED
      BY <3>1, <3>2
  <2> QED
    BY <2>1, <2>2 DEF TokensOfPairs
<1>11. KeysBounded'
  <2> SUFFICES ASSUME NEW d
               PROVE  (\A x, y \in Generated(d)' : x = y) /\ Cardinality(PairsOf(d)') <= MaxSecrets
    BY DEF KeysBounded
  <2>1. Generated(d)' \subseteq Generated(d)
    BY <1>4, <1>7 DEF Generated, KeysOf, Live
  <2>2. \A x, y \in Generated(d)' : x = y
    BY <1>0, <2>1 DEF KeysBounded
  <2>3. IsFiniteSet(KeysOf(d)) /\ IsFiniteSet(PairsOf(d)) /\ PairsOf(d) \subseteq KeysOf(d)
    BY <1>0, KeysFinite
  <2>4. k \notin PairsOf(d)
    BY <1>6 DEF PairsOf, KeysOf
  <2>5. Cardinality(PairsOf(d)) \in Nat /\ Cardinality(KeysOf(d)) \in Nat
        /\ Cardinality(PairsOf(d)) <= Cardinality(KeysOf(d)) /\ Cardinality(PairsOf(d)) <= MaxSecrets
    BY <1>0, <2>3, FS_CardinalityType, FS_Subset DEF KeysBounded
  <2>6. CASE d = id
    <3>1. PairsOf(d)' \subseteq PairsOf(d) \cup {k}
      BY <1>7 DEF PairsOf, KeysOf, Live
    <3>2. IsFiniteSet(PairsOf(d) \cup {k}) /\ Cardinality(PairsOf(d) \cup {k}) = Cardinality(PairsOf(d)) + 1
      BY <2>3, <2>4, FS_AddElement
    <3>3. Cardinality(PairsOf(d)') \in Nat /\ Cardinality(PairsOf(d)') <= Cardinality(PairsOf(d)) + 1
      BY <3>1, <3>2, FS_Subset, FS_CardinalityType
    <3>4. Cardinality(KeysOf(d)) < MaxSecrets
      BY <1>5, <2>6
    <3>5. Cardinality(PairsOf(d)') <= MaxSecrets
      BY <2>5, <3>3, <3>4, SessionsAssumed
    <3> QED
      BY <2>2, <3>5
  <2>7. CASE d # id
    <3>1. PairsOf(d)' \subseteq PairsOf(d)
      BY <1>4, <1>7, <2>7 DEF PairsOf, KeysOf, Live
    <3>2. Cardinality(PairsOf(d)') \in Nat /\ Cardinality(PairsOf(d)') <= Cardinality(PairsOf(d))
      BY <2>3, <3>1, FS_Subset, FS_CardinalityType
    <3>3. Cardinality(PairsOf(d)') <= MaxSecrets
      BY <2>5, <3>2, SessionsAssumed
    <3> QED
      BY <2>2, <3>3
  <2> QED
    BY <2>6, <2>7
<1> QED
  BY <1>8, <1>10, <1>11 DEF KeysOK

(* The expired keys that were generated go; a new one comes when none is   *)
(* left.                                                                   *)
LEMMA KeyRenewed ==
    ASSUME KeysOK, second \in Nat, NEW k \in ApiKeys \ drawn, NEW id \in Nat,
           get_or_refresh_api_secret_by_profile_id(k, id), drawn' = drawn \cup {k}, UNCHANGED apiJwt
    PROVE  KeysOK'
<1>0. KeyTypes /\ TokensOfPairs /\ KeysBounded
  BY DEF KeysOK
<1>1. PICK s \in SecretT : s = [id |-> id, expiration |-> second + LongLife, status |-> "generated"]
  <2>1. second + LongLife \in Nat
    BY SessionsAssumed
  <2> QED
    BY <2>1 DEF SecretT
<1>2. s.id = id /\ s.status = "generated"
  BY <1>1
<1>3. PICK none \in SecretT : none = NoSecret /\ none.status = "absent"
  <2>1. NoSecret \in SecretT /\ NoSecret.status = "absent"
    BY DEF NoSecret, SecretT
  <2> HIDE DEF NoSecret
  <2> QED
    BY <2>1
<1>4. PICK kept \in [ApiKeys -> SecretT] : kept = [x \in ApiKeys |-> IF x \in Deleted(id) THEN none ELSE apiSecret[x]]
  BY <1>0 DEF KeyTypes
<1>5. apiSecret' = IF Generated(id) \ Lapsed(id) # {} THEN kept ELSE [kept EXCEPT ![k] = s]
  BY <1>1, <1>3, <1>4 DEF get_or_refresh_api_secret_by_profile_id
<1>6. Deleted(id) \subseteq Generated(id)
  BY DEF Deleted, Lapsed
<1>7. apiSecret[k].status = "absent" /\ k \notin Generated(id)
  BY <1>0 DEF KeyTypes, Live, Generated, KeysOf
<1>8. \A x \in ApiKeys : (kept[x] = none /\ apiSecret[x].status = "generated") \/ kept[x] = apiSecret[x]
  BY <1>4, <1>6 DEF Generated
<1>9. apiSecret' \in [ApiKeys -> SecretT]
  BY <1>5
<1>10. \A x \in ApiKeys : x # k => apiSecret'[x] = kept[x]
  BY <1>5
<1>11. apiSecret'[k].status # "pair"
  BY <1>2, <1>3, <1>5, <1>7, <1>8
<1>12. \A x \in ApiKeys : apiSecret'[x].status = "pair" <=> apiSecret[x].status = "pair"
  BY <1>3, <1>7, <1>8, <1>10, <1>11
<1>13. \A x \in ApiKeys : x # k /\ Live(x)' => apiSecret'[x] = apiSecret[x]
  BY <1>3, <1>8, <1>10 DEF Live
<1>14. KeyTypes'
  <2>1. IsFiniteSet(drawn')
    BY <1>0, FS_AddElement DEF KeyTypes
  <2>2. \A x \in ApiKeys : Live(x)' => x \in drawn'
    BY <1>0, <1>13 DEF KeyTypes, Live
  <2> QED
    BY <1>0, <1>9, <2>1, <2>2 DEF KeyTypes
<1>15. TokensOfPairs'
  BY <1>0, <1>12 DEF TokensOfPairs, OneToken, KeyTypes, JwtT
<1>16. KeysBounded'
  <2> SUFFICES ASSUME NEW d
               PROVE  (\A x, y \in Generated(d)' : x = y) /\ Cardinality(PairsOf(d)') <= MaxSecrets
    BY DEF KeysBounded
  <2>1. PairsOf(d)' \subseteq PairsOf(d)
    BY <1>11, <1>13 DEF PairsOf, KeysOf, Live
  <2>2. IsFiniteSet(PairsOf(d))
    BY <1>0, KeysFinite
  <2>3. Cardinality(PairsOf(d)') \in Nat /\ Cardinality(PairsOf(d)') <= Cardinality(PairsOf(d))
        /\ Cardinality(PairsOf(d)) \in Nat
    BY <2>1, <2>2, FS_Subset, FS_CardinalityType
  <2>4. Cardinality(PairsOf(d)') <= MaxSecrets
    BY <1>0, <2>3, SessionsAssumed DEF KeysBounded
  <2>5. \A x \in Generated(d)' : x = k \/ x \in Generated(d)
    BY <1>13 DEF Generated, KeysOf, Live
  <2>6. CASE Generated(id) \ Lapsed(id) # {} \/ d # id
    <3>1. k \notin Generated(d)'
      BY <1>2, <1>3, <1>5, <1>7, <1>8, <2>6 DEF Generated, KeysOf, Live
    <3> QED
      BY <1>0, <2>4, <2>5, <3>1 DEF KeysBounded
  <2>7. CASE Generated(id) \subseteq Lapsed(id) /\ d = id
    <3>1. \A x \in Generated(id) : kept[x] = none
      BY <1>4, <2>7 DEF Deleted, Generated, KeysOf
    <3>2. \A x \in Generated(d)' : x = k
      BY <1>3, <1>10, <2>5, <2>7, <3>1 DEF Generated, KeysOf, Live
    <3> QED
      BY <2>4, <3>2
  <2> QED
    BY <2>6, <2>7
<1> QED
  BY <1>14, <1>15, <1>16 DEF KeysOK

(* A key is drawn that no profile gets: it had too many.                   *)
LEMMA KeyDrawn ==
    ASSUME KeysOK, NEW k \in ApiKeys, drawn' = drawn \cup {k}, UNCHANGED <<apiSecret, apiJwt>>
    PROVE  KeysOK'
<1>1. \A x : Live(x)' = Live(x)
  BY DEF Live
<1>2. \A id : KeysOf(id)' = KeysOf(id)
  BY <1>1 DEF KeysOf
<1>3. \A id : Generated(id)' = Generated(id) /\ PairsOf(id)' = PairsOf(id)
  BY <1>2 DEF Generated, PairsOf
<1>4. IsFiniteSet(drawn') /\ drawn' \subseteq ApiKeys /\ drawn \subseteq drawn'
  BY FS_AddElement DEF KeysOK, KeyTypes
<1>5. KeyTypes'
  BY <1>1, <1>4 DEF KeysOK, KeyTypes
<1>6. TokensOfPairs'
  BY DEF KeysOK, TokensOfPairs, OneToken
<1>7. KeysBounded'
  BY <1>3 DEF KeysOK, KeysBounded
<1> QED
  BY <1>5, <1>6, <1>7 DEF KeysOK

LEMMA KeysChange ==
    ASSUME SessionsInv, NEW r \in SessionRequests,
           \/ OnboardMarketMaker(r) \/ UpdateApiSecretExpire(r) \/ HandleSecretCreate(r)
           \/ HandleSecretDelete(r) \/ api_refresh_secret(r)
    PROVE  SessionsInv'
<1> DEFINE q == httpRequest[r]
<1>0. RequestsOK /\ AccountsOK /\ KeysOK /\ TokensOK /\ second \in Nat
  BY DEF SessionsInv, TokensOK
<1>1. UNCHANGED <<second, accounts, sessions, spent>> /\ Reply(r)
  BY DEF OnboardMarketMaker, UpdateApiSecretExpire, HandleSecretCreate, HandleSecretDelete, api_refresh_secret
<1>2. RequestsOK' /\ AccountsOK' /\ TokensOK'
  BY <1>0, <1>1, ReplyMoves, MovesKeepRequests, AccountsSame, TokensSame
<1>3. q \in RequestT /\ q.id \in Nat /\ q.expires \in Nat
  BY <1>0, RequestParts
<1>4. CASE OnboardMarketMaker(r)
  BY <1>0, <1>2, <1>3, <1>4, KeyRenewed DEF OnboardMarketMaker, SessionsInv
<1>5. CASE UpdateApiSecretExpire(r)
  <2>1. UNCHANGED <<apiJwt, drawn>>
    BY <1>5 DEF UpdateApiSecretExpire
  <2>2. CASE UNCHANGED apiSecret
    BY <1>0, <1>2, <2>1, <2>2, KeysSame DEF SessionsInv
  <2>3. CASE ~UNCHANGED apiSecret
    <3>1. apiSecret' = [apiSecret EXCEPT ![q.key].expiration = second + JwtLifetime]
      BY <1>5, <2>3 DEF UpdateApiSecretExpire
    <3>2. q.key \in ApiKeys
      BY <1>0, <2>3, <3>1 DEF KeysOK, KeyTypes
    <3> QED
      BY <1>0, <1>2, <2>1, <3>1, <3>2, KeyExtended DEF SessionsInv
  <2> QED
    BY <2>2, <2>3
<1>6. CASE HandleSecretCreate(r)
  <2>1. PICK k \in ApiKeys \ drawn, life \in KeyLifetimes :
           /\ drawn' = drawn \cup {k}
           /\ \/ api_secret_pair_create(k, q.id, life)
              \/ UNCHANGED <<apiSecret, apiJwt>>
    BY <1>6 DEF HandleSecretCreate
  <2>2. KeysOK'
    BY <1>0, <1>3, <2>1, PairCreated, KeyDrawn
  <2> QED
    BY <1>2, <2>2 DEF SessionsInv
<1>7. CASE HandleSecretDelete(r)
  <2>1. PICK k \in KeysOf(q.id) : api_delete_secret_key(k) /\ UNCHANGED drawn
    BY <1>7 DEF HandleSecretDelete
  <2>2. k \in ApiKeys
    BY DEF KeysOf
  <2> QED
    BY <1>0, <1>2, <2>1, <2>2, KeyDeleted DEF SessionsInv
<1>8. CASE api_refresh_secret(r)
  <2>1. UNCHANGED drawn
    BY <1>8 DEF api_refresh_secret
  <2>2. CASE UNCHANGED <<apiJwt, apiSecret>>
    BY <1>0, <1>2, <2>1, <2>2, KeysSame DEF SessionsInv
  <2>3. CASE \E j \in apiJwt : /\ apiJwt' = (apiJwt \ {j}) \cup {[key |-> j.key, expires |-> q.expires]}
                              /\ apiSecret' = [apiSecret EXCEPT ![j.key].expiration = q.expires]
    BY <1>0, <1>2, <1>3, <2>1, <2>3, TokenReplaced DEF SessionsInv
  <2> QED
    BY <1>8, <2>2, <2>3 DEF api_refresh_secret
<1> QED
  BY <1>4, <1>5, <1>6, <1>7, <1>8

-------------------------------------------------------------------------------

LEMMA SessionStep ==
    ASSUME SessionsInv, SessionNext
    PROVE  SessionsInv'
<1>1. CASE SecondPasses
  BY <1>1, SecondPassesKeeps
<1>2. CASE ~SecondPasses
  <2>1. PICK r \in SessionRequests :
           \/ RabbitMiddleware(r) \/ AuthMiddleware(r)
           \/ LookUpWallet(r) \/ CreateProfile(r) \/ OnboardFrontend(r) \/ OnboardMarketMaker(r)
           \/ HandleJwt(r) \/ CreateFromProfileID(r) \/ UpdateApiSecretExpire(r)
           \/ HandleSecretCreate(r) \/ HandleSecretDelete(r) \/ HandleSecretsSessionRemove(r)
           \/ HandleSecretRefresh(r) \/ api_refresh_secret(r) \/ Refuse(r)
    BY <1>2 DEF SessionNext
  <2>2. CASE \/ RabbitMiddleware(r) \/ AuthMiddleware(r) \/ LookUpWallet(r)
             \/ HandleJwt(r) \/ HandleSecretRefresh(r) \/ Refuse(r)
    BY <2>2, ArrivalMoves, AcrossAuth, AcrossLookUp, ExchangeMoves, RefreshMoves, RefusalMoves, RequestOnlyKeeps
  <2>3. CASE CreateProfile(r)
    BY <2>3, ProfileCreated
  <2>4. CASE OnboardFrontend(r) \/ CreateFromProfileID(r) \/ HandleSecretsSessionRemove(r)
    BY <2>4, SessionsChange
  <2>5. CASE \/ OnboardMarketMaker(r) \/ UpdateApiSecretExpire(r) \/ HandleSecretCreate(r)
             \/ HandleSecretDelete(r) \/ api_refresh_secret(r)
    BY <2>5, KeysChange
  <2> QED
    BY <2>1, <2>2, <2>3, <2>4, <2>5
<1> QED
  BY <1>1, <1>2

(* What the runs check follows: the rows of the token index that a key has *)
(* are counted, and so are the keys of a profile.                          *)
LEMMA SessionsImply ==
    ASSUME SessionsInv
    PROVE  SessionsAgree
<1>0. AccountsOK /\ KeyTypes /\ TokensOfPairs /\ KeysBounded /\ TokensOK
  BY DEF SessionsInv, KeysOK
<1>1. TokensFollowKeys
  <2>1. \A j \in apiJwt : Live(j.key)
    BY <1>0 DEF TokensOfPairs, Live
  <2>2. ASSUME NEW k \in ApiKeys, apiSecret[k].status = "pair" PROVE Cardinality({j \in apiJwt : j.key = k}) = 1
    <3>1. PICK j \in apiJwt : \A i \in apiJwt : i.key = k <=> i = j
      BY <1>0, <2>2 DEF TokensOfPairs, OneToken
    <3>2. {i \in apiJwt : i.key = k} = {j}
      BY <3>1
    <3> QED
      BY <3>2, FS_Singleton
  <2> QED
    BY <2>1, <2>2 DEF TokensFollowKeys
<1>2. GeneratedKeysBounded
  <2> SUFFICES ASSUME NEW a \in accounts
               PROVE  Cardinality(Generated(a.id)) <= 1 /\ Cardinality(KeysOf(a.id)) <= MaxSecrets + 1
    BY DEF GeneratedKeysBounded
  <2> DEFINE id == a.id
  <2>0. PICK gen, pairs : gen = Generated(id) /\ pairs = PairsOf(id)
    OBVIOUS
  <2>1. IsFiniteSet(KeysOf(id)) /\ IsFiniteSet(pairs) /\ IsFiniteSet(gen)
    BY <1>0, <2>0, KeysFinite
  <2>2. Cardinality(pairs) \in Nat /\ Cardinality(pairs) <= MaxSecrets /\ \A k, l \in gen : k = l
    BY <1>0, <2>0, <2>1, FS_CardinalityType DEF KeysBounded
  <2>3. Cardinality(gen) \in Nat /\ Cardinality(gen) <= 1
    <3>1. CASE gen = {}
      BY <3>1, FS_EmptySet
    <3>2. CASE gen # {}
      <4>1. PICK k \in gen : gen = {k}
        BY <2>2, <3>2
      <4> QED
        BY <4>1, FS_Singleton
    <3> QED
      BY <3>1, <3>2
  <2>4. KeysOf(id) \subseteq pairs \cup gen
    BY <1>0, <2>0 DEF KeysOf, PairsOf, Generated, Live, KeyTypes, SecretT
  <2>5. IsFiniteSet(pairs \cup gen) /\ Cardinality(pairs \cup gen) <= Cardinality(pairs) + Cardinality(gen)
    <3>1. PICK both : both = pairs \cap gen
      OBVIOUS
    <3>2. IsFiniteSet(both) /\ Cardinality(both) \in Nat
      BY <2>1, <3>1, FS_Subset, FS_CardinalityType
    <3>3. IsFiniteSet(pairs \cup gen)
          /\ Cardinality(pairs \cup gen) = Cardinality(pairs) + Cardinality(gen) - Cardinality(both)
      BY <2>1, <3>1, FS_Union
    <3>4. Cardinality(pairs \cup gen) \in Nat
      BY <3>3, FS_CardinalityType
    <3> QED
      BY <2>2, <2>3, <3>2, <3>3, <3>4
  <2>6. Cardinality(KeysOf(id)) <= Cardinality(pairs \cup gen)
        /\ Cardinality(KeysOf(id)) \in Nat /\ Cardinality(pairs \cup gen) \in Nat
    BY <2>1, <2>4, <2>5, FS_Subset, FS_CardinalityType
  <2>7. Cardinality(KeysOf(id)) <= MaxSecrets + 1
    BY <2>2, <2>3, <2>5, <2>6, SessionsAssumed
  <2> QED
    BY <2>0, <2>3, <2>7
<1> QED
  BY <1>0, <1>1, <1>2 DEF SessionsAgree, AccountsOK, TokensOK

(* Profiles, keys, tokens and sessions fit each other after any            *)
(* interleaving of any number of requests (roles/auth.lua, the handlers of *)
(* /onboarding, /jwt and /secrets).                                        *)
THEOREM SessionsStayConsistent == SessionSpec => []SessionsAgree
<1>1. SessionInit => SessionsInv
  BY SessionInitHolds
<1>2. SessionsInv /\ [SessionNext]_sessionVars => SessionsInv'
  <2> SUFFICES ASSUME SessionsInv, [SessionNext]_sessionVars PROVE SessionsInv'
    OBVIOUS
  <2>1. CASE SessionNext
    BY <2>1, SessionStep
  <2>2. CASE UNCHANGED sessionVars
    <3>1. UNCHANGED <<second, accounts, sessions, apiSecret, apiJwt, spent, drawn, httpRequest>>
      BY <2>2 DEF sessionVars
    <3>2. RequestsOK'
      BY <3>1 DEF SessionsInv, RequestsOK, RequestOK
    <3> QED
      BY <3>1, <3>2, AccountsSame, KeysSame, TokensSame DEF SessionsInv
  <2> QED
    BY <2>1, <2>2
<1>3. SessionsInv => SessionsAgree
  BY SessionsImply
<1> QED
  BY <1>1, <1>2, <1>3, PTL DEF SessionSpec

-------------------------------------------------------------------------------
(* The dead man's switch.                                                  *)

SwitchT == [status : {"none", "active", "canceled"}, timeout : Nat, last : Nat, since : Nat]
CreateTask(o) == <<"create", o>>
TaskT(m) == {CancelAllTask(p) : p \in DmProfiles} \cup {CreateTask(o) : o \in {x \in DmOrders : DmMarket[x] = m}}

DmTypes ==
    /\ dmNow \in Nat /\ wakeAt \in Nat /\ dmTick \in Nat
    /\ switch \in [DmProfiles -> SwitchT]
    /\ dmQueue = [m \in DmMarkets |-> dmQueue[m]]
    /\ \A m \in DmMarkets : dmQueue[m] \in Seq(TaskT(m))
    /\ dmLive \subseteq DmOrders

(* The fiber sleeps no longer than any switch allows, and what it has slept*)
(* so far is counted from the last time it looked or the switch was set.   *)
SleptSince(s) == wakeAt <= s.since + DefaultSleep \/ wakeAt <= dmNow + s.timeout
WokenInTime(s) ==
    wakeAt <= s.since + DefaultSleep \/ wakeAt <= s.last + s.timeout + Earlier(s.timeout, DefaultSleep)

DmTiming ==
    /\ dmNow <= wakeAt /\ wakeAt <= dmNow + DefaultSleep /\ dmTick <= DefaultSleep
    /\ SwitchedOn = {} => dmTick = DefaultSleep
    /\ \A p \in DmProfiles : switch[p].status # "none" =>
          dmTick <= switch[p].timeout /\ switch[p].last <= dmNow /\ SleptSince(switch[p])
    /\ \A p \in DmProfiles : switch[p].status = "active" => WokenInTime(switch[p])

(* A cancelall of p after place i of a queue, and an order that every such *)
(* task is still ahead of.                                                 *)
Follows(q, p, i) == \E j \in i + 1 .. Len(q) : q[j] = CancelAllTask(p)
Cleared(live, q, o) ==
    /\ o \in live => Follows(q, DmOwner[o], 0)
    /\ \A i \in 1 .. Len(q) : q[i] = CreateTask(o) => Follows(q, DmOwner[o], i)

FiredFor(p) == switch[p].status = "canceled" /\ p \notin behind
DmFired == \A o \in DmOrders : FiredFor(DmOwner[o]) => Cleared(dmLive, dmQueue[DmMarket[o]], o)

DmInv == DmTypes /\ DmTiming /\ DmFired

LEMMA DmAssumed ==
    /\ IsFiniteSet(DmProfiles)
    /\ DmOwner \in [DmOrders -> DmProfiles] /\ DmMarket \in [DmOrders -> DmMarkets]
    /\ DmTimeouts \subseteq Nat /\ DefaultSleep \in Nat
BY DmAssumption

LEMMA TasksDiffer ==
    /\ \A p, q : CancelAllTask(p) = CancelAllTask(q) => p = q
    /\ \A o, x : CreateTask(o) = CreateTask(x) => o = x
    /\ \A p, o : CancelAllTask(p) # CreateTask(o)
    /\ \A p : CancelAllTask(p)[1] = "cancelall" /\ CancelAllTask(p)[2] = p
    /\ \A o : CreateTask(o)[1] = "create" /\ CreateTask(o)[2] = o
BY DEF CancelAllTask, CreateTask

LEMMA TaskKinds ==
    ASSUME NEW m, NEW t \in TaskT(m)
    PROVE  \/ \E p \in DmProfiles : t = CancelAllTask(p)
           \/ \E o \in DmOrders : t = CreateTask(o) /\ DmMarket[o] = m
BY DEF TaskT

(* A set written as a sequence (SequencesExt).                             *)
LEMMA SetAsSeq ==
    ASSUME NEW S, IsFiniteSet(S)
    PROVE  /\ SetToSeq(S) \in Seq(S)
           /\ \A x \in S : \E i \in 1 .. Len(SetToSeq(S)) : SetToSeq(S)[i] = x
           /\ \A i, k \in 1 .. Len(SetToSeq(S)) : SetToSeq(S)[i] = SetToSeq(S)[k] => i = k
<1>1. PICK n \in Nat : n = Cardinality(S) /\ ExistsBijection(1 .. n, S)
  BY FS_CardinalityType
<1>2. \E f \in [1 .. n -> S] : IsInjective(f)
  BY <1>1 DEF ExistsBijection, Bijection, Injection, IsInjective
<1>3. PICK g : g = SetToSeq(S)
  OBVIOUS
<1>4. g \in [1 .. n -> S] /\ IsInjective(g)
  BY <1>1, <1>2, <1>3 DEF SetToSeq
<1>5. g \in Injection(1 .. n, S)
  BY <1>4 DEF Injection, IsInjective
<1>6. Cardinality(1 .. n) = n
  BY <1>1, FS_Interval
<1>7. g \in Surjection(1 .. n, S)
  BY <1>1, <1>5, <1>6, FS_Injection
<1>8. g \in Seq(S) /\ Len(g) = n /\ DOMAIN g = 1 .. n
  BY <1>4
<1>9. \A i, k \in 1 .. Len(g) : g[i] = g[k] => i = k
  BY <1>4, <1>8 DEF IsInjective
<1> QED
  BY <1>3, <1>7, <1>8, <1>9 DEF Surjection

LEMMA DmInitHolds == DmInit => DmInv
<1> SUFFICES ASSUME DmInit PROVE DmInv
  OBVIOUS
<1>1. NoSwitch \in SwitchT /\ NoSwitch.status = "none"
  BY DEF NoSwitch, SwitchT
<1>2. \A p \in DmProfiles : switch[p] = NoSwitch
  BY DEF DmInit
<1> HIDE DEF NoSwitch
<1>3. DmTypes
  <2>1. dmQueue = [m \in DmMarkets |-> << >>]
    BY DEF DmInit
  <2>2. switch \in [DmProfiles -> SwitchT]
    BY <1>1 DEF DmInit
  <2> QED
    BY <2>1, <2>2, DmAssumed DEF DmInit, DmTypes
<1>4. DmTiming
  BY <1>1, <1>2, DmAssumed DEF DmInit, DmTiming
<1>5. DmFired
  BY <1>1, <1>2, DmAssumed DEF DmFired, FiredFor
<1> QED
  BY <1>3, <1>4, <1>5 DEF DmInv

LEMMA DmInvImplies == DmInv => SwitchesWork
<1> SUFFICES ASSUME DmInv PROVE SwitchesWork
  OBVIOUS
<1>1. FiresInTime
  <2> SUFFICES ASSUME NEW p \in DmProfiles, switch[p].status = "active"
               PROVE  \/ dmNow <= switch[p].since + DefaultSleep
                      \/ dmNow <= switch[p].last + switch[p].timeout + Earlier(switch[p].timeout, DefaultSleep)
    BY DEF FiresInTime
  <2>1. switch[p].since \in Nat /\ switch[p].last \in Nat /\ switch[p].timeout \in Nat
    BY DEF DmInv, DmTypes, SwitchT
  <2>2. Earlier(switch[p].timeout, DefaultSleep) \in Nat
    BY <2>1, DmAssumed DEF Earlier
  <2>3. WokenInTime(switch[p]) /\ dmNow <= wakeAt /\ dmNow \in Nat /\ wakeAt \in Nat
    BY DEF DmInv, DmTiming, DmTypes
  <2> QED
    BY <2>1, <2>2, <2>3, DmAssumed DEF WokenInTime
<1>2. FiredLeavesNothing
  <2> SUFFICES ASSUME NEW o \in DmOrders, FiredFor(DmOwner[o]), NEW q, q = dmQueue[DmMarket[o]]
               PROVE  /\ o \in dmLive => \E j \in 0 + 1 .. Len(q) : q[j] = CancelAllTask(DmOwner[o])
                      /\ \A i \in DOMAIN q : q[i] = <<"create", o>> =>
                            \E j \in i + 1 .. Len(q) : q[j] = CancelAllTask(DmOwner[o])
    BY DEF FiredLeavesNothing, FiredFor
  <2>1. Cleared(dmLive, q, o)
    BY DEF DmInv, DmFired
  <2>2. DOMAIN q = 1 .. Len(q)
    BY DmAssumed DEF DmInv, DmTypes
  <2> QED
    BY <2>1, <2>2 DEF Cleared, Follows, CreateTask
<1> QED
  BY <1>1, <1>2 DEF SwitchesWork

(* Steps that leave the clock alone, or move it.                           *)

SwitchesOK == switch \in [DmProfiles -> SwitchT] /\ DmTiming
NoneFired == \A p \in DmProfiles : switch'[p].status = "canceled" => switch[p].status = "canceled"

LEMMA SwitchParts ==
    ASSUME DmTypes, NEW p \in DmProfiles
    PROVE  /\ switch[p] \in SwitchT
           /\ switch[p].timeout \in Nat /\ switch[p].last \in Nat /\ switch[p].since \in Nat
           /\ Earlier(switch[p].timeout, DefaultSleep) \in Nat
BY DmAssumed DEF DmTypes, SwitchT, Earlier

LEMMA SwitchTouched ==
    ASSUME DmTypes, DmTiming, NEW p \in DmProfiles, deadman_touch(p), UNCHANGED <<dmNow, wakeAt, dmTick>>
    PROVE  SwitchesOK' /\ NoneFired /\ switch'[p].status # "canceled"
<1>1. CASE p \notin SwitchedOn
  <2>1. UNCHANGED switch
    BY <1>1 DEF deadman_touch
  <2>2. switch[p].status = "none"
    BY <1>1 DEF SwitchedOn
  <2> QED
    BY <2>1, <2>2 DEF SwitchesOK, NoneFired, DmTypes, DmTiming, SwitchedOn, SleptSince, WokenInTime
<1>2. CASE p \in SwitchedOn
  <2>1. PICK s : s = [switch[p] EXCEPT !.status = "active", !.last = dmNow]
    OBVIOUS
  <2>2. switch[p].status # "none"
    BY <1>2 DEF SwitchedOn
  <2>3. s \in SwitchT /\ s.status = "active" /\ s.last = dmNow /\ s.timeout = switch[p].timeout
        /\ s.since = switch[p].since
    BY <2>1, SwitchParts DEF DmTypes, SwitchT
  <2>4. switch' = [switch EXCEPT ![p] = s]
    BY <1>2, <2>1 DEF deadman_touch, DmTypes
  <2>5. switch'[p] = s /\ \A q \in DmProfiles : q # p => switch'[q] = switch[q]
    BY <2>4 DEF DmTypes
  <2>6. dmTick <= s.timeout /\ s.last <= dmNow /\ SleptSince(s)
    BY <2>2, <2>3 DEF DmTypes, DmTiming, SleptSince
  <2>7. WokenInTime(s)
    BY <2>3, <2>6, SwitchParts DEF DmTypes, SleptSince, WokenInTime
  <2>8. SwitchedOn' # {}
    BY <2>3, <2>5 DEF SwitchedOn
  <2>9. \A q \in DmProfiles : switch'[q].status # "none" =>
           dmTick' <= switch'[q].timeout /\ switch'[q].last <= dmNow' /\ SleptSince(switch[q])'
    BY <2>5, <2>6 DEF DmTiming, SleptSince
  <2>10. \A q \in DmProfiles : switch'[q].status = "active" => WokenInTime(switch[q])'
    BY <2>5, <2>7 DEF DmTiming, WokenInTime
  <2>11. DmTiming'
    BY <2>8, <2>9, <2>10 DEF DmTiming
  <2>12. switch' \in [DmProfiles -> SwitchT]
    BY <2>3, <2>4 DEF DmTypes
  <2> QED
    BY <2>3, <2>5, <2>11, <2>12 DEF SwitchesOK, NoneFired
<1> QED
  BY <1>1, <1>2

LEMMA SwitchReplaced ==
    ASSUME DmTypes, DmTiming, NEW p \in DmProfiles, deadman_replace(p)
    PROVE  SwitchesOK' /\ NoneFired /\ dmTick' \in Nat /\ switch'[p].status = "active"
<1>1. PICK t \in DmTimeouts :
         /\ dmTick' = reset_timer_tick(t)
         /\ switch' = [switch EXCEPT ![p] = [status |-> "active", timeout |-> t, last |-> dmNow, since |-> dmNow]]
  BY DEF deadman_replace
<1>2. t \in Nat /\ DefaultSleep \in Nat /\ UNCHANGED <<dmNow, wakeAt>> /\ dmNow \in Nat /\ wakeAt \in Nat /\ dmTick \in Nat
  BY DmAssumed DEF deadman_replace, DmTypes
<1>3. PICK s \in SwitchT : s = [status |-> "active", timeout |-> t, last |-> dmNow, since |-> dmNow]
  BY <1>2 DEF SwitchT
<1>4. s.status = "active" /\ s.timeout = t /\ s.last = dmNow /\ s.since = dmNow
  BY <1>3
<1>5. switch' = [switch EXCEPT ![p] = s]
  BY <1>1, <1>3
<1>6. switch'[p] = s /\ \A q \in DmProfiles : q # p => switch'[q] = switch[q]
  BY <1>5 DEF DmTypes
<1>7. dmTick' \in Nat /\ dmTick' <= t /\ dmTick' <= dmTick
  BY <1>1, <1>2 DEF reset_timer_tick, DmTiming
<1>8. wakeAt <= dmNow + DefaultSleep
  BY DEF DmTiming
<1>9. SleptSince(s) /\ WokenInTime(s)
  BY <1>4, <1>8 DEF SleptSince, WokenInTime
<1>10. SwitchedOn' # {}
  BY <1>4, <1>6 DEF SwitchedOn
<1>11. ASSUME NEW q \in DmProfiles, switch'[q].status # "none"
       PROVE  dmTick' <= switch'[q].timeout /\ switch'[q].last <= dmNow' /\ SleptSince(switch[q])'
  <2>1. CASE q = p
    BY <1>2, <1>4, <1>6, <1>7, <1>9, <2>1 DEF SleptSince
  <2>2. CASE q # p
    <3>1. dmTick <= switch[q].timeout /\ switch[q].last <= dmNow /\ SleptSince(switch[q])
      BY <1>6, <1>11, <2>2 DEF DmTiming
    <3>2. dmTick' <= switch[q].timeout
      BY <1>2, <1>7, <3>1, SwitchParts
    <3> QED
      BY <1>2, <1>6, <2>2, <3>1, <3>2 DEF SleptSince
  <2> QED
    BY <2>1, <2>2
<1>12. \A q \in DmProfiles : switch'[q].status = "active" => WokenInTime(switch[q])'
  BY <1>2, <1>6, <1>9 DEF DmTiming, WokenInTime
<1>13. dmNow' <= wakeAt' /\ wakeAt' <= dmNow' + DefaultSleep /\ dmTick' <= DefaultSleep
  BY <1>2, <1>7 DEF DmTiming
<1>14. DmTiming'
  BY <1>10, <1>11, <1>12, <1>13 DEF DmTiming
<1>15. switch' \in [DmProfiles -> SwitchT]
  BY <1>5 DEF DmTypes
<1> QED
  BY <1>4, <1>6, <1>7, <1>14, <1>15 DEF SwitchesOK, NoneFired

LEMMA SwitchDeleted ==
    ASSUME DmTypes, DmTiming, NEW p \in DmProfiles, deadman_delete(p)
    PROVE  SwitchesOK' /\ NoneFired /\ dmTick' \in Nat /\ switch'[p].status = "none"
<1>1. PICK none \in SwitchT : none = NoSwitch /\ none.status = "none"
  <2>1. NoSwitch \in SwitchT /\ NoSwitch.status = "none"
    BY DEF NoSwitch, SwitchT
  <2> HIDE DEF NoSwitch
  <2> QED
    BY <2>1
<1>2. switch' = [switch EXCEPT ![p] = none] /\ UNCHANGED <<dmNow, wakeAt>>
      /\ dmTick' = IF SwitchedOn = {p} THEN DefaultSleep ELSE dmTick
  BY <1>1 DEF deadman_delete
<1>3. switch'[p] = none /\ \A q \in DmProfiles : q # p => switch'[q] = switch[q]
  BY <1>2 DEF DmTypes
<1>4. SwitchedOn' = SwitchedOn \ {p}
  BY <1>1, <1>3 DEF SwitchedOn
<1>5. p \in SwitchedOn
  BY DEF deadman_delete
<1>6. dmTick' \in Nat /\ dmTick' <= DefaultSleep /\ (SwitchedOn' = {} => dmTick' = DefaultSleep)
  BY <1>2, <1>4, <1>5, DmAssumed DEF DmTypes, DmTiming
<1>7. ASSUME NEW q \in DmProfiles, switch'[q].status # "none"
      PROVE  dmTick' <= switch'[q].timeout /\ switch'[q].last <= dmNow' /\ SleptSince(switch[q])'
  <2>1. q # p /\ switch'[q] = switch[q]
    BY <1>1, <1>3, <1>7
  <2>2. q \in SwitchedOn
    BY <1>7, <2>1 DEF SwitchedOn
  <2>3. dmTick' = dmTick
    BY <1>2, <2>1, <2>2
  <2> QED
    BY <1>2, <1>7, <2>1, <2>3 DEF DmTiming, SleptSince
<1>8. \A q \in DmProfiles : switch'[q].status = "active" => WokenInTime(switch[q])'
  BY <1>1, <1>2, <1>3 DEF DmTiming, WokenInTime
<1>9. DmTiming'
  BY <1>2, <1>6, <1>7, <1>8 DEF DmTiming
<1>10. switch' \in [DmProfiles -> SwitchT]
  BY <1>2 DEF DmTypes
<1> QED
  BY <1>1, <1>3, <1>6, <1>9, <1>10 DEF SwitchesOK, NoneFired

LEMMA FiberLooks ==
    ASSUME DmTypes, DmTiming, SwitchesFire
    PROVE  SwitchesOK' /\ wakeAt' \in Nat /\ \A p \in DmProfiles : switch'[p].status = "canceled" =>
              p \in Expired \/ switch[p].status = "canceled"
<1>1. dmNow \in Nat /\ dmTick \in Nat /\ wakeAt' = dmNow + dmTick /\ UNCHANGED <<dmNow, dmTick>>
  BY DEF DmTypes, SwitchesFire
<1>2. switch' = [p \in DmProfiles |-> IF p \in Expired THEN [switch[p] EXCEPT !.status = "canceled"] ELSE switch[p]]
  BY DEF SwitchesFire
<1>3. ASSUME NEW p \in DmProfiles
      PROVE  /\ switch'[p] \in SwitchT
             /\ switch'[p].timeout = switch[p].timeout /\ switch'[p].last = switch[p].last
             /\ switch'[p].since = switch[p].since
             /\ switch'[p].status = "active" => switch[p].status = "active" /\ p \notin Expired
             /\ switch'[p].status = "canceled" => p \in Expired \/ switch[p].status = "canceled"
             /\ switch'[p].status = "none" <=> switch[p].status = "none"
  <2>0. switch[p] \in SwitchT
    BY DEF DmTypes
  <2>1. PICK s : s = [switch[p] EXCEPT !.status = "canceled"]
    OBVIOUS
  <2>2. s \in SwitchT /\ s.timeout = switch[p].timeout /\ s.last = switch[p].last
        /\ s.since = switch[p].since /\ s.status = "canceled"
    BY <2>0, <2>1 DEF SwitchT
  <2>3. switch'[p] = IF p \in Expired THEN s ELSE switch[p]
    BY <1>2, <2>1
  <2>4. p \in Expired => switch[p].status = "active"
    BY DEF Expired
  <2> QED
    BY <2>0, <2>2, <2>3, <2>4
<1>4. switch' \in [DmProfiles -> SwitchT]
  BY <1>2, <1>3
<1>5. SwitchedOn' = SwitchedOn
  BY <1>3 DEF SwitchedOn
<1>6. ASSUME NEW p \in DmProfiles, switch'[p].status # "none"
      PROVE  dmTick' <= switch'[p].timeout /\ switch'[p].last <= dmNow' /\ SleptSince(switch[p])'
  <2>1. dmTick <= switch[p].timeout /\ switch[p].last <= dmNow
    BY <1>3, <1>6 DEF DmTiming
  <2>2. SleptSince(switch[p])'
    BY <1>1, <1>3, <2>1, SwitchParts DEF SleptSince
  <2> QED
    BY <1>1, <1>3, <2>1, <2>2
<1>7. ASSUME NEW p \in DmProfiles, switch'[p].status = "active" PROVE WokenInTime(switch[p])'
  <2>1. switch[p].status = "active" /\ p \notin Expired
    BY <1>3, <1>7
  <2>2. dmNow <= switch[p].last + switch[p].timeout
    BY <1>1, <2>1, SwitchParts DEF Expired
  <2>3. dmTick <= Earlier(switch[p].timeout, DefaultSleep)
    BY <2>1 DEF DmTiming, Earlier
  <2>4. wakeAt' <= switch[p].last + switch[p].timeout + Earlier(switch[p].timeout, DefaultSleep)
    BY <1>1, <2>2, <2>3, SwitchParts
  <2> QED
    BY <1>3, <2>4 DEF WokenInTime
<1>8. dmNow' <= wakeAt' /\ wakeAt' <= dmNow' + DefaultSleep /\ dmTick' <= DefaultSleep
      /\ (SwitchedOn' = {} => dmTick' = DefaultSleep)
  BY <1>1, <1>5, DmAssumed DEF DmTiming
<1>9. DmTiming'
  BY <1>6, <1>7, <1>8 DEF DmTiming
<1> QED
  BY <1>1, <1>3, <1>4, <1>9 DEF SwitchesOK

LEMMA FiberAnew ==
    ASSUME DmTypes, DmTiming, GatewayRestarts
    PROVE  SwitchesOK' /\ wakeAt' \in Nat /\ dmTick' \in Nat /\ UNCHANGED switch
<1>1. UNCHANGED <<dmNow, switch>> /\ wakeAt' = dmNow /\ dmTick' = reset_timer_tick(DefaultSleep)
  BY DEF GatewayRestarts
<1>2. dmTick \in Nat /\ dmTick <= DefaultSleep /\ DefaultSleep \in Nat
  BY DmAssumed DEF DmTypes, DmTiming
<1>3. dmTick' = dmTick
  BY <1>1, <1>2 DEF reset_timer_tick, DmTiming
<1>4. wakeAt' <= wakeAt /\ wakeAt' \in Nat /\ wakeAt \in Nat /\ dmNow \in Nat
  BY <1>1 DEF DmTypes, DmTiming
<1>5. ASSUME NEW p \in DmProfiles
      PROVE  /\ SleptSince(switch[p]) => SleptSince(switch[p])'
             /\ WokenInTime(switch[p]) => WokenInTime(switch[p])'
  BY <1>1, <1>2, <1>4, SwitchParts DEF SleptSince, WokenInTime
<1>6. DmTiming'
  BY <1>1, <1>2, <1>3, <1>4, <1>5 DEF DmTiming, SwitchedOn
<1> QED
  BY <1>1, <1>2, <1>3, <1>4, <1>6 DEF SwitchesOK, DmTypes

LEMMA ClockMoves ==
    ASSUME DmTypes, DmTiming, TimePasses
    PROVE  SwitchesOK' /\ dmNow' \in Nat /\ UNCHANGED <<switch, wakeAt, dmTick>>
<1>1. UNCHANGED <<switch, wakeAt, dmTick>> /\ dmNow' = dmNow + 1 /\ dmNow < wakeAt
  BY DEF TimePasses
<1>2. dmNow \in Nat /\ wakeAt \in Nat /\ DefaultSleep \in Nat
  BY DmAssumed DEF DmTypes
<1>3. ASSUME NEW p \in DmProfiles
      PROVE  /\ SleptSince(switch[p]) => SleptSince(switch[p])'
             /\ WokenInTime(switch[p]) => WokenInTime(switch[p])'
             /\ switch[p].last <= dmNow => switch[p].last <= dmNow'
  BY <1>1, <1>2, SwitchParts DEF SleptSince, WokenInTime
<1>4. dmNow' <= wakeAt' /\ wakeAt' <= dmNow' + DefaultSleep
  BY <1>1, <1>2 DEF DmTiming
<1>5. DmTiming'
  BY <1>1, <1>3, <1>4 DEF DmTiming, SwitchedOn
<1> QED
  BY <1>1, <1>2, <1>5 DEF SwitchesOK, DmTypes

-------------------------------------------------------------------------------
(* Queues.                                                                 *)

LEMMA TaskAppended ==
    ASSUME NEW T, NEW q \in Seq(T), NEW t \in T, NEW r, r = Append(q, t)
    PROVE  /\ r \in Seq(T) /\ Len(r) = Len(q) + 1 /\ r[Len(q) + 1] = t
           /\ \A i \in 1 .. Len(q) : r[i] = q[i]
OBVIOUS

LEMMA TasksAppended ==
    ASSUME NEW T, NEW q \in Seq(T), NEW e \in Seq(T), NEW r, r = q \o e
    PROVE  /\ r \in Seq(T) /\ Len(r) = Len(q) + Len(e)
           /\ \A i \in 1 .. Len(q) : r[i] = q[i]
           /\ \A i \in 1 .. Len(e) : r[Len(q) + i] = e[i]
OBVIOUS

LEMMA TaskTaken ==
    ASSUME NEW T, NEW q \in Seq(T), q # <<>>, NEW r, r = Tail(q)
    PROVE  /\ r \in Seq(T) /\ Len(r) = Len(q) - 1 /\ Len(q) >= 1 /\ Head(q) = q[1] /\ q[1] \in T
           /\ \A i \in 1 .. Len(r) : r[i] = q[i + 1]
OBVIOUS

(* What is appended puts no order ahead of a task.                         *)
LEMMA ClearedStays ==
    ASSUME NEW live, NEW o, NEW T, NEW q \in Seq(T), NEW r \in Seq(T), Len(q) <= Len(r),
           \A i \in 1 .. Len(q) : r[i] = q[i],
           \A i \in Len(q) + 1 .. Len(r) : r[i] # CreateTask(o),
           Cleared(live, q, o)
    PROVE  Cleared(live, r, o)
<1>1. Len(q) \in Nat /\ Len(r) \in Nat
  OBVIOUS
<1>2. \A i \in Nat : Follows(q, DmOwner[o], i) => Follows(r, DmOwner[o], i)
  BY <1>1 DEF Follows
<1>3. o \in live => Follows(r, DmOwner[o], 0)
  BY <1>2 DEF Cleared
<1>4. ASSUME NEW i \in 1 .. Len(r), r[i] = CreateTask(o) PROVE Follows(r, DmOwner[o], i)
  <2>1. i \in 1 .. Len(q) /\ q[i] = CreateTask(o)
    BY <1>1, <1>4
  <2> QED
    BY <1>2, <2>1 DEF Cleared
<1> QED
  BY <1>3, <1>4 DEF Cleared

LEMMA CancelAllsPut ==
    ASSUME DmTypes, NEW m \in DmMarkets, NEW ps \in SUBSET DmProfiles, NEW r, r = PutCancelAll(m, ps)
    PROVE  /\ r \in Seq(TaskT(m)) /\ Len(dmQueue[m]) <= Len(r)
           /\ \A i \in 1 .. Len(dmQueue[m]) : r[i] = dmQueue[m][i]
           /\ \A i \in Len(dmQueue[m]) + 1 .. Len(r) : \A o : r[i] # CreateTask(o)
           /\ \A p \in ps : CancelAllTask(p) \notin Range(dmQueue[m]) =>
                 \E i \in Len(dmQueue[m]) + 1 .. Len(r) : r[i] = CancelAllTask(p)
<1> DEFINE q == dmQueue[m]
<1>0. q \in Seq(TaskT(m))
  BY DEF DmTypes
<1>1. PICK S : S = {CancelAllTask(p) : p \in ps} \ Range(q)
  OBVIOUS
<1>2. S \subseteq {CancelAllTask(p) : p \in ps} /\ S \subseteq TaskT(m)
  BY <1>1 DEF TaskT
<1>3. IsFiniteSet(S)
  <2>1. PICK f : f = [p \in DmProfiles |-> CancelAllTask(p)]
    OBVIOUS
  <2>2. f \in Surjection(DmProfiles, {CancelAllTask(p) : p \in DmProfiles})
    BY <2>1 DEF Surjection
  <2>3. IsFiniteSet({CancelAllTask(p) : p \in DmProfiles})
    BY <2>2, DmAssumed, FS_Surjection
  <2>4. S \subseteq {CancelAllTask(p) : p \in DmProfiles}
    BY <1>2
  <2> QED
    BY <2>3, <2>4, FS_Subset
<1>4. PICK e : e = SetToSeq(S)
  OBVIOUS
<1>5. e \in Seq(S) /\ \A x \in S : \E i \in 1 .. Len(e) : e[i] = x
  BY <1>3, <1>4, SetAsSeq
<1>6. e \in Seq(TaskT(m)) /\ \A i \in 1 .. Len(e) : e[i] \in S
  BY <1>2, <1>5
<1>7. r = q \o e
  BY <1>1, <1>4 DEF PutCancelAll
<1>8. /\ r \in Seq(TaskT(m)) /\ Len(r) = Len(q) + Len(e)
      /\ \A i \in 1 .. Len(q) : r[i] = q[i]
      /\ \A i \in 1 .. Len(e) : r[Len(q) + i] = e[i]
  BY <1>0, <1>6, <1>7, TasksAppended
<1>9. Len(q) \in Nat /\ Len(e) \in Nat
  BY <1>0, <1>6
<1>10. ASSUME NEW i \in Len(q) + 1 .. Len(r), NEW o PROVE r[i] # CreateTask(o)
  <2>1. i - Len(q) \in 1 .. Len(e) /\ Len(q) + (i - Len(q)) = i
    BY <1>8, <1>9
  <2>2. r[i] \in S
    BY <1>6, <1>8, <2>1
  <2> QED
    BY <1>2, <2>2, TasksDiffer
<1>11. ASSUME NEW p \in ps, CancelAllTask(p) \notin Range(q)
       PROVE  \E i \in Len(q) + 1 .. Len(r) : r[i] = CancelAllTask(p)
  <2>1. CancelAllTask(p) \in S
    BY <1>1, <1>11
  <2>2. PICK j \in 1 .. Len(e) : e[j] = CancelAllTask(p)
    BY <1>5, <2>1
  <2>3. Len(q) + j \in Len(q) + 1 .. Len(r)
    BY <1>8, <1>9
  <2> QED
    BY <1>8, <2>2, <2>3
<1>12. Len(q) <= Len(r)
  BY <1>8, <1>9
<1> HIDE DEF q
<1>13. q = dmQueue[m]
  BY DEF q
<1> QED
  BY <1>8, <1>10, <1>11, <1>12, <1>13

-------------------------------------------------------------------------------
(* The steps.                                                              *)

(* Queues and engines do as before, and nothing has fired.                 *)
LEMMA NothingFired ==
    ASSUME DmTypes, DmFired, SwitchesOK', NoneFired,
           \A p \in DmProfiles : FiredFor(p)' => p \notin behind,
           UNCHANGED <<dmQueue, dmLive>>, dmNow' \in Nat, wakeAt' \in Nat, dmTick' \in Nat
    PROVE  DmInv'
<1>1. \A p \in DmProfiles : FiredFor(p)' => FiredFor(p)
  BY DEF NoneFired, FiredFor
<1>2. DmFired'
  BY <1>1, DmAssumed DEF DmFired
<1> QED
  BY <1>2 DEF DmInv, DmTypes, SwitchesOK

(* Tasks that place no order of a fired switch come to the queues.         *)
LEMMA QueuesGrow ==
    ASSUME DmTypes, DmFired, SwitchesOK', NoneFired, UNCHANGED <<behind, dmNow, wakeAt, dmTick, dmLive>>,
           dmQueue' = [m \in DmMarkets |-> dmQueue'[m]],
           \A m \in DmMarkets :
              /\ dmQueue'[m] \in Seq(TaskT(m)) /\ Len(dmQueue[m]) <= Len(dmQueue'[m])
              /\ \A i \in 1 .. Len(dmQueue[m]) : dmQueue'[m][i] = dmQueue[m][i]
              /\ \A i \in Len(dmQueue[m]) + 1 .. Len(dmQueue'[m]) :
                    \A o \in DmOrders : FiredFor(DmOwner[o])' => dmQueue'[m][i] # CreateTask(o)
    PROVE  DmInv'
<1>1. \A p \in DmProfiles : FiredFor(p)' => FiredFor(p)
  BY DEF NoneFired, FiredFor
<1>2. ASSUME NEW o \in DmOrders, FiredFor(DmOwner[o])' PROVE Cleared(dmLive, dmQueue'[DmMarket[o]], o)
  <2>1. Cleared(dmLive, dmQueue[DmMarket[o]], o)
    BY <1>1, <1>2, DmAssumed DEF DmFired
  <2>2. PICK m \in DmMarkets : m = DmMarket[o]
    BY DmAssumed
  <2>3. dmQueue[m] \in Seq(TaskT(m))
    BY DEF DmTypes
  <2> QED
    BY <1>2, <2>1, <2>2, <2>3, ClearedStays
<1>3. DmFired'
  BY <1>2 DEF DmFired
<1> QED
  BY <1>3 DEF DmInv, DmTypes, SwitchesOK

LEMMA SwitchSteps ==
    ASSUME DmInv, NEW p \in DmProfiles, deadman_replace(p) \/ deadman_delete(p) \/ Refused(p)
    PROVE  DmInv'
<1>0. DmTypes /\ DmTiming /\ DmFired /\ dmNow \in Nat /\ wakeAt \in Nat /\ dmTick \in Nat
  BY DEF DmInv, DmTypes
<1>1. UNCHANGED <<dmNow, wakeAt, dmQueue, dmLive>>
  BY DEF deadman_replace, deadman_delete, Refused
<1>2. CASE deadman_replace(p)
  <2>1. SwitchesOK' /\ NoneFired /\ dmTick' \in Nat /\ switch'[p].status = "active"
    BY <1>0, <1>2, SwitchReplaced
  <2>2. \A x \in DmProfiles : FiredFor(x)' => x \notin behind
    BY <1>2, <2>1 DEF deadman_replace, FiredFor
  <2> QED
    BY <1>0, <1>1, <2>1, <2>2, NothingFired
<1>3. CASE deadman_delete(p)
  <2>1. SwitchesOK' /\ NoneFired /\ dmTick' \in Nat /\ switch'[p].status = "none"
    BY <1>0, <1>3, SwitchDeleted
  <2>2. \A x \in DmProfiles : FiredFor(x)' => x \notin behind
    BY <1>3, <2>1 DEF deadman_delete, FiredFor
  <2> QED
    BY <1>0, <1>1, <2>1, <2>2, NothingFired
<1>4. CASE Refused(p)
  <2>1. deadman_touch(p) /\ UNCHANGED <<dmTick, behind>>
    BY <1>4 DEF Refused
  <2>2. SwitchesOK' /\ NoneFired
    BY <1>0, <1>1, <2>1, SwitchTouched
  <2>3. \A x \in DmProfiles : FiredFor(x)' => x \notin behind
    BY <2>1 DEF FiredFor
  <2> QED
    BY <1>0, <1>1, <2>1, <2>2, <2>3, NothingFired
<1> QED
  BY <1>2, <1>3, <1>4

LEMMA OrderPut ==
    ASSUME DmInv, NEW o \in DmOrders, new_order(o)
    PROVE  DmInv'
<1>0. DmTypes /\ DmTiming /\ DmFired
  BY DEF DmInv
<1>1. deadman_touch(DmOwner[o]) /\ UNCHANGED <<dmNow, dmTick, wakeAt, dmLive, behind>>
  BY DEF new_order
<1>2. PICK m \in DmMarkets, p \in DmProfiles : m = DmMarket[o] /\ p = DmOwner[o]
  BY DmAssumed
<1>3. SwitchesOK' /\ NoneFired /\ switch'[p].status # "canceled"
  BY <1>0, <1>1, <1>2, SwitchTouched
<1>4. dmQueue' = [dmQueue EXCEPT ![m] = Append(dmQueue[m], CreateTask(o))]
  BY <1>0, <1>2 DEF new_order, CreateTask, DmTypes
<1>5. CreateTask(o) \in TaskT(m) /\ dmQueue[m] \in Seq(TaskT(m))
  BY <1>0, <1>2 DEF TaskT, DmTypes
<1>6. PICK r : r = Append(dmQueue[m], CreateTask(o))
  OBVIOUS
<1>7. /\ r \in Seq(TaskT(m)) /\ Len(r) = Len(dmQueue[m]) + 1 /\ r[Len(dmQueue[m]) + 1] = CreateTask(o)
      /\ \A i \in 1 .. Len(dmQueue[m]) : r[i] = dmQueue[m][i]
  BY <1>5, <1>6, TaskAppended
<1>8. dmQueue' = [dmQueue EXCEPT ![m] = r]
  BY <1>4, <1>6
<1>9. dmQueue'[m] = r /\ (\A n \in DmMarkets : n # m => dmQueue'[n] = dmQueue[n])
      /\ dmQueue' = [n \in DmMarkets |-> dmQueue'[n]]
  BY <1>0, <1>8 DEF DmTypes
<1>10. ~FiredFor(DmOwner[o])'
  BY <1>2, <1>3 DEF FiredFor
<1>11. ASSUME NEW n \in DmMarkets
       PROVE  /\ dmQueue'[n] \in Seq(TaskT(n)) /\ Len(dmQueue[n]) <= Len(dmQueue'[n])
              /\ \A i \in 1 .. Len(dmQueue[n]) : dmQueue'[n][i] = dmQueue[n][i]
              /\ \A i \in Len(dmQueue[n]) + 1 .. Len(dmQueue'[n]) :
                    \A x \in DmOrders : FiredFor(DmOwner[x])' => dmQueue'[n][i] # CreateTask(x)
  <2>0. dmQueue[n] \in Seq(TaskT(n)) /\ Len(dmQueue[n]) \in Nat
    BY <1>0 DEF DmTypes
  <2>1. CASE n = m
    <3>1. \A i \in Len(dmQueue[m]) + 1 .. Len(r) : r[i] = CreateTask(o)
      BY <1>7, <2>0, <2>1
    <3>2. \A x \in DmOrders : FiredFor(DmOwner[x])' => CreateTask(o) # CreateTask(x)
      BY <1>10, TasksDiffer
    <3> QED
      BY <1>7, <1>9, <2>0, <2>1, <3>1, <3>2
  <2>2. CASE n # m
    BY <1>9, <2>0, <2>2
  <2> QED
    BY <2>1, <2>2
<1> QED
  BY <1>0, <1>1, <1>3, <1>9, <1>11, QueuesGrow

LEMMA AllCanceled ==
    ASSUME DmInv, NEW p \in DmProfiles, cancel_all(p)
    PROVE  DmInv'
<1>0. DmTypes /\ DmTiming /\ DmFired
  BY DEF DmInv
<1>1. deadman_touch(p) /\ UNCHANGED <<dmNow, dmTick, wakeAt, dmLive, behind>>
      /\ dmQueue' = [m \in DmMarkets |-> PutCancelAll(m, {p})]
  BY DEF cancel_all
<1>2. SwitchesOK' /\ NoneFired
  BY <1>0, <1>1, SwitchTouched
<1>3. \A m \in DmMarkets : dmQueue'[m] = PutCancelAll(m, {p})
  BY <1>1
<1>4. \A m \in DmMarkets :
         /\ dmQueue'[m] \in Seq(TaskT(m)) /\ Len(dmQueue[m]) <= Len(dmQueue'[m])
         /\ \A i \in 1 .. Len(dmQueue[m]) : dmQueue'[m][i] = dmQueue[m][i]
         /\ \A i \in Len(dmQueue[m]) + 1 .. Len(dmQueue'[m]) : \A o : dmQueue'[m][i] # CreateTask(o)
  BY <1>0, <1>3, CancelAllsPut
<1>5. dmQueue' = [m \in DmMarkets |-> dmQueue'[m]]
  BY <1>1
<1> QED
  BY <1>0, <1>1, <1>2, <1>4, <1>5, QueuesGrow

(* A cancelall of p that is in a queue no order of p waits behind, or it is*)
(* put there.                                                              *)
LEMMA SwitchesFireKeeps ==
    ASSUME DmInv, SwitchesFire
    PROVE  DmInv'
<1>0. DmTypes /\ DmTiming /\ DmFired
  BY DEF DmInv
<1>1. UNCHANGED <<dmNow, dmTick, dmLive>> /\ dmQueue' = [m \in DmMarkets |-> PutCancelAll(m, Expired)]
  BY DEF SwitchesFire, put_cancel_all
<1>2. SwitchesOK' /\ wakeAt' \in Nat /\ \A p \in DmProfiles : switch'[p].status = "canceled" =>
         p \in Expired \/ switch[p].status = "canceled"
  BY <1>0, FiberLooks
<1>3. Expired \in SUBSET DmProfiles
  BY DEF Expired
<1>4. \A m \in DmMarkets : dmQueue'[m] = PutCancelAll(m, Expired)
  BY <1>1
<1>5. \A m \in DmMarkets :
         /\ dmQueue'[m] \in Seq(TaskT(m)) /\ Len(dmQueue[m]) <= Len(dmQueue'[m])
         /\ \A i \in 1 .. Len(dmQueue[m]) : dmQueue'[m][i] = dmQueue[m][i]
         /\ \A i \in Len(dmQueue[m]) + 1 .. Len(dmQueue'[m]) : \A o : dmQueue'[m][i] # CreateTask(o)
         /\ \A p \in Expired : CancelAllTask(p) \notin Range(dmQueue[m]) =>
               \E i \in Len(dmQueue[m]) + 1 .. Len(dmQueue'[m]) : dmQueue'[m][i] = CancelAllTask(p)
  BY <1>0, <1>3, <1>4, CancelAllsPut
<1>6. DmTypes'
  BY <1>0, <1>1, <1>2, <1>5 DEF DmTypes, SwitchesOK
<1>7. ASSUME NEW o \in DmOrders, FiredFor(DmOwner[o])' PROVE Cleared(dmLive, dmQueue'[DmMarket[o]], o)
  <2>1. PICK p \in DmProfiles, m \in DmMarkets : p = DmOwner[o] /\ m = DmMarket[o]
    BY DmAssumed
  <2>2. PICK q, r : q = dmQueue[m] /\ r = dmQueue'[m]
    OBVIOUS
  <2>3. /\ q \in Seq(TaskT(m)) /\ r \in Seq(TaskT(m)) /\ Len(q) <= Len(r)
        /\ \A i \in 1 .. Len(q) : r[i] = q[i]
        /\ \A i \in Len(q) + 1 .. Len(r) : r[i] # CreateTask(o)
    BY <1>0, <1>5, <2>2 DEF DmTypes
  <2>4. CASE p \notin Expired
    <3>1. FiredFor(p)
      BY <1>2, <1>7, <2>1, <2>4 DEF FiredFor, SwitchesFire
    <3>2. Cleared(dmLive, q, o)
      BY <1>0, <2>1, <2>2, <3>1 DEF DmFired
    <3> QED
      BY <2>1, <2>2, <2>3, <3>2, ClearedStays
  <2>5. CASE p \in Expired
    <3>1. ~Overtaken(p)
      BY <1>7, <2>1, <2>5 DEF FiredFor, SwitchesFire
    <3>2. PICK c \in 1 .. Len(r) :
             /\ r[c] = CancelAllTask(p)
             /\ \A i \in c + 1 .. Len(r) : r[i] # CreateTask(o)
      <4>1. CASE CancelAllTask(p) \in Range(q)
        <5>1. PICK c \in 1 .. Len(q) : q[c] = CancelAllTask(p)
          BY <2>3, <4>1 DEF Range
        <5>2. \A i \in c + 1 .. Len(q) : q[i] # CreateTask(o)
          <6> SUFFICES ASSUME NEW i \in c + 1 .. Len(q), q[i] = CreateTask(o) PROVE FALSE
            OBVIOUS
          <6>1. c \in DOMAIN q /\ i \in DOMAIN q /\ c < i
            BY <2>3, <5>1
          <6>2. q[i][1] = "create" /\ DmOwner[q[i][2]] = p
            BY <2>1, TasksDiffer
          <6> QED
            BY <2>1, <2>2, <3>1, <5>1, <6>1, <6>2 DEF Overtaken
        <5>3. c \in 1 .. Len(r) /\ r[c] = CancelAllTask(p)
          BY <2>3, <5>1
        <5>4. \A i \in c + 1 .. Len(r) : r[i] # CreateTask(o)
          BY <2>3, <5>1, <5>2
        <5> QED
          BY <5>3, <5>4
      <4>2. CASE CancelAllTask(p) \notin Range(q)
        <5>1. PICK c \in Len(q) + 1 .. Len(r) : r[c] = CancelAllTask(p)
          BY <1>5, <2>2, <2>5, <4>2
        <5>2. c \in 1 .. Len(r) /\ \A i \in c + 1 .. Len(r) : r[i] # CreateTask(o)
          BY <2>3, <5>1
        <5> QED
          BY <5>1, <5>2
      <4> QED
        BY <4>1, <4>2
    <3>3. Follows(r, p, 0)
      BY <3>2 DEF Follows
    <3>4. ASSUME NEW i \in 1 .. Len(r), r[i] = CreateTask(o) PROVE Follows(r, p, i)
      <4>1. i # c
        BY <3>2, <3>4, TasksDiffer
      <4>2. ~(i \in c + 1 .. Len(r))
        BY <3>2, <3>4
      <4>3. c \in i + 1 .. Len(r)
        BY <2>3, <4>1, <4>2
      <4> QED
        BY <3>2, <4>3 DEF Follows
    <3> QED
      BY <2>1, <2>2, <3>3, <3>4 DEF Cleared
  <2> QED
    BY <2>4, <2>5
<1>8. DmFired'
  BY <1>1, <1>7 DEF DmFired
<1> QED
  BY <1>2, <1>6, <1>8 DEF DmInv, SwitchesOK

LEMMA TaskHandled ==
    ASSUME DmInv, NEW m \in DmMarkets, EngineHandles(m)
    PROVE  DmInv'
<1>0. DmTypes /\ DmTiming /\ DmFired
  BY DEF DmInv
<1>1. UNCHANGED <<dmNow, switch, dmTick, wakeAt, behind>> /\ dmQueue[m] # <<>>
      /\ dmQueue' = [dmQueue EXCEPT ![m] = Tail(dmQueue[m])]
  BY <1>0 DEF EngineHandles, DmTypes
<1>2. PICK q, r : q = dmQueue[m] /\ r = Tail(q)
  OBVIOUS
<1>3. q \in Seq(TaskT(m)) /\ q # <<>>
  BY <1>0, <1>1, <1>2 DEF DmTypes
<1>4. /\ r \in Seq(TaskT(m)) /\ Len(r) = Len(q) - 1 /\ Len(q) >= 1 /\ Head(q) = q[1] /\ q[1] \in TaskT(m)
      /\ \A i \in 1 .. Len(r) : r[i] = q[i + 1]
  BY <1>2, <1>3, TaskTaken
<1>5. dmQueue'[m] = r /\ (\A n \in DmMarkets : n # m => dmQueue'[n] = dmQueue[n])
      /\ dmQueue' = [n \in DmMarkets |-> dmQueue'[n]]
  <2>1. dmQueue' = [dmQueue EXCEPT ![m] = r]
    BY <1>1, <1>2
  <2> QED
    BY <1>0, <2>1 DEF DmTypes
<1>6. Len(q) \in Nat /\ Len(r) \in Nat
  BY <1>3, <1>4
<1>7. PICK t \in TaskT(m) : t = Head(q) /\ t = q[1]
  BY <1>4
<1>8. dmLive' = IF t[1] = "create" THEN dmLive \cup {t[2]}
                ELSE {o \in dmLive : DmMarket[o] # m \/ DmOwner[o] # t[2]}
  BY <1>2, <1>7 DEF EngineHandles
<1>9. DmTiming'
  BY <1>0, <1>1 DEF DmTiming, SwitchedOn, SleptSince, WokenInTime
<1>10. dmLive' \subseteq DmOrders /\ \A o \in dmLive' : o \in dmLive \/ (t = CreateTask(o) /\ DmMarket[o] = m)
  <2>1. CASE \E p \in DmProfiles : t = CancelAllTask(p)
    BY <1>0, <1>8, <2>1, TasksDiffer DEF DmTypes
  <2>2. CASE \E o \in DmOrders : t = CreateTask(o) /\ DmMarket[o] = m
    BY <1>0, <1>8, <2>2, TasksDiffer DEF DmTypes
  <2> QED
    BY <2>1, <2>2, TaskKinds
<1>11. DmTypes'
  BY <1>0, <1>1, <1>4, <1>5, <1>10 DEF DmTypes
<1>12. ASSUME NEW o \in DmOrders, FiredFor(DmOwner[o])' PROVE Cleared(dmLive', dmQueue'[DmMarket[o]], o)
  <2>1. FiredFor(DmOwner[o])
    BY <1>1, <1>12 DEF FiredFor
  <2>2. Cleared(dmLive, dmQueue[DmMarket[o]], o)
    BY <1>0, <2>1 DEF DmFired
  <2>3. CASE DmMarket[o] # m
    <3>1. dmQueue'[DmMarket[o]] = dmQueue[DmMarket[o]]
      BY <1>5, <2>3, DmAssumed
    <3>2. o \in dmLive' => o \in dmLive
      BY <1>10, <2>3
    <3> QED
      BY <2>2, <3>1, <3>2 DEF Cleared
  <2>4. CASE DmMarket[o] = m
    <3>0. Cleared(dmLive, q, o)
      BY <1>2, <2>2, <2>4
    <3>1. \A i \in 1 .. Len(q) : Follows(q, DmOwner[o], i) => Follows(r, DmOwner[o], i - 1)
      <4> SUFFICES ASSUME NEW i \in 1 .. Len(q), NEW j \in i + 1 .. Len(q), q[j] = CancelAllTask(DmOwner[o])
                   PROVE  Follows(r, DmOwner[o], i - 1)
        BY DEF Follows
      <4>1. j - 1 \in (i - 1) + 1 .. Len(r) /\ j - 1 \in 1 .. Len(r) /\ (j - 1) + 1 = j
        BY <1>4, <1>6
      <4>2. r[j - 1] = CancelAllTask(DmOwner[o])
        BY <1>4, <4>1
      <4> QED
        BY <4>1, <4>2 DEF Follows
    <3>2. ASSUME NEW i \in 1 .. Len(r), r[i] = CreateTask(o) PROVE Follows(r, DmOwner[o], i)
      <4>1. i + 1 \in 1 .. Len(q) /\ q[i + 1] = CreateTask(o) /\ (i + 1) - 1 = i
        BY <1>4, <1>6, <3>2
      <4> QED
        BY <3>0, <3>1, <4>1 DEF Cleared
    <3>3. ASSUME o \in dmLive' PROVE Follows(r, DmOwner[o], 0)
      <4>1. CASE t = CreateTask(o)
        <5>1. 1 \in 1 .. Len(q) /\ q[1] = CreateTask(o) /\ 1 - 1 = 0
          BY <1>4, <1>6, <1>7, <4>1
        <5> QED
          BY <3>0, <3>1, <5>1 DEF Cleared
      <4>2. CASE t # CreateTask(o)
        <5>1. o \in dmLive
          BY <1>10, <3>3, <4>2
        <5>2. PICK j \in 1 .. Len(q) : q[j] = CancelAllTask(DmOwner[o])
          BY <3>0, <5>1 DEF Cleared, Follows
        <5>3. t # CancelAllTask(DmOwner[o])
          BY <1>8, <2>4, <3>3, TasksDiffer
        <5>4. j # 1
          BY <1>7, <5>2, <5>3
        <5>5. j - 1 \in 0 + 1 .. Len(r) /\ j - 1 \in 1 .. Len(r) /\ (j - 1) + 1 = j
          BY <1>4, <1>6, <5>4
        <5>6. r[j - 1] = CancelAllTask(DmOwner[o])
          BY <1>4, <5>2, <5>5
        <5> QED
          BY <5>5, <5>6 DEF Follows
      <4> QED
        BY <4>1, <4>2
    <3> QED
      BY <1>5, <2>4, <3>2, <3>3 DEF Cleared
  <2> QED
    BY <2>3, <2>4
<1>13. DmFired'
  BY <1>12 DEF DmFired
<1> QED
  BY <1>9, <1>11, <1>13 DEF DmInv

LEMMA ClockSteps ==
    ASSUME DmInv, GatewayRestarts \/ TimePasses
    PROVE  DmInv'
<1>0. DmTypes /\ DmTiming /\ DmFired /\ dmNow \in Nat /\ wakeAt \in Nat /\ dmTick \in Nat
  BY DEF DmInv, DmTypes
<1>1. UNCHANGED <<dmQueue, dmLive, behind>>
  BY DEF GatewayRestarts, TimePasses
<1>2. SwitchesOK' /\ UNCHANGED switch /\ dmNow' \in Nat /\ wakeAt' \in Nat /\ dmTick' \in Nat
  <2>1. CASE GatewayRestarts
    BY <1>0, <2>1, FiberAnew DEF GatewayRestarts
  <2>2. CASE TimePasses
    BY <1>0, <2>2, ClockMoves
  <2> QED
    BY <2>1, <2>2
<1>3. NoneFired /\ \A p \in DmProfiles : FiredFor(p)' => p \notin behind
  BY <1>1, <1>2 DEF NoneFired, FiredFor
<1> QED
  BY <1>0, <1>1, <1>2, <1>3, NothingFired

(* However many profiles, markets and orders there are, a switch fires in  *)
(* time, and one that has fired leaves its profile no order once the       *)
(* engines have handled their tasks (deadman.lua).                         *)
THEOREM SwitchesAlwaysWork == DmSpec => []SwitchesWork
<1>1. DmInit => DmInv
  BY DmInitHolds
<1>2. DmInv /\ [DmNext]_dmVars => DmInv'
  <2> SUFFICES ASSUME DmInv, [DmNext]_dmVars PROVE DmInv'
    OBVIOUS
  <2>1. CASE \E p \in DmProfiles : deadman_replace(p) \/ deadman_delete(p) \/ Refused(p)
    BY <2>1, SwitchSteps
  <2>2. CASE \E p \in DmProfiles : cancel_all(p)
    BY <2>2, AllCanceled
  <2>3. CASE \E o \in DmOrders : new_order(o)
    BY <2>3, OrderPut
  <2>4. CASE SwitchesFire
    BY <2>4, SwitchesFireKeeps
  <2>5. CASE GatewayRestarts \/ TimePasses
    BY <2>5, ClockSteps
  <2>6. CASE \E m \in DmMarkets : EngineHandles(m)
    BY <2>6, TaskHandled
  <2>7. CASE UNCHANGED dmVars
    <3>1. UNCHANGED <<dmNow, switch, dmTick, wakeAt, dmQueue, dmLive, behind>>
      BY <2>7 DEF dmVars
    <3> QED
      BY <3>1 DEF DmInv, DmTypes, DmTiming, DmFired, FiredFor, SwitchedOn, SleptSince, WokenInTime
  <2> QED
    BY <2>1, <2>2, <2>3, <2>4, <2>5, <2>6, <2>7 DEF DmNext
<1>3. DmInv => SwitchesWork
  BY DmInvImplies
<1> QED
  BY <1>1, <1>2, <1>3, PTL DEF DmSpec

-------------------------------------------------------------------------------
(* The referral service.                                                   *)

Lasts == {0} \cup {w.last : w \in {v \in windows : v.table = "fills"}}

(* The query orders trades by time and by the text of their id.  The       *)
(* theorem about their fees needs that to be the order of the archive; the *)
(* other does not.                                                         *)
QueriesInOrder == \A t, u \in 1 .. MaxTrades : t < u => QueryRank[t] < QueryRank[u]

LedgerOK ==
    /\ Len(payout) = Len(payoutOp) /\ (\E T : payout \in Seq(T)) /\ payoutOp \in Seq({"none", "pending", "success"})
    /\ \A i \in 1 .. Len(payout) :
          /\ payout[i] = [profile |-> payout[i].profile, amount |-> payout[i].amount,
                          processed |-> payout[i].processed, why |-> payout[i].why]
          /\ payout[i].processed => payoutOp[i] = "success"

(* A payout that is being made is in the balance up to where the job is.   *)
MakesPayouts(j) ==
    /\ j.job = "create" => /\ j = [job |-> "create", ids |-> j.ids, left |-> j.left]
                           /\ j.ids \subseteq 1 .. Len(payout) /\ j.left \subseteq j.ids
                           /\ \A i \in j.ids \ j.left : payoutOp[i] \in {"pending", "success"}
    /\ j.job = "processed" => \A i \in j.ids : i \in 1 .. Len(payout) /\ payoutOp[i] = "success"

PaidInv ==
    /\ LedgerOK
    /\ \A s \in ReferralServices : MakesPayouts(referralJob[s])
    /\ referralJob = [s \in ReferralServices |-> referralJob[s]]

(* The ledger has the rows R more, each of them once.                      *)
Grew(R) ==
    /\ LedgerOK' /\ Len(payout) <= Len(payout') /\ Len(payout) \in Nat /\ Len(payout') \in Nat
    /\ \A i \in 1 .. Len(payout) : payout'[i] = payout[i] /\ payoutOp'[i] = payoutOp[i]
    /\ \A i \in Len(payout) + 1 .. Len(payout') : payout'[i] \in R
    /\ \A i, k \in Len(payout) + 1 .. Len(payout') : payout'[i] = payout'[k] => i = k

(* New rows of the ledger.                                                 *)
LEMMA LedgerGrows ==
    ASSUME LedgerOK, NEW R, IsFiniteSet(R), NEW rows, rows = SetToSeq(R),
           \A x \in R : x = [profile |-> x.profile, amount |-> x.amount, processed |-> FALSE, why |-> x.why],
           payout' = payout \o rows, payoutOp' = payoutOp \o [i \in 1 .. Len(rows) |-> "none"]
    PROVE  Grew(R)
<1>1. rows \in Seq(R)
  BY SetAsSeq
<1>2. \A i, k \in 1 .. Len(rows) : rows[i] = rows[k] => i = k
  BY SetAsSeq
<1>3. PICK T, U : payout \in Seq(T) /\ payoutOp \in Seq(U) /\ U = {"none", "pending", "success"}
  BY DEF LedgerOK
<1>4. PICK nones : nones = [i \in 1 .. Len(rows) |-> "none"]
  OBVIOUS
<1>5. nones \in Seq({"none"}) /\ Len(nones) = Len(rows)
  BY <1>1, <1>4
<1>6. payout \in Seq(T \cup R) /\ rows \in Seq(T \cup R) /\ nones \in Seq(U)
  BY <1>1, <1>3, <1>5
<1>7. /\ payout' \in Seq(T \cup R) /\ Len(payout') = Len(payout) + Len(rows)
      /\ \A i \in 1 .. Len(payout) : payout'[i] = payout[i]
      /\ \A i \in 1 .. Len(rows) : payout'[Len(payout) + i] = rows[i]
  BY <1>6, TasksAppended
<1>8. /\ payoutOp' \in Seq(U) /\ Len(payoutOp') = Len(payoutOp) + Len(nones)
      /\ \A i \in 1 .. Len(payoutOp) : payoutOp'[i] = payoutOp[i]
  BY <1>3, <1>4, <1>6, TasksAppended
<1>9. Len(payout) \in Nat /\ Len(rows) \in Nat /\ Len(payoutOp) = Len(payout)
  BY <1>1, <1>3 DEF LedgerOK
<1>10. ASSUME NEW i \in Len(payout) + 1 .. Len(payout')
       PROVE  i - Len(payout) \in 1 .. Len(rows) /\ payout'[i] = rows[i - Len(payout)] /\ payout'[i] \in R
  <2>1. i - Len(payout) \in 1 .. Len(rows) /\ Len(payout) + (i - Len(payout)) = i
    BY <1>7, <1>9
  <2> QED
    BY <1>1, <1>7, <2>1
<1>11. ASSUME NEW i \in Len(payout) + 1 .. Len(payout'), NEW k \in Len(payout) + 1 .. Len(payout'),
              payout'[i] = payout'[k]
       PROVE  i = k
  <2>1. PICK a, b : a = i - Len(payout) /\ b = k - Len(payout)
    OBVIOUS
  <2>2. a \in 1 .. Len(rows) /\ b \in 1 .. Len(rows) /\ rows[a] = rows[b]
    BY <1>10, <1>11, <2>1
  <2>3. a = b
    BY <1>2, <2>2
  <2> QED
    BY <1>9, <2>1, <2>3
<1>12. ASSUME NEW i \in 1 .. Len(payout')
       PROVE  /\ payout'[i] = [profile |-> payout'[i].profile, amount |-> payout'[i].amount,
                               processed |-> payout'[i].processed, why |-> payout'[i].why]
              /\ payout'[i].processed => payoutOp'[i] = "success"
  <2>1. CASE i \in 1 .. Len(payout)
    BY <1>7, <1>8, <1>9, <2>1 DEF LedgerOK
  <2>2. CASE i \in Len(payout) + 1 .. Len(payout')
    <3>1. PICK x \in R : x = payout'[i]
      BY <1>10, <2>2
    <3>2. x.processed = FALSE
      OBVIOUS
    <3> QED
      BY <3>1, <3>2
  <2> QED
    BY <1>7, <1>9, <2>1, <2>2
<1>13. LedgerOK'
  BY <1>3, <1>5, <1>7, <1>8, <1>9, <1>12 DEF LedgerOK
<1>14. Len(payout) <= Len(payout') /\ Len(payout') \in Nat
  BY <1>7, <1>9
<1> QED
  BY <1>7, <1>8, <1>9, <1>10, <1>11, <1>13, <1>14 DEF Grew

(* Marking payouts, and moving their rows in the balance, keep the rest.   *)
LEMMA JobsFollow ==
    ASSUME PaidInv, NEW s \in ReferralServices, NEW j, referralJob' = [referralJob EXCEPT ![s] = j],
           Len(payout) <= Len(payout'), Len(payout) \in Nat, Len(payout') \in Nat,
           \A i \in 1 .. Len(payout) :
              /\ payoutOp[i] = "success" => payoutOp'[i] = "success"
              /\ payoutOp[i] = "pending" => payoutOp'[i] \in {"pending", "success"},
           LedgerOK', MakesPayouts(j)'
    PROVE  PaidInv'
<1>2. referralJob'[s] = j /\ (\A x \in ReferralServices : x # s => referralJob'[x] = referralJob[x])
      /\ referralJob' = [x \in ReferralServices |-> referralJob'[x]]
  BY DEF PaidInv
<1>3. ASSUME NEW x \in ReferralServices PROVE MakesPayouts(referralJob[x])'
  <2>1. CASE x = s
    BY <1>2, <2>1 DEF MakesPayouts
  <2>2. CASE x # s
    <3>1. PICK o : o = referralJob[x]
      OBVIOUS
    <3>2. MakesPayouts(o)
      BY <3>1 DEF PaidInv
    <3>3. 1 .. Len(payout) \subseteq 1 .. Len(payout')
      OBVIOUS
    <3>4. MakesPayouts(o)'
      BY <3>2, <3>3 DEF MakesPayouts
    <3>5. referralJob'[x] = o
      BY <1>2, <2>2, <3>1
    <3> QED
      BY <3>4, <3>5 DEF MakesPayouts
  <2> QED
    BY <2>1, <2>2
<1> QED
  BY <1>2, <1>3 DEF PaidInv

LEMMA OtherJobs ==
    ASSUME NEW j, j.job \notin {"create", "processed"}
    PROVE  MakesPayouts(j)
BY DEF MakesPayouts

LEMMA RestingMakes == MakesPayouts(Resting) /\ MakesPayouts(Resting)'
BY DEF MakesPayouts, Resting

LEMMA BonusesFinite ==
    ASSUME NEW S \in SUBSET (Referrers \X (1 .. Len(ReferralLevels)))
    PROVE  IsFiniteSet(S)
<1>1. Len(ReferralLevels) \in Nat
  BY ReferralsAssumption
<1>2. IsFiniteSet(1 .. Len(ReferralLevels))
  BY <1>1, FS_Interval
<1>3. IsFiniteSet(Referrers)
  BY ReferralsAssumption
<1> QED
  BY <1>2, <1>3, FS_Product, FS_Subset

LEMMA PaidInitHolds == ReferralInit => PaidInv
<1> SUFFICES ASSUME ReferralInit PROVE PaidInv
  OBVIOUS
<1>1. payout = <<>> /\ payoutOp = <<>> /\ referralJob = [s \in ReferralServices |-> Resting]
  BY DEF ReferralInit
<1>2. LedgerOK
  BY <1>1 DEF LedgerOK
<1>3. \A s \in ReferralServices : referralJob[s] = Resting
  BY <1>1
<1> QED
  BY <1>1, <1>2, <1>3, RestingMakes DEF PaidInv

LEMMA LedgerSame ==
    ASSUME LedgerOK, UNCHANGED <<payout, payoutOp>>
    PROVE  LedgerOK' /\ Grew({}) /\ Len(payout) \in Nat
<1>1. \E T : payout' \in Seq(T)
  BY DEF LedgerOK
<1>2. \A i \in 1 .. Len(payout') :
         /\ payout'[i] = [profile |-> payout'[i].profile, amount |-> payout'[i].amount,
                          processed |-> payout'[i].processed, why |-> payout'[i].why]
         /\ payout'[i].processed => payoutOp'[i] = "success"
  BY DEF LedgerOK
<1>3. LedgerOK'
  BY <1>1, <1>2 DEF LedgerOK
<1>4. Len(payout) \in Nat /\ Len(payout') \in Nat
  BY DEF LedgerOK
<1>5. Len(payout) + 1 .. Len(payout') = {}
  BY <1>4
<1> QED
  BY <1>3, <1>4, <1>5 DEF Grew

LEMMA VolumesGrow ==
    ASSUME LedgerOK, NEW s, doVolumes(s)
    PROVE  \E R : Grew(R) /\ \A x \in R : \E l : x.why = [level |-> l]
<1> DEFINE bonuses == {b \in Referrers \X (1 .. Len(ReferralLevels)) :
              /\ Percentage(b[1]) /\ referralJob[s].added[b[1]] > 0
              /\ b[2] \in calculateBonus(referralJob[s].existing[b[1]],
                                        referralJob[s].existing[b[1]] + referralJob[s].added[b[1]])}
           row(b) == NewPayout(b[1], ReferralLevels[b[2]].bonus, [level |-> b[2]])
<1>1. CASE UNCHANGED <<payout, payoutOp>>
  BY <1>1, LedgerSame
<1>2. CASE ~UNCHANGED <<payout, payoutOp>>
  <2>1. PICK B : B = bonuses
    OBVIOUS
  <2>2. IsFiniteSet(B)
    BY <2>1, BonusesFinite
  <2>3. PICK R : R = {row(b) : b \in B}
    OBVIOUS
  <2>4. IsFiniteSet(R)
    <3>1. PICK f : f = [b \in B |-> row(b)]
      OBVIOUS
    <3>2. f \in Surjection(B, R)
      BY <2>3, <3>1 DEF Surjection
    <3> QED
      BY <2>2, <3>2, FS_Surjection
  <2>5. \A x \in R : /\ x = [profile |-> x.profile, amount |-> x.amount, processed |-> FALSE, why |-> x.why]
                     /\ \E l : x.why = [level |-> l]
    <3> DEFINE shaped(x) == /\ x = [profile |-> x.profile, amount |-> x.amount, processed |-> FALSE, why |-> x.why]
                            /\ \E l : x.why = [level |-> l]
    <3>1. ASSUME NEW b \in B PROVE shaped(row(b))
      <4>1. PICK x, pr, am, w : x = row(b) /\ w = [level |-> b[2]]
                                /\ x = [profile |-> pr, amount |-> am, processed |-> FALSE, why |-> w]
        BY DEF NewPayout
      <4>2. x.profile = pr /\ x.amount = am /\ x.why = w
        BY <4>1
      <4>3. x = [profile |-> x.profile, amount |-> x.amount, processed |-> FALSE, why |-> x.why]
        BY <4>1, <4>2
      <4>4. \E l : x.why = [level |-> l]
        BY <4>1, <4>2
      <4> QED
        BY <4>1, <4>3, <4>4
    <3> HIDE DEF row, shaped
    <3>2. \A x \in R : shaped(x)
      BY <2>3, <3>1
    <3> QED
      BY <3>2 DEF shaped
  <2>6. payout' = payout \o SetToSeq(R) /\ payoutOp' = payoutOp \o [i \in 1 .. Len(SetToSeq(R)) |-> "none"]
    BY <1>2, <2>1, <2>3 DEF doVolumes
  <2>7. PICK rows : rows = SetToSeq(R)
    OBVIOUS
  <2>8. Grew(R)
    BY <2>4, <2>5, <2>6, <2>7, LedgerGrows
  <2> QED
    BY <2>5, <2>8
<1> QED
  BY <1>1, <1>2

LEMMA PayoutsGrow ==
    ASSUME LedgerOK, NEW s, doPayouts(s)
    PROVE  \E R : Grew(R) /\ \A x \in R : \E r, a : x = NewPayout(r, a, [trades |-> referralJob[s].trades])
                                                /\ a = referralJob[s].fees[r]
<1> DEFINE j == referralJob[s]
           row(r) == NewPayout(r, j.fees[r], [trades |-> j.trades])
<1>1. CASE UNCHANGED <<payout, payoutOp>>
  BY <1>1, LedgerSame
<1>2. CASE ~UNCHANGED <<payout, payoutOp>>
  <2>1. PICK B : B = {q \in Referrers : j.fees[q] > 0}
    OBVIOUS
  <2>2. IsFiniteSet(B)
    BY <2>1, ReferralsAssumption, FS_Subset
  <2>3. PICK R : R = {row(r) : r \in B}
    OBVIOUS
  <2>4. IsFiniteSet(R)
    <3>1. PICK f : f = [b \in B |-> row(b)]
      OBVIOUS
    <3>2. f \in Surjection(B, R)
      BY <2>3, <3>1 DEF Surjection
    <3> QED
      BY <2>2, <3>2, FS_Surjection
  <2>5. \A x \in R : x = [profile |-> x.profile, amount |-> x.amount, processed |-> FALSE, why |-> x.why]
    BY <2>3 DEF NewPayout
  <2>6. payout' = payout \o SetToSeq(R) /\ payoutOp' = payoutOp \o [i \in 1 .. Len(SetToSeq(R)) |-> "none"]
    BY <1>2, <2>1, <2>3 DEF doPayouts
  <2>7. PICK rows : rows = SetToSeq(R)
    OBVIOUS
  <2>8. Grew(R)
    BY <2>4, <2>5, <2>6, <2>7, LedgerGrows
  <2> QED
    BY <2>3, <2>8
<1> QED
  BY <1>1, <1>2

LEMMA PaidWhileResting ==
    ASSUME PaidInv, NEW s \in ReferralServices, NEW j, Begin(s, j), MakesPayouts(j), UNCHANGED <<payout, payoutOp>>
    PROVE  PaidInv'
<1>1. LedgerOK' /\ Len(payout) \in Nat
  BY LedgerSame DEF PaidInv
<1>2. MakesPayouts(j)'
  BY DEF MakesPayouts
<1>3. referralJob' = [referralJob EXCEPT ![s] = j] /\ Len(payout) <= Len(payout') /\ Len(payout') \in Nat
  BY <1>1 DEF Begin
<1> QED
  BY <1>1, <1>2, <1>3, JobsFollow

LEMMA PaidWhileGrowing ==
    ASSUME PaidInv, NEW s \in ReferralServices, doVolumes(s) \/ doPayouts(s)
    PROVE  PaidInv'
<1>1. PICK R : Grew(R)
  BY VolumesGrow, PayoutsGrow DEF PaidInv
<1>2. referralJob' = [referralJob EXCEPT ![s] = Resting]
  BY DEF doVolumes, doPayouts, Rest
<1>3. /\ LedgerOK' /\ Len(payout) <= Len(payout') /\ Len(payout) \in Nat /\ Len(payout') \in Nat
      /\ \A i \in 1 .. Len(payout) : payoutOp'[i] = payoutOp[i]
  BY <1>1 DEF Grew
<1> QED
  BY <1>2, <1>3, RestingMakes, JobsFollow

LEMMA PaidWhileProcessing ==
    ASSUME PaidInv, NEW s \in ReferralServices,
           \/ getUnProcessedPayouts(s) \/ CreateReferralPayout(s) \/ ProcessReferralPayout(s) \/ setToProcessed(s)
    PROVE  PaidInv'
<1> DEFINE j == referralJob[s]
<1>0. LedgerOK /\ MakesPayouts(j)
  BY DEF PaidInv
<1>1. PICK T, U : payout \in Seq(T) /\ payoutOp \in Seq(U) /\ U = {"none", "pending", "success"}
  BY <1>0 DEF LedgerOK
<1>2. Len(payout) \in Nat /\ DOMAIN payout = 1 .. Len(payout) /\ DOMAIN payoutOp = 1 .. Len(payout)
      /\ Len(payoutOp) = Len(payout)
  BY <1>0, <1>1 DEF LedgerOK
<1>3. CASE getUnProcessedPayouts(s)
  <2>1. PICK ids : ids = {i \in DOMAIN payout : ~payout[i].processed}
    OBVIOUS
  <2>2. PICK n : n = [job |-> "create", ids |-> ids, left |-> ids]
    OBVIOUS
  <2>3. Begin(s, n) /\ UNCHANGED <<payout, payoutOp>>
    BY <1>3, <2>1, <2>2 DEF getUnProcessedPayouts, dbTables
  <2>4. MakesPayouts(n)
    BY <1>2, <2>1, <2>2 DEF MakesPayouts
  <2> QED
    BY <2>3, <2>4, PaidWhileResting
<1>4. CASE CreateReferralPayout(s)
  <2>0. j = [job |-> "create", ids |-> j.ids, left |-> j.left] /\ j.ids \subseteq 1 .. Len(payout) /\ j.left \subseteq j.ids
        /\ \A i \in j.ids \ j.left : payoutOp[i] \in {"pending", "success"}
    BY <1>0, <1>4 DEF CreateReferralPayout, AtJob, MakesPayouts
  <2>1. PICK i \in j.left :
           /\ payoutOp' = [payoutOp EXCEPT ![i] = IF payoutOp[i] = "none" THEN "pending" ELSE payoutOp[i]]
           /\ Begin(s, [j EXCEPT !.left = j.left \ {i}])
           /\ UNCHANGED payout
    BY <1>4, <2>0 DEF CreateReferralPayout, Tolerated, dbTables
  <2>2. i \in 1 .. Len(payout) /\ payoutOp[i] \in U
    BY <1>1, <1>2, <2>0
  <2>3. PICK op \in U : op = (IF payoutOp[i] = "none" THEN "pending" ELSE payoutOp[i])
    BY <1>1, <2>2
  <2>4. payoutOp' = [payoutOp EXCEPT ![i] = op]
    BY <2>1, <2>3
  <2>5. payoutOp' \in Seq(U) /\ Len(payoutOp') = Len(payout) /\ payoutOp'[i] = op
        /\ \A k \in 1 .. Len(payout) : k # i => payoutOp'[k] = payoutOp[k]
    BY <1>1, <1>2, <2>2, <2>4
  <2>6. op \in {"pending", "success"} /\ (payoutOp[i] = "success" => op = "success")
    BY <1>1, <2>3
  <2>7. \A k \in 1 .. Len(payout) :
           /\ payoutOp[k] = "success" => payoutOp'[k] = "success"
           /\ payoutOp[k] = "pending" => payoutOp'[k] \in {"pending", "success"}
    BY <2>5, <2>6
  <2>8. LedgerOK'
    BY <1>0, <1>1, <2>1, <2>5, <2>7 DEF LedgerOK
  <2>9. PICK n : n = [j EXCEPT !.left = j.left \ {i}]
    OBVIOUS
  <2>10. n = [job |-> "create", ids |-> n.ids, left |-> n.left] /\ n.ids = j.ids /\ n.left = j.left \ {i} /\ n.job = "create"
    <3>1. PICK ids, left : ids = j.ids /\ left = j.left /\ j = [job |-> "create", ids |-> ids, left |-> left]
      BY <2>0
    <3>2. n = [job |-> "create", ids |-> ids, left |-> left \ {i}]
      BY <2>9, <3>1
    <3> QED
      BY <3>1, <3>2
  <2>11. MakesPayouts(n)'
    BY <2>0, <2>1, <2>5, <2>6, <2>7, <2>10 DEF MakesPayouts
  <2>12. referralJob' = [referralJob EXCEPT ![s] = n]
    BY <2>1, <2>9 DEF Begin
  <2>13. Len(payout) <= Len(payout') /\ Len(payout') \in Nat
    BY <1>2, <2>1
  <2> HIDE DEF j
  <2> QED
    BY <1>2, <2>7, <2>8, <2>11, <2>12, <2>13, JobsFollow
<1>5. CASE ProcessReferralPayout(s)
  <2>0. /\ j = [job |-> "create", ids |-> j.ids, left |-> j.left] /\ j.ids \subseteq 1 .. Len(payout) /\ j.left = {}
        /\ \A i \in j.ids \ j.left : payoutOp[i] \in {"pending", "success"}
    BY <1>0, <1>5 DEF ProcessReferralPayout, AtJob, MakesPayouts
  <2>1. PICK n : n = [job |-> "processed", ids |-> j.ids]
    OBVIOUS
  <2>2. /\ referralJob' = [referralJob EXCEPT ![s] = n] /\ UNCHANGED payout
        /\ payoutOp' = [i \in DOMAIN payoutOp |-> IF payoutOp[i] = "pending" THEN "success" ELSE payoutOp[i]]
    BY <1>5, <2>1 DEF ProcessReferralPayout, Begin, dbTables
  <2>3. payoutOp' \in Seq(U) /\ Len(payoutOp') = Len(payout)
        /\ \A i \in 1 .. Len(payout) : payoutOp'[i] = IF payoutOp[i] = "pending" THEN "success" ELSE payoutOp[i]
    BY <1>1, <1>2, <2>2
  <2>4. LedgerOK'
    BY <1>0, <1>1, <2>2, <2>3 DEF LedgerOK
  <2>5. \A i \in j.ids : payoutOp'[i] = "success"
    BY <2>0, <2>3
  <2>6. MakesPayouts(n)'
    BY <2>0, <2>1, <2>2, <2>5 DEF MakesPayouts
  <2>7. Len(payout) <= Len(payout') /\ Len(payout') \in Nat
    BY <1>2, <2>2
  <2>8. \A k \in 1 .. Len(payout) :
           /\ payoutOp[k] = "success" => payoutOp'[k] = "success"
           /\ payoutOp[k] = "pending" => payoutOp'[k] \in {"pending", "success"}
    BY <2>3
  <2> QED
    BY <1>2, <2>2, <2>4, <2>6, <2>7, <2>8, JobsFollow
<1>6. CASE setToProcessed(s)
  <2>0. \A i \in j.ids : i \in 1 .. Len(payout) /\ payoutOp[i] = "success"
    BY <1>0, <1>6 DEF setToProcessed, AtJob, MakesPayouts
  <2>1. /\ referralJob' = [referralJob EXCEPT ![s] = Resting] /\ UNCHANGED payoutOp
        /\ payout' = [i \in DOMAIN payout |-> IF i \in j.ids THEN [payout[i] EXCEPT !.processed = TRUE] ELSE payout[i]]
    BY <1>6 DEF setToProcessed, Rest, MarkedIds
  <2>2. ASSUME NEW i \in 1 .. Len(payout)
        PROVE  /\ payout'[i] = [profile |-> payout'[i].profile, amount |-> payout'[i].amount,
                                processed |-> payout'[i].processed, why |-> payout'[i].why]
               /\ payout'[i].processed => payoutOp'[i] = "success"
               /\ payout'[i].why = payout[i].why /\ payout'[i].profile = payout[i].profile
    <3>1. PICK p : p = payout[i]
      OBVIOUS
    <3>2. p = [profile |-> p.profile, amount |-> p.amount, processed |-> p.processed, why |-> p.why]
          /\ (p.processed => payoutOp[i] = "success")
      BY <1>0, <3>1 DEF LedgerOK
    <3>3. PICK q : q = [p EXCEPT !.processed = TRUE]
      OBVIOUS
    <3>4. q = [profile |-> q.profile, amount |-> q.amount, processed |-> q.processed, why |-> q.why]
          /\ q.why = p.why /\ q.profile = p.profile
      BY <3>2, <3>3
    <3>5. payout'[i] = IF i \in j.ids THEN q ELSE p
      BY <1>2, <2>1, <3>1, <3>3
    <3> QED
      BY <2>0, <2>1, <3>1, <3>2, <3>4, <3>5
  <2>3. \E V : payout' \in Seq(V) /\ Len(payout') = Len(payout)
    <3>1. DOMAIN payout' = 1 .. Len(payout)
      BY <1>2, <2>1
    <3>2. PICK V : V = {payout'[i] : i \in 1 .. Len(payout)}
      OBVIOUS
    <3>3. payout' \in [1 .. Len(payout) -> V]
      BY <1>2, <2>1, <3>2
    <3>4. PICK p : p = payout'
      OBVIOUS
    <3>5. p \in [1 .. Len(payout) -> V] /\ Len(payout) \in Nat
      BY <1>2, <3>3, <3>4
    <3>6. p \in Seq(V) /\ Len(p) = Len(payout)
      BY <3>5
    <3> QED
      BY <3>4, <3>6
  <2>4. LedgerOK'
    BY <1>0, <1>2, <2>1, <2>2, <2>3 DEF LedgerOK
  <2>5. Len(payout) <= Len(payout') /\ Len(payout') \in Nat
    BY <1>2, <2>3
  <2>6. PICK n : n = Resting
    OBVIOUS
  <2>7. MakesPayouts(n)' /\ referralJob' = [referralJob EXCEPT ![s] = n]
    BY <2>1, <2>6, RestingMakes
  <2>8. \A k \in 1 .. Len(payout) :
           /\ payoutOp[k] = "success" => payoutOp'[k] = "success"
           /\ payoutOp[k] = "pending" => payoutOp'[k] \in {"pending", "success"}
    BY <2>1
  <2> QED
    BY <1>2, <2>4, <2>5, <2>7, <2>8, JobsFollow
<1> QED
  BY <1>3, <1>4, <1>5, <1>6

LEMMA PaidSame ==
    ASSUME PaidInv, UNCHANGED <<payout, payoutOp, referralJob>>
    PROVE  PaidInv'
<1>1. LedgerOK'
  BY LedgerSame DEF PaidInv
<1>2. ASSUME NEW s \in ReferralServices PROVE MakesPayouts(referralJob[s])'
  <2>1. MakesPayouts(referralJob[s])
    BY DEF PaidInv
  <2> QED
    BY <2>1 DEF MakesPayouts
<1> QED
  BY <1>1, <1>2 DEF PaidInv

LEMMA PaidStep ==
    ASSUME PaidInv, [ReferralNext]_referralVars
    PROVE  PaidInv'
<1>1. CASE UNCHANGED referralVars \/ Trade \/ CopyFills \/ \E r \in Referrers, t \in Traders : CreateReferralLink(t, r)
  BY <1>1, PaidSame DEF referralVars, dbTables, Trade, CopyFills, CreateReferralLink
<1>2. CASE \E s \in ReferralServices : calculateVolumes(s) \/ getReferralFills(s) \/ Rollback(s)
  <2>1. PICK s \in ReferralServices : calculateVolumes(s) \/ getReferralFills(s) \/ Rollback(s)
    BY <1>2
  <2>2. UNCHANGED <<payout, payoutOp>>
    BY <2>1 DEF calculateVolumes, getReferralFills, Rollback, dbTables
  <2>3. CASE calculateVolumes(s)
    <3>1. PICK w, a, e, j : Begin(s, j) /\ j = [job |-> "volumes", window |-> w, added |-> a, existing |-> e]
      BY <2>3 DEF calculateVolumes
    <3> QED
      BY <2>2, <3>1, OtherJobs, PaidWhileResting
  <2>4. CASE getReferralFills(s)
    <3>1. PICK w, f, t, j : Begin(s, j) /\ j = [job |-> "payouts", window |-> w, fees |-> f, trades |-> t]
      BY <2>4 DEF getReferralFills
    <3> QED
      BY <2>2, <3>1, OtherJobs, PaidWhileResting
  <2>5. CASE Rollback(s)
    BY <2>2, <2>5, RestingMakes, PaidWhileResting DEF Rollback, Rest, Begin
  <2> QED
    BY <2>1, <2>3, <2>4, <2>5
<1>3. CASE \E s \in ReferralServices : getUnProcessedPayouts(s) \/ ReferralStep(s)
  BY <1>3, PaidWhileGrowing, PaidWhileProcessing DEF ReferralStep
<1> QED
  BY <1>1, <1>2, <1>3 DEF ReferralNext

(* A payout that is marked processed is in the balance, whatever order     *)
(* services, failures and restarts come in (processPayouts).               *)
THEOREM MarkedIsPaid == ReferralSpec => []ProcessedIsPaid
<1>1. ReferralInit => PaidInv
  BY PaidInitHolds
<1>2. PaidInv /\ [ReferralNext]_referralVars => PaidInv'
  BY PaidStep
<1>3. PaidInv => ProcessedIsPaid
  <2> SUFFICES ASSUME PaidInv, NEW i \in DOMAIN payout, payout[i].processed PROVE payoutOp[i] = "success"
    BY DEF ProcessedIsPaid
  <2>1. i \in 1 .. Len(payout)
    BY DEF PaidInv, LedgerOK
  <2> QED
    BY <2>1 DEF PaidInv, LedgerOK
<1> QED
  BY <1>1, <1>2, <1>3, PTL DEF ReferralSpec

-------------------------------------------------------------------------------
(* Windows of fills.                                                       *)

(* The table has a last window; trades and links stay.                     *)
TradesOK ==
    /\ tradeLog \in Seq(TradeKinds) /\ Len(tradeLog) <= MaxTrades /\ copied \in Nat
    /\ referredBy = [t \in Traders |-> referredBy[t]]
    /\ Lasts \subseteq Nat /\ \E x \in Lasts : \A y \in Lasts : y <= x

(* The window of a job goes from its first trade to its last.              *)
Spans(j) ==
    /\ j.window.table = "fills" /\ j.trades \subseteq Nat \ {0}
    /\ \E a, b \in j.trades :
          /\ j.window.first \in FillsOf(a) /\ j.window.last \in FillsOf(b)
          /\ a = b => j.window.first # j.window.last
          /\ \A t \in j.trades : a <= t /\ t <= b

Storing(j) == j.job = "payouts" /\ Storable(j.window)

(* A job that can still store its window has read what is new, and no two  *)
(* of them can.                                                            *)
SharingOK ==
    /\ \A s \in ReferralServices :
          /\ referralJob[s].job = "payouts" => Spans(referralJob[s])
          /\ referralJob[s].job = "volumes" => referralJob[s].window.table = "volumes"
    /\ \A s \in ReferralServices : Storing(referralJob[s]) => referralJob[s].trades \subseteq NewTrades
    /\ \A s, x \in ReferralServices : Storing(referralJob[s]) /\ Storing(referralJob[x]) =>
          \/ referralJob[s].trades \subseteq referralJob[x].trades
          \/ referralJob[x].trades \subseteq referralJob[s].trades

FeesOf(p) == OfFees(p.why)

SharedOK ==
    /\ \A i \in 1 .. Len(payout) : FeesOf(payout[i]) =>
          \A t \in payout[i].why.trades : t \in Nat /\ t <= TradeOf(From("fills"))
    /\ \A i, k \in 1 .. Len(payout) :
          FeesOf(payout[i]) /\ FeesOf(payout[k]) /\ i # k /\ payout[i].profile = payout[k].profile =>
             payout[i].why.trades \cap payout[k].why.trades = {}

FeesInv == PaidInv /\ TradesOK /\ SharingOK /\ SharedOK

LEMMA TradesOfFills ==
    /\ \A t \in Nat : FillsOf(t) \subseteq Int /\ \A f \in FillsOf(t) : f <= 2 * t /\ 2 * t - 1 <= f /\ TradeOf(f) = t
    /\ TradeOf(0) = 0
    /\ \A f \in Nat : TradeOf(f) \in Nat /\ f <= 2 * TradeOf(f) /\ 2 * TradeOf(f) <= f + 1
    /\ \A f, g \in Nat : f <= g => TradeOf(f) <= TradeOf(g)
BY DEF FillsOf, TradeOf

LEMMA LastWindow ==
    ASSUME TradesOK
    PROVE  From("fills") \in Lasts /\ (\A y \in Lasts : y <= From("fills")) /\ From("fills") \in Nat
<1>1. From("fills") = Max(Lasts)
  BY DEF From, Lasts
<1>2. \E x \in Lasts : \A y \in Lasts : x >= y
  BY DEF TradesOK
<1> HIDE DEF Lasts
<1> QED
  BY <1>1, <1>2 DEF Max, TradesOK

(* What is new lies behind the last window.                                *)
LEMMA NewIsBehind ==
    ASSUME TradesOK, NEW t \in NewTrades
    PROVE  t \in Nat \ {0} /\ TradeOf(From("fills")) < t
<1>1. From("fills") \in Nat /\ t \in Nat \ {0}
  BY LastWindow DEF NewTrades, TradesOK
<1>2. PICK f \in FillsOf(t) : From("fills") < f
  BY DEF NewTrades
<1>3. From("fills") = 0 \/ t # TradeOf(From("fills"))
  BY DEF NewTrades
<1>4. PICK last, u : last = From("fills") /\ u = TradeOf(last)
  OBVIOUS
<1>5. u \in Nat /\ 2 * u <= last + 1 /\ (last = 0 => u = 0)
  BY <1>1, <1>4, TradesOfFills
<1>6. f \in Int /\ f <= 2 * t
  BY <1>1, TradesOfFills
<1>7. last \in Nat /\ last < f /\ (last = 0 \/ t # u)
  BY <1>1, <1>2, <1>3, <1>4
<1>8. u < t
  BY <1>1, <1>5, <1>6, <1>7
<1> QED
  BY <1>1, <1>4, <1>8

(* New trades stay new, and more come, while no window is stored.          *)
LEMMA NewStaysNew ==
    ASSUME TradesOK, UNCHANGED tradeLog, copied' \in Nat, copied <= copied',
           From("fills")' = From("fills"), \A f : Invited(f) => Invited(f)'
    PROVE  NewTrades \subseteq NewTrades'
<1>1. From("fills")' = From("fills")
  OBVIOUS
<1>2. \A t \in Nat : \A f \in FillsOf(t) : f \in Int
  BY TradesOfFills
<1>3. \A f \in Int : f <= copied => f <= copied'
  BY DEF TradesOK
<1> HIDE DEF From, Invited, FillsOf
<1> SUFFICES ASSUME NEW t \in NewTrades PROVE t \in NewTrades'
  OBVIOUS
<1>4. t \in 1 .. Len(tradeLog) /\ t \in Nat
  BY DEF NewTrades, TradesOK
<1>5. PICK f \in FillsOf(t) : Invited(f) /\ From("fills") < f /\ f <= copied
  BY DEF NewTrades
<1>6. f <= copied' /\ Invited(f)'
  BY <1>2, <1>3, <1>4, <1>5
<1> QED
  BY <1>1, <1>4, <1>5, <1>6 DEF NewTrades

LEMMA TradeStaysNew ==
    ASSUME TradesOK, Trade
    PROVE  NewTrades \subseteq NewTrades'
<1>1. From("fills")' = From("fills") /\ UNCHANGED <<copied, referredBy>>
  BY DEF From, Trade, dbTables
<1>2. PICK k \in TradeKinds : tradeLog' = Append(tradeLog, k)
  BY DEF Trade
<1>3. Len(tradeLog') = Len(tradeLog) + 1 /\ Len(tradeLog) \in Nat
      /\ \A t \in 1 .. Len(tradeLog) : tradeLog'[t] = tradeLog[t]
  BY <1>2 DEF TradesOK
<1> HIDE DEF From, FillsOf
<1> SUFFICES ASSUME NEW t \in NewTrades PROVE t \in NewTrades'
  OBVIOUS
<1>4. t \in 1 .. Len(tradeLog) /\ t \in Nat /\ t \in 1 .. Len(tradeLog')
  BY <1>3 DEF NewTrades
<1>5. PICK f \in FillsOf(t) : Invited(f) /\ From("fills") < f /\ f <= copied
  BY DEF NewTrades
<1>6. TradeOf(f) = t
  BY <1>4, TradesOfFills
<1>7. Fill(f)' = Fill(f)
  BY <1>3, <1>4, <1>6 DEF Fill
<1>8. Invited(f)'
  BY <1>1, <1>5, <1>7 DEF Invited
<1> QED
  BY <1>1, <1>4, <1>5, <1>8 DEF NewTrades

(* Windows that overlap nothing now overlapped nothing before.             *)
LEMMA StorableBefore ==
    ASSUME NEW w, windows \subseteq windows', Storable(w)'
    PROVE  Storable(w)
BY DEF Storable, Overlaps

(* The windows of two jobs overlap when one has read what the other has.   *)
LEMMA NestedOverlap ==
    ASSUME NEW j, NEW k, Spans(j), Spans(k), j.trades \subseteq k.trades,
           j.window.first <= j.window.last, k.window.first <= k.window.last
    PROVE  j.window.first <= k.window.last /\ k.window.first <= j.window.last
<1>1. PICK a, b \in j.trades :
         /\ j.window.first \in FillsOf(a) /\ j.window.last \in FillsOf(b)
         /\ a = b => j.window.first # j.window.last
         /\ \A t \in j.trades : a <= t /\ t <= b
  BY DEF Spans
<1>2. PICK c, d \in k.trades :
         /\ k.window.first \in FillsOf(c) /\ k.window.last \in FillsOf(d)
         /\ c = d => k.window.first # k.window.last
         /\ \A t \in k.trades : c <= t /\ t <= d
  BY DEF Spans
<1>3. a \in Nat /\ b \in Nat /\ c \in Nat /\ d \in Nat /\ c <= a /\ a <= b /\ b <= d
  BY <1>1, <1>2 DEF Spans
<1>4. PICK f, l, g, m \in Int : f = j.window.first /\ l = j.window.last /\ g = k.window.first /\ m = k.window.last
  BY <1>1, <1>2, <1>3, TradesOfFills
<1>5. /\ 2 * a - 1 <= f /\ f <= 2 * a /\ 2 * b - 1 <= l /\ l <= 2 * b
      /\ 2 * c - 1 <= g /\ g <= 2 * c /\ 2 * d - 1 <= m /\ m <= 2 * d
  BY <1>1, <1>2, <1>3, <1>4, TradesOfFills
<1>6. f <= l /\ g <= m /\ (a = b => f # l) /\ (c = d => g # m)
  BY <1>1, <1>2, <1>4
<1>7. f <= m /\ g <= l
  BY <1>3, <1>5, <1>6
<1> QED
  BY <1>4, <1>7

LEMMA FeesInitHolds == ReferralInit => FeesInv
<1> SUFFICES ASSUME ReferralInit PROVE FeesInv
  OBVIOUS
<1>1. PaidInv
  BY PaidInitHolds
<1>2. windows = {} /\ tradeLog = <<>> /\ copied = 0 /\ payout = <<>>
      /\ referredBy = [t \in Traders |-> NoReferrer]
      /\ referralJob = [s \in ReferralServices |-> Resting]
  BY DEF ReferralInit
<1>3. Lasts = {0}
  BY <1>2 DEF Lasts
<1>4. TradesOK
  BY <1>2, <1>3, ReferralsAssumption DEF TradesOK
<1>5. \A s \in ReferralServices : referralJob[s].job = "rest"
  BY <1>2 DEF Resting
<1>6. SharingOK
  BY <1>5 DEF SharingOK, Storing
<1>7. SharedOK
  BY <1>2 DEF SharedOK
<1> QED
  BY <1>1, <1>4, <1>6, <1>7 DEF FeesInv

LEMMA LastsKept ==
    ASSUME \A w : w.table = "fills" => (w \in windows' <=> w \in windows)
    PROVE  Lasts' = Lasts /\ From("fills")' = From("fills")
<1>1. Lasts' = Lasts
  BY DEF Lasts
<1>2. From("fills") = Max(Lasts) /\ From("fills")' = Max(Lasts')
  BY DEF From, Lasts
<1> QED
  BY <1>1, <1>2

(* A step that stores no window of fills and reads no fills.               *)
LEMMA JobsStillShare ==
    ASSUME SharingOK, windows \subseteq windows', NewTrades \subseteq NewTrades',
           \A s \in ReferralServices :
              \/ referralJob'[s] = referralJob[s]
              \/ referralJob'[s].job \notin {"payouts", "volumes"}
              \/ referralJob'[s].job = "volumes" /\ referralJob'[s].window.table = "volumes"
    PROVE  SharingOK'
<1>1. \A s \in ReferralServices : referralJob'[s].job = "payouts" => referralJob'[s] = referralJob[s]
  OBVIOUS
<1>2. ASSUME NEW s \in ReferralServices, Storing(referralJob[s])'
      PROVE  Storing(referralJob[s]) /\ referralJob'[s] = referralJob[s]
  <2>1. referralJob'[s] = referralJob[s] /\ referralJob[s].job = "payouts"
    BY <1>1, <1>2 DEF Storing
  <2>2. Storable(referralJob[s].window)'
    BY <1>2 DEF Storing
  <2>3. PICK w : w = referralJob[s].window
    OBVIOUS
  <2>4. Storable(w)'
    BY <2>1, <2>2, <2>3 DEF Storable, Overlaps
  <2> QED
    BY <2>1, <2>3, <2>4, StorableBefore DEF Storing
<1>3. \A s \in ReferralServices :
         /\ referralJob'[s].job = "payouts" => Spans(referralJob[s])'
         /\ referralJob'[s].job = "volumes" => referralJob'[s].window.table = "volumes"
  BY <1>1 DEF SharingOK, Spans
<1>4. \A s \in ReferralServices : Storing(referralJob[s])' => referralJob'[s].trades \subseteq NewTrades'
  BY <1>2 DEF SharingOK
<1>5. \A s, x \in ReferralServices : Storing(referralJob[s])' /\ Storing(referralJob[x])' =>
          \/ referralJob'[s].trades \subseteq referralJob'[x].trades
          \/ referralJob'[x].trades \subseteq referralJob'[s].trades
  BY <1>2 DEF SharingOK
<1> QED
  BY <1>3, <1>4, <1>5 DEF SharingOK

(* A step that adds no share of fees.                                      *)
LEMMA RowsStillShare ==
    ASSUME SharedOK, From("fills")' = From("fills"),
           \A i \in 1 .. Len(payout') : FeesOf(payout'[i]) =>
              /\ i \in 1 .. Len(payout)
              /\ payout'[i].why = payout[i].why /\ payout'[i].profile = payout[i].profile
    PROVE  SharedOK'
<1>1. \A i \in 1 .. Len(payout') : FeesOf(payout'[i]) => FeesOf(payout[i])
  BY DEF FeesOf
<1>2. \A i \in 1 .. Len(payout') : FeesOf(payout'[i]) =>
         \A t \in payout'[i].why.trades : t \in Nat /\ t <= TradeOf(From("fills"))
  BY <1>1 DEF SharedOK
<1>3. ASSUME NEW i \in 1 .. Len(payout'), NEW k \in 1 .. Len(payout'),
             FeesOf(payout'[i]), FeesOf(payout'[k]), i # k, payout'[i].profile = payout'[k].profile
      PROVE  payout'[i].why.trades \cap payout'[k].why.trades = {}
  <2>1. FeesOf(payout[i]) /\ FeesOf(payout[k]) /\ i \in 1 .. Len(payout) /\ k \in 1 .. Len(payout)
    BY <1>1, <1>3
  <2>2. payout[i].profile = payout[k].profile
    BY <1>3
  <2>3. payout[i].why.trades \cap payout[k].why.trades = {}
    BY <1>3, <2>1, <2>2 DEF SharedOK
  <2> QED
    BY <1>3, <2>3
<1> QED
  BY <1>2, <1>3 DEF SharedOK, FeesOf, OfFees, TradeOf


LEMMA TradesChange ==
    ASSUME FeesInv, Trade
    PROVE  FeesInv'
<1>0. PaidInv /\ TradesOK /\ SharingOK /\ SharedOK
  BY DEF FeesInv
<1>1. UNCHANGED <<copied, referredBy, windows, payout, payoutOp, referralJob>>
  BY DEF Trade, dbTables
<1>2. Lasts' = Lasts /\ From("fills")' = From("fills")
  BY <1>1, LastsKept
<1>3. PaidInv'
  BY <1>0, <1>1, PaidSame
<1>4. PICK k \in TradeKinds : tradeLog' = Append(tradeLog, k) /\ Len(tradeLog) < MaxTrades
  BY DEF Trade
<1>5. tradeLog' \in Seq(TradeKinds) /\ Len(tradeLog') <= MaxTrades
  BY <1>0, <1>4, ReferralsAssumption DEF TradesOK
<1>6. TradesOK'
  BY <1>0, <1>1, <1>2, <1>5 DEF TradesOK
<1>7. SharingOK'
  BY <1>0, <1>1, TradeStaysNew, JobsStillShare
<1>8. SharedOK'
  BY <1>0, <1>1, <1>2, RowsStillShare
<1> QED
  BY <1>3, <1>6, <1>7, <1>8 DEF FeesInv

LEMMA FillsOrLinksCome ==
    ASSUME FeesInv, CopyFills \/ \E r \in Referrers, t \in Traders : CreateReferralLink(t, r)
    PROVE  FeesInv'
<1>0. PaidInv /\ TradesOK /\ SharingOK /\ SharedOK
  BY DEF FeesInv
<1>1. UNCHANGED <<tradeLog, windows, payout, payoutOp, referralJob>>
  BY DEF CopyFills, CreateReferralLink, dbTables
<1>2. Lasts' = Lasts /\ From("fills")' = From("fills")
  BY <1>1, LastsKept
<1>3. PaidInv'
  BY <1>0, <1>1, PaidSame
<1>4. copied' \in Nat /\ copied <= copied' /\ referredBy' = [t \in Traders |-> referredBy'[t]]
      /\ \A t \in Traders : referredBy[t] # NoReferrer => referredBy'[t] = referredBy[t]
  <2>1. CASE CopyFills
    <3>1. PICK n \in copied + 1 .. 2 * Len(tradeLog) : copied' = n
      BY <2>1 DEF CopyFills
    <3>2. Len(tradeLog) \in Nat /\ copied \in Nat
      BY <1>0 DEF TradesOK
    <3>3. UNCHANGED referredBy
      BY <2>1 DEF CopyFills, dbTables
    <3> QED
      BY <1>0, <3>1, <3>2, <3>3 DEF TradesOK
  <2>2. CASE \E r \in Referrers, t \in Traders : CreateReferralLink(t, r)
    <3>1. PICK r \in Referrers, u \in Traders : CreateReferralLink(u, r)
      BY <2>2
    <3>2. UNCHANGED copied /\ referredBy[u] = NoReferrer /\ referredBy' = [referredBy EXCEPT ![u] = r]
      BY <3>1 DEF CreateReferralLink
    <3> QED
      BY <1>0, <3>2 DEF TradesOK
  <2> QED
    BY <2>1, <2>2
<1>5. TradesOK'
  BY <1>0, <1>1, <1>2, <1>4 DEF TradesOK
<1>6. \A f : Invited(f) => Invited(f)'
  BY <1>1, <1>4 DEF Invited, Fill
<1>7. NewTrades \subseteq NewTrades'
  BY <1>0, <1>1, <1>2, <1>4, <1>6, NewStaysNew
<1>8. SharingOK'
  BY <1>0, <1>1, <1>7, JobsStillShare
<1>9. SharedOK'
  BY <1>0, <1>1, <1>2, RowsStillShare
<1> QED
  BY <1>3, <1>5, <1>8, <1>9 DEF FeesInv

(* The steps of a job that stores no window of fills.                      *)
LEMMA JobStepShares ==
    ASSUME FeesInv, PaidInv', NEW s \in ReferralServices,
           NEW j, referralJob' = [referralJob EXCEPT ![s] = j],
           \/ j.job \notin {"payouts", "volumes"}
           \/ j.job = "volumes" /\ j.window.table = "volumes",
           UNCHANGED <<tradeLog, copied, referredBy>>, windows \subseteq windows',
           \A w : w.table = "fills" => (w \in windows' <=> w \in windows),
           \A i \in 1 .. Len(payout') : FeesOf(payout'[i]) =>
              /\ i \in 1 .. Len(payout)
              /\ payout'[i].why = payout[i].why /\ payout'[i].profile = payout[i].profile
    PROVE  FeesInv'
<1>0. PaidInv /\ TradesOK /\ SharingOK /\ SharedOK
  BY DEF FeesInv
<1>1. Lasts' = Lasts /\ From("fills")' = From("fills")
  BY LastsKept
<1>2. TradesOK'
  BY <1>0, <1>1 DEF TradesOK
<1>3. \A f : Invited(f) => Invited(f)'
  BY DEF Invited, Fill
<1>4. copied' \in Nat /\ copied <= copied'
  BY <1>0 DEF TradesOK
<1>5. NewTrades \subseteq NewTrades'
  BY <1>0, <1>1, <1>3, <1>4, NewStaysNew
<1>6. \A x \in ReferralServices : IF x = s THEN referralJob'[x] = j ELSE referralJob'[x] = referralJob[x]
  BY <1>0 DEF PaidInv
<1>7. SharingOK'
  BY <1>0, <1>5, <1>6, JobsStillShare
<1>8. SharedOK'
  BY <1>0, <1>1, RowsStillShare
<1> QED
  BY <1>2, <1>7, <1>8 DEF FeesInv

LEMMA OtherJobsShare ==
    ASSUME FeesInv, PaidInv', NEW s \in ReferralServices,
           \/ calculateVolumes(s) \/ getUnProcessedPayouts(s) \/ Rollback(s)
           \/ CreateReferralPayout(s) \/ ProcessReferralPayout(s)
    PROVE  FeesInv'
<1>1. UNCHANGED <<tradeLog, copied, referredBy, windows, payout>>
  BY DEF calculateVolumes, getUnProcessedPayouts, Rollback, CreateReferralPayout, ProcessReferralPayout, dbTables
<1>2. \E j : /\ referralJob' = [referralJob EXCEPT ![s] = j]
             /\ \/ j.job \notin {"payouts", "volumes"}
                \/ j.job = "volumes" /\ j.window.table = "volumes"
  <2>1. CASE calculateVolumes(s)
    <3>1. PICK j, w, a, e, f, l : /\ Begin(s, j) /\ w = [table |-> "volumes", first |-> f, last |-> l]
                                  /\ j = [job |-> "volumes", window |-> w, added |-> a, existing |-> e]
      BY <2>1 DEF calculateVolumes
    <3>2. j.job = "volumes" /\ j.window.table = "volumes"
      BY <3>1
    <3> QED
      BY <3>1, <3>2 DEF Begin
  <2>2. CASE getUnProcessedPayouts(s)
    <3>1. PICK j, a, b : Begin(s, j) /\ j = [job |-> "create", ids |-> a, left |-> b]
      BY <2>2 DEF getUnProcessedPayouts
    <3>2. j.job = "create"
      BY <3>1
    <3> QED
      BY <3>1, <3>2 DEF Begin
  <2>3. CASE Rollback(s)
    <3>1. PICK j : j = Resting /\ j = [job |-> "rest"]
      BY DEF Resting
    <3>2. j.job = "rest" /\ j.job \notin {"payouts", "volumes"}
      BY <3>1
    <3>3. Begin(s, j)
      BY <2>3, <3>1 DEF Rollback, Rest, Begin
    <3> QED
      BY <3>2, <3>3 DEF Begin
  <2>4. CASE CreateReferralPayout(s)
    <3>0. referralJob[s].job = "create" /\ MakesPayouts(referralJob[s])
      BY <2>4 DEF CreateReferralPayout, AtJob, FeesInv, PaidInv
    <3>1. PICK j, a, b : j = referralJob[s] /\ j = [job |-> "create", ids |-> a, left |-> b]
      BY <3>0 DEF MakesPayouts
    <3>2. PICK i, n : Begin(s, n) /\ n = [j EXCEPT !.left = j.left \ {i}]
      BY <2>4, <3>1 DEF CreateReferralPayout, Tolerated
    <3>3. n = [job |-> "create", ids |-> a, left |-> b \ {i}]
      BY <3>1, <3>2
    <3>4. n.job = "create"
      BY <3>3
    <3> QED
      BY <3>2, <3>4 DEF Begin
  <2>5. CASE ProcessReferralPayout(s)
    <3>1. PICK j, a : Begin(s, j) /\ j = [job |-> "processed", ids |-> a]
      BY <2>5 DEF ProcessReferralPayout
    <3>2. j.job = "processed"
      BY <3>1
    <3> QED
      BY <3>1, <3>2 DEF Begin
  <2> QED
    BY <2>1, <2>2, <2>3, <2>4, <2>5
<1> QED
  BY <1>1, <1>2, JobStepShares

LEMMA MarkingShares ==
    ASSUME FeesInv, PaidInv', NEW s \in ReferralServices, setToProcessed(s)
    PROVE  FeesInv'
<1>1. UNCHANGED <<tradeLog, copied, referredBy, windows>>
  BY DEF setToProcessed
<1>2. referralJob' = [referralJob EXCEPT ![s] = Resting] /\ Resting.job \notin {"payouts", "volumes"}
  BY DEF setToProcessed, Rest, Resting
<1>3. /\ payout' = [i \in DOMAIN payout |-> IF i \in referralJob[s].ids THEN [payout[i] EXCEPT !.processed = TRUE]
                                            ELSE payout[i]]
      /\ DOMAIN payout = 1 .. Len(payout) /\ DOMAIN payout' = 1 .. Len(payout')
  BY DEF setToProcessed, MarkedIds, FeesInv, PaidInv, LedgerOK
<1>4. ASSUME NEW i \in 1 .. Len(payout')
      PROVE  /\ i \in 1 .. Len(payout)
             /\ payout'[i].why = payout[i].why /\ payout'[i].profile = payout[i].profile
  <2>1. i \in 1 .. Len(payout)
    BY <1>3
  <2>2. PICK p, a, b, c, d : p = payout[i] /\ p = [profile |-> a, amount |-> b, processed |-> c, why |-> d]
    BY <2>1 DEF FeesInv, PaidInv, LedgerOK
  <2>3. PICK q : q = [p EXCEPT !.processed = TRUE]
    OBVIOUS
  <2>4. p.why = d /\ p.profile = a
    BY <2>2
  <2>5. q.why = p.why /\ q.profile = p.profile
    <3>1. q = [[profile |-> a, amount |-> b, processed |-> c, why |-> d] EXCEPT !.processed = TRUE]
      BY <2>2, <2>3
    <3> QED
      BY <2>4, <3>1
  <2>6. payout'[i] = q \/ payout'[i] = p
    BY <1>3, <2>1, <2>2, <2>3
  <2> QED
    BY <2>1, <2>2, <2>5, <2>6
<1> QED
  BY <1>1, <1>2, <1>4, JobStepShares

LEMMA VolumesShare ==
    ASSUME FeesInv, PaidInv', NEW s \in ReferralServices, doVolumes(s)
    PROVE  FeesInv'
<1>0. PaidInv /\ SharingOK
  BY DEF FeesInv
<1>1. UNCHANGED <<tradeLog, copied, referredBy>> /\ referralJob[s].job = "volumes"
  BY DEF doVolumes, AtJob
<1>2. referralJob' = [referralJob EXCEPT ![s] = Resting] /\ Resting.job \notin {"payouts", "volumes"}
  BY DEF doVolumes, Rest, Resting
<1>3. PICK w : w = referralJob[s].window /\ w.table = "volumes"
  BY <1>0, <1>1 DEF SharingOK
<1>4. windows' = windows \/ windows' = windows \cup {w}
  BY <1>3 DEF doVolumes, Stored
<1>5. windows \subseteq windows' /\ \A v : v.table = "fills" => (v \in windows' <=> v \in windows)
  BY <1>3, <1>4
<1>6. PICK R : Grew(R) /\ \A x \in R : \E l : x.why = [level |-> l]
  BY <1>0, VolumesGrow DEF PaidInv
<1>7. ASSUME NEW x \in R PROVE ~FeesOf(x)
  <2>1. PICK l : x.why = [level |-> l]
    BY <1>6
  <2>2. DOMAIN [level |-> l] = {"level"}
    OBVIOUS
  <2> QED
    BY <2>1, <2>2 DEF FeesOf, OfFees
<1>8. \A i \in 1 .. Len(payout') : FeesOf(payout'[i]) =>
         /\ i \in 1 .. Len(payout)
         /\ payout'[i].why = payout[i].why /\ payout'[i].profile = payout[i].profile
  BY <1>6, <1>7 DEF Grew
<1> QED
  BY <1>1, <1>2, <1>5, <1>8, JobStepShares


(* The first and the last row of the query are those of the archive.       *)
LEMMA QuerySpans ==
    ASSUME QueriesInOrder, TradesOK, NEW a \in NewTrades, NEW b \in NewTrades,
           \A t \in NewTrades : QueryRank[a] <= QueryRank[t] /\ QueryRank[t] <= QueryRank[b]
    PROVE  \A t \in NewTrades : a <= t /\ t <= b
<1>1. NewTrades \subseteq 1 .. MaxTrades /\ MaxTrades \in Nat
  BY ReferralsAssumption DEF NewTrades, TradesOK
<1>2. \A t \in 1 .. MaxTrades : QueryRank[t] \in Nat
  BY ReferralsAssumption
<1> SUFFICES ASSUME NEW t \in NewTrades PROVE a <= t /\ t <= b
  OBVIOUS
<1>3. a \in 1 .. MaxTrades /\ b \in 1 .. MaxTrades /\ t \in 1 .. MaxTrades
  BY <1>1
<1>4. PICK p, q, r \in Nat : p = QueryRank[a] /\ q = QueryRank[t] /\ r = QueryRank[b]
  BY <1>2, <1>3
<1>5. p <= q /\ q <= r
  BY <1>4
<1>6. ~(t < a)
  BY <1>3, <1>4, <1>5 DEF QueriesInOrder
<1>7. ~(b < t)
  BY <1>3, <1>4, <1>5 DEF QueriesInOrder
<1> QED
  BY <1>1, <1>3, <1>6, <1>7

LEMMA ReadingShares ==
    ASSUME QueriesInOrder, FeesInv, PaidInv', NEW s \in ReferralServices, getReferralFills(s)
    PROVE  FeesInv'
<1>0. PaidInv /\ TradesOK /\ SharingOK /\ SharedOK
  BY DEF FeesInv
<1>1. UNCHANGED <<tradeLog, copied, referredBy, windows, payout>>
  BY DEF getReferralFills, dbTables
<1>2. PICK a, b \in NewTrades :
         /\ \A t \in NewTrades : QueryRank[a] <= QueryRank[t] /\ QueryRank[t] <= QueryRank[b]
         /\ \E f \in FillsOf(a), l \in FillsOf(b) : \E fees :
               /\ a = b => f # l
               /\ Begin(s, [job |-> "payouts", window |-> [table |-> "fills", first |-> f, last |-> l],
                            fees |-> fees, trades |-> NewTrades])
  BY DEF getReferralFills
<1>3. PICK f \in FillsOf(a), l \in FillsOf(b) : \E fees :
         /\ a = b => f # l
         /\ Begin(s, [job |-> "payouts", window |-> [table |-> "fills", first |-> f, last |-> l],
                      fees |-> fees, trades |-> NewTrades])
  BY <1>2
<1>4. PICK j, w, N, fees :
                     /\ N = NewTrades /\ w = [table |-> "fills", first |-> f, last |-> l]
                     /\ j = [job |-> "payouts", window |-> w, fees |-> fees, trades |-> N]
                     /\ Begin(s, j)
  BY <1>3
<1>5. j.job = "payouts" /\ j.window = w /\ j.trades = N /\ w.table = "fills" /\ w.first = f /\ w.last = l
  BY <1>4
<1>6. \A t \in N : a <= t /\ t <= b
  BY <1>0, <1>2, <1>4, QuerySpans
<1>7. N \subseteq Nat \ {0}
  BY <1>0, <1>4, NewIsBehind
<1>8. Spans(j)
  <2>1. a \in j.trades /\ b \in j.trades
    BY <1>4, <1>5
  <2>2. j.window.first \in FillsOf(a) /\ j.window.last \in FillsOf(b) /\ (a = b => j.window.first # j.window.last)
    BY <1>3, <1>5
  <2> QED
    BY <1>5, <1>6, <1>7, <2>1, <2>2 DEF Spans
<1>9. \A x \in ReferralServices : IF x = s THEN referralJob'[x] = j ELSE referralJob'[x] = referralJob[x]
  BY <1>0, <1>4 DEF Begin, PaidInv
<1>10. Lasts' = Lasts /\ From("fills")' = From("fills")
  BY <1>1, LastsKept
<1>11. TradesOK'
  BY <1>0, <1>1, <1>10 DEF TradesOK
<1>12. N \subseteq NewTrades'
  <2>1. \A g : Invited(g) => Invited(g)'
    BY <1>1 DEF Invited, Fill
  <2>2. copied' \in Nat /\ copied <= copied'
    BY <1>0, <1>1 DEF TradesOK
  <2> QED
    BY <1>0, <1>1, <1>4, <1>10, <2>1, <2>2, NewStaysNew
<1>13. ASSUME NEW x \in ReferralServices, Storing(referralJob[x])'
       PROVE  x = s \/ (referralJob'[x] = referralJob[x] /\ Storing(referralJob[x]) /\ referralJob[x].trades \subseteq N)
  <2>1. CASE x # s
    <3>1. referralJob'[x] = referralJob[x]
      BY <1>9, <2>1
    <3>2. Storing(referralJob[x])
      BY <1>1, <1>13, <3>1 DEF Storing, Storable, Overlaps
    <3> QED
      BY <1>0, <1>4, <3>1, <3>2 DEF SharingOK
  <2> QED
    BY <2>1
<1>14. \A x \in ReferralServices :
         /\ referralJob'[x].job = "payouts" => Spans(referralJob[x])'
         /\ referralJob'[x].job = "volumes" => referralJob'[x].window.table = "volumes"
  BY <1>0, <1>5, <1>8, <1>9 DEF SharingOK, Spans
<1>15. \A x \in ReferralServices : Storing(referralJob[x])' => referralJob'[x].trades \subseteq NewTrades'
  BY <1>5, <1>9, <1>12, <1>13
<1>16. \A x, y \in ReferralServices : Storing(referralJob[x])' /\ Storing(referralJob[y])' =>
          \/ referralJob'[x].trades \subseteq referralJob'[y].trades
          \/ referralJob'[y].trades \subseteq referralJob'[x].trades
  <2> SUFFICES ASSUME NEW x \in ReferralServices, NEW y \in ReferralServices,
                      Storing(referralJob[x])', Storing(referralJob[y])'
               PROVE  \/ referralJob'[x].trades \subseteq referralJob'[y].trades
                      \/ referralJob'[y].trades \subseteq referralJob'[x].trades
    OBVIOUS
  <2>1. referralJob'[s].trades = N
    BY <1>5, <1>9
  <2>2. CASE x = s
    BY <1>13, <2>1, <2>2
  <2>3. CASE y = s
    BY <1>13, <2>1, <2>3
  <2>4. CASE x # s /\ y # s
    BY <1>0, <1>13, <2>4 DEF SharingOK
  <2> QED
    BY <2>2, <2>3, <2>4
<1>17. SharingOK'
  BY <1>14, <1>15, <1>16 DEF SharingOK
<1>18. SharedOK'
  BY <1>0, <1>1, <1>10, RowsStillShare
<1> QED
  BY <1>11, <1>17, <1>18 DEF FeesInv


(* A window that is stored becomes the last one.                           *)
LEMMA WindowBecomesLast ==
    ASSUME TradesOK, NEW w, w.table = "fills", w.last \in Nat, windows' = windows \cup {w}
    PROVE  /\ Lasts' = Lasts \cup {w.last} /\ Lasts' \subseteq Nat /\ \E x \in Lasts' : \A y \in Lasts' : y <= x
           /\ From("fills")' \in Nat /\ From("fills") \in Nat
           /\ From("fills") <= From("fills")' /\ w.last <= From("fills")'
<1>1. Lasts' = Lasts \cup {w.last}
  BY DEF Lasts
<1>2. Lasts \subseteq Nat
  BY DEF TradesOK
<1>3. PICK m \in Lasts : \A y \in Lasts : y <= m
  BY DEF TradesOK
<1>4. PICK L, M : L = Lasts /\ M = Lasts'
  OBVIOUS
<1>5. PICK l \in Nat : l = w.last
  OBVIOUS
<1>6. M = L \cup {l} /\ L \subseteq Nat /\ m \in L /\ (\A y \in L : y <= m) /\ m \in Nat
  BY <1>1, <1>2, <1>3, <1>4, <1>5
<1>7. PICK x \in M : \A y \in M : y <= x
  <2>1. CASE l <= m
    BY <1>6, <2>1
  <2>2. CASE ~(l <= m)
    <3>1. \A y \in M : y <= l
      BY <1>6, <2>2
    <3> QED
      BY <1>6, <3>1
  <2> QED
    BY <2>1, <2>2
<1>8. From("fills")' = Max(M)
  BY <1>4 DEF From, Lasts
<1>9. From("fills")' \in M /\ \A y \in M : y <= From("fills")'
  <2>1. \E v \in M : \A y \in M : v >= y
    BY <1>6, <1>7
  <2> QED
    BY <1>8, <2>1 DEF Max
<1>10. From("fills") \in L
  BY <1>4, LastWindow
<1> QED
  BY <1>1, <1>2, <1>4, <1>5, <1>6, <1>7, <1>9, <1>10

(* The rows of a job whose window is stored, and the windows of the others.*)
LEMMA SharesStored ==
    ASSUME FeesInv, PaidInv', NEW s \in ReferralServices, doPayouts(s), Storable(referralJob[s].window)
    PROVE  FeesInv'
<1>0. PaidInv /\ TradesOK /\ SharingOK /\ SharedOK
  BY DEF FeesInv
<1>1. UNCHANGED <<tradeLog, copied, referredBy>> /\ referralJob[s].job = "payouts"
      /\ windows' = Stored(referralJob[s].window)
      /\ referralJob' = [referralJob EXCEPT ![s] = Resting]
  BY DEF doPayouts, AtJob, Rest
<1>2. PICK j, N, w : j = referralJob[s] /\ N = j.trades /\ w = j.window
  OBVIOUS
<1>3. Spans(j) /\ Storing(j) /\ N \subseteq NewTrades
  BY <1>0, <1>1, <1>2 DEF SharingOK, Storing
<1>4. PICK b \in N : w.last \in FillsOf(b) /\ (\A t \in N : t <= b) /\ b \in Nat \ {0} /\ w.table = "fills"
  BY <1>2, <1>3 DEF Spans
<1>5. PICK l \in Int : l = w.last /\ 2 * b - 1 <= l /\ l <= 2 * b /\ TradeOf(l) = b
  BY <1>4, TradesOfFills
<1>6. w.last \in Nat /\ w.last # 0 /\ windows' = windows \cup {w}
  <2>1. l \in Nat /\ l # 0
    BY <1>4, <1>5
  <2> QED
    BY <1>1, <1>2, <1>5, <2>1 DEF Stored
<1>7. /\ Lasts' \subseteq Nat /\ \E x \in Lasts' : \A y \in Lasts' : y <= x
      /\ From("fills")' \in Nat /\ From("fills") \in Nat
      /\ From("fills") <= From("fills")' /\ w.last <= From("fills")'
  BY <1>0, <1>4, <1>6, WindowBecomesLast
<1>8. TradesOK'
  BY <1>0, <1>1, <1>7 DEF TradesOK
<1>9. \A x \in ReferralServices : IF x = s THEN referralJob'[x] = Resting ELSE referralJob'[x] = referralJob[x]
  BY <1>0, <1>1 DEF PaidInv
<1>10. w.first <= w.last
  BY <1>2, <1>3, <1>6 DEF Storing, Storable
<1>11. ASSUME NEW x \in ReferralServices, Storing(referralJob[x])'
       PROVE  FALSE
  <2>1. x # s
    BY <1>9, <1>11 DEF Storing, Resting
  <2>2. PICK k, v : k = referralJob[x] /\ v = k.window
    OBVIOUS
  <2>3. referralJob'[x] = k
    BY <1>9, <2>1, <2>2
  <2>4. k.job = "payouts" /\ Storable(v)'
    BY <1>11, <2>2, <2>3 DEF Storing, Storable, Overlaps
  <2>5. Storing(k)
    BY <1>6, <2>2, <2>4, StorableBefore DEF Storing
  <2>6. Spans(k) /\ v.table = "fills"
    BY <1>0, <2>2, <2>4 DEF SharingOK, Spans
  <2>7. N \subseteq k.trades \/ k.trades \subseteq N
    BY <1>0, <1>2, <1>3, <2>2, <2>5 DEF SharingOK
  <2>8. v.last # 0
    <3>1. PICK d \in k.trades : v.last \in FillsOf(d) /\ d \in Nat \ {0}
      BY <2>2, <2>6 DEF Spans
    <3>2. PICK m \in Int : m = v.last /\ 2 * d - 1 <= m
      BY <3>1, TradesOfFills
    <3> QED
      BY <3>1, <3>2
  <2>9. v.first <= v.last /\ ~Overlaps(v)'
    BY <2>4, <2>8 DEF Storable
  <2>10. w.first <= v.last /\ v.first <= w.last
    BY <1>2, <1>3, <1>10, <2>2, <2>6, <2>7, <2>9, NestedOverlap
  <2>11. w \in windows' /\ w.table = v.table
    BY <1>4, <1>6, <2>6
  <2> QED
    BY <2>9, <2>10, <2>11 DEF Overlaps
<1>12. \A x \in ReferralServices :
         /\ referralJob'[x].job = "payouts" => Spans(referralJob[x])'
         /\ referralJob'[x].job = "volumes" => referralJob'[x].window.table = "volumes"
  <2>1. Resting.job = "rest"
    BY DEF Resting
  <2> QED
    BY <1>0, <1>9, <2>1 DEF SharingOK, Spans
<1>13. SharingOK'
  BY <1>11, <1>12 DEF SharingOK
<1>14. PICK R : Grew(R) /\ \A x \in R : \E r, a : x = NewPayout(r, a, [trades |-> N]) /\ a = j.fees[r]
  BY <1>0, <1>2, PayoutsGrow DEF PaidInv
<1>15. PICK F, G \in Nat : F = TradeOf(From("fills")) /\ G = TradeOf(From("fills"))'
                           /\ F <= G /\ \A t \in N : t \in Nat /\ F < t /\ t <= G
  <2>1. PICK y, z \in Nat : y = From("fills") /\ z = From("fills")'
    BY <1>7
  <2>2. y <= z /\ l <= z /\ l \in Nat
    BY <1>5, <1>6, <1>7, <2>1
  <2>3. TradeOf(y) \in Nat /\ TradeOf(z) \in Nat /\ TradeOf(y) <= TradeOf(z) /\ b <= TradeOf(z)
    BY <1>5, <2>2, TradesOfFills
  <2>4. \A t \in N : t \in Nat \ {0} /\ TradeOf(y) < t
    BY <1>0, <1>3, <2>1, NewIsBehind
  <2>5. \A t \in N : t <= TradeOf(z)
    BY <1>4, <2>3, <2>4
  <2>6. TradeOf(From("fills"))' = TradeOf(z)
    BY <2>1 DEF TradeOf
  <2> QED
    BY <2>1, <2>3, <2>4, <2>5, <2>6
<1>16. ASSUME NEW i \in Len(payout) + 1 .. Len(payout')
       PROVE  \E r, a : payout'[i] = NewPayout(r, a, [trades |-> N]) /\ a = j.fees[r]
  BY <1>14 DEF Grew
<1>17. ASSUME NEW i \in Len(payout) + 1 .. Len(payout') PROVE payout'[i].why.trades = N
  <2>1. PICK r, a : payout'[i] = NewPayout(r, a, [trades |-> N])
    BY <1>16
  <2>2. PICK y : y = [trades |-> N]
    OBVIOUS
  <2>3. payout'[i] = NewPayout(r, a, y) /\ y.trades = N
    BY <2>1, <2>2
  <2> QED
    BY <2>3 DEF NewPayout
<1>18. \A i \in 1 .. Len(payout') :
          (i \in 1 .. Len(payout) /\ payout'[i] = payout[i]) \/ i \in Len(payout) + 1 .. Len(payout')
  BY <1>14 DEF Grew
<1>19. ASSUME NEW i \in 1 .. Len(payout), FeesOf(payout[i]), NEW t \in payout[i].why.trades
       PROVE  t \in Nat /\ t <= F
  BY <1>0, <1>15, <1>19 DEF SharedOK
<1>20. ASSUME NEW i \in 1 .. Len(payout'), FeesOf(payout'[i]), NEW t \in payout'[i].why.trades
       PROVE  t \in Nat /\ t <= G
  <2>1. CASE i \in Len(payout) + 1 .. Len(payout')
    BY <1>15, <1>17, <1>20, <2>1
  <2>2. CASE i \in 1 .. Len(payout) /\ payout'[i] = payout[i]
    <3>1. t \in Nat /\ t <= F
      BY <1>19, <1>20, <2>2
    <3> QED
      BY <1>15, <3>1
  <2> QED
    BY <1>18, <2>1, <2>2
<1>21. ASSUME NEW i \in 1 .. Len(payout'), NEW k \in 1 .. Len(payout'),
              FeesOf(payout'[i]), FeesOf(payout'[k]), i # k, payout'[i].profile = payout'[k].profile
       PROVE  payout'[i].why.trades \cap payout'[k].why.trades = {}
  <2>1. CASE i \in 1 .. Len(payout) /\ payout'[i] = payout[i] /\ k \in 1 .. Len(payout) /\ payout'[k] = payout[k]
    BY <1>0, <1>21, <2>1 DEF SharedOK
  <2>2. CASE i \in Len(payout) + 1 .. Len(payout') /\ k \in Len(payout) + 1 .. Len(payout')
    <3>1. PICK r, a : payout'[i] = NewPayout(r, a, [trades |-> N]) /\ a = j.fees[r]
      BY <1>16, <2>2
    <3>2. PICK q, c : payout'[k] = NewPayout(q, c, [trades |-> N]) /\ c = j.fees[q]
      BY <1>16, <2>2
    <3>3. payout'[i].profile = r /\ payout'[k].profile = q
      BY <3>1, <3>2 DEF NewPayout
    <3>4. payout'[i] = payout'[k]
      BY <1>21, <3>1, <3>2, <3>3
    <3> QED
      BY <1>14, <1>21, <2>2, <3>4 DEF Grew
  <2>3. ASSUME NEW g \in 1 .. Len(payout), payout'[g] = payout[g], FeesOf(payout'[g]),
               NEW h \in Len(payout) + 1 .. Len(payout')
        PROVE  payout'[g].why.trades \cap payout'[h].why.trades = {}
    <3> SUFFICES ASSUME NEW t \in payout[g].why.trades, t \in N PROVE FALSE
      BY <1>17, <2>3
    <3>1. t \in Nat /\ t <= F
      BY <1>19, <2>3
    <3>2. F < t
      BY <1>15
    <3> QED
      BY <1>15, <3>1, <3>2
  <2> QED
    BY <1>18, <1>21, <2>1, <2>2, <2>3
<1>22. SharedOK'
  BY <1>15, <1>20, <1>21 DEF SharedOK
<1> QED
  BY <1>8, <1>13, <1>22 DEF FeesInv

LEMMA PayoutsShare ==
    ASSUME FeesInv, PaidInv', NEW s \in ReferralServices, doPayouts(s)
    PROVE  FeesInv'
<1>1. CASE Storable(referralJob[s].window)
  BY <1>1, SharesStored
<1>2. CASE ~Storable(referralJob[s].window)
  <2>1. UNCHANGED <<tradeLog, copied, referredBy, windows, payout>>
    BY <1>2 DEF doPayouts
  <2>2. referralJob' = [referralJob EXCEPT ![s] = Resting] /\ Resting.job \notin {"payouts", "volumes"}
    BY DEF doPayouts, Rest, Resting
  <2> QED
    BY <2>1, <2>2, JobStepShares
<1> QED
  BY <1>1, <1>2

LEMMA FeesStep ==
    ASSUME QueriesInOrder, FeesInv, [ReferralNext]_referralVars
    PROVE  FeesInv'
<1>0. PaidInv'
  BY PaidStep DEF FeesInv
<1>1. CASE Trade
  BY <1>1, TradesChange
<1>2. CASE CopyFills \/ \E r \in Referrers, t \in Traders : CreateReferralLink(t, r)
  BY <1>2, FillsOrLinksCome
<1>3. CASE \E s \in ReferralServices : calculateVolumes(s) \/ getUnProcessedPayouts(s) \/ Rollback(s)
                                       \/ CreateReferralPayout(s) \/ ProcessReferralPayout(s)
  BY <1>0, <1>3, OtherJobsShare
<1>4. CASE \E s \in ReferralServices : setToProcessed(s)
  BY <1>0, <1>4, MarkingShares
<1>5. CASE \E s \in ReferralServices : doVolumes(s)
  BY <1>0, <1>5, VolumesShare
<1>6. CASE \E s \in ReferralServices : getReferralFills(s)
  BY <1>0, <1>6, ReadingShares
<1>7. CASE \E s \in ReferralServices : doPayouts(s)
  BY <1>0, <1>7, PayoutsShare
<1>8. CASE UNCHANGED referralVars
  <2>1. UNCHANGED <<tradeLog, copied, referredBy, windows, payout, referralJob>>
    BY <1>8 DEF referralVars, dbTables
  <2>2. Lasts' = Lasts /\ From("fills")' = From("fills")
    BY <2>1, LastsKept
  <2>3. TradesOK' /\ SharedOK'
    BY <2>1, <2>2, RowsStillShare DEF FeesInv, TradesOK
  <2>4. \A f : Invited(f) => Invited(f)'
    BY <2>1 DEF Invited, Fill
  <2>5. copied' \in Nat /\ copied <= copied'
    BY <2>1 DEF FeesInv, TradesOK
  <2>6. NewTrades \subseteq NewTrades'
    BY <2>1, <2>2, <2>4, <2>5, NewStaysNew DEF FeesInv
  <2>7. SharingOK'
    BY <2>1, <2>6, JobsStillShare DEF FeesInv
  <2> QED
    BY <1>0, <2>3, <2>7 DEF FeesInv
<1> QED
  BY <1>1, <1>2, <1>3, <1>4, <1>5, <1>6, <1>7, <1>8 DEF ReferralNext, ReferralStep

(* When the query returns trades in the order of the archive, the fees of  *)
(* a trade are shared once and a payout is not marked too early, whatever  *)
(* services overlap, transactions roll back, and batches end within a trade*)
(* (doPayouts and the constraint of fills_integrity).                      *)
THEOREM TradesSharedOnce ==
    ASSUME QueriesInOrder
    PROVE  ReferralSpec => []SharedAndPaidOnce
<1>1. ReferralInit => FeesInv
  BY FeesInitHolds
<1>2. FeesInv /\ [ReferralNext]_referralVars => FeesInv'
  BY FeesStep
<1>3. FeesInv => FeesSharedOnce
  <2> SUFFICES ASSUME FeesInv, NEW i \in Rows(OfFees), NEW k \in Rows(OfFees),
                      i # k, payout[i].profile = payout[k].profile
               PROVE  TradesOf(i) \cap TradesOf(k) = {}
    BY DEF FeesSharedOnce
  <2>1. DOMAIN payout = 1 .. Len(payout)
    BY DEF FeesInv, PaidInv, LedgerOK
  <2>2. i \in 1 .. Len(payout) /\ k \in 1 .. Len(payout) /\ FeesOf(payout[i]) /\ FeesOf(payout[k])
    BY <2>1 DEF Rows, FeesOf
  <2> QED
    BY <2>2 DEF FeesInv, SharedOK, TradesOf
<1>4. ReferralSpec => []FeesSharedOnce
  BY <1>1, <1>2, <1>3, PTL DEF ReferralSpec
<1> QED
  BY <1>4, MarkedIsPaid, PTL DEF SharedAndPaidOnce
===============================================================================
