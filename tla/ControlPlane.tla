---------------------------- MODULE ControlPlane ----------------------------
(* The control plane of src/server.go over the token verification of          *)
(* src/permissions: handleAuth (Sessions) with VerifyToken, which looks the   *)
(* key of the token up in the JWKS cache (JwksCache), in step with each other *)
(* under one clock.                                                           *)

EXTENDS JwksCache

CONSTANTS Sid, SessionTTL, SweepInterval, Tries,  \* Sessions
          Tokens,    \* those that clients present
          Audience,  \* JWT_AUDIENCE: {a}, or {} for any
          Issuer     \* JWT_ISSUER: {i}, or {} for any

\* A request to authenticate is a caller of getKey.
Request == Sid \X Tries

ASSUME PlaneAssumption ==
    /\ Caller = Request
    /\ SessionTTL \in Nat
    /\ SweepInterval \in Nat \ {0}
    /\ \A tok \in Tokens : /\ tok.kid = {} \/ \E k \in Kid : tok.kid = {k}
                           /\ tok.exp \in Nat

VARIABLES up, started, nextSweep, failed, rows, created_at, client, req,
          recorded,  \* Sessions
          token,    \* what each connection presents
          verified  \* history: when, and with a fresh key or an old one, each
                    \* request was verified: {[at, fresh]}, or {}

-----------------------------------------------------------------------------
(* A token is [alg, kid, signer, aud, iss, sub, exp]: alg is the family of    *)
(* its signing method; kid, iss and sub are {x}, or {} if the claim is        *)
(* missing, empty or no string; aud is the set of its strings; signer is the  *)
(* kid of the key that signed it.                                             *)

\* What the keyfunc refuses before it looks for the key.
KeyfuncRefuses(tok) == tok.alg # "RSA" \/ tok.kid = {}

AudienceMatches(tok) == Audience \subseteq tok.aud

\* Mutant: a missing issuer is as good as the one expected.
IssuerMatchesIfThere(tok) == Issuer = {} \/ tok.iss \subseteq Issuer

IssuerMatches(tok) == Issuer = {} \/ tok.iss = Issuer

\* jwt.Parse once it has the key, and what VerifyToken asks for besides.
Verifies(tok) == /\ tok.signer \in tok.kid
                 /\ now < tok.exp
                 /\ AudienceMatches(tok)
                 /\ IssuerMatches(tok)
                 /\ tok.sub # {}

\* A token that may be accepted, as long as it has not expired.
Good(tok) == /\ tok.alg = "RSA"
             /\ tok.kid = {tok.signer}
             /\ \A a \in Audience : a \in tok.aud
             /\ \A i \in Issuer : i \in tok.iss
             /\ tok.sub # {}

-----------------------------------------------------------------------------

Expiry == [s \in Sid |-> IF Good(token[s]) THEN token[s].exp ELSE 0]

Auth == INSTANCE Sessions
          WITH Legacy <- {}, Expiries <- {0} \cup {tok.exp : tok \in Tokens},
               Persistent <- TRUE, DatabaseErrors <- TRUE, expiry <- Expiry

serverVars == <<up, started, nextSweep, failed, rows, created_at, client, req, recorded>>
lookupVars == <<cacheVars, fetchVars, callVars>>
tokenVars == <<token, verified>>
planeVars == <<vars, serverVars, tokenVars>>

PlaneInit == /\ Init
             /\ up = TRUE /\ started = 0 /\ nextSweep = SweepInterval /\ failed = 0
             /\ rows = {} /\ created_at = [s \in Sid |-> Auth!NULL]
             /\ client = [s \in Sid |-> "new"]
             /\ req = [r \in Request |-> "none"]
             /\ recorded = [s \in Sid |-> Auth!NULL]
             /\ token \in [Sid -> Tokens]
             /\ verified = [r \in Request |-> {}]

\* Quack and its clients, the rest of handleAuth, the sweeper.
Server == /\ UNCHANGED tokenVars
          /\ \/ \E s \in Sid : Auth!Attach(s) \/ Auth!Close(s)
             \/ \E r \in Request : Auth!Send(r) \/ Auth!Record(r) \/ Auth!RecordFails(r) \/ Auth!Accept(r)
             \/ Auth!Sweep \/ Auth!SweepFails \/ Auth!Start
          /\ answer' = "none"
          /\ UNCHANGED <<idpVars, lookupVars>>

Provider == /\ (\E P \in KeySets : Publish(P)) \/ Outage \/ Serve
            /\ UNCHANGED <<serverVars, tokenVars>>

\* VerifyToken, up to the lookup.
Lookup(r) == /\ req[r] = "verify" /\ pc[r] = "idle"
             /\ ~KeyfuncRefuses(token[r[1]])
             /\ \E k \in token[r[1]].kid : Call(r, k)
             /\ UNCHANGED <<serverVars, tokenVars>>

RefuseAtOnce(r) == /\ KeyfuncRefuses(token[r[1]])
                   /\ UNCHANGED tokenVars
                   /\ Auth!Refuse(r)
                   /\ answer' = "none"
                   /\ UNCHANGED <<idpVars, lookupVars>>

LookupGoesOn(r) == /\ GetKey(r) /\ pc'[r] # "idle"
                   /\ UNCHANGED <<serverVars, tokenVars>>

\* The lookup ends; without a key so does the verification.
KeyError(r) == /\ GetKey(r) /\ pc'[r] = "idle" /\ answer' = "error"
               /\ UNCHANGED tokenVars
               /\ Auth!Refuse(r)

\* With one, the signature and the claims are checked, the expiry after the wait.
KeyFound(r) == /\ GetKey(r) /\ pc'[r] = "idle" /\ answer' # "error"
               /\ IF Verifies(token[r[1]])
                    THEN /\ req' = [req EXCEPT ![r] = "record"]
                         /\ verified' = [verified EXCEPT ![r] =
                                           {[at |-> now, fresh |-> answer' = "key"]}]
                    ELSE req' = [req EXCEPT ![r] = "done"] /\ UNCHANGED verified
               /\ UNCHANGED <<up, started, nextSweep, failed, rows, created_at, client,
                              recorded, token>>

Handler(r) == Lookup(r) \/ RefuseAtOnce(r) \/ LookupGoesOn(r) \/ KeyError(r) \/ KeyFound(r)

PlaneTick == UNCHANGED tokenVars /\ Auth!Tick /\ Tick

\* The process ends: the cache and its lock are gone with the handlers.
Stop == /\ UNCHANGED tokenVars
        /\ Auth!Stop
        /\ keys' = {} /\ lastFetch' = 0
        /\ queue' = <<>> /\ holder' = {} /\ served' = {} /\ fetchStart' = 0
        /\ pc' = [r \in Request |-> "idle"]
        /\ want' = [r \in Request |-> {}] /\ since' = [r \in Request |-> 0]
        /\ answer' = "none"
        /\ UNCHANGED idpVars

PlaneNext == \/ Server \/ Provider
             \/ \E r \in Request : Handler(r)
             \/ PlaneTick \/ Stop

PlaneSpec == PlaneInit /\ [][PlaneNext]_planeVars

-----------------------------------------------------------------------------
(* Properties.                                                                *)

\* handleAuth over VerifyToken over the cache does what Sessions says of it:
\* a lookup that fails or takes its time refuses a token, or takes it if it has
\* not expired by then, and one that is not good is never taken.
ImplementsSessions == Auth!Spec

\* A connection is served, or has its row, on the strength of a verification
\* before its token expired, with a key that was, unless the cache had to fall
\* back, published within the refresh interval and one fetch: neither the wait
\* for the lock nor repeated requests nor restarts stretch that (VerifyToken,
\* getKey, handleAuth).
RetiredKeyIsCutOff == \A s \in Sid :
    /\ s \in rows \/ client[s] = "open" => \E i \in Tries : verified[<<s, i>>] # {}
    /\ \A i \in Tries : \A v \in verified[<<s, i>>] :
          /\ v.at < token[s].exp
          /\ v.fresh => v.at <= LastPublished(token[s].signer) + FetchTimeout
                                  + (IF Refresh > 0 THEN Refresh ELSE 0)
=============================================================================
