----------------------------- MODULE KeySource -----------------------------
(* Where the keys that verify tokens come from: Config.ResolveSecrets and     *)
(* loadConfig of cmd/oauth-server/config.go, then buildJWTKeyfunc and         *)
(* parseJWKSKeys of permissions/jwt.go.                                       *)
(*                                                                            *)
(* A value is {x}, or {} for an empty string.  The x of a PEM is the set of   *)
(* the keys that can be parsed from it; that of a JWKS document its entries,  *)
(*   [rsa, sig: may it sign?, ok: are n and e well-formed?, kid: {k} or {}].  *)

EXTENDS Naturals, FiniteSets

CONSTANT Kid

Sources == {"pem", "url", "jwks"}
Jwk == [rsa : BOOLEAN, sig : BOOLEAN, ok : BOOLEAN, kid : {{}} \cup {{k} : k \in Kid}]
Values(s) == SUBSET SUBSET (IF s = "jwks" THEN Jwk ELSE Kid)

-----------------------------------------------------------------------------
(* parseJWKSKeys.                                                             *)

Relevant(doc) == {j \in doc : j.rsa /\ j.sig}

\* Mutant: an entry without a kid is a key like the others.
KidsOrEmpty(doc) == UNION {IF j.kid = {} THEN {{}} ELSE j.kid : j \in Relevant(doc)}

Kids(doc) == UNION {j.kid : j \in Relevant(doc)}

\* One malformed key spoils the document, even one without a kid.
ParseFails(doc) == (\E j \in Relevant(doc) : ~j.ok) \/ Kids(doc) = {}

\* The keys of a document, {} when it is of no use.
Usable(doc) == IF ParseFails(doc) THEN {} ELSE Kids(doc)

-----------------------------------------------------------------------------
(* config.go.  An environment is [inline, path, file]: for each source its    *)
(* variable, how its _FILE variable is set ("unset", "missing" for a file     *)
(* that cannot be read, "there"), and that file's content, trimmed.  The URL  *)
(* has no _FILE variable: its path is "unset".                                *)

ResolveFails(e) == \E s \in Sources : e.path[s] = "missing"

\* The file takes precedence, even an empty one.
Resolve(e) == [s \in Sources |-> IF e.path[s] = "unset" THEN e.inline[s] ELSE e.file[s]]

Configured(cfg) == {s \in Sources : cfg[s] # {}}

\* Mutant: variables are counted before they are resolved.
AcceptedUnresolved(e) ==
    /\ ~ResolveFails(e)
    /\ Cardinality({s \in Sources : e.inline[s] # {} \/ e.path[s] # "unset"}) = 1

\* loadConfig: exactly one source, counted after the files were read.
Accepted(e) == ~ResolveFails(e) /\ Cardinality(Configured(Resolve(e))) = 1

-----------------------------------------------------------------------------
(* buildJWTKeyfunc.                                                           *)

BuildFails(cfg) == \/ Cardinality(Configured(cfg)) > 1
                   \/ {} \in cfg["pem"]
                   \/ \E doc \in cfg["jwks"] : ParseFails(doc)

\* {<<source, its keys>>}, or {} for nil; those of a URL are fetched later.
Keyfunc(cfg) == {<<s, CASE s = "pem"  -> UNION cfg[s]
                        [] s = "jwks" -> UNION {Kids(doc) : doc \in cfg[s]}
                        [] s = "url"  -> {}>> : s \in Configured(cfg)}
=============================================================================
