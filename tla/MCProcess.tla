----------------------------- MODULE MCProcess -----------------------------
(* Instances of Process: environments with one key source, with two, with     *)
(* none, and with files that are missing, blank or spoilt.                    *)

EXTENDS Process

CONSTANTS k1, k2

Good == [rsa |-> TRUE, sig |-> TRUE, ok |-> TRUE, kid |-> {k1}]
Spoilt == [Good EXCEPT !.ok = FALSE, !.kid = {}]
Anonymous == [Good EXCEPT !.kid = {}]
ForEncryption == [Good EXCEPT !.sig = FALSE]

Env(pem, url, jwks, pempath, pemfile, jwkspath, jwksfile) ==
    [inline |-> [s \in Sources |-> CASE s = "pem" -> pem [] s = "url" -> url [] s = "jwks" -> jwks],
     path |-> [s \in Sources |-> CASE s = "pem" -> pempath [] s = "url" -> "unset" [] s = "jwks" -> jwkspath],
     file |-> [s \in Sources |-> CASE s = "pem" -> pemfile [] s = "url" -> {} [] s = "jwks" -> jwksfile]]

SomeEnvironments ==
    {Env({}, {}, {}, "unset", {}, "unset", {}),
     Env({}, {{}}, {}, "there", {{k1}}, "unset", {}),
     Env({}, {{}}, {}, "missing", {}, "unset", {}),
     Env({{k1}}, {}, {}, "there", {}, "unset", {}),
     Env({{}}, {}, {}, "unset", {}, "unset", {})}
    \cup {Env({}, {}, inline, "unset", {}, path, file) :
            inline \in {{}, {{Good}}}, path \in {"unset", "there"},
            file \in {{{Good, Anonymous, ForEncryption}}, {{Good, Spoilt}}, {{ForEncryption}}}}

SomeSettings == {{"views", "region", "refresh"}, {"views", "landing"}}
===========================================================================
