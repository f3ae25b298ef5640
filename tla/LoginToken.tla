----------------------------- MODULE LoginToken ----------------------------
(***************************************************************************)
(* The credential of a login: the token (rpc/internal/jwt.go) and the      *)
(* check that gate.Login makes of it (rpc/login_check.go), under a         *)
(* configuration that changes.  The settings p of a process are [explicit, *)
(* configured, custom, off]: the secret given in code and the one of the   *)
(* configuration ("" for none), the user that the business's own check     *)
(* finds in a token ("none" without such a check, "no" when it refuses,    *)
(* "" when it binds no user), and whether the check is switched off.       *)
(***************************************************************************)
EXTENDS Integers, Sequences

\* Three parts: the user, the second it expires, and their signature.
SignLoginPayload(secret, payload) == <<secret, payload>>
BuildLoginToken(secret, user, expire) ==
    IF secret = "" \/ user = "" THEN <<>>
    ELSE <<user, expire, SignLoginPayload(secret, <<user, expire>>)>>

\* The user in the token, or "" for an error.
VerifyLoginToken(secret, token, now) ==
    IF /\ Len(token) = 3
       /\ token[3] = SignLoginPayload(secret, <<token[1], token[2]>>)
       /\ now <= token[2]
    THEN token[1] ELSE ""

\* Mutant of ResolveLoginTokenSecret: the configured secret comes first.
ConfiguredFirst(p) == IF p.configured # "" THEN p.configured ELSE p.explicit

ResolveLoginTokenSecret(p) == IF p.explicit # "" THEN p.explicit ELSE p.configured

GenerateLoginToken(p, user, ttl, now) ==
    BuildLoginToken(ResolveLoginTokenSecret(p), user, now + ttl)

\* hmacLoginCheck: without a secret every login is refused.
HmacCheckLogin(p, token, now) ==
    LET secret == ResolveLoginTokenSecret(p)
        user == IF secret = "" THEN "" ELSE VerifyLoginToken(secret, token, now)
    IN [ok |-> user # "", user |-> user]

\* The business's check, if there is one, replaces the default one.
ActiveLoginCheck(p, token, now) ==
    IF p.custom = "none" THEN HmacCheckLogin(p, token, now)
    ELSE [ok |-> p.custom # "no", user |-> IF p.custom = "no" THEN "" ELSE p.custom]

\* gate.Login goes on.
CheckLoginCredential(p, user, token, now) ==
    \/ p.off
    \/ /\ token # <<>>
       /\ LET r == ActiveLoginCheck(p, token, now) IN r.ok /\ r.user \in {"", user}

\* What changes the settings.
WithLoginTokenSecret(p, secret) == [p EXCEPT !.explicit = secret]
ReloadSecret(p, secret) == [p EXCEPT !.configured = secret]
WithLoginCheck(p, custom) == [p EXCEPT !.custom = custom]
WithoutLoginCheck(p) == [p EXCEPT !.off = TRUE]
=============================================================================
