-------------------------- MODULE IdentityProvider --------------------------
(***************************************************************************)
(* tokens.py: the lab identity provider.  A token is the record of its     *)
(* claims and of the key it is signed with.  An authorization code is the  *)
(* position of its request in the sequence of all requests.                *)
(*                                                                         *)
(* The caller of issue() may overwrite any claim.  A jti is a number: that *)
(* of a uuid4 is the position of the token it was drawn for, a string that *)
(* a caller chose is negative, and 0 stands for every value that is not a  *)
(* string.                                                                 *)
(*                                                                         *)
(* pkce_challenge is SHA-256: it is taken to be injective, so a challenge  *)
(* is identified with the one verifier that meets it.                      *)
(***************************************************************************)
EXTENDS KeyStore, Sequences, FiniteSets

CONSTANTS Subjects,        \* the agents tokens are issued to
          Audiences,
          Lifetimes,       \* ttl_seconds of the callers, also negative ones
          Extras,          \* what callers pass to issue() as `extra'
          Verifiers,       \* PKCE verifiers; {} leaves the code flow out
          MaxTokens,       \* bound: tokens issued
          MaxCodes         \* bound: authorization codes handed out

\* The claims that are read again.  Values that jwt.decode rejects whatever the
\* time and the audience make a token as good as a string that is no token.
ExtraClaims == {"sub", "aud", "iat", "nbf", "exp", "jti"}

ASSUME LifetimesAssumption == Lifetimes \subseteq Int
ASSUME ExtrasAssumption ==
         \A x \in Extras :
           /\ DOMAIN x \subseteq ExtraClaims
           /\ "sub" \in DOMAIN x => x["sub"] \in Subjects
           /\ "aud" \in DOMAIN x => x["aud"] \in SUBSET Audiences
           /\ \A c \in {"iat", "nbf", "exp", "jti"} \cap DOMAIN x : x[c] \in Int
           /\ "jti" \in DOMAIN x => x["jti"] <= 0
ASSUME IdpBoundAssumption == MaxTokens \in Nat /\ MaxCodes \in Nat

VARIABLES tokens,          \* every access token signed so far
          codes,           \* every request begin_authorization_code accepted
          open,            \* the codes still in LabIdentityProvider._codes
          first            \* history: how the first exchange of a code went

idpVars == <<tokens, codes, open, first>>

\* The jtis that tokens carry.
Jtis == 0..MaxTokens \cup {x["jti"] : x \in {y \in Extras : "jti" \in DOMAIN y}}

\* isinstance(jti, str)
IsString(jti) == jti # 0

\* `code' is history: the code the token was exchanged for, 0 for issue().
Token == [sub : Subjects, aud : SUBSET Audiences, iat : Int, nbf : Int, exp : Int,
          jti : Jtis, key : Key, code : Nat]

Authorization == [subject : Subjects, challenge : Verifiers,
                  audience : Audiences, ttl : Lifetimes]

IdpTypeOK ==
  /\ tokens \in Seq(Token)
  /\ codes \in Seq(Authorization)
  /\ Len(tokens) <= MaxTokens
  /\ Len(codes) <= MaxCodes
  /\ open \subseteq DOMAIN codes
  /\ first \in [DOMAIN codes -> {"none", "match", "mismatch"}]

\* Seeded fault: expiry is not checked.
FaultDecodesExpired(token, audience, t) ==
  /\ token.key = KeyOf(IdpKeyName)
  /\ audience \in token.aud
  /\ token.iat <= t
  /\ token.nbf <= t

\* Seeded fault: the comparison with the expiry is turned round.
FaultDecodesInverted(token, audience, t) ==
  /\ token.key = KeyOf(IdpKeyName)
  /\ audience \in token.aud
  /\ token.exp <= t
  /\ token.iat <= t
  /\ token.nbf <= t

\* jwt.decode in decode(): signed with the key the provider holds now, for this
\* audience, not expired, and neither issued nor valid from later on.
Decodes(token, audience, t) ==
  /\ token.key = KeyOf(IdpKeyName)
  /\ audience \in token.aud
  /\ token.exp > t
  /\ token.iat <= t
  /\ token.nbf <= t

-----------------------------------------------------------------------------
IdpInit == /\ tokens = <<>>
           /\ codes = <<>>
           /\ open = {}
           /\ first = <<>>

\* claims.update(extra)
Claim(extra, name, value) == IF name \in DOMAIN extra THEN extra[name] ELSE value

NoExtra == <<>>

Claims(subject, audience, ttl, code, extra) ==
  [sub  |-> Claim(extra, "sub", subject),
   aud  |-> Claim(extra, "aud", {audience}),
   iat  |-> Claim(extra, "iat", now),
   nbf  |-> Claim(extra, "nbf", now),
   exp  |-> Claim(extra, "exp", now + ttl),
   jti  |-> Claim(extra, "jti", Len(tokens) + 1),
   key  |-> KeyOf(IdpKeyName),
   code |-> code]

\* The body of issue().  No token outlives the bounded clock.
Sign(subject, audience, ttl, code, extra) ==
  LET token == Claims(subject, audience, ttl, code, extra)
  IN  /\ Len(tokens) < MaxTokens
      /\ token.exp <= MaxTime
      /\ tokens' = Append(tokens, token)

Issue(subject, audience, ttl, extra) ==
  /\ Sign(subject, audience, ttl, 0, extra)
  /\ UNCHANGED <<codes, open, first>>

BeginAuthorizationCode(subject, challenge, audience, ttl) ==
  /\ Len(codes) < MaxCodes
  /\ codes' = Append(codes, [subject |-> subject, challenge |-> challenge,
                             audience |-> audience, ttl |-> ttl])
  /\ open' = open \cup {Len(codes) + 1}
  /\ first' = Append(first, "none")
  /\ UNCHANGED tokens

NoteAttempt(code, verifier) ==
  first' = IF first[code] = "none"
           THEN [first EXCEPT ![code] = IF verifier = codes[code].challenge
                                        THEN "match" ELSE "mismatch"]
           ELSE first

\* Seeded fault: the token is issued for the latest request.
FaultExchangeLatest(code, verifier) ==
  LET latest == codes[Len(codes)] IN
  /\ code \in open
  /\ verifier = codes[code].challenge
  /\ open' = open \ {code}
  /\ Sign(latest.subject, latest.audience, latest.ttl, code, NoExtra)
  /\ NoteAttempt(code, verifier)
  /\ UNCHANGED codes

\* exchange_code pops the code first and compares the verifier afterwards.
ExchangeCode(code, verifier) ==
  /\ code \in open
  /\ verifier = codes[code].challenge
  /\ open' = open \ {code}
  /\ Sign(codes[code].subject, codes[code].audience, codes[code].ttl, code, NoExtra)
  /\ NoteAttempt(code, verifier)
  /\ UNCHANGED codes

\* Seeded fault: the verifier is compared before the code is popped.
FaultRejectKeepsCode(code, verifier) ==
  /\ code \in open
  /\ verifier # codes[code].challenge
  /\ NoteAttempt(code, verifier)
  /\ UNCHANGED <<tokens, codes, open>>

\* PKCE mismatch: ValueError, after the pop.
RejectVerifier(code, verifier) ==
  /\ code \in open
  /\ verifier # codes[code].challenge
  /\ open' = open \ {code}
  /\ NoteAttempt(code, verifier)
  /\ UNCHANGED <<tokens, codes>>

\* A code that is no longer in the dict: ValueError.
RejectCode(code, verifier) ==
  /\ code \in DOMAIN codes \ open
  /\ NoteAttempt(code, verifier)
  /\ UNCHANGED <<tokens, codes, open>>

IdpStep ==
  \/ \E s \in Subjects, d \in Audiences, ttl \in Lifetimes :
       \/ \E extra \in Extras \cup {NoExtra} : Issue(s, d, ttl, extra)
       \/ \E v \in Verifiers : BeginAuthorizationCode(s, v, d, ttl)
  \/ \E c \in DOMAIN codes, v \in Verifiers :
       \/ ExchangeCode(c, v)
       \/ RejectVerifier(c, v)
       \/ RejectCode(c, v)

\* A process of its own, in which the constructor has generated the key.
ProviderInit == /\ now = 0
                /\ private = [n \in {IdpKeyName} |-> 1]
                /\ IdpInit

IdpNext == \/ IdpStep /\ UNCHANGED keyVars
           \/ Rotate(IdpKeyName) /\ UNCHANGED <<now, idpVars>>
           \/ Tick /\ UNCHANGED <<private, idpVars>>

\* The clock does not stop; nothing obliges a client to call.
IdpSpec == /\ ProviderInit
           /\ [][IdpNext]_<<keyVars, idpVars>>
           /\ WF_<<keyVars, idpVars>>(Tick /\ UNCHANGED <<private, idpVars>>)

-----------------------------------------------------------------------------
(* Properties *)

MintedFrom(code) == {j \in DOMAIN tokens : tokens[j].code = code}

\* A code yields one token when its first exchange presents the right verifier
\* and none for ever when it does not: a mistyped verifier cannot be retried,
\* since exchange_code pops the record before it compares.
FirstExchangeDecides ==
  \A c \in DOMAIN codes :
    Cardinality(MintedFrom(c)) = IF first[c] = "match" THEN 1 ELSE 0

\* A token obtained through a code carries the subject and audience that were
\* authorized when the code was handed out, whatever was exchanged in between.
MintedAsAuthorized ==
  \A c \in DOMAIN codes : \A j \in MintedFrom(c) :
    /\ tokens[j].sub = codes[c].subject
    /\ tokens[j].aud = {codes[c].audience}
    /\ tokens[j].exp - tokens[j].iat = codes[c].ttl

\* A caller may have a token start in the future.
Premature(token, t) == token.iat > t \/ token.nbf > t

\* A token that has started and that decode() refuses for an audience is refused
\* for good: no later time, and no rotation of the provider's key, makes it
\* acceptable again.
AcceptanceOnlyShrinks ==
  [][\A j \in DOMAIN tokens, d \in Audiences :
       ~Premature(tokens[j], now) /\ Decodes(tokens[j], d, now)'
         => Decodes(tokens[j], d, now)
    ]_<<keyVars, idpVars>>

Accepted(j) == j \in DOMAIN tokens /\ \E d \in Audiences :
                                        Decodes(tokens[j], d, now)

\* Every token is sooner or later refused for good.
EveryTokenDies ==
  \A j \in 1..MaxTokens : (j \in DOMAIN tokens) ~> []~Accepted(j)

=============================================================================
