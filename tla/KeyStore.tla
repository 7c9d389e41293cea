------------------------------- MODULE KeyStore -------------------------------
(***************************************************************************)
(* keys.py, and the clock every component of the process reads (utcnow).   *)
(*                                                                         *)
(* The n-th key pair generated for a name is the key [owner, gen]: random  *)
(* P-256 keys never repeat.  A signature is identified with the key that   *)
(* made it, so it verifies under exactly that key.                         *)
(***************************************************************************)
EXTENDS Integers

CONSTANTS Names,           \* agent ids and IdpKeyName
          IdpKeyName,
          MaxGeneration,   \* bound: key pairs generated, for each name
          MaxTime          \* bound: the clock, in seconds

ASSUME IdpKeyNameAssumption == IdpKeyName \in Names
ASSUME KeyBoundAssumption == MaxGeneration \in [Names -> Nat] /\ MaxTime \in Nat

VARIABLES now,             \* the wall clock
          private          \* KeyStore._private: name -> generation held

keyVars == <<now, private>>

Key == [owner : Names, gen : Nat]

\* dict[x] = v
Put(dict, x, v) == [y \in DOMAIN dict \cup {x} |-> IF y = x THEN v ELSE dict[y]]

KeyOf(name) == [owner |-> name, gen |-> private[name]]

\* The keys that generate() and rotate() have made so far, for some names.  Their
\* return values, and what public() returns, may be kept and used at any later time.
KeysMade(names) == UNION {{[owner |-> n, gen |-> g] : g \in 1..private[n]} :
                           n \in names \cap DOMAIN private}

\* A signature that fits no key, because the payload was altered after signing.
Altered(key) == [key EXCEPT !.gen = 0]

KeyStoreTypeOK == /\ now \in Nat
                  /\ DOMAIN private \subseteq Names
                  /\ \A n \in DOMAIN private : private[n] \in Nat \ {0}

-----------------------------------------------------------------------------
\* KeyStore.generate: ValueError, and no change, when the name has a key.
Generate(name) == /\ name \notin DOMAIN private
                  /\ private' = Put(private, name, 1)

\* KeyStore.rotate: the old private key is popped and a new one generated.
Rotate(name) ==
  LET held == IF name \in DOMAIN private THEN private[name] ELSE 0
  IN  /\ held < MaxGeneration[name]
      /\ private' = Put(private, name, held + 1)

Tick == now < MaxTime /\ now' = now + 1

=============================================================================
