----------------------------- MODULE Challenge -----------------------------
(***************************************************************************)
(* passport/challenge.go: proof of possession of a key.  A verifier makes  *)
(* challenges, holders of keys sign their nonces, and the verifier checks  *)
(* responses against its challenges.  Responses may arrive late, twice,    *)
(* never, or for another challenge; the challenge itself travels too, and  *)
(* its expiry may come back as something that is not a date.               *)
(*                                                                         *)
(* Instants are integers in a unit finer than the second, because the code *)
(* prints whole seconds.  A nonce of 32 random bytes is a fresh model      *)
(* value, and a signature over it is the pair of nonce and key.            *)
(***************************************************************************)
EXTENDS Integers, TLC, Identities

CONSTANTS
  Nonces,        \* what rand.Read may return, never twice the same
  Lifetimes,     \* values of expiresInSeconds
  Second,        \* units of time in a second
  MaxDuration,   \* the largest time.Duration, in the same units
  Horizon        \* bound: the last instant of the clock

Time == 0..Horizon

\* Nonces are interchangeable, and so are keys: nothing orders either.
Symmetric == Permutations(Nonces) \cup Permutations(Keys)

ChallengeRecord ==
  [nonce : Nonces, timestamp : Int, expiresAt : Int \cup {Unparseable}]

\* What was asked of CreateChallenge, and when.
Request == [at : Time, seconds : Lifetimes]

\* A call of VerifyChallenge and what it returned.
Call ==
  [nonce : Nonces, signature : Nonces \X Keys, publicKey : Keys,
   now : Int \cup {None, Unparseable}, at : Time, answer : BOOLEAN]

ASSUME ChallengeAssumption ==
  /\ Lifetimes \subseteq Int
  /\ Second \in Nat \ {0}
  /\ MaxDuration \in Nat /\ MaxDuration >= Second
  /\ Horizon \in Nat
  /\ None \notin Int /\ None \notin ChallengeRecord
  /\ None \notin Request /\ None \notin Call
  /\ Unparseable \notin Int \cup {None}

VARIABLES
  clock,         \* the time, read by verifier and holders alike
  challenges,    \* the Challenge made with each nonce, as its verifier has it
  signed,        \* when each key first signed each nonce
  call,          \* VerifyChallenge, if it was the last step: arguments and answer
  requests       \* history: when and for how long a challenge was asked for

vars == <<clock, challenges, signed, call, requests>>

-----------------------------------------------------------------------------
\* time.Duration(expiresInSeconds) * time.Second, in 64-bit arithmetic.
Duration(seconds) ==
  LET width == 2 * (MaxDuration + 1)
  IN ((seconds * Second + MaxDuration + 1) % width) - (MaxDuration + 1)

\* formatISO prints whole seconds, the fraction is cut off.
FormatISO(t) == t - (t % Second)

\* Mutant of Fresh: a date that cannot be read has not passed.
FreshUnlessPast(expiresAt, now) ==
  ~ (expiresAt # Unparseable /\ now # Unparseable /\ expiresAt < now)

\* isExpired as its callers must use it: both instants read, and not past.
Fresh(expiresAt, now) ==
  /\ expiresAt # Unparseable
  /\ now # Unparseable
  /\ ~ expiresAt < now

\* Mutant of Verifies: a signature of the right key, over whatever it was.
VerifiesAnyNonce(c, sig, publicKey, now) ==
  /\ now # None => Fresh(c.expiresAt, now)
  /\ sig[2] = publicKey

\* VerifyChallenge: sig is the pair of nonce and key that made a signature.
Verifies(c, sig, publicKey, now) ==
  /\ now # None => Fresh(c.expiresAt, now)
  /\ sig = <<c.nonce, publicKey>>

-----------------------------------------------------------------------------
Init ==
  /\ clock = 0
  /\ challenges = [n \in Nonces |-> None]
  /\ signed = [s \in Nonces \X Keys |-> None]
  /\ call = None
  /\ requests = [n \in Nonces |-> None]

\* CreateChallenge.  issuedAt is the verifier's clock, stated or read; one that
\* cannot be parsed is an error and makes no challenge.
CreateChallenge(n, seconds) ==
  /\ challenges[n] = None
  /\ challenges' = [challenges EXCEPT ![n] =
       [nonce     |-> n,
        timestamp |-> FormatISO(clock),
        expiresAt |-> FormatISO(clock + Duration(seconds))]]
  /\ requests' = [requests EXCEPT ![n] = [at |-> clock, seconds |-> seconds]]
  /\ call' = None
  /\ UNCHANGED <<clock, signed>>

\* SignChallenge.  Signing again yields the same signature.
SignChallenge(n, k) ==
  /\ challenges[n] # None
  /\ signed[<<n, k>>] = None
  /\ signed' = [signed EXCEPT ![<<n, k>>] = clock]
  /\ call' = None
  /\ UNCHANGED <<clock, challenges, requests>>

\* A response made any time ago is checked against any challenge and key.
\* now is the verifier's clock, "" to skip the check, or unreadable.
VerifyChallenge(n, sig, publicKey, now) ==
  /\ challenges[n] # None
  /\ signed[sig] # None
  /\ call' = [nonce |-> n, signature |-> sig, publicKey |-> publicKey,
              now |-> now, at |-> clock,
              answer |-> Verifies(challenges[n], sig, publicKey, now)]
  /\ UNCHANGED <<clock, challenges, signed, requests>>

\* The expiry of a challenge in transit becomes a word.
Garble(n) ==
  /\ challenges[n] # None
  /\ challenges' = [challenges EXCEPT ![n].expiresAt = Unparseable]
  /\ call' = None
  /\ UNCHANGED <<clock, signed, requests>>

Tick ==
  /\ clock < Horizon
  /\ clock' = clock + 1
  /\ call' = None
  /\ UNCHANGED <<challenges, signed, requests>>

Next ==
  \/ \E n \in Nonces, s \in Lifetimes : CreateChallenge(n, s)
  \/ \E n \in Nonces, k \in Keys : SignChallenge(n, k)
  \/ \E n \in Nonces, sig \in Nonces \X Keys, k \in Keys,
        now \in {clock, None, Unparseable} : VerifyChallenge(n, sig, k, now)
  \/ \E n \in Nonces : Garble(n)
  \/ Tick

Spec == Init /\ [][Next]_vars

-----------------------------------------------------------------------------
\* The types of the clock, the challenges, the signatures and the last call:
\* whatever CreateChallenge prints is an instant.
TypeOK ==
  /\ clock \in Time
  /\ challenges \in [Nonces -> ChallengeRecord \cup {None}]
  /\ signed \in [Nonces \X Keys -> Time \cup {None}]
  /\ call \in Call \cup {None}
  /\ requests \in [Nonces -> Request \cup {None}]

\* A response accepted under a clock shows that the key was used recently:
\* its holder signed this very nonce, no earlier than the challenge was asked
\* for and no later than now, and the lifetime asked for has not passed, even
\* where the seconds overflow a Duration or the expiry was cut to a second.
\* VerifyChallenge keeps no record of used nonces, so this is all it promises.
AcceptedIsRecent ==
  (call # None /\ call.answer /\ call.now # None) =>
    LET r == requests[call.nonce]
        use == signed[<<call.nonce, call.publicKey>>]
    IN /\ use # None /\ r.at <= use /\ use <= call.at
       /\ r.seconds >= 0 => call.at <= r.at + r.seconds * Second

\* Freshness never comes back: from the moment a challenge has outlived its
\* lifetime, or its expiry cannot be read, no later call under a clock
\* accepts any response to it (the replay VerifyChallenge's comment is about).
StaleStaysRefused ==
  [][\A n \in Nonces :
       /\ challenges[n] # None
       /\ challenges[n].expiresAt = Unparseable
            \/ (requests[n].seconds >= 0
                /\ requests[n].at + requests[n].seconds * Second < clock)
       => ~ (/\ call' # None /\ call'.nonce = n
             /\ call'.now # None /\ call'.answer)]_vars

\* What AcceptedIsRecent rests on: only challenges that were asked for can be
\* signed, and a readable expiry is never past the lifetime asked for.
Recorded ==
  \A n \in Nonces :
    /\ challenges[n] = None <=> requests[n] = None
    /\ challenges[n] # None =>
         /\ challenges[n].nonce = n
         /\ requests[n].at <= clock
         /\ (requests[n].seconds >= 0 /\ challenges[n].expiresAt # Unparseable)
              => challenges[n].expiresAt
                   <= requests[n].at + requests[n].seconds * Second
    /\ \A k \in Keys : signed[<<n, k>>] # None =>
         /\ challenges[n] # None
         /\ requests[n].at <= signed[<<n, k>>] /\ signed[<<n, k>>] <= clock
=============================================================================
