--------------------------- MODULE IdentityProofs ---------------------------
(***************************************************************************)
(* Challenge: for any number of nonces, keys and lifetimes and any width   *)
(* of a Duration, an accepted response is recent, and a stale challenge is *)
(* never accepted again. Passport: for any set of passports, keys and      *)
(* moments, what VerifyPassport accepts was signed by its holder and       *)
(* vouched for by an issuer the verifier trusts, and the checks that are   *)
(* written twice agree where they read the same document.                  *)
(***************************************************************************)
EXTENDS Challenge, Passport, TLAPS

-----------------------------------------------------------------------------
\* formatISO cuts off, so it never moves an instant forward.
LEMMA FormatISOCuts ==
  ASSUME NEW t \in Int
  PROVE  FormatISO(t) \in Int /\ FormatISO(t) <= t
BY ChallengeAssumption DEF FormatISO

\* Overflow of a Duration only ever shortens a lifetime that is not negative.
LEMMA DurationShortens ==
  ASSUME NEW seconds \in Int
  PROVE  /\ Duration(seconds) \in Int
         /\ seconds >= 0 => Duration(seconds) <= seconds * Second
<1> DEFINE width == 2 * (MaxDuration + 1)
           x == seconds * Second
<1>1. width \in Nat \ {0} /\ x \in Int
  BY ChallengeAssumption
<1>2. seconds >= 0 => x >= 0
  BY ChallengeAssumption
<1>3. ASSUME NEW a \in Int, NEW w \in Nat \ {0}
      PROVE  a % w \in Int /\ (a >= 0 => a % w <= a)
  OBVIOUS
<1>4. /\ (x + MaxDuration + 1) % width \in Int
      /\ x >= 0 => (x + MaxDuration + 1) % width <= x + MaxDuration + 1
  BY <1>1, <1>3, ChallengeAssumption
<1> HIDE DEF x, width
<1>5. /\ ((x + MaxDuration + 1) % width) - (MaxDuration + 1) \in Int
      /\ x >= 0 => ((x + MaxDuration + 1) % width) - (MaxDuration + 1) <= x
  BY <1>4, <1>1, ChallengeAssumption
<1> QED
  BY <1>5, <1>2 DEF Duration, x, width

-----------------------------------------------------------------------------
IInv == TypeOK /\ Recorded /\ AcceptedIsRecent

USE ChallengeAssumption

\* The fields of a request.
LEMMA RequestFields ==
  ASSUME NEW r \in Request
  PROVE  r.at \in Int /\ r.seconds \in Int
<1>1. r.at \in Time /\ r.seconds \in Lifetimes
  BY DEF Request
<1>2. \A s \in Lifetimes : s \in Int
  OBVIOUS
<1>3. \A t \in Time : t \in Int
  BY DEF Time
<1> QED
  BY <1>1, <1>2, <1>3

\* CreateChallenge records a challenge whose end is no later than asked.
LEMMA CreateKeeps ==
  ASSUME NEW n \in Nonces, NEW s \in Lifetimes, CreateChallenge(n, s), IInv
  PROVE  IInv'
<1> DEFINE e == FormatISO(clock + Duration(s))
<1> USE DEF IInv, CreateChallenge
<1>1. clock \in Int /\ s \in Int
  BY DEF TypeOK, Time
<1>2. e \in Int /\ FormatISO(clock) \in Int
      /\ (s >= 0 => e <= clock + s * Second)
  <2>1. Duration(s) \in Int /\ (s >= 0 => Duration(s) <= s * Second)
    BY <1>1, DurationShortens
  <2>2. clock + Duration(s) \in Int
    BY <1>1, <2>1
  <2>3. e \in Int /\ e <= clock + Duration(s) /\ FormatISO(clock) \in Int
    BY <1>1, <2>2, FormatISOCuts
  <2>4. s * Second \in Int
    BY <1>1
  <2> HIDE DEF e
  <2> QED
    BY <1>1, <2>1, <2>3, <2>4
<1> HIDE DEF e
<1> DEFINE c == [nonce |-> n, timestamp |-> FormatISO(clock), expiresAt |-> e]
           r == [at |-> clock, seconds |-> s]
<1>3. /\ challenges' = [challenges EXCEPT ![n] = c]
      /\ requests' = [requests EXCEPT ![n] = r]
      /\ call' = None /\ clock' = clock /\ signed' = signed
  BY DEF e
<1>4. c \in ChallengeRecord /\ r \in Request
  BY <1>2 DEF ChallengeRecord, Request, TypeOK
<1>5. TypeOK'
  BY <1>3, <1>4 DEF TypeOK
<1>6. c # None /\ r # None /\ e # Unparseable /\ c.nonce = n /\ r.at = clock
      /\ r.seconds = s /\ c.expiresAt = e
  BY <1>2, <1>4
<1>7. Recorded'
  <2> SUFFICES ASSUME NEW m \in Nonces
               PROVE  /\ challenges'[m] = None <=> requests'[m] = None
                      /\ challenges'[m] # None =>
                           /\ challenges'[m].nonce = m
                           /\ requests'[m].at <= clock'
                           /\ (requests'[m].seconds >= 0
                                /\ challenges'[m].expiresAt # Unparseable)
                                => challenges'[m].expiresAt
                                     <= requests'[m].at + requests'[m].seconds * Second
                      /\ \A k \in Keys : signed'[<<m, k>>] # None =>
                           /\ challenges'[m] # None
                           /\ requests'[m].at <= signed'[<<m, k>>]
                           /\ signed'[<<m, k>>] <= clock'
    BY DEF Recorded
  <2> HIDE DEF c, r
  <2>1. CASE m = n
    <3>1. challenges'[m] = c /\ requests'[m] = r
      BY <2>1, <1>3 DEF TypeOK
    <3>2. \A k \in Keys : signed[<<m, k>>] = None
      BY <2>1 DEF Recorded
    <3> QED
      BY <3>1, <3>2, <1>1, <1>2, <1>3, <1>6, <2>1
  <2>2. CASE m # n
    <3>1. challenges'[m] = challenges[m] /\ requests'[m] = requests[m]
      BY <2>2, <1>3 DEF TypeOK
    <3> QED
      BY <3>1, <1>3 DEF Recorded
  <2> QED
    BY <2>1, <2>2
<1>8. AcceptedIsRecent'
  BY <1>3 DEF AcceptedIsRecent
<1> QED
  BY <1>5, <1>7, <1>8

\* SignChallenge is not before the challenge it signs.
LEMMA SignKeeps ==
  ASSUME NEW n \in Nonces, NEW k \in Keys, SignChallenge(n, k), IInv
  PROVE  IInv'
<1> USE DEF IInv, SignChallenge
<1>1. TypeOK'
  BY DEF TypeOK
<1>2. Recorded'
  <2>1. \A m \in Nonces, j \in Keys :
          signed'[<<m, j>>] = IF m = n /\ j = k THEN clock ELSE signed[<<m, j>>]
    BY DEF TypeOK
  <2>2. requests[n].at <= clock /\ clock \in Int
    BY DEF Recorded, TypeOK, Time
  <2> QED
    BY <2>1, <2>2 DEF Recorded
<1>3. AcceptedIsRecent'
  BY DEF AcceptedIsRecent
<1> QED
  BY <1>1, <1>2, <1>3

\* VerifyChallenge accepts only before the end of the challenge.
LEMMA VerifyKeeps ==
  ASSUME NEW n \in Nonces, NEW sig \in Nonces \X Keys, NEW k \in Keys,
         NEW now \in {clock, None, Unparseable},
         VerifyChallenge(n, sig, k, now), IInv
  PROVE  IInv'
<1> USE DEF IInv
<1> DEFINE a == Verifies(challenges[n], sig, k, now)
           v == [nonce |-> n, signature |-> sig, publicKey |-> k, now |-> now,
                 at |-> clock, answer |-> a]
<1>1. /\ call' = v /\ challenges[n] # None /\ signed[sig] # None
      /\ UNCHANGED <<clock, challenges, signed, requests>>
  BY DEF VerifyChallenge
<1>2. v \in Call
  <2>1. a \in BOOLEAN
    BY DEF Verifies
  <2>2. clock \in Time /\ now \in Int \cup {None, Unparseable}
    BY DEF TypeOK, Time
  <2> HIDE DEF a
  <2> QED
    BY <2>1, <2>2 DEF Call
<1>3. TypeOK'
  BY <1>1, <1>2 DEF TypeOK
<1>4. Recorded'
  BY <1>1 DEF Recorded
<1>5. AcceptedIsRecent'
  <2> SUFFICES ASSUME a, now # None
               PROVE  LET r == requests[n]
                          use == signed[<<n, k>>]
                      IN /\ use # None /\ r.at <= use /\ use <= clock
                         /\ r.seconds >= 0 => clock <= r.at + r.seconds * Second
    BY <1>1 DEF AcceptedIsRecent
  <2>1. sig = <<n, k>> /\ Fresh(challenges[n].expiresAt, now)
    BY <1>1 DEF Verifies, Recorded
  <2>2. now = clock /\ challenges[n].expiresAt # Unparseable
        /\ ~ challenges[n].expiresAt < clock
    BY <2>1 DEF Fresh
  <2>3. signed[<<n, k>>] # None /\ requests[n].at <= signed[<<n, k>>]
        /\ signed[<<n, k>>] <= clock
    BY <1>1, <2>1 DEF Recorded
  <2>4. requests[n].seconds >= 0 =>
          challenges[n].expiresAt <= requests[n].at + requests[n].seconds * Second
    BY <1>1, <2>2 DEF Recorded
  <2>5. challenges[n] \in ChallengeRecord /\ requests[n] \in Request
    BY <1>1 DEF TypeOK, Recorded
  <2>6. challenges[n].expiresAt \in Int /\ requests[n].at \in Int
        /\ requests[n].seconds \in Int /\ clock \in Int
    BY <2>5, <2>2, RequestFields DEF ChallengeRecord, TypeOK, Time
  <2>7. requests[n].seconds * Second \in Int
    BY <2>6
  <2> QED
    BY <2>2, <2>3, <2>4, <2>6, <2>7
<1> QED
  BY <1>3, <1>4, <1>5

\* A challenge whose end cannot be read is never accepted.
LEMMA GarbleKeeps ==
  ASSUME NEW n \in Nonces, Garble(n), IInv
  PROVE  IInv'
<1> USE DEF IInv, Garble
<1>1. challenges[n] \in ChallengeRecord
  BY DEF TypeOK
<1> DEFINE c == [challenges[n] EXCEPT !.expiresAt = Unparseable]
<1>2. c \in ChallengeRecord /\ c.expiresAt = Unparseable
      /\ c.nonce = challenges[n].nonce
  BY <1>1 DEF ChallengeRecord
<1>3. challenges' = [challenges EXCEPT ![n] = c]
  OBVIOUS
<1> HIDE DEF c
<1>4. TypeOK'
  BY <1>2, <1>3 DEF TypeOK
<1>5. \A m \in Nonces : challenges'[m] = IF m = n THEN c ELSE challenges[m]
  BY <1>3 DEF TypeOK
<1>6. Recorded'
  BY <1>2, <1>5 DEF Recorded
<1>7. AcceptedIsRecent'
  BY DEF AcceptedIsRecent
<1> QED
  BY <1>4, <1>6, <1>7

\* Time passes, and what was recorded stays in the past.
LEMMA TickKeeps ==
  ASSUME Tick, IInv
  PROVE  IInv'
<1> USE DEF IInv, Tick
<1>1. TypeOK'
  BY DEF TypeOK, Time
<1>2. Recorded'
  <2> SUFFICES ASSUME NEW n \in Nonces
               PROVE  /\ challenges[n] # None => requests[n].at <= clock + 1
                      /\ \A k \in Keys : signed[<<n, k>>] # None =>
                            signed[<<n, k>>] <= clock + 1
    BY DEF Recorded
  <2>1. clock \in Int
    BY DEF TypeOK, Time
  <2>2. challenges[n] # None => requests[n].at \in Int /\ requests[n].at <= clock
    BY DEF TypeOK, Recorded, Request, Time
  <2>3. \A k \in Keys : signed[<<n, k>>] # None =>
          signed[<<n, k>>] \in Int /\ signed[<<n, k>>] <= clock
    BY DEF TypeOK, Recorded, Time
  <2> QED
    BY <2>1, <2>2, <2>3
<1>3. AcceptedIsRecent'
  BY DEF AcceptedIsRecent
<1> QED
  BY <1>1, <1>2, <1>3

\* The invariant holds however requests, responses, checks and the clock
\* interleave.
LEMMA Inductive == Spec => []IInv
<1>1. Init => IInv
  BY DEF Init, IInv, TypeOK, Recorded, AcceptedIsRecent, Time
<1>2. IInv /\ [Next]_vars => IInv'
  <2>1. CASE UNCHANGED vars
    BY <2>1 DEF vars, IInv, TypeOK, Recorded, AcceptedIsRecent
  <2>2. CASE Next
    BY <2>2, CreateKeeps, SignKeeps, VerifyKeeps, GarbleKeeps, TickKeeps
    DEF Next
  <2> QED
    BY <2>1, <2>2
<1> QED
  BY <1>1, <1>2, PTL DEF Spec

\* Every state of the exchange is well typed; what CreateChallenge prints is
\* an instant, whatever lifetime it was given.
THEOREM TypeCorrect == Spec => []TypeOK
<1>1. IInv => TypeOK
  BY DEF IInv
<1> QED
  BY Inductive, <1>1, PTL

\* What VerifyChallenge accepts under a clock was signed after the challenge
\* was asked for, and within the lifetime asked for.
THEOREM AcceptanceIsRecent == Spec => []AcceptedIsRecent
<1>1. IInv => AcceptedIsRecent
  BY DEF IInv
<1> QED
  BY Inductive, <1>1, PTL

\* A challenge that has outlived its lifetime, or whose expiry cannot be read,
\* is never accepted again under a clock.
THEOREM NoReplayAfterExpiry == Spec => StaleStaysRefused
<1> DEFINE Stale(n) ==
      /\ challenges[n] # None
      /\ challenges[n].expiresAt = Unparseable
           \/ (requests[n].seconds >= 0
               /\ requests[n].at + requests[n].seconds * Second < clock)
      Accepts(n) == /\ call' # None /\ call'.nonce = n
                    /\ call'.now # None /\ call'.answer
<1>1. ASSUME IInv, IInv', Next, NEW n \in Nonces, Stale(n), Accepts(n)
      PROVE  FALSE
  <2>1. PICK m \in Nonces, sig \in Nonces \X Keys, k \in Keys,
             now \in {clock, None, Unparseable} : VerifyChallenge(m, sig, k, now)
    BY <1>1 DEF Next, CreateChallenge, SignChallenge, Garble, Tick
  <2>2. m = n /\ now = clock
        /\ challenges[n].expiresAt # Unparseable
        /\ challenges' = challenges /\ requests' = requests
        /\ call'.at = clock /\ call'.nonce = n /\ call'.now # None
        /\ call'.answer /\ call' # None
    BY <1>1, <2>1 DEF VerifyChallenge, Verifies, Fresh
  <2>3. requests[n].seconds >= 0 =>
          clock <= requests[n].at + requests[n].seconds * Second
    BY <1>1, <2>2 DEF IInv, AcceptedIsRecent
  <2>4. requests[n] \in Request /\ clock \in Int
    BY <1>1 DEF IInv, TypeOK, Recorded, Time
  <2>5. requests[n].at \in Int /\ requests[n].seconds \in Int
    BY <2>4, RequestFields
  <2>6. requests[n].seconds * Second \in Int
    BY <2>5
  <2> QED
    BY <1>1, <2>2, <2>3, <2>4, <2>5, <2>6
<1>2. ASSUME IInv, IInv', [Next]_vars
      PROVE  [\A n \in Nonces : Stale(n) => ~ Accepts(n)]_vars
  BY <1>1, <1>2
<1>3. IInv /\ IInv' /\ [Next]_vars
        => [\A n \in Nonces : Stale(n) => ~ Accepts(n)]_vars
  BY <1>2
<1> QED
  BY Inductive, <1>3, PTL DEF Spec, StaleStaysRefused

-----------------------------------------------------------------------------
\* What the keys have signed: documents, and envelopes whose signature exists.
OnlySigned ==
  /\ signatures \subseteq Keys \X Documents
  /\ vouchers \subseteq Keys \X Payload
  /\ \A v \in vouchers : v[2].signature \in signatures \cup {None}

\* The struct a document is read into has the fields of its type.
LEMMA StructTypes ==
  ASSUME NEW d \in Documents
  PROVE  /\ Decoded(d) \in Passports /\ Decoded(d) \in AgentPassport
         /\ Canonical(Decoded(d)) => PassportMap(Decoded(d)) \in Documents
BY PassportAssumption DEF Passports

\* What one more signature, and one more countersignature, leaves true.
LEMMA OneMore ==
  ASSUME OnlySigned, NEW k \in Keys
  PROVE  /\ \A d \in Documents :
              (signatures' = signatures \cup {<<k, d>>} /\ vouchers' = vouchers)
                => OnlySigned'
         /\ \A y \in Payload :
              (/\ y.signature \in signatures \cup {None}
               /\ vouchers' = vouchers \cup {<<k, y>>} /\ signatures' = signatures)
                => OnlySigned'
<1>1. ASSUME NEW d \in Documents,
             signatures' = signatures \cup {<<k, d>>}, vouchers' = vouchers
      PROVE  OnlySigned'
  BY <1>1 DEF OnlySigned, Payload
<1>2. ASSUME NEW y \in Payload, y.signature \in signatures \cup {None},
             vouchers' = vouchers \cup {<<k, y>>}, signatures' = signatures
      PROVE  OnlySigned'
  <2>1. vouchers' \subseteq Keys \X Payload /\ signatures' \subseteq Keys \X Documents
    BY <1>2 DEF OnlySigned, Payload
  <2>2. ASSUME NEW v \in vouchers'
        PROVE  v[2].signature \in signatures' \cup {None}
    BY <1>2, <2>2 DEF OnlySigned
  <2> QED
    BY <2>1, <2>2 DEF OnlySigned, Payload
<1> QED
  BY <1>1, <1>2

\* The four actions sign nothing else.
LEMMA OnlySignedKept ==
  ASSUME OnlySigned, [PassportNext]_passportVars
  PROVE  OnlySigned'
<1>1. ASSUME NEW k \in Keys, NEW p \in Passports, SignPassport(k, p)
      PROVE  OnlySigned'
  <2>1. PassportMap(p) \in Documents
    BY <1>1, StructTypes DEF SignPassport, Passports
  <2> QED
    BY <1>1, <2>1, OneMore DEF SignPassport
<1>2. ASSUME NEW k \in Keys, NEW d \in Documents, SignDocument(k, d)
      PROVE  OnlySigned'
  BY <1>2, OneMore DEF SignDocument
<1>3. ASSUME NEW k \in Keys, NEW e \in Signed, CountersignPassport(k, e)
      PROVE  OnlySigned'
  <2>1. /\ e.passport \in Documents /\ e.signature \in signatures \cup {None}
        /\ e.signedAt \in SignedAts
    BY DEF Signed
  <2>2. PassportMap(Decoded(e.passport)) \in Documents
    BY <1>3, <2>1, StructTypes DEF CountersignPassport
  <2>3. /\ IssuerPayload(e) \in Payload
        /\ IssuerPayload(e).signature \in signatures \cup {None}
    BY <2>1, <2>2 DEF IssuerPayload, Payload, OnlySigned
  <2> QED
    BY <1>3, <2>3, OneMore DEF CountersignPassport
<1>4. ASSUME NEW k \in Keys, NEW e \in Signed, CountersignDocument(k, e)
      PROVE  OnlySigned'
  <2>1. e \in Payload /\ e.signature \in signatures \cup {None}
    BY DEF Signed, Payload, OnlySigned
  <2> QED
    BY <1>4, <2>1, OneMore DEF CountersignDocument
<1>5. CASE UNCHANGED passportVars
  BY <1>5 DEF passportVars, OnlySigned, Payload
<1> QED
  BY <1>1, <1>2, <1>3, <1>4, <1>5 DEF PassportNext

\* Every signature there is was made by one of the actions.
THEOREM OnlySignedHolds ==
  PassportSpec => []OnlySigned
<1>1. PassportInit => OnlySigned
  BY DEF PassportInit, OnlySigned
<1> QED
  BY <1>1, OnlySignedKept, PTL DEF PassportSpec

\* The parts of a signed passport as a verifier finds it.
LEMMA EnvelopeParts ==
  ASSUME NEW e \in Envelope
  PROVE  /\ e.passport \in Documents
         /\ e.signature \in signatures \cup {None}
         /\ e.signedAt \in SignedAts
         /\ e.issuer # None => /\ e.issuer.publicKey \in Keys \cup {EmptyKey}
                               /\ e.issuer.signature \in vouchers \cup {None}
BY DEF Envelope, IssuerSignature

\* VerifyPassport finds no fault with the dates exactly if the moment is
\* within them.
LEMMA WindowReads ==
  ASSUME NEW p \in Passports, NEW now \in Clocks \cup {None}
  PROVE  WindowErrors(p, now) = {} <=> InWindow(p, now)
<1>1. /\ p.expiresAt \in Int \cup {None, Unparseable}
      /\ p.notBefore \in Int \cup {None, Unparseable}
      /\ now \in Int \cup {None, Unparseable}
  BY PassportAssumption DEF AgentPassport, Timestamp
<1>2. None \notin Int /\ Unparseable \notin Int /\ None # Unparseable
  BY PassportAssumption
<1>3. CASE now \notin Int
  BY <1>1, <1>2, <1>3 DEF WindowErrors, InWindow
<1>4. CASE now \in Int
  <2>1. WindowErrors(p, now) = {} <=>
          /\ ~ (p.expiresAt \in Int /\ p.expiresAt < now)
          /\ ~ (p.expiresAt \notin Int)
          /\ ~ (p.notBefore = Unparseable)
          /\ ~ (p.notBefore \in Int /\ now < p.notBefore)
    BY <1>2, <1>4 DEF WindowErrors
  <2>2. InWindow(p, now) <=>
          /\ p.expiresAt \in Int /\ now <= p.expiresAt
          /\ p.notBefore = None \/ (p.notBefore \in Int /\ p.notBefore <= now)
    BY <1>2, <1>4 DEF InWindow
  <2> QED
    BY <1>1, <1>2, <1>4, <2>1, <2>2
<1> QED
  BY <1>3, <1>4

\* The countersignature check, read as a condition.
Trusted(e, o) ==
  IF o.trustedIssuers = {} THEN o.allowSelfSigned
  ELSE /\ e.issuer # None /\ e.issuer.signature # None
       /\ e.issuer.publicKey # EmptyKey
       /\ e.issuer.publicKey \in o.trustedIssuers
       /\ e.issuer.signature = <<e.issuer.publicKey, IssuerPayload(e)>>

\* The trust check finds no fault exactly if the policy is met.
LEMMA TrustReads ==
  ASSUME NEW e, NEW o
  PROVE  TrustErrors(e, o) = {} <=> Trusted(e, o)
BY DEF TrustErrors, Trusted

\* VerifyPassport returns valid exactly if every check passes, of the struct
\* the document is read into.
LEMMA ValidReads ==
  ASSUME NEW e, NEW o
  PROVE  VerifyPassport(e, o).valid <=>
           /\ e.signature # None /\ Canonical(Decoded(e.passport))
           /\ e.signature = HoldersSignature(Decoded(e.passport))
           /\ Trusted(e, o)
           /\ WindowErrors(Decoded(e.passport), o.now) = {}
           /\ Decoded(e.passport).agentId # ""
           /\ Decoded(e.passport).publicKey # EmptyKey
<1> DEFINE p == Decoded(e.passport)
<1>1. NoErrors(e, p, o) <=>
        /\ e.signature = HoldersSignature(p)
        /\ Trusted(e, o)
        /\ WindowErrors(p, o.now) = {}
        /\ p.agentId # "" /\ p.publicKey # EmptyKey
  BY TrustReads DEF NoErrors
<1>2. VerifyPassport(e, o).valid <=>
        e.signature # None /\ Canonical(p) /\ NoErrors(e, p, o)
  BY DEF VerifyPassport, NoErrors
<1> QED
  BY <1>1, <1>2

\* Under a list of trusted issuers, one more issuer or the self-signed option
\* takes no valid passport away.
THEOREM TrustAdds ==
  PassportSpec => []TrustOnlyAdds
<1>1. ASSUME NEW e \in Envelope, NEW o \in VerifyPassportOptions,
             o.trustedIssuers # {}, VerifyPassport(e, o).valid
      PROVE  /\ VerifyPassport(e, [o EXCEPT !.allowSelfSigned = ~@]).valid
             /\ \A k \in Keys :
                  VerifyPassport(e, [o EXCEPT !.trustedIssuers = @ \cup {k}]).valid
  <2>1. Trusted(e, o)
    BY <1>1, ValidReads
  <2>2. ASSUME NEW x, x.now = o.now, o.trustedIssuers \subseteq x.trustedIssuers
        PROVE  VerifyPassport(e, x).valid
    <3>1. Trusted(e, x)
      BY <1>1, <2>1, <2>2 DEF Trusted
    <3> QED
      BY <1>1, <2>2, <3>1, ValidReads
  <2>3. VerifyPassport(e, [o EXCEPT !.allowSelfSigned = ~@]).valid
    <3> DEFINE x == [o EXCEPT !.allowSelfSigned = ~@]
    <3>1. x.trustedIssuers = o.trustedIssuers /\ x.now = o.now
      BY DEF VerifyPassportOptions
    <3> QED
      BY <2>2, <3>1
  <2>4. ASSUME NEW k \in Keys
        PROVE  VerifyPassport(e, [o EXCEPT !.trustedIssuers = @ \cup {k}]).valid
    <3> DEFINE x == [o EXCEPT !.trustedIssuers = @ \cup {k}]
    <3>1. x.trustedIssuers = o.trustedIssuers \cup {k} /\ x.now = o.now
      BY DEF VerifyPassportOptions
    <3> HIDE DEF x
    <3>2. VerifyPassport(e, x).valid
      BY <2>2, <3>1
    <3> QED
      BY <3>2 DEF x
  <2> QED
    BY <2>3, <2>4
<1>2. TrustOnlyAdds
  BY <1>1 DEF TrustOnlyAdds
<1> QED
  BY <1>2, PTL

\* On the holder's word the trust check is passed.
LEMMA WordReads ==
  ASSUME NEW e, NEW now
  PROVE  OnItsWord(e, now) <=>
           /\ e.signature # None /\ Canonical(Decoded(e.passport))
           /\ e.signature = HoldersSignature(Decoded(e.passport))
           /\ WindowErrors(Decoded(e.passport), now) = {}
           /\ Decoded(e.passport).agentId # ""
           /\ Decoded(e.passport).publicKey # EmptyKey
<1> DEFINE o == [trustedIssuers |-> {}, now |-> now, allowSelfSigned |-> TRUE]
<1>1. o.trustedIssuers = {} /\ o.now = now /\ o.allowSelfSigned
  OBVIOUS
<1> HIDE DEF o
<1>2. Trusted(e, o)
  BY <1>1 DEF Trusted
<1>3. OnItsWord(e, now) <=> VerifyPassport(e, o).valid
  BY DEF OnItsWord, o
<1> QED
  BY <1>1, <1>2, <1>3, ValidReads

\* VerifyPassport and VerifyIssuerSignature agree on the countersignature.
THEOREM IssuerChecks ==
  PassportSpec => []IssuerChecksAgree
<1>1. ASSUME OnlySigned, NEW e \in Envelope, NEW k \in Keys, NEW now \in Clocks
      PROVE  VerifyPassport(e, [trustedIssuers |-> {k}, now |-> now,
                                  allowSelfSigned |-> FALSE]).valid
             <=> VerifyIssuerSignature(e, k) /\ OnItsWord(e, now)
  <2> DEFINE o == [trustedIssuers |-> {k}, now |-> now, allowSelfSigned |-> FALSE]
             p == Decoded(e.passport)
  <2>1. /\ e.passport \in Documents /\ e.signature \in signatures \cup {None}
        /\ e.signedAt \in SignedAts
    BY EnvelopeParts
  <2>2. o.trustedIssuers = {k} /\ o.now = now
    OBVIOUS
  <2> HIDE DEF o
  <2>3. Canonical(p) => <<k, IssuerPayload(e)>> # None
    <3> SUFFICES ASSUME Canonical(p) PROVE <<k, IssuerPayload(e)>> # None
      OBVIOUS
    <3>1. PassportMap(p) \in Documents
      BY <2>1, StructTypes
    <3>2. IssuerPayload(e) \in Payload
      BY <1>1, <2>1, <3>1 DEF IssuerPayload, Payload, OnlySigned
    <3> QED
      BY <3>2, PassportAssumption
  <2>4. Canonical(p) =>
          (Trusted(e, o) <=> /\ e.issuer # None /\ e.issuer.publicKey = k
                             /\ e.issuer.signature = <<k, IssuerPayload(e)>>)
    BY <2>2, <2>3, PassportAssumption DEF Trusted
  <2> HIDE DEF p
  <2>5. VerifyPassport(e, o).valid <=>
          /\ e.signature # None /\ Canonical(p)
          /\ e.signature = HoldersSignature(p)
          /\ Trusted(e, o)
          /\ WindowErrors(p, now) = {}
          /\ p.agentId # "" /\ p.publicKey # EmptyKey
    BY <2>2, ValidReads DEF p
  <2>6. OnItsWord(e, now) <=>
          /\ e.signature # None /\ Canonical(p)
          /\ e.signature = HoldersSignature(p)
          /\ WindowErrors(p, now) = {}
          /\ p.agentId # "" /\ p.publicKey # EmptyKey
    BY WordReads DEF p
  <2>7. VerifyIssuerSignature(e, k) <=>
          /\ e.issuer # None /\ e.issuer.publicKey = k /\ Canonical(p)
          /\ e.issuer.signature = <<k, IssuerPayload(e)>>
    BY DEF VerifyIssuerSignature, p
  <2> QED
    BY <2>4, <2>5, <2>6, <2>7 DEF o
<1>2. OnlySigned => IssuerChecksAgree
  BY <1>1 DEF IssuerChecksAgree
<1> QED
  BY <1>2, OnlySignedHolds, PTL

\* The key a document names is the key the struct has.
LEMMA NamedKeyReads ==
  ASSUME NEW d
  PROVE  NamedKey(d) = Decoded(d).publicKey
BY DEF NamedKey, Decoded, ZeroPassport

\* A struct that is written out and read back is the same struct.
LEMMA RoundTrip ==
  ASSUME NEW p \in Passports
  PROVE  Decoded(Encoded(p)) = p
<1> DEFINE F == DOMAIN ZeroPassport
<1>1. PICK d \in Documents : p = Decoded(d)
  BY DEF Passports
<1>2. p = [f \in F |-> p[f]]
  BY <1>1 DEF Decoded
<1>3. DOMAIN Encoded(p) = Present(p) /\ \A f \in Present(p) : Encoded(p)[f] = p[f]
  BY DEF Encoded
<1>4. ASSUME NEW f \in F, f \notin Present(p)
      PROVE  p[f] = ZeroPassport[f]
  <2>1. f = "notBefore" /\ p.notBefore = None
    BY <1>4 DEF Present
  <2>2. p[f] = None
    BY <2>1
  <2>3. ZeroPassport[f] = None
    BY <2>1 DEF ZeroPassport
  <2> QED
    BY <2>2, <2>3
<1>5. Decoded(Encoded(p)) = [f \in F |-> p[f]]
  <2>1. \A f \in F : (IF f \in DOMAIN Encoded(p) THEN Encoded(p)[f] ELSE ZeroPassport[f])
                       = p[f]
    BY <1>3, <1>4
  <2> QED
    BY <2>1 DEF Decoded
<1> QED
  BY <1>2, <1>5

\* What is written out is what was signed exactly if no slice is nil.
LEMMA WrittenAsSigned ==
  ASSUME NEW p
  PROVE  PassportMap(p) = Encoded(p) <=> p.models # "nil"
<1>1. "models" \in Present(p)
  BY DEF Present, ZeroPassport
<1>2. PassportMap(p)["models"] = IF p.models = "nil" THEN "empty" ELSE p.models
  BY <1>1 DEF PassportMap
<1>3. Encoded(p)["models"] = p.models
  BY <1>1 DEF Encoded
<1>4. p.models # "nil" => PassportMap(p) = Encoded(p)
  BY DEF PassportMap, Encoded
<1> QED
  BY <1>2, <1>3, <1>4

\* The gate and VerifyPassport agree on documents the struct preserves, never
\* both accept another, and differ on what SignPassport signed exactly where a
\* slice is nil.
THEOREM GateAgrees ==
  PassportSpec => []GateAgreesOnRebuilt
<1>1. ASSUME NEW e \in Envelope
      PROVE  IF Rebuilt(e.passport)
             THEN OnItsWord(e, None)
                    <=> CheckPassportGate(e) /\ Decoded(e.passport).agentId # ""
             ELSE ~ (OnItsWord(e, None) /\ CheckPassportGate(e))
  <2> DEFINE p == Decoded(e.passport)
  <2>1. OnItsWord(e, None) <=>
          /\ e.signature # None /\ Canonical(p)
          /\ e.signature = <<p.publicKey, PassportMap(p)>>
          /\ p.agentId # "" /\ p.publicKey # EmptyKey
    BY WordReads DEF WindowErrors, HoldersSignature
  <2>2. CheckPassportGate(e) <=>
          /\ e.signature # None /\ p.publicKey # EmptyKey
          /\ e.signature = <<p.publicKey, e.passport>>
    BY NamedKeyReads DEF CheckPassportGate
  <2>3. Rebuilt(e.passport) <=> Canonical(p) /\ PassportMap(p) = e.passport
    BY DEF Rebuilt
  <2> HIDE DEF p
  <2>4. CASE Rebuilt(e.passport)
    BY <2>1, <2>2, <2>3, <2>4 DEF p
  <2>5. CASE ~ Rebuilt(e.passport)
    <3> SUFFICES ASSUME OnItsWord(e, None), CheckPassportGate(e) PROVE FALSE
      BY <2>5
    <3>1. <<p.publicKey, PassportMap(p)>> = <<p.publicKey, e.passport>>
      BY <2>1, <2>2
    <3>2. PassportMap(p) = e.passport
      BY <3>1
    <3> QED
      BY <2>1, <2>3, <2>5, <3>2
  <2> QED
    BY <2>4, <2>5
<1>2. ASSUME OnlySigned, NEW p \in Passports, NEW at \in SignedAts,
             HoldersSignature(p) \in signatures, Canonical(p),
             p.publicKey # EmptyKey, p.agentId # "",
             NEW e, e = [passport |-> Encoded(p), signature |-> HoldersSignature(p),
                         signedAt |-> at, issuer |-> None]
      PROVE  OnItsWord(e, None) /\ (CheckPassportGate(e) <=> p.models # "nil")
  <2>1. e.passport = Encoded(p) /\ e.signature = HoldersSignature(p)
    BY <1>2
  <2>2. Decoded(e.passport) = p
    BY <2>1, RoundTrip
  <2>3. HoldersSignature(p) # None
    BY <1>2, PassportAssumption DEF OnlySigned
  <2>4. OnItsWord(e, None)
    BY <1>2, <2>1, <2>2, <2>3, WordReads DEF WindowErrors
  <2>5. NamedKey(e.passport) = p.publicKey
    BY <2>2, NamedKeyReads
  <2>6. CheckPassportGate(e) <=> PassportMap(p) = Encoded(p)
    BY <1>2, <2>1, <2>3, <2>5 DEF CheckPassportGate, HoldersSignature
  <2> QED
    BY <2>4, <2>6, WrittenAsSigned
<1>3. OnlySigned => GateAgreesOnRebuilt
  BY <1>1, <1>2 DEF GateAgreesOnRebuilt
<1> QED
  BY <1>3, OnlySignedHolds, PTL

\* VerifyPassport is true only of passports their holder signed, in their
\* dates, and countersigned as they stand by a trusted issuer; and of all
\* such passports.
THEOREM ValidPassportsAreVouchedFor ==
  PassportSpec => []ValidIsVouchedFor
<1>1. ASSUME OnlySigned, NEW e \in Envelope, NEW o \in VerifyPassportOptions,
             VerifyPassport(e, o).valid, NEW p, p = Decoded(e.passport)
      PROVE  /\ HoldersSignature(p) \in signatures
             /\ InWindow(p, o.now)
             /\ IF o.trustedIssuers = {}
                THEN o.allowSelfSigned /\ VerifyPassport(e, o).selfSignedAccepted
                ELSE /\ \E k \in o.trustedIssuers : Voucher(k, e) \in vouchers
                     /\ VerifyPassport(e, o).issuerTrustChecked
                     /\ ~ VerifyPassport(e, o).selfSignedAccepted
  <2>1. /\ e.signature # None /\ Canonical(p)
        /\ e.signature = HoldersSignature(p)
        /\ Trusted(e, o)
        /\ WindowErrors(p, o.now) = {}
    BY <1>1, ValidReads
  <2>2. /\ e.passport \in Documents /\ e.signature \in signatures \cup {None}
        /\ e.issuer # None => e.issuer.signature \in vouchers \cup {None}
        /\ o.now \in Clocks
    BY EnvelopeParts DEF VerifyPassportOptions
  <2>3. InWindow(p, o.now)
    BY <1>1, <2>1, <2>2, StructTypes, WindowReads
  <2>4. /\ VerifyPassport(e, o).issuerTrustChecked <=> o.trustedIssuers # {}
        /\ VerifyPassport(e, o).selfSignedAccepted <=>
             o.trustedIssuers = {} /\ o.allowSelfSigned
    BY <1>1, <2>1 DEF VerifyPassport
  <2>5. o.trustedIssuers # {} =>
          \E k \in o.trustedIssuers : Voucher(k, e) \in vouchers
    BY <1>1, <2>1, <2>2 DEF Trusted, Voucher, IssuerPayload
  <2> QED
    BY <2>1, <2>2, <2>3, <2>4, <2>5 DEF Trusted
<1>2. ASSUME OnlySigned, NEW v \in vouchers, NEW o \in VerifyPassportOptions,
             NEW e,
             e = [passport |-> v[2].passport, signature |-> v[2].signature,
                  signedAt |-> v[2].signedAt,
                  issuer |-> [publicKey |-> v[1], signature |-> v]],
             NEW p, p = Decoded(e.passport),
             v = Voucher(v[1], e), Canonical(p),
             p.publicKey # EmptyKey, p.agentId # "",
             v[1] \in o.trustedIssuers, InWindow(p, o.now)
      PROVE  VerifyPassport(e, o).valid
  <2> DEFINE i == [publicKey |-> v[1], signature |-> v]
  <2>1. PICK k \in Keys, y \in Payload : v = <<k, y>>
    <3>1. v \in Keys \X Payload
      BY <1>2 DEF OnlySigned
    <3> QED
      BY <3>1
  <2>2. /\ v[1] = k /\ v[2] = y /\ y.passport \in Documents
        /\ y = [passport |-> y.passport, signature |-> y.signature, signedAt |-> y.signedAt]
    BY <2>1 DEF Payload
  <2>3. i # None /\ v # None
    BY <2>1, PassportAssumption
  <2>4. i.publicKey = k /\ i.signature = v
    BY <2>2
  <2> HIDE DEF i
  <2>5. /\ e.passport = y.passport /\ e.signature = y.signature
        /\ e.signedAt = y.signedAt /\ e.issuer = i
    BY <1>2, <2>2 DEF i
  <2>6. y = [passport |-> PassportMap(p), signature |-> HoldersSignature(p),
             signedAt |-> e.signedAt]
    <3>1. v = <<v[1], [passport |-> PassportMap(p), signature |-> HoldersSignature(p),
                       signedAt |-> e.signedAt]>>
      BY <1>2 DEF Voucher
    <3> QED
      BY <2>2, <3>1
  <2>7. IssuerPayload(e) = y
    BY <1>2, <2>5, <2>6 DEF IssuerPayload
  <2>8. e.signature = HoldersSignature(p)
    BY <2>5, <2>6
  <2>9. e.signature # None
    <3>1. p.publicKey \in Keys
      BY <1>2, <2>2, <2>5, StructTypes DEF AgentPassport
    <3>2. PassportMap(p) \in Documents
      BY <1>2, <2>2, <2>5, StructTypes
    <3> QED
      BY <2>8, <3>1, <3>2, PassportAssumption DEF HoldersSignature
  <2>10. Trusted(e, o)
    <3>1. k # EmptyKey
      BY PassportAssumption
    <3> QED
      BY <1>2, <2>1, <2>2, <2>3, <2>4, <2>5, <2>7, <3>1 DEF Trusted
  <2>11. WindowErrors(p, o.now) = {}
    BY <1>2, <2>2, <2>5, StructTypes, WindowReads DEF VerifyPassportOptions
  <2> QED
    BY <1>2, <2>8, <2>9, <2>10, <2>11, ValidReads
<1>3. OnlySigned => ValidIsVouchedFor
  BY <1>1, <1>2 DEF ValidIsVouchedFor
<1> QED
  BY <1>3, OnlySignedHolds, PTL
=============================================================================
