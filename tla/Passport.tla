------------------------------ MODULE Passport -----------------------------
(***************************************************************************)
(* passport/passport.go: holders sign passports, issuers countersign what  *)
(* they are shown, verifiers judge what they are handed.  The state is the *)
(* signatures that exist.  An envelope is put together by whoever presents *)
(* it, from any passport and any of those signatures: a passport changed   *)
(* after signing, signed again by another key, or carrying the             *)
(* countersignature of another envelope is only a choice of parts.         *)
(*                                                                         *)
(* What travels is a document, a JSON map in which members may be absent,  *)
(* null or unknown.  The passport package reads it into a struct and signs *)
(* and checks the map it builds from that struct; the commerce gate checks *)
(* the map as it came; another implementation may sign any map.            *)
(*                                                                         *)
(* A signature is the pair of the key and what it was made over; bytes     *)
(* that verify under no key are the empty signature None.                  *)
(***************************************************************************)
EXTENDS Integers, FiniteSets, Identities

CONSTANTS
  EmptyKey,        \* the empty string where a public key belongs
  Documents,       \* the passport maps that may be signed or presented
  SignedAts,       \* signedAt stamps of an envelope
  Clocks,          \* what a verifier may pass as now
  MaxSignatures,   \* bound on passport signatures
  MaxVouchers      \* bound on countersignatures

Timestamp == Int \cup {None, Unparseable}

\* The struct.  A slice is nil, empty or populated; models stands for the
\* three that may be nil (with delegations and metadata), content for the
\* fields no verdict reads.
AgentPassport ==
  [publicKey : Keys \cup {EmptyKey}, agentId : {"", "agent"},
   capabilities : {"nil", "empty", "some"}, models : {"nil", "empty", "some"},
   notBefore : Timestamp, expiresAt : Timestamp, content : STRING]

ZeroPassport ==
  [publicKey |-> EmptyKey, agentId |-> "", capabilities |-> "nil",
   models |-> "nil", notBefore |-> None, expiresAt |-> None, content |-> ""]

\* A document read into the struct, and the struct written out as it is: an
\* absent member leaves the zero value, null is nil, unknown members are
\* dropped, and only an empty notBefore is left out.
Decoded(document) ==
  [f \in DOMAIN ZeroPassport |->
     IF f \in DOMAIN document THEN document[f] ELSE ZeroPassport[f]]

Present(p) == {f \in DOMAIN ZeroPassport : f = "notBefore" => p.notBefore # None}

Encoded(p) == [f \in Present(p) |-> p[f]]

Passports == {Decoded(d) : d \in Documents}

\* passportMap refuses a passport whose capabilities are nil, and writes the
\* other slices empty where they are nil.
Canonical(p) == p.capabilities # "nil"

PassportMap(p) ==
  [f \in Present(p) |->
     IF f = "models" /\ p.models = "nil" THEN "empty" ELSE p[f]]

\* What an issuer countersigns: the envelope without its own signature.
Payload ==
  [passport : Documents, signature : (Keys \X Documents) \cup {None},
   signedAt : SignedAts]

ASSUME PassportAssumption ==
  /\ EmptyKey \notin Keys
  /\ Passports \subseteq AgentPassport
  /\ \A p \in Passports : Canonical(p) => PassportMap(p) \in Documents
  /\ Clocks \subseteq Timestamp
  /\ None \notin Int /\ None \notin Keys \X Documents
  /\ None \notin Keys \X Payload
  /\ None \notin [publicKey : Keys, signature : Keys \X Payload]
  /\ Unparseable \notin Int \cup {None}
  /\ MaxSignatures \in Nat /\ MaxVouchers \in Nat

VARIABLES
  signatures,      \* <<key, document>> for every passport signature made
  vouchers         \* <<key, payload>> for every countersignature made

passportVars == <<signatures, vouchers>>

-----------------------------------------------------------------------------
\* Mutant of IssuerPayload: the holder's signature is not covered.
PayloadWithoutSignature(e) ==
  [passport |-> PassportMap(Decoded(e.passport)), signature |-> None,
   signedAt |-> e.signedAt]

IssuerPayload(e) ==
  [passport |-> PassportMap(Decoded(e.passport)), signature |-> e.signature,
   signedAt |-> e.signedAt]

IssuerSignature ==
  [publicKey : Keys \cup {EmptyKey}, signature : vouchers \cup {None}]

\* Every SignedPassport that can be put together now.
Envelope ==
  [passport : Documents, signature : signatures \cup {None},
   signedAt : SignedAts, issuer : IssuerSignature \cup {None}]

VerifyPassportOptions ==
  [trustedIssuers : SUBSET Keys, now : Clocks, allowSelfSigned : BOOLEAN]

-----------------------------------------------------------------------------
\* Mutant of TrustErrors: the opt-in rescues a failed issuer check.
TrustErrorsRescued(e, o) ==
  IF o.allowSelfSigned THEN {}
  ELSE IF o.trustedIssuers = {} THEN {"authority not established"}
  ELSE IF e.issuer = None \/ e.issuer.publicKey \notin o.trustedIssuers
    THEN {"issuer not trusted"}
  ELSE IF e.issuer.signature # <<e.issuer.publicKey, IssuerPayload(e)>>
    THEN {"invalid countersignature"}
  ELSE {}

\* The countersignature as VerifyPassport checks it against a list.
TrustErrors(e, o) ==
  IF o.trustedIssuers = {}
    THEN IF o.allowSelfSigned THEN {} ELSE {"authority not established"}
  ELSE IF e.issuer = None \/ e.issuer.signature = None
          \/ e.issuer.publicKey = EmptyKey
    THEN {"no countersignature"}
  ELSE IF e.issuer.publicKey \notin o.trustedIssuers
    THEN {"issuer not trusted"}
  ELSE IF e.issuer.signature # <<e.issuer.publicKey, IssuerPayload(e)>>
    THEN {"invalid countersignature"}
  ELSE {}

\* Mutant of WindowErrors: the day it expires is already too late.
WindowErrorsEarly(p, now) ==
  IF now = None THEN {}
  ELSE IF now = Unparseable THEN {"unreadable clock"}
  ELSE {x \in {"expired"} : p.expiresAt \in Int /\ p.expiresAt <= now}
         \cup {x \in {"unreadable expiresAt"} : p.expiresAt \notin Int}
         \cup {x \in {"unreadable notBefore"} : p.notBefore = Unparseable}
         \cup {x \in {"not yet valid"} : p.notBefore \in Int /\ now < p.notBefore}

\* The boundaries, when there is a clock.  An empty expiresAt cannot be read.
WindowErrors(p, now) ==
  IF now = None THEN {}
  ELSE IF now = Unparseable THEN {"unreadable clock"}
  ELSE {x \in {"expired"} : p.expiresAt \in Int /\ p.expiresAt < now}
         \cup {x \in {"unreadable expiresAt"} : p.expiresAt \notin Int}
         \cup {x \in {"unreadable notBefore"} : p.notBefore = Unparseable}
         \cup {x \in {"not yet valid"} : p.notBefore \in Int /\ now < p.notBefore}

\* The key that p names signed p as passportMap writes it.
HoldersSignature(p) == <<p.publicKey, PassportMap(p)>>

\* No check of VerifyPassport finds an error in the envelope e of passport p;
\* what is only warned of is left out.
NoErrors(e, p, o) ==
  /\ e.signature = HoldersSignature(p)
  /\ TrustErrors(e, o) = {}
  /\ WindowErrors(p, o.now) = {}
  /\ p.agentId # "" /\ p.publicKey # EmptyKey

\* VerifyPassport.  The early returns leave the flags at their zero values.
VerifyPassport(e, o) ==
  LET p == Decoded(e.passport)
      valid == NoErrors(e, p, o)
  IN IF e.signature = None \/ ~Canonical(p)
     THEN [valid |-> FALSE, issuerTrustChecked |-> FALSE,
           selfSignedAccepted |-> FALSE]
     ELSE [valid |-> valid,
           issuerTrustChecked |-> o.trustedIssuers # {},
           selfSignedAccepted |->
             o.trustedIssuers = {} /\ o.allowSelfSigned /\ valid]

\* Mutant of VerifyIssuerSignature: the named issuer is taken at its word.
VerifyAnyIssuer(e, issuer) ==
  /\ e.issuer # None
  /\ Canonical(Decoded(e.passport))
  /\ e.issuer.signature = <<e.issuer.publicKey, IssuerPayload(e)>>

\* VerifyIssuerSignature: the other implementation of the same check.
VerifyIssuerSignature(e, issuer) ==
  /\ e.issuer # None
  /\ e.issuer.publicKey = issuer
  /\ Canonical(Decoded(e.passport))
  /\ e.issuer.signature = <<issuer, IssuerPayload(e)>>

\* The key a map names, the empty string if it names none.
NamedKey(document) ==
  IF "publicKey" \in DOMAIN document THEN document.publicKey ELSE EmptyKey

\* Mutant of CheckPassportGate: the map is first read into the struct.
GateOfStruct(e) ==
  /\ e.signature # None
  /\ NamedKey(e.passport) # EmptyKey
  /\ e.signature = HoldersSignature(Decoded(e.passport))

\* commerce.CheckPassportGate: the map as it came, whatever members it has,
\* by the key in it.
CheckPassportGate(e) ==
  /\ e.signature # None
  /\ NamedKey(e.passport) # EmptyKey
  /\ e.signature = <<NamedKey(e.passport), e.passport>>

-----------------------------------------------------------------------------
PassportInit == signatures = {} /\ vouchers = {}

\* SignPassport, also the last step of CreatePassport.  The key that signs
\* need not be the one the passport names.
SignPassport(k, p) ==
  /\ Canonical(p)
  /\ Cardinality(signatures) < MaxSignatures
  /\ signatures' = signatures \cup {<<k, PassportMap(p)>>}
  /\ UNCHANGED vouchers

\* Another implementation signs a map as it is.
SignDocument(k, d) ==
  /\ Cardinality(signatures) < MaxSignatures
  /\ signatures' = signatures \cup {<<k, d>>}
  /\ UNCHANGED vouchers

\* CountersignPassport: an issuer vouches for whatever envelope it is given.
CountersignPassport(k, e) ==
  /\ Canonical(Decoded(e.passport))
  /\ Cardinality(vouchers) < MaxVouchers
  /\ vouchers' = vouchers \cup {<<k, IssuerPayload(e)>>}
  /\ UNCHANGED signatures

\* Another implementation countersigns an envelope with the map as it is.
CountersignDocument(k, e) ==
  /\ Cardinality(vouchers) < MaxVouchers
  /\ vouchers' = vouchers \cup {<<k, e>>}
  /\ UNCHANGED signatures

\* An envelope before its countersignature.
Signed ==
  [passport : Documents, signature : signatures \cup {None},
   signedAt : SignedAts]

PassportNext ==
  \E k \in Keys :
    \/ \E p \in Passports : SignPassport(k, p)
    \/ \E d \in Documents : SignDocument(k, d)
    \/ \E e \in Signed : CountersignPassport(k, e) \/ CountersignDocument(k, e)

PassportSpec == PassportInit /\ [][PassportNext]_passportVars

-----------------------------------------------------------------------------
InWindow(p, now) ==
  now = None \/ /\ now \in Int /\ p.expiresAt \in Int /\ now <= p.expiresAt
                /\ p.notBefore = None \/ (p.notBefore \in Int /\ p.notBefore <= now)

\* The voucher that makes an envelope good: over this passport, the signature
\* of the key the passport names, and this stamp.
Voucher(k, e) ==
  LET p == Decoded(e.passport)
  IN <<k, [passport |-> PassportMap(p), signature |-> HoldersSignature(p),
           signedAt |-> e.signedAt]>>

\* However an envelope was put together, VerifyPassport calls it valid only if
\* the key the passport names signed this passport, it is in its window, and a
\* trusted issuer countersigned exactly this passport with this signature;
\* with no trusted issuer only on the caller's opt-in, and then it says so.
\* And a passport its holder signed and an issuer then countersigned is
\* accepted by every verifier that trusts the issuer, at every instant of its
\* window, both ends included.
ValidIsVouchedFor ==
  /\ \A e \in Envelope, o \in VerifyPassportOptions :
       LET p == Decoded(e.passport)
           r == VerifyPassport(e, o)
       IN r.valid =>
            /\ HoldersSignature(p) \in signatures
            /\ InWindow(p, o.now)
            /\ IF o.trustedIssuers = {}
               THEN o.allowSelfSigned /\ r.selfSignedAccepted
               ELSE /\ \E k \in o.trustedIssuers : Voucher(k, e) \in vouchers
                    /\ r.issuerTrustChecked /\ ~r.selfSignedAccepted
  /\ \A v \in vouchers, o \in VerifyPassportOptions :
       LET e == [passport |-> v[2].passport, signature |-> v[2].signature,
                 signedAt |-> v[2].signedAt,
                 issuer |-> [publicKey |-> v[1], signature |-> v]]
           p == Decoded(e.passport)
       IN /\ v = Voucher(v[1], e) /\ Canonical(p)
          /\ p.publicKey # EmptyKey /\ p.agentId # ""
          /\ v[1] \in o.trustedIssuers /\ InWindow(p, o.now)
          => VerifyPassport(e, o).valid

\* Naming one more issuer never turns a valid passport invalid, and once an
\* issuer is named AllowSelfSigned changes nothing ("this flag does not rescue
\* a failed one").
TrustOnlyAdds ==
  \A e \in Envelope, o \in VerifyPassportOptions :
    (o.trustedIssuers # {} /\ VerifyPassport(e, o).valid) =>
      /\ VerifyPassport(e, [o EXCEPT !.allowSelfSigned = ~@]).valid
      /\ \A k \in Keys :
           VerifyPassport(e, [o EXCEPT !.trustedIssuers = @ \cup {k}]).valid

\* VerifyPassport on the holder's word.
OnItsWord(e, now) ==
  VerifyPassport(e, [trustedIssuers |-> {}, now |-> now,
                     allowSelfSigned |-> TRUE]).valid

\* The issuer's countersignature is checked by two functions that agree:
\* VerifyPassport with one trusted issuer accepts what VerifyIssuerSignature
\* confirms for that issuer and VerifyPassport accepts on the holder's word.
IssuerChecksAgree ==
  \A e \in Envelope, k \in Keys, now \in Clocks :
    VerifyPassport(e, [trustedIssuers |-> {k}, now |-> now,
                       allowSelfSigned |-> FALSE]).valid
    <=> VerifyIssuerSignature(e, k) /\ OnItsWord(e, now)

\* Nothing is lost when a document is read into the struct and written by
\* passportMap.
Rebuilt(d) == Canonical(Decoded(d)) /\ PassportMap(Decoded(d)) = d

\* The holder's signature is checked in two packages, here over the map that
\* passportMap rebuilds and there over the map that came.  For a named holder
\* and without a clock the two agree about every document the rebuilding
\* leaves as it is, and never both accept another, so that a member only one
\* of them reads is never part of a passport both let through.  And a
\* passport SignPassport signed, sent as the struct is written, passes
\* VerifyPassport; it passes the gate too exactly if no slice in it was nil,
\* since null is not the empty list that was signed.
GateAgreesOnRebuilt ==
  /\ \A e \in Envelope :
       IF Rebuilt(e.passport)
       THEN OnItsWord(e, None)
              <=> CheckPassportGate(e) /\ Decoded(e.passport).agentId # ""
       ELSE ~ (OnItsWord(e, None) /\ CheckPassportGate(e))
  /\ \A p \in Passports, at \in SignedAts :
       LET e == [passport |-> Encoded(p), signature |-> HoldersSignature(p),
                 signedAt |-> at, issuer |-> None]
       IN /\ HoldersSignature(p) \in signatures /\ Canonical(p)
          /\ p.publicKey # EmptyKey /\ p.agentId # ""
          => OnItsWord(e, None) /\ (CheckPassportGate(e) <=> p.models # "nil")
=============================================================================
