---------------------------- MODULE FloorGround ----------------------------
(***************************************************************************)
(* values.go: the attestation in which an agent recognizes a version of    *)
(* the floor, and the common ground of two agents.  A version is its major *)
(* and minor number, Null when empty; an empty time is Null.               *)
(***************************************************************************)
EXTENDS Signatures, Integers, SequencesExt

\* buildCommitment: version, extensions in order, time.
BuildCommitment(body) ==
  [floor |-> body.floorVersion,
   ext |-> SortSeq(body.extensions, LAMBDA x, y : x < y),
   ts |-> body.attestedAt]

AttestFloor(body, privateKey) ==
  LET attested == [body EXCEPT !.commitment = BuildCommitment(body)]
  IN [body |-> attested, signature |-> Sign(privateKey, attested)]

\* timeLess as VerifyAttestation reads it: a stated expiry is readable and not
\* before now; without an expiry or without a clock nothing is checked.
ExpiryHolds(expiresAt, now) ==
  expiresAt # Null /\ now # Null
    => expiresAt # Malformed /\ expiresAt >= now

\* VerifyAttestation, under the key the attestation itself names.
VerifyAttestation(att, now) ==
  /\ Verifies(att.signature, att.body, att.body.publicKey)
  /\ ExpiryHolds(att.body.expiresAt, now)
  /\ att.body.floorVersion # Null

\* majorVersion; the empty version is its own.
MajorVersion(v) == IF v = Null THEN Null ELSE v.major

\* Mutant of Current: it ends with the instant it states.
CurrentBefore(att, now) ==
  att.body.expiresAt # Null /\ now # Null
    => att.body.expiresAt # Malformed /\ att.body.expiresAt > now

\* The loop of NegotiateCommonGround over both sides.
Current(att, now) ==
  att.body.expiresAt # Null /\ now # Null
    => att.body.expiresAt # Malformed /\ att.body.expiresAt >= now

\* The extensions of the second side that the first has too, in order.
SharedExtensions(extA, extB) ==
  LET shared[n \in 0..Len(extB)] ==
        IF n = 0 THEN << >>
        ELSE IF extB[n] \in Range(extA) THEN Append(shared[n - 1], extB[n])
        ELSE shared[n - 1]
  IN shared[Len(extB)]

\* NegotiateCommonGround.  It reads no signature.
NegotiateCommonGround(attA, attB, now) ==
  LET same == MajorVersion(attA.body.floorVersion)
                = MajorVersion(attB.body.floorVersion)
  IN [floorVersion |-> IF same THEN attA.body.floorVersion ELSE Null,
      sharedExtensions |-> SharedExtensions(attA.body.extensions, attB.body.extensions),
      compatible |-> Current(attA, now) /\ Current(attB, now) /\ same]
=============================================================================
