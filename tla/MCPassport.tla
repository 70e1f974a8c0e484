----------------------------- MODULE MCPassport ----------------------------
(***************************************************************************)
(* Two keys, each holder and issuer.  The passports differ in the key they *)
(* name, in both ends of the window around the clocks 1 and 2, and in what *)
(* is missing; the last two documents are not as passportMap writes them:  *)
(* one has an empty notBefore spelled out, an unknown member and a slice   *)
(* sent as null, the other no capabilities at all.  One countersignature   *)
(* and two signatures are enough for a passport signed again, or           *)
(* countersigned over another key's signature.                             *)
(***************************************************************************)
EXTENDS Passport, TLC

CONSTANTS a, b

Base == [publicKey |-> a, agentId |-> "agent", capabilities |-> "some",
         models |-> "empty", expiresAt |-> 1, content |-> "x"]

Without(document, f) == [g \in DOMAIN document \ {f} |-> document[g]]

MCDocuments ==
  {Base,
   [Base EXCEPT !.publicKey = b, !.expiresAt = 2] @@ ("notBefore" :> 2),
   [Base EXCEPT !.agentId = ""] @@ ("notBefore" :> Unparseable),
   [Base EXCEPT !.publicKey = EmptyKey, !.expiresAt = None],
   [Base EXCEPT !.models = "nil"] @@ ("notBefore" :> None) @@ ("role" :> "admin"),
   Without(Base, "capabilities")}

MCClocks == {1, 2, None, Unparseable}
=============================================================================
