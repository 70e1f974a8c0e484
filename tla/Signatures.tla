----------------------------- MODULE Signatures ----------------------------
(***************************************************************************)
(* Signatures and hashes as free constructors: a signature is the term     *)
(* that names its key and what was signed, a hash the term that names what *)
(* was hashed.  Nobody makes one but by calling the functions below, and   *)
(* two of them are equal only if they were made from the same.  A payload  *)
(* is a record; canonical JSON is one text per value, so the record stands *)
(* for the text, and a payload that has a field tag for the text behind    *)
(* that tag and a zero byte, which is not JSON.                            *)
(***************************************************************************)

CONSTANTS
  Null,            \* a nil pointer, an empty string
  Malformed,       \* what the code's patterns and layouts do not accept
  Error            \* no result but an error

\* keys.Sign, keys.SignArtifact, keys.SignCanonical.
Sign(key, payload) == [key |-> key, payload |-> payload]

\* keys.Verify, verify.VerifyEd25519, verify.VerifyCanonicalSignature.
Verifies(signature, payload, key) == signature = Sign(key, payload)

\* jcs.CanonicalHash, and SHA-256 of a canonical text.
CanonicalHash(value) == [sha256 |-> value]
=============================================================================
