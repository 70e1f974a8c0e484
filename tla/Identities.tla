----------------------------- MODULE Identities ----------------------------
(***************************************************************************)
(* What the passport package's two halves, envelopes and challenges, share.*)
(***************************************************************************)

CONSTANTS
  Keys,            \* key pairs, each named by its public key
  None,            \* an empty string, a nil pointer; nothing
  Unparseable      \* a non-empty string that is no RFC 3339 instant
=============================================================================
