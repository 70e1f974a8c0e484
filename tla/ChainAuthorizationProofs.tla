---------------------- MODULE ChainAuthorizationProofs ----------------------
(***************************************************************************)
(* The authorization decision for chains of every length, every request    *)
(* and every interleaving with the clock and with revocations.             *)
(***************************************************************************)
EXTENDS ChainAuthorization, TLAPS

\* The type of what a request holds.
LEMMA RequestFields ==
  ASSUME NEW r \in Request
  PROVE  /\ r.chain \in Seq(Link) /\ Len(r.chain) \in Nat
         /\ r.maxDepth \in Int \cup {None} /\ r.now \in Timestamp
         /\ r.authorize \in BOOLEAN /\ r.resolver \in BOOLEAN
         /\ r.trustedRoots \subseteq Principals
         /\ \A i \in 1..Len(r.chain) : r.chain[i] \in Link
  <1>1. r.chain \in Seq(Link)
    BY DEF Request
  <1>2. QED
    BY <1>1 DEF Request

\* Once revoked, revoked for good: publishing more records keeps a link
\* revoked.
LEMMA RevokedStays ==
  ASSUME NEW link, NEW old, NEW new, old \subseteq new, RevokedBy(link, old)
  PROVE  RevokedBy(link, new)
  BY DEF RevokedBy

\* The evaluation time never runs backwards.
LEMMA EvaluationTimeMonotone ==
  ASSUME NEW r \in Request, r.now # Unparseable,
         NEW s \in Int, NEW t \in Int, s <= t
  PROVE  /\ EvaluationTime(r, s) \in Int /\ EvaluationTime(r, t) \in Int
         /\ EvaluationTime(r, s) <= EvaluationTime(r, t)
  <1>1. r.now \in Timestamp
    BY RequestFields
  <1>2. QED
    BY <1>1 DEF EvaluationTime, Timestamp

\* A chain that holds at an instant held at every earlier one.
LEMMA HeldBefore ==
  ASSUME NEW c, NEW s \in Int, NEW t \in Int, s <= t, HoldsAt(c, t)
  PROVE  HoldsAt(c, s)
  BY DEF HoldsAt

\* What is sound, or authorized, in the end was so from the start: the two
\* things that move, the clock and the set of records, only take away.
LEMMA SoundBefore ==
  ASSUME NEW r \in Request, NEW s \in Int, NEW t \in Int, s <= t,
         SoundAt(r, EvaluationTime(r, t))
  PROVE  SoundAt(r, EvaluationTime(r, s))
  <1>1. r.now # Unparseable
    BY DEF SoundAt
  <1>2. /\ EvaluationTime(r, s) \in Int /\ EvaluationTime(r, t) \in Int
        /\ EvaluationTime(r, s) <= EvaluationTime(r, t)
    BY <1>1, EvaluationTimeMonotone
  <1>3. HoldsAt(r.chain, EvaluationTime(r, s))
    BY <1>2, HeldBefore DEF SoundAt
  <1>4. QED
    BY <1>3 DEF SoundAt

\* The same for a request to authorize.
LEMMA AuthorizedBefore ==
  ASSUME NEW r \in Request, NEW s \in Int, NEW t \in Int, s <= t,
         NEW old, NEW new, old \subseteq new,
         AuthorizedAt(r, EvaluationTime(r, t), new)
  PROVE  AuthorizedAt(r, EvaluationTime(r, s), old)
  <1>1. SoundAt(r, EvaluationTime(r, s))
    BY SoundBefore DEF AuthorizedAt
  <1>2. \A i \in 1..Len(r.chain) : ~RevokedBy(r.chain[i], old)
    BY RevokedStays DEF AuthorizedAt
  <1>3. QED
    BY <1>1, <1>2 DEF AuthorizedAt

-----------------------------------------------------------------------------
\* What the loop of ValidateChainStructure has established of the first n
\* links at instant t.
Checked(c, n, t) ==
  /\ \A i \in 1..n : c[i].notAfter \in Int /\ t <= c[i].notAfter
  /\ \A i \in 1..n : c[i].signature = c[i].delegator
  /\ \A i \in 2..n : c[i].signature = c[i-1].delegatee
  /\ \A i, j \in 1..n : i < j => c[j].categories \subseteq c[i].categories

\* One more link that passes extends what was established, and the new link's
\* categories lie within those of every ancestor.
LEMMA CheckedExtends ==
  ASSUME NEW c \in Seq(Link), NEW n \in 1..Len(c), NEW t \in Int,
         Checked(c, n - 1, t), LinkRefusal(c, n, t) = "none"
  PROVE  Checked(c, n, t)
  <1>1. /\ c[n].notAfter \in Int /\ t <= c[n].notAfter
        /\ c[n].signature = c[n].delegator
    <2>1. c[n] \in Link
      OBVIOUS
    <2>2. c[n].notAfter \in Timestamp
      BY <2>1 DEF Link
    <2>3. /\ c[n].notAfter \notin {None, Unparseable}
          /\ ~(c[n].notAfter < t) /\ Authentic(c[n])
      BY DEF LinkRefusal
    <2>4. QED
      BY <2>2, <2>3 DEF Timestamp, Authentic
  <1>2. n > 1 => /\ c[n].delegator = c[n-1].delegatee
                 /\ c[n].categories \subseteq c[n-1].categories
    <2>1. n > 1 => ContinuityRefusal(c[n-1], c[n]) = "none"
      BY DEF LinkRefusal
    <2>2. QED
      BY <2>1 DEF ContinuityRefusal, ScopeExpands
  <1>3. \A i \in 1..n : c[i].notAfter \in Int /\ t <= c[i].notAfter
    BY <1>1 DEF Checked
  <1>4. \A i \in 1..n : c[i].signature = c[i].delegator
    BY <1>1 DEF Checked
  <1>5. \A i \in 2..n : c[i].signature = c[i-1].delegatee
    BY <1>1, <1>2 DEF Checked
  <1>6. ASSUME NEW i \in 1..n, NEW j \in 1..n, i < j
        PROVE  c[j].categories \subseteq c[i].categories
    <2>1. CASE j < n
      BY <1>6, <2>1 DEF Checked
    <2>2. CASE j = n /\ i = n - 1
      BY <1>2, <1>6, <2>2
    <2>3. CASE j = n /\ i < n - 1
      <3>1. c[n-1].categories \subseteq c[i].categories
        BY <1>6, <2>3 DEF Checked
      <3>2. QED
        BY <1>2, <1>6, <2>3, <3>1
    <2>4. QED
      BY <1>6, <2>1, <2>2, <2>3
  <1>7. QED
    BY <1>3, <1>4, <1>5, <1>6 DEF Checked

\* No link of a chain that holds is refused.
LEMMA HoldsPasses ==
  ASSUME NEW c \in Seq(Link), NEW n \in 1..Len(c), NEW t \in Int, HoldsAt(c, t)
  PROVE  LinkRefusal(c, n, t) = "none"
  <1>1. c[n].signature \in Keys \cup {None} /\ c[n].delegator \in Principals
    <2>1. c[n] \in Link
      OBVIOUS
    <2>2. QED
      BY <2>1 DEF Link
  <1>2. c[n].notAfter \in Int /\ t <= c[n].notAfter
    BY DEF HoldsAt
  <1>3. /\ c[n].signature = c[n].delegator
        /\ n > 1 => c[n].signature = c[n-1].delegatee
    BY DEF HoldsAt
  <1>4. c[n].signature # None /\ c[n].signature # EmptyKey
    BY <1>1, <1>3, AuthorizationAssumption DEF Principals
  <1>5. n > 1 => c[n].categories \subseteq c[n-1].categories
    <2>1. n > 1 => n - 1 \in 1..Len(c) /\ n - 1 < n
      OBVIOUS
    <2>2. QED
      BY <2>1 DEF HoldsAt
  <1>6. Authentic(c[n])
    BY <1>3, <1>4 DEF Authentic
  <1>7. n > 1 => ContinuityRefusal(c[n-1], c[n]) = "none"
    BY <1>3, <1>4, <1>5 DEF ContinuityRefusal, ScopeExpands
  <1>8. c[n].notAfter \notin {None, Unparseable} /\ ~(c[n].notAfter < t)
    BY <1>2, AuthorizationAssumption
  <1>9. QED
    BY <1>6, <1>7, <1>8 DEF LinkRefusal

\* A request refused before the loop is sound at no instant.
LEMMA InputRefusalMeans ==
  ASSUME NEW r \in Request, NEW t, InputRefusal(r) # "none"
  PROVE  ~SoundAt(r, t)
  <1>1. r.maxDepth \in Int \cup {None} /\ Len(r.chain) \in Nat
    BY RequestFields
  <1>2. QED
    BY <1>1 DEF InputRefusal, SoundAt, HoldsAt

\* A request without a trusted root is authorized at no instant.
LEMMA RootRefusalMeans ==
  ASSUME NEW r \in Request, NEW t, NEW records, RootRefusal(r) # "none"
  PROVE  ~AuthorizedAt(r, t, records)
  <1> SUFFICES ASSUME AuthorizedAt(r, t, records) PROVE FALSE
    OBVIOUS
  <1>1. HoldsAt(r.chain, t) /\ r.chain[1].signature \in r.trustedRoots
    BY DEF AuthorizedAt, SoundAt
  <1>2. r.chain # << >> /\ 1 \in 1..Len(r.chain) /\ r.chain[1] \in Link
    BY <1>1, RequestFields DEF HoldsAt
  <1>3. r.chain[1].signature = r.chain[1].delegator
    BY <1>1, <1>2 DEF HoldsAt
  <1>4. r.chain[1].signature \in Keys
    BY <1>2, <1>3, AuthorizationAssumption DEF Link, Principals
  <1>5. QED
    BY <1>1, <1>2, <1>3, <1>4, AuthorizationAssumption DEF RootRefusal

-----------------------------------------------------------------------------
\* The clock and the records have only moved on since the call was made.
Elapsed ==
  stage # "idle" =>
    began.clock <= clock /\ began.revocations \subseteq revocations

\* Nothing has been answered before the call is over.
Unanswered == stage # "done" => token = ZeroToken /\ code = "none"

\* What the call has established when it reaches each of its stages.
Admitted ==
  /\ stage \in {"idle", "structure"} => next = 1
  /\ stage \in {"structure", "links", "revocation"} =>
       (request.authorize => RootRefusal(request) = "none")

InputRead ==
  stage \in {"links", "revocation"} =>
    /\ InputRefusal(request) = "none"
    /\ nowMs \in Int
    /\ EvaluationTime(request, began.clock) <= nowMs
    /\ nowMs <= EvaluationTime(request, clock)

Walked ==
  /\ stage = "links" => Checked(request.chain, next - 1, nowMs)
  /\ stage = "revocation" =>
       /\ request.authorize /\ request.resolver
       /\ Checked(request.chain, Len(request.chain), nowMs)
       /\ \A i \in 1..next - 1 :
            ~RevokedBy(request.chain[i], began.revocations)

Verdicts ==
  TokenProvesAuthorization /\ StructuralPassIsSound /\ RefusalsJustified

IInv ==
  /\ TypeOK /\ Elapsed /\ Unanswered /\ Admitted /\ InputRead /\ Walked
  /\ Verdicts

\* What the invariant says of a call under way.
LEMMA UnderWay ==
  ASSUME IInv, stage # "idle"
  PROVE  /\ request \in Request /\ request.chain \in Seq(Link)
         /\ Len(request.chain) \in Nat /\ next \in 1..Len(request.chain) + 1
         /\ clock \in Int /\ began.clock \in Int /\ began.clock <= clock
         /\ began.revocations \subseteq revocations
         /\ request.authorize \in BOOLEAN /\ request.resolver \in BOOLEAN
  <1>1. request \in Request
    BY AuthorizationAssumption DEF IInv, TypeOK
  <1>2. QED
    BY <1>1, RequestFields, AuthorizationAssumption DEF IInv, TypeOK, Elapsed

\* A chain whose loop is over was sound when the call was made.
LEMMA LoopOver ==
  ASSUME IInv, stage \in {"links", "revocation"},
         Checked(request.chain, Len(request.chain), nowMs)
  PROVE  SoundAt(request, EvaluationTime(request, began.clock))
  <1>1. /\ request \in Request /\ began.clock \in Int
        /\ Len(request.chain) \in Nat
    BY UnderWay
  <1>2. InputRefusal(request) = "none" /\ nowMs \in Int
        /\ EvaluationTime(request, began.clock) <= nowMs
    BY DEF IInv, InputRead
  <1>3. /\ request.chain # << >> /\ request.now # Unparseable
        /\ request.maxDepth = None \/ Len(request.chain) <= request.maxDepth
    <2>1. request.maxDepth \in Int \cup {None}
      BY <1>1, RequestFields
    <2>2. QED
      BY <1>1, <1>2, <2>1 DEF InputRefusal
  <1>4. HoldsAt(request.chain, nowMs)
    BY <1>3 DEF HoldsAt, Checked
  <1>5. EvaluationTime(request, began.clock) \in Int
    BY <1>1, <1>3, EvaluationTimeMonotone
  <1>6. HoldsAt(request.chain, EvaluationTime(request, began.clock))
    BY <1>2, <1>4, <1>5, HeldBefore
  <1>7. QED
    BY <1>3, <1>6 DEF SoundAt

\* The initial state satisfies the invariant.
LEMMA InitIInv == Init => IInv
  <1> SUFFICES ASSUME Init PROVE IInv
    OBVIOUS
  <1>1. TypeOK
    BY DEF Init, TypeOK, ZeroToken
  <1>2. Elapsed /\ Unanswered /\ Admitted /\ InputRead /\ Walked
    BY DEF Init, Elapsed, Unanswered, Admitted, InputRead, Walked
  <1>3. Verdicts
    BY DEF Init, ZeroToken, Verdicts, TokenProvesAuthorization,
           StructuralPassIsSound, RefusalsJustified
  <1>4. QED
    BY <1>1, <1>2, <1>3 DEF IInv

\* A call that ends in a refusal keeps the invariant when the refusal is
\* justified.
LEMMA RefusalIInv ==
  ASSUME IInv, NEW c \in Codes, Return(c),
         request' \in Requests,
         began' \in [clock : Times, revocations : SUBSET RevocationRecord],
         next' \in Nat, next' \in 1..Len(request'.chain) + 1, nowMs' = nowMs,
         clock' = clock, revocations' = revocations,
         began'.clock <= clock, began'.revocations \subseteq revocations,
         c # "revocation indeterminate" =>
           IF request'.authorize
           THEN ~AuthorizedAt(request', EvaluationTime(request', clock), revocations)
           ELSE ~SoundAt(request', EvaluationTime(request', clock))
  PROVE  IInv'
  <1>1. stage' = "done" /\ code' = c /\ token' = ZeroToken /\ c # "none"
    BY DEF Return, Codes
  <1>3. TypeOK'
    BY <1>1 DEF IInv, TypeOK, ZeroToken
  <1>4. Elapsed' /\ Unanswered' /\ Admitted' /\ InputRead' /\ Walked'
    BY <1>1 DEF Elapsed, Unanswered, Admitted, InputRead, Walked
  <1>5. TokenProvesAuthorization' /\ StructuralPassIsSound'
    BY <1>1 DEF ZeroToken, TokenProvesAuthorization, StructuralPassIsSound
  <1>6. RefusalsJustified'
    BY <1>1 DEF RefusalsJustified
  <1>7. QED
    BY <1>3, <1>4, <1>5, <1>6 DEF IInv, Verdicts

\* Call preserves the invariant.
LEMMA CallIInv ==
  ASSUME IInv, NEW r \in Requests, Call(r)
  PROVE  IInv'
  <1>1. /\ stage = "idle" /\ request' = r /\ next' = next /\ nowMs' = nowMs
        /\ clock' = clock /\ revocations' = revocations
        /\ began' = [clock |-> clock, revocations |-> revocations]
    BY DEF Call
  <1>2. /\ clock \in Times /\ clock \in Int /\ next = 1
        /\ revocations \subseteq RevocationRecord
        /\ r \in Request /\ Len(r.chain) \in Nat
    <2>1. r \in Request
      BY AuthorizationAssumption
    <2>2. QED
      BY <1>1, <2>1, RequestFields, AuthorizationAssumption
         DEF IInv, TypeOK, Admitted
  <1>3. /\ began' \in [clock : Times, revocations : SUBSET RevocationRecord]
        /\ began'.clock <= clock /\ began'.revocations \subseteq revocations
        /\ next' \in 1..Len(r.chain) + 1 /\ next' \in Nat
    BY <1>1, <1>2
  <1>4. CASE r.authorize /\ RootRefusal(r) # "none" /\ Return(RootRefusal(r))
    <2>1. RootRefusal(r) \in Codes
      BY <1>4 DEF RootRefusal, Codes
    <2>2. ~AuthorizedAt(r, EvaluationTime(r, clock), revocations)
      BY <1>2, <1>4, RootRefusalMeans
    <2>3. QED
      BY <1>1, <1>3, <1>4, <2>1, <2>2, RefusalIInv
  <1>5. CASE /\ r.authorize => RootRefusal(r) = "none"
             /\ stage' = "structure" /\ UNCHANGED <<code, token>>
    <2>1. TypeOK'
      BY <1>1, <1>2, <1>3, <1>5 DEF IInv, TypeOK
    <2>2. Elapsed' /\ Admitted'
      BY <1>1, <1>2, <1>3, <1>5 DEF Elapsed, Admitted
    <2>3. token' = ZeroToken /\ code' = "none"
      BY <1>1, <1>5 DEF IInv, Unanswered
    <2>4. Unanswered' /\ InputRead' /\ Walked' /\ Verdicts'
      BY <1>5, <2>3 DEF Unanswered, InputRead, Walked, Verdicts, ZeroToken,
         TokenProvesAuthorization, StructuralPassIsSound, RefusalsJustified
    <2>5. QED
      BY <2>1, <2>2, <2>4 DEF IInv
  <1>6. QED
    BY <1>4, <1>5 DEF Call

\* ReadInput preserves the invariant.
LEMMA ReadInputIInv ==
  ASSUME IInv, ReadInput
  PROVE  IInv'
  <1>1. /\ stage = "structure" /\ request' = request /\ next' = next
        /\ clock' = clock /\ revocations' = revocations /\ began' = began
    BY DEF ReadInput
  <1>2. /\ request \in Request /\ Len(request.chain) \in Nat
        /\ clock \in Int /\ began.clock \in Int /\ began.clock <= clock
        /\ next \in 1..Len(request.chain) + 1
        /\ began.revocations \subseteq revocations
    BY <1>1, UnderWay
  <1>3. /\ request \in Requests /\ next = 1
        /\ began \in [clock : Times, revocations : SUBSET RevocationRecord]
    BY <1>1 DEF IInv, TypeOK, Admitted
  <1>4. CASE InputRefusal(request) # "none"
    <2>1. InputRefusal(request) \in Codes
      BY <1>4 DEF InputRefusal, Codes
    <2>2. Return(InputRefusal(request)) /\ nowMs' = nowMs
      BY <1>4 DEF ReadInput
    <2>3. ~SoundAt(request, EvaluationTime(request, clock))
      BY <1>2, <1>4, InputRefusalMeans
    <2>4. ~AuthorizedAt(request, EvaluationTime(request, clock), revocations)
      BY <2>3 DEF AuthorizedAt
    <2>5. QED
      BY <1>1, <1>2, <1>3, <2>1, <2>2, <2>3, <2>4, RefusalIInv
  <1>5. CASE InputRefusal(request) = "none"
    <2>1. /\ nowMs' = EvaluationTime(request, clock) /\ stage' = "links"
          /\ code' = code /\ token' = token
      BY <1>5 DEF ReadInput
    <2>2. request.now # Unparseable
      BY <1>5 DEF InputRefusal
    <2>3. /\ nowMs' \in Int /\ EvaluationTime(request, began.clock) <= nowMs'
          /\ nowMs' <= EvaluationTime(request, clock)
      BY <1>2, <2>1, <2>2, EvaluationTimeMonotone
    <2>4. TypeOK'
      BY <1>1, <2>1, <2>3 DEF IInv, TypeOK
    <2>5. InputRead'
      BY <1>1, <1>5, <2>3 DEF InputRead
    <2>6. Elapsed' /\ Admitted'
      BY <1>1, <2>1 DEF IInv, Elapsed, Admitted
    <2>7. Walked'
      BY <1>1, <1>3, <2>1 DEF Walked, Checked
    <2>8. token' = ZeroToken /\ code' = "none"
      BY <1>1, <2>1 DEF IInv, Unanswered
    <2>9. Unanswered' /\ Verdicts'
      BY <2>1, <2>8 DEF Unanswered, Verdicts, ZeroToken,
         TokenProvesAuthorization, StructuralPassIsSound, RefusalsJustified
    <2>10. QED
      BY <2>4, <2>5, <2>6, <2>7, <2>9 DEF IInv
  <1>6. QED
    BY <1>4, <1>5

\* CheckLink preserves the invariant.
LEMMA CheckLinkIInv ==
  ASSUME IInv, CheckLink
  PROVE  IInv'
  <1>1. /\ stage = "links" /\ request' = request /\ nowMs' = nowMs
        /\ clock' = clock /\ revocations' = revocations /\ began' = began
        /\ next <= Len(request.chain)
    BY DEF CheckLink
  <1>2. /\ request \in Request /\ Len(request.chain) \in Nat
        /\ request.chain \in Seq(Link)
        /\ clock \in Int /\ began.clock \in Int /\ began.clock <= clock
        /\ next \in 1..Len(request.chain) + 1
        /\ began.revocations \subseteq revocations
    BY <1>1, UnderWay
  <1>3. /\ request \in Requests /\ nowMs \in Int
        /\ began \in [clock : Times, revocations : SUBSET RevocationRecord]
        /\ next \in 1..Len(request.chain) /\ next \in Nat
        /\ InputRefusal(request) = "none"
        /\ nowMs <= EvaluationTime(request, clock)
    BY <1>1, <1>2 DEF IInv, TypeOK, InputRead
  <1>4. CASE LinkRefusal(request.chain, next, nowMs) # "none"
    <2>1. LinkRefusal(request.chain, next, nowMs) \in Codes
      BY <1>4 DEF LinkRefusal, ContinuityRefusal, Codes
    <2>2. Return(LinkRefusal(request.chain, next, nowMs)) /\ next' = next
      BY <1>4 DEF CheckLink
    <2>3. ~HoldsAt(request.chain, nowMs)
      BY <1>2, <1>3, <1>4, HoldsPasses
    <2>4. EvaluationTime(request, clock) \in Int
      <3>1. request.now # Unparseable
        BY <1>3 DEF InputRefusal
      <3>2. QED
        BY <1>2, <3>1, EvaluationTimeMonotone
    <2>5. ~HoldsAt(request.chain, EvaluationTime(request, clock))
      BY <1>3, <2>3, <2>4, HeldBefore
    <2>6. /\ ~SoundAt(request, EvaluationTime(request, clock))
          /\ ~AuthorizedAt(request, EvaluationTime(request, clock), revocations)
      BY <2>5 DEF SoundAt, AuthorizedAt
    <2>7. QED
      BY <1>1, <1>2, <1>3, <2>1, <2>2, <2>6, RefusalIInv
  <1>5. CASE LinkRefusal(request.chain, next, nowMs) = "none"
    <2>1. /\ next' = next + 1 /\ stage' = "links"
          /\ code' = code /\ token' = token
      BY <1>1, <1>5 DEF CheckLink
    <2>2. Checked(request.chain, next - 1, nowMs)
      BY <1>1 DEF IInv, Walked
    <2>3. Checked(request.chain, next, nowMs)
      BY <1>2, <1>3, <1>5, <2>2, CheckedExtends
    <2>4. TypeOK'
      <3>1. next' \in 1..Len(request.chain) + 1 /\ next' \in Nat
        BY <1>2, <1>3, <2>1
      <3>2. QED
        BY <1>1, <2>1, <3>1 DEF IInv, TypeOK
    <2>5. Walked'
      <3>1. next' - 1 = next
        BY <1>3, <2>1
      <3>2. QED
        BY <1>1, <2>1, <2>3, <3>1 DEF Walked
    <2>6. Elapsed' /\ Admitted' /\ InputRead'
      BY <1>1, <2>1 DEF IInv, Elapsed, Admitted, InputRead
    <2>7. token' = ZeroToken /\ code' = "none"
      BY <1>1, <2>1 DEF IInv, Unanswered
    <2>8. Unanswered' /\ Verdicts'
      BY <2>1, <2>7 DEF Unanswered, Verdicts, ZeroToken,
         TokenProvesAuthorization, StructuralPassIsSound, RefusalsJustified
    <2>9. QED
      BY <2>4, <2>5, <2>6, <2>8 DEF IInv
  <1>6. QED
    BY <1>4, <1>5

\* EndStructure preserves the invariant.
LEMMA EndStructureIInv ==
  ASSUME IInv, EndStructure
  PROVE  IInv'
  <1>1. /\ stage = "links" /\ request' = request /\ nowMs' = nowMs
        /\ clock' = clock /\ revocations' = revocations /\ began' = began
        /\ next > Len(request.chain)
    BY DEF EndStructure
  <1>2. /\ request \in Request /\ Len(request.chain) \in Nat
        /\ began.clock <= clock /\ next \in 1..Len(request.chain) + 1
        /\ began.revocations \subseteq revocations
    BY <1>1, UnderWay
  <1>3. /\ request \in Requests /\ next \in Nat
        /\ began \in [clock : Times, revocations : SUBSET RevocationRecord]
    BY <1>1 DEF IInv, TypeOK
  <1>4. Checked(request.chain, Len(request.chain), nowMs)
    <2>1. next - 1 = Len(request.chain)
      BY <1>1, <1>2
    <2>2. QED
      BY <1>1, <2>1 DEF IInv, Walked
  <1>5. CASE ~request.authorize /\ Return("none") /\ UNCHANGED next
    <2>1. stage' = "done" /\ code' = "none" /\ token' = ZeroToken /\ next' = next
      BY <1>5 DEF Return
    <2>2. SoundAt(request, EvaluationTime(request, began.clock))
      BY <1>1, <1>4, LoopOver
    <2>3. TypeOK'
      BY <1>1, <2>1 DEF IInv, TypeOK, ZeroToken
    <2>4. Elapsed' /\ Unanswered' /\ Admitted' /\ InputRead' /\ Walked'
      BY <1>1, <2>1 DEF IInv, Elapsed, Unanswered, Admitted, InputRead, Walked
    <2>5. Verdicts'
      BY <1>1, <2>1, <2>2 DEF Verdicts, ZeroToken, TokenProvesAuthorization,
         StructuralPassIsSound, RefusalsJustified
    <2>6. QED
      BY <2>3, <2>4, <2>5 DEF IInv
  <1>6. CASE Return("revocation indeterminate") /\ UNCHANGED next
    BY <1>1, <1>2, <1>3, <1>6, RefusalIInv DEF Codes
  <1>7. CASE /\ request.authorize /\ request.resolver
             /\ stage' = "revocation" /\ next' = 1 /\ UNCHANGED <<code, token>>
    <2>1. TypeOK'
      <3>1. next' \in 1..Len(request.chain) + 1 /\ next' \in Nat
        BY <1>2, <1>7
      <3>2. QED
        BY <1>1, <1>7, <3>1 DEF IInv, TypeOK
    <2>2. Walked'
      BY <1>1, <1>4, <1>7 DEF Walked
    <2>3. Elapsed' /\ Admitted' /\ InputRead'
      BY <1>1, <1>7 DEF IInv, Elapsed, Admitted, InputRead
    <2>4. token' = ZeroToken /\ code' = "none"
      BY <1>1, <1>7 DEF IInv, Unanswered
    <2>5. Unanswered' /\ Verdicts'
      BY <1>7, <2>4 DEF Unanswered, Verdicts, ZeroToken,
         TokenProvesAuthorization, StructuralPassIsSound, RefusalsJustified
    <2>6. QED
      BY <2>1, <2>2, <2>3, <2>5 DEF IInv
  <1>8. QED
    BY <1>5, <1>6, <1>7 DEF EndStructure

\* ResolverUnknown preserves the invariant.
LEMMA ResolverUnknownIInv ==
  ASSUME IInv, ResolverUnknown
  PROVE  IInv'
  <1>1. /\ stage = "revocation" /\ Return("revocation indeterminate")
        /\ UNCHANGED <<clock, revocations, request, next, nowMs, began>>
    BY DEF ResolverUnknown
  <1>2. /\ began.clock <= clock /\ next \in 1..Len(request.chain) + 1
        /\ began.revocations \subseteq revocations
    BY <1>1, UnderWay
  <1>3. /\ request \in Requests /\ next \in Nat
        /\ began \in [clock : Times, revocations : SUBSET RevocationRecord]
    BY <1>1 DEF IInv, TypeOK
  <1>4. QED
    BY <1>1, <1>2, <1>3, RefusalIInv DEF Codes

\* ResolverAnswers preserves the invariant.
LEMMA ResolverAnswersIInv ==
  ASSUME IInv, ResolverAnswers
  PROVE  IInv'
  <1>1. /\ stage = "revocation" /\ request' = request /\ nowMs' = nowMs
        /\ clock' = clock /\ revocations' = revocations /\ began' = began
        /\ next <= Len(request.chain)
    BY DEF ResolverAnswers
  <1>2. /\ request \in Request /\ Len(request.chain) \in Nat
        /\ began.clock <= clock /\ next \in 1..Len(request.chain) + 1
        /\ began.revocations \subseteq revocations
    BY <1>1, UnderWay
  <1>3. /\ request \in Requests /\ next \in Nat
        /\ began \in [clock : Times, revocations : SUBSET RevocationRecord]
        /\ request.authorize /\ next \in 1..Len(request.chain)
    BY <1>1, <1>2 DEF IInv, TypeOK, Walked
  <1>4. CASE RevokedBy(request.chain[next], revocations)
    <2>1. Return("revoked") /\ next' = next
      BY <1>4 DEF ResolverAnswers
    <2>2. ~AuthorizedAt(request, EvaluationTime(request, clock), revocations)
      BY <1>3, <1>4 DEF AuthorizedAt
    <2>3. QED
      BY <1>1, <1>2, <1>3, <2>1, <2>2, RefusalIInv DEF Codes
  <1>5. CASE ~RevokedBy(request.chain[next], revocations)
    <2>1. /\ next' = next + 1 /\ stage' = "revocation"
          /\ code' = code /\ token' = token
      BY <1>1, <1>5 DEF ResolverAnswers
    <2>2. ~RevokedBy(request.chain[next], began.revocations)
      BY <1>2, <1>5, RevokedStays
    <2>3. \A i \in 1..next' - 1 :
            ~RevokedBy(request.chain[i], began.revocations)
      <3>1. \A i \in 1..next - 1 :
              ~RevokedBy(request.chain[i], began.revocations)
        BY <1>1 DEF IInv, Walked
      <3>2. \A i \in 1..next' - 1 : i = next \/ i \in 1..next - 1
        BY <1>3, <2>1
      <3>3. QED
        BY <2>2, <3>1, <3>2
    <2>4. TypeOK'
      <3>1. next' \in 1..Len(request.chain) + 1 /\ next' \in Nat
        BY <1>2, <1>3, <2>1
      <3>2. QED
        BY <1>1, <2>1, <3>1 DEF IInv, TypeOK
    <2>5. Walked'
      BY <1>1, <2>1, <2>3 DEF IInv, Walked
    <2>6. Elapsed' /\ Admitted' /\ InputRead'
      BY <1>1, <2>1 DEF IInv, Elapsed, Admitted, InputRead
    <2>7. token' = ZeroToken /\ code' = "none"
      BY <1>1, <2>1 DEF IInv, Unanswered
    <2>8. Unanswered' /\ Verdicts'
      BY <2>1, <2>7 DEF Unanswered, Verdicts, ZeroToken,
         TokenProvesAuthorization, StructuralPassIsSound, RefusalsJustified
    <2>9. QED
      BY <2>4, <2>5, <2>6, <2>8 DEF IInv
  <1>6. QED
    BY <1>4, <1>5

\* Authorize preserves the invariant.
LEMMA AuthorizeIInv ==
  ASSUME IInv, Authorize
  PROVE  IInv'
  <1>1. /\ stage = "revocation" /\ stage' = "done"
        /\ token' = [hops |-> Len(request.chain), revocationChecked |-> TRUE]
        /\ UNCHANGED <<clock, revocations, request, next, nowMs, code, began>>
        /\ next > Len(request.chain)
    BY DEF Authorize
  <1>2. /\ request \in Request /\ Len(request.chain) \in Nat
        /\ next \in 1..Len(request.chain) + 1
    BY <1>1, UnderWay
  <1>3. /\ request.authorize /\ request.resolver
        /\ Checked(request.chain, Len(request.chain), nowMs)
        /\ \A i \in 1..Len(request.chain) :
             ~RevokedBy(request.chain[i], began.revocations)
    <2>1. next - 1 = Len(request.chain)
      BY <1>1, <1>2
    <2>2. QED
      BY <1>1, <2>1 DEF IInv, Walked
  <1>4. SoundAt(request, EvaluationTime(request, began.clock))
    BY <1>1, <1>3, LoopOver
  <1>5. request.chain[1].signature \in request.trustedRoots
    <2>1. RootRefusal(request) = "none"
      BY <1>1, <1>3 DEF IInv, Admitted
    <2>2. request.chain # << >> /\ request.chain[1].delegator \in request.trustedRoots
      BY <2>1 DEF RootRefusal
    <2>3. 1 \in 1..Len(request.chain)
      BY <1>2, <2>2, RequestFields
    <2>4. QED
      BY <1>3, <2>2, <2>3 DEF Checked
  <1>6. AuthorizedAt(request, EvaluationTime(request, began.clock), began.revocations)
    BY <1>3, <1>4, <1>5 DEF AuthorizedAt
  <1>7. code' = "none" /\ token'.revocationChecked /\ token'.hops = Len(request.chain)
    BY <1>1 DEF IInv, Unanswered
  <1>8. TypeOK'
    BY <1>1, <1>2 DEF IInv, TypeOK
  <1>9. Elapsed' /\ Unanswered' /\ Admitted' /\ InputRead' /\ Walked'
    BY <1>1 DEF IInv, Elapsed, Unanswered, Admitted, InputRead, Walked
  <1>10. Verdicts'
    BY <1>1, <1>3, <1>6, <1>7 DEF Verdicts, TokenProvesAuthorization,
       StructuralPassIsSound, RefusalsJustified
  <1>11. QED
    BY <1>8, <1>9, <1>10 DEF IInv

\* The clock or the records moving on disturbs nothing the call has
\* established, and no answer it has given.
LEMMA EnvironmentIInv ==
  ASSUME IInv, UNCHANGED call, clock' \in Times, clock <= clock',
         revocations \subseteq revocations',
         revocations' \subseteq RevocationRecord
  PROVE  IInv'
  <1>1. UNCHANGED <<request, stage, next, nowMs, token, code, began>>
    BY DEF call
  <1>2. clock \in Int /\ clock' \in Int
    BY AuthorizationAssumption DEF IInv, TypeOK
  <1>3. TypeOK'
    BY <1>1 DEF IInv, TypeOK
  <1>4. Elapsed'
    <2>1. CASE stage = "idle"
      BY <1>1, <2>1 DEF Elapsed
    <2>2. CASE stage # "idle"
      <3>1. began.clock \in Int /\ began.clock <= clock
            /\ began.revocations \subseteq revocations
        BY <2>2, UnderWay
      <3>2. began.clock <= clock' /\ began.revocations \subseteq revocations'
        BY <1>2, <3>1
      <3>3. QED
        BY <1>1, <3>2 DEF Elapsed
    <2>3. QED
      BY <2>1, <2>2
  <1>5. InputRead'
    <2>1. CASE stage \in {"links", "revocation"}
      <3>1. request \in Request
        BY <2>1, UnderWay
      <3>2. /\ InputRefusal(request) = "none" /\ nowMs \in Int
            /\ EvaluationTime(request, began.clock) <= nowMs
            /\ nowMs <= EvaluationTime(request, clock)
        BY <2>1 DEF IInv, InputRead
      <3>3. request.now # Unparseable
        BY <3>2 DEF InputRefusal
      <3>4. /\ EvaluationTime(request, clock) \in Int
            /\ EvaluationTime(request, clock') \in Int
            /\ EvaluationTime(request, clock) <= EvaluationTime(request, clock')
        BY <1>2, <3>1, <3>3, EvaluationTimeMonotone
      <3>5. nowMs <= EvaluationTime(request, clock')
        BY <3>2, <3>4
      <3>6. QED
        BY <1>1, <3>2, <3>5 DEF InputRead
    <2>2. CASE stage \notin {"links", "revocation"}
      BY <1>1, <2>2 DEF InputRead
    <2>3. QED
      BY <2>1, <2>2
  <1>6. Unanswered' /\ Admitted' /\ Walked'
    BY <1>1 DEF IInv, Unanswered, Admitted, Walked
  <1>7. TokenProvesAuthorization' /\ StructuralPassIsSound'
    BY <1>1 DEF IInv, Verdicts, TokenProvesAuthorization, StructuralPassIsSound
  <1>8. RefusalsJustified'
    <2> SUFFICES ASSUME stage = "done",
                        code \notin {"none", "revocation indeterminate"}
                 PROVE  IF request.authorize
                        THEN ~AuthorizedAt(request, EvaluationTime(request, clock'), revocations')
                        ELSE ~SoundAt(request, EvaluationTime(request, clock'))
      BY <1>1 DEF RefusalsJustified
    <2>1. request \in Request
      BY UnderWay
    <2>2. IF request.authorize
          THEN ~AuthorizedAt(request, EvaluationTime(request, clock), revocations)
          ELSE ~SoundAt(request, EvaluationTime(request, clock))
      BY DEF IInv, Verdicts, RefusalsJustified
    <2>3. QED
      BY <1>2, <2>1, <2>2, AuthorizedBefore, SoundBefore
  <1>9. QED
    BY <1>3, <1>4, <1>5, <1>6, <1>7, <1>8 DEF IInv, Verdicts

\* CreateRevocation preserves the invariant.
LEMMA CreateRevocationIInv ==
  ASSUME IInv, NEW o \in Revocations, CreateRevocation(o)
  PROVE  IInv'
  <1>1. o \in CreateRevocationOptions
    BY AuthorizationAssumption
  <1>2. /\ revocations \subseteq revocations'
        /\ revocations' \subseteq RevocationRecord
    BY <1>1 DEF CreateRevocation, CreateRevocationOptions, RevocationRecord,
                IInv, TypeOK, Principals
  <1>3. UNCHANGED call /\ clock' = clock /\ clock \in Times /\ clock \in Int
    BY AuthorizationAssumption DEF CreateRevocation, IInv, TypeOK
  <1>4. QED
    BY <1>2, <1>3, EnvironmentIInv

\* Tick preserves the invariant.
LEMMA TickIInv ==
  ASSUME IInv, Tick
  PROVE  IInv'
  <1>1. /\ UNCHANGED call /\ revocations' = revocations
        /\ clock' \in Times /\ clock' > clock
    BY DEF Tick
  <1>2. /\ clock \in Int /\ clock' \in Int
        /\ revocations \subseteq RevocationRecord
    BY <1>1, AuthorizationAssumption DEF IInv, TypeOK
  <1>3. clock <= clock'
    BY <1>1, <1>2
  <1>4. QED
    BY <1>1, <1>2, <1>3, EnvironmentIInv

\* The conjunction of what each stage of the call has established is an
\* invariant.
THEOREM Inductive == Spec => []IInv
  <1>1. IInv /\ [Next]_vars => IInv'
    <2> SUFFICES ASSUME IInv, [Next]_vars PROVE IInv'
      OBVIOUS
    <2>1. CASE \E r \in Requests : Call(r)
      BY <2>1, CallIInv
    <2>2. CASE Step
      BY <2>2, ReadInputIInv, CheckLinkIInv, EndStructureIInv,
         ResolverUnknownIInv, ResolverAnswersIInv, AuthorizeIInv DEF Step
    <2>3. CASE \E o \in Revocations : CreateRevocation(o)
      BY <2>3, CreateRevocationIInv
    <2>4. CASE Tick
      BY <2>4, TickIInv
    <2>5. CASE UNCHANGED vars
      <3>1. /\ UNCHANGED call /\ clock' = clock /\ revocations' = revocations
            /\ clock \in Times /\ clock \in Int
            /\ revocations \subseteq RevocationRecord
        BY <2>5, AuthorizationAssumption DEF vars, IInv, TypeOK
      <3>2. QED
        BY <3>1, EnvironmentIInv
    <2>6. QED
      BY <2>1, <2>2, <2>3, <2>4, <2>5 DEF Next
  <1>2. QED
    BY <1>1, InitIInv, PTL DEF Spec

\* The walk stays inside the chain and answers with codes of the package.
THEOREM TypeCorrect == Spec => []TypeOK
  <1>1. IInv => TypeOK
    BY DEF IInv
  <1>2. QED
    BY <1>1, Inductive, PTL

\* A ChainAuthorization token proves that its chain was authorized in one
\* instant, the start of the call, whatever happened during the call.
THEOREM TokenIsProof == Spec => []TokenProvesAuthorization
  <1>1. IInv => TokenProvesAuthorization
    BY DEF IInv, Verdicts
  <1>2. QED
    BY <1>1, Inductive, PTL

\* ValidateChainStructure passes only chains that narrow from the root to
\* every descendant.
THEOREM StructureIsSound == Spec => []StructuralPassIsSound
  <1>1. IInv => StructuralPassIsSound
    BY DEF IInv, Verdicts
  <1>2. QED
    BY <1>1, Inductive, PTL

\* What either function refuses stays unauthorized for ever after.
THEOREM RefusalsAreJustified == Spec => []RefusalsJustified
  <1>1. IInv => RefusalsJustified
    BY DEF IInv, Verdicts
  <1>2. QED
    BY <1>1, Inductive, PTL
=============================================================================
