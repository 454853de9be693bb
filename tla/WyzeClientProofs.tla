-------------------------- MODULE WyzeClientProofs --------------------------
(***************************************************************************)
(* Proofs about what the Wyze client keeps in memory: its tokens, and the  *)
(* stream information and pictures in its caches, for any number of calls  *)
(* and any bounds.                                                         *)
(*                                                                         *)
(* TypeOK is not inductive: a pair being written reaches the file, so that *)
(* it must be known to have been issued.                                   *)
(***************************************************************************)
EXTENDS WyzeTokens, WyzeStreamCache, SequenceTheorems, FiniteSetTheorems,
        WellFoundedInduction, TLAPS

\* A new pair is put in memory whole.
LEMMA IssueHoldsPair == Issue => PairHeld'
BY DEF Issue, PairHeld

\* Clearing the access token, or leaving the tokens alone, mixes no pairs.
LEMMA ClearingHoldsPair ==
    ASSUME PairHeld, access' = None \/ access' = access, refresh' = refresh
    PROVE  PairHeld'
BY DEF PairHeld

LEMMA StepHoldsPair ==
    ASSUME PairHeld, NEW r \in Requests, Step(r)
    PROVE  PairHeld'
<1>1. CASE Loaded(r)
  BY <1>1 DEF Loaded, PairHeld
<1>2. CASE LoginAccepted(r)
  BY <1>2, IssueHoldsPair DEF LoginAccepted
<1>3. CASE RefreshAccepted(r)
  BY <1>3, IssueHoldsPair DEF RefreshAccepted
<1>4. CASE LoginFails(r) \/ LoginRefused(r) \/ Refused(r) \/ RefreshRefused(r) \/ RequestFails(r)
  BY <1>4, ClearingHoldsPair DEF LoginFails, LoginRefused, Refused, RefreshRefused, RequestFails
<1>5. CASE \/ Ask(r) \/ Waited(r) \/ Send(r) \/ Accepted(r) \/ RateLimited(r) \/ Retry(r)
  BY <1>5, ClearingHoldsPair DEF Ask, Waited, Send, Accepted, RateLimited, Retry
<1>6. CASE RefreshFails(r) \/ Saved(r) \/ SaveFails(r)
  BY <1>6, ClearingHoldsPair DEF RefreshFails, Saved, SaveFails
<1> QED BY <1>1, <1>2, <1>3, <1>4, <1>5, <1>6 DEF Step

\* Whatever requests, logins and refreshes interleave, crash and fail, the
\* access and the refresh token in memory are of one pair.
THEOREM TokensBelongTogether == Spec => []PairHeld
<1>1. Init => PairHeld
  BY DEF Init, PairHeld
<1>2. PairHeld /\ [Next]_vars => PairHeld'
  <2> SUFFICES ASSUME PairHeld, [Next]_vars PROVE PairHeld'
    OBVIOUS
  <2>1. ASSUME NEW r \in Requests, Step(r) PROVE PairHeld'
    BY <2>1, StepHoldsPair
  <2>2. ASSUME NEW r \in Requests, BgLoginAccepted(r) PROVE PairHeld'
    BY <2>2, IssueHoldsPair DEF BgLoginAccepted
  <2>3. ASSUME NEW r \in Requests, BgSaved(r) PROVE PairHeld'
    BY <2>3 DEF BgSaved, PairHeld
  <2>4. CASE Restart
    BY <2>4 DEF Restart, PairHeld
  <2>5. ASSUME NEW p \in Pairs, Expires(p) PROVE PairHeld'
    BY <2>5 DEF Expires, PairHeld
  <2>6. CASE UNCHANGED vars
    BY <2>6 DEF vars, PairHeld
  <2> QED BY <2>1, <2>2, <2>3, <2>4, <2>5, <2>6 DEF Next
<1> QED BY <1>1, <1>2, PTL DEF Spec
-----------------------------------------------------------------------------
CloudOK ==
    /\ issued \in 0..MaxPairs
    /\ accessOK \subseteq 1..issued
    /\ refreshOK \subseteq 1..issued

MemoryOK == access \in 0..issued /\ refresh \in 0..issued

\* Only pairs that were issued are ever written.
FilesOK ==
    /\ file \in 0..issued \cup {Torn}
    /\ saved \in [Requests -> 0..issued]
    /\ bgSaved \in [Requests -> 0..issued]

CallsOK ==
    /\ pc \in [Requests -> Phases]
    /\ try \in [Requests -> 1..2]
    /\ tok \in [Requests -> 0..MaxPairs]
    /\ frames \in [Requests -> Seq(Frames)]
    /\ bg \in [Requests -> {"off", "login", "saving"}]

TokensInv == CloudOK /\ MemoryOK /\ FilesOK /\ CallsOK

\* A pair that is issued is one of those counted, and those counted before stay.
LEMMA IssueCounts ==
    ASSUME CloudOK, Issue
    PROVE  /\ CloudOK' /\ MemoryOK'
           /\ 0..issued \subseteq 0..issued' /\ issued' \in 0..issued'
<1>1. issued \in Nat /\ issued' \in 1..MaxPairs /\ issued <= issued'
  BY BoundsAssumption DEF CloudOK, Issue
<1>2. accessOK' \subseteq 1..issued' /\ refreshOK' \subseteq 1..issued'
  BY <1>1 DEF CloudOK, Issue
<1> QED BY <1>1, <1>2 DEF CloudOK, MemoryOK, Issue

\* What is written while a pair is issued was issued already or is that pair.
LEMMA IssueKeepsFiles ==
    ASSUME CloudOK, FilesOK, Issue, file' = file,
           \/ saved' = saved
           \/ \E r \in Requests : saved' = [saved EXCEPT ![r] = issued'],
           \/ bgSaved' = bgSaved
           \/ \E r \in Requests : bgSaved' = [bgSaved EXCEPT ![r] = issued']
    PROVE  FilesOK'
<1>1. 0..issued \subseteq 0..issued' /\ issued' \in 0..issued'
  BY IssueCounts
<1> DEFINE Old == 0..issued  New == 0..issued'  top == issued'
<1>2. Old \subseteq New /\ top \in New
  BY <1>1
<1>3. /\ file \in Old \cup {Torn} /\ saved \in [Requests -> Old]
      /\ bgSaved \in [Requests -> Old]
  BY DEF FilesOK
<1> HIDE DEF Old, New, top
<1>4. saved' \in [Requests -> New]
  BY <1>2, <1>3 DEF top
<1>5. bgSaved' \in [Requests -> New]
  BY <1>2, <1>3 DEF top
<1>6. file' \in New \cup {Torn}
  BY <1>2, <1>3
<1> QED BY <1>4, <1>5, <1>6 DEF FilesOK, New, Torn

\* A failed attempt leaves a stack of calls, none of them past its second try.
LEMMA AttemptFailsTyped ==
    ASSUME CallsOK, NEW r \in Requests, NEW calls \in Seq(Frames), AttemptFails(r, calls)
    PROVE  frames' \in [Requests -> Seq(Frames)] /\ pc' \in [Requests -> Phases]
<1>1. pc' \in [Requests -> Phases]
  BY DEF AttemptFails, Goto, CallsOK, Phases, AtRest
<1>2. <<>> \in Seq(Frames)
  OBVIOUS
<1>3. ASSUME NEW i \in Retriable(calls)
      PROVE  Append(SubSeq(calls, 1, i - 1), NextAttempt(calls[i])) \in Seq(Frames)
  <2>1. i \in 1..Len(calls) /\ calls[i] \in Frames /\ calls[i].attempt = 1
    BY DEF Retriable
  <2>2. NextAttempt(calls[i]) \in Frames
    BY <2>1 DEF NextAttempt, Frames
  <2>3. SubSeq(calls, 1, i - 1) \in Seq(Frames)
    BY <2>1
  <2> QED BY <2>2, <2>3
<1>4. PICK left \in Seq(Frames) : frames' = [frames EXCEPT ![r] = left]
  BY <1>2, <1>3, Zenon DEF AttemptFails
<1> QED BY <1>1, <1>4 DEF CallsOK

\* A stack that is being refreshed may grow by a call with the pair in memory.
LEMMA CallTyped == CloudOK /\ MemoryOK => [rtok |-> refresh, attempt |-> 1] \in Frames
<1> SUFFICES ASSUME CloudOK, MemoryOK PROVE [rtok |-> refresh, attempt |-> 1] \in Frames
  OBVIOUS
<1>1. refresh \in 0..MaxPairs
  BY BoundsAssumption DEF CloudOK, MemoryOK
<1> QED BY <1>1 DEF Frames

\* maybeLogin leads to a phase.
LEMMA MaybeLoginTyped ==
    ASSUME CallsOK, NEW r \in Requests, maybeLogin(r)
    PROVE  pc' \in [Requests -> Phases]
BY DEF maybeLogin, Goto, CallsOK, Phases

\* Every step of a request keeps what it keeps of itself.
LEMMA StepKeepsCalls ==
    ASSUME TokensInv, NEW r \in Requests, Step(r)
    PROVE  CallsOK'
<1> USE DEF TokensInv
<1>1. CASE Ask(r)
  BY <1>1, MaybeLoginTyped, BoundsAssumption DEF Ask, CallsOK, None, bgVars
<1>2. CASE Loaded(r)
  <2>1. pc' \in [Requests -> Phases]
    BY <1>2 DEF Loaded, Goto, CallsOK, Phases
  <2> QED BY <1>2, <2>1 DEF Loaded, CallsOK, bgVars
<1>3. CASE Waited(r)
  BY <1>3 DEF Waited, Goto, CallsOK, Phases
<1>4. CASE LoginAccepted(r)
  BY <1>4 DEF LoginAccepted, Goto, CallsOK, Phases, bgVars
<1>5. CASE LoginFails(r)
  BY <1>5 DEF LoginFails, Goto, CallsOK, Phases, AtRest, bgVars
<1>6. CASE Send(r)
  <2>1. access \in 0..MaxPairs
    BY BoundsAssumption DEF CloudOK, MemoryOK
  <2> QED BY <1>6, <2>1 DEF Send, Goto, CallsOK, Phases, bgVars
<1>7. CASE Accepted(r)
  BY <1>7 DEF Accepted, Goto, CallsOK, Phases, AtRest, bgVars
<1>8. CASE Refused(r)
  <2>1. <<[rtok |-> refresh, attempt |-> 1]>> \in Seq(Frames)
    BY CallTyped
  <2> QED BY <1>8, <2>1 DEF Refused, Goto, CallsOK, Phases, bgVars
<1>9. CASE RateLimited(r)
  BY <1>9 DEF RateLimited, Goto, CallsOK, Phases, AtRest, bgVars
<1>10. CASE RequestFails(r)
  BY <1>10 DEF RequestFails, Goto, CallsOK, Phases, AtRest, bgVars
<1>11. CASE Retry(r)
  BY <1>11, MaybeLoginTyped DEF Retry, CallsOK, bgVars
<1>12. CASE RefreshAccepted(r)
  BY <1>12 DEF RefreshAccepted, Goto, CallsOK, Phases, bgVars
<1>13. CASE RefreshRefused(r)
  <2>1. Append(frames[r], [rtok |-> refresh, attempt |-> 1]) \in Seq(Frames)
    BY CallTyped DEF CallsOK
  <2> QED BY <1>13, <2>1 DEF RefreshRefused, CallsOK, bgVars
<1>14. CASE RefreshFails(r)
  BY <1>14, AttemptFailsTyped DEF RefreshFails, CallsOK, bgVars
<1>15. CASE Saved(r)
  <2>1. frames[r] \in Seq(Frames)
    BY DEF CallsOK
  <2>2. CASE frames[r] = <<>>
    <3>1. Goto(r, "ready") /\ frames' = frames
      BY <1>15, <2>2 DEF Saved, AfterSave
    <3> QED BY <1>15, <3>1 DEF Saved, Goto, CallsOK, Phases, bgVars
  <2>3. CASE frames[r] # <<>> /\ Len(frames[r]) > 1
    <3>1. Front(frames[r]) \in Seq(Frames)
      BY <2>1, <2>3 DEF Front
    <3>2. AttemptFails(r, Front(frames[r]))
      BY <1>15, <2>3 DEF Saved, AfterSave
    <3> QED BY <1>15, <3>1, <3>2, AttemptFailsTyped DEF Saved, CallsOK, bgVars
  <2>4. CASE frames[r] # <<>> /\ ~(Len(frames[r]) > 1)
    <3>1. frames' = [frames EXCEPT ![r] = <<>>] /\ (Goto(r, "backoff") \/ Goto(r, "failed"))
      BY <1>15, <2>4 DEF Saved, AfterSave, Goto
    <3>2. frames' \in [Requests -> Seq(Frames)]
      BY <3>1 DEF CallsOK
    <3> QED BY <1>15, <3>1, <3>2 DEF Saved, Goto, CallsOK, Phases, AtRest, bgVars
  <2> QED BY <2>2, <2>3, <2>4
<1>16. CASE SaveFails(r)
  <2>1. frames[r] \in Seq(Frames)
    BY DEF CallsOK
  <2> QED BY <1>16, <2>1, AttemptFailsTyped DEF SaveFails, CallsOK, bgVars
<1>17. CASE LoginRefused(r)
  <2>1. <<[rtok |-> refresh, attempt |-> 1]>> \in Seq(Frames)
    BY CallTyped
  <2> QED BY <1>17, <2>1 DEF LoginRefused, Goto, CallsOK, Phases, bgVars
<1> QED
  BY <1>1, <1>2, <1>3, <1>4, <1>5, <1>6, <1>7, <1>8, <1>9, <1>10, <1>11, <1>12, <1>13,
     <1>14, <1>15, <1>16, <1>17 DEF Step

\* A pair that is being written has been issued.
LEMMA SavingIssued == FilesOK => Saving \subseteq 0..issued /\ Contents \subseteq 0..issued \cup {Torn}
BY DEF FilesOK, Saving, Contents

\* Nothing but pairs that were issued comes to be in memory, in the file or on
\* its way there.
LEMMA StepKeepsPairs ==
    ASSUME TokensInv, NEW r \in Requests, Step(r) \/ BgLoginAccepted(r) \/ BgSaved(r)
    PROVE  CloudOK' /\ MemoryOK' /\ FilesOK'
<1> USE DEF TokensInv
<1>1. CASE Loaded(r)
  <2>1. /\ UNCHANGED <<issued, accessOK, refreshOK, file, saved, bgSaved>>
        /\ \/ UNCHANGED <<access, refresh>>
           \/ access' \in Contents \cap Pairs /\ refresh' = access'
    BY <1>1 DEF Loaded, cloudVars, bgVars
  <2>2. Contents \cap Pairs \subseteq 0..issued
    BY SavingIssued, BoundsAssumption DEF Pairs, Torn
  <2>3. access' \in 0..issued /\ refresh' \in 0..issued
    BY <2>1, <2>2 DEF MemoryOK
  <2> QED BY <2>1, <2>3 DEF CloudOK, MemoryOK, FilesOK
<1>2. CASE LoginAccepted(r) \/ RefreshAccepted(r) \/ BgLoginAccepted(r)
  <2>1. /\ Issue /\ file' = file
        /\ \/ saved' = saved /\ bgSaved' = [bgSaved EXCEPT ![r] = issued']
           \/ saved' = [saved EXCEPT ![r] = issued'] /\ bgSaved' = bgSaved
    BY <1>2 DEF LoginAccepted, RefreshAccepted, BgLoginAccepted, bgVars
  <2> QED BY <2>1, IssueCounts, IssueKeepsFiles
<1>3. CASE LoginFails(r) \/ LoginRefused(r) \/ Refused(r) \/ RefreshRefused(r) \/ RequestFails(r)
  <2>1. /\ UNCHANGED <<issued, accessOK, refreshOK, refresh, file, saved, bgSaved>>
        /\ access' \in {None, access}
    BY <1>3 DEF LoginFails, LoginRefused, Refused, RefreshRefused, RequestFails, cloudVars, bgVars
  <2>2. access' \in 0..issued
    BY <2>1 DEF CloudOK, MemoryOK, None
  <2> QED BY <2>1, <2>2 DEF CloudOK, MemoryOK, FilesOK
<1>4. CASE \/ Ask(r) \/ Waited(r) \/ Send(r) \/ Accepted(r) \/ RateLimited(r)
           \/ Retry(r) \/ RefreshFails(r)
  BY <1>4 DEF Ask, Waited, Send, Accepted, RateLimited, Retry, RefreshFails,
              cloudVars, bgVars, CloudOK, MemoryOK, FilesOK
<1>5. CASE Saved(r) \/ SaveFails(r) \/ BgSaved(r)
  <2>1. /\ UNCHANGED <<issued, accessOK, refreshOK, access, refresh>>
        /\ file' \in {saved[r], bgSaved[r], file, Torn}
        /\ saved' \in {saved, [saved EXCEPT ![r] = None]}
        /\ bgSaved' \in {bgSaved, [bgSaved EXCEPT ![r] = None]}
    BY <1>5 DEF Saved, SaveFails, BgSaved, cloudVars, bgVars
  <2>2. file' \in 0..issued \cup {Torn}
    BY <2>1 DEF FilesOK
  <2>3. saved' \in [Requests -> 0..issued] /\ bgSaved' \in [Requests -> 0..issued]
    BY <2>1 DEF CloudOK, FilesOK, None
  <2> QED BY <2>1, <2>2, <2>3 DEF CloudOK, MemoryOK, FilesOK, Torn
<1> QED BY <1>1, <1>2, <1>3, <1>4, <1>5 DEF Step

\* Whatever requests, logins, refreshes and restarts interleave, only pairs the
\* cloud has issued are held, used and saved.
THEOREM TokensTypeOK == Spec => []TypeOK
<1>1. Init => TokensInv
  BY BoundsAssumption DEF Init, TokensInv, CloudOK, MemoryOK, FilesOK, CallsOK, None, Phases, AtRest
<1>2. TokensInv /\ [Next]_vars => TokensInv'
  <2> SUFFICES ASSUME TokensInv, [Next]_vars PROVE TokensInv'
    OBVIOUS
  <2>1. ASSUME NEW r \in Requests, Step(r) PROVE TokensInv'
    BY <2>1, StepKeepsCalls, StepKeepsPairs DEF TokensInv
  <2>2. ASSUME NEW r \in Requests, BgLoginAccepted(r) \/ BgSaved(r) PROVE TokensInv'
    <3>1. CallsOK'
      BY <2>2 DEF BgLoginAccepted, BgSaved, TokensInv, CallsOK
    <3> QED BY <2>2, <3>1, StepKeepsPairs DEF TokensInv
  <2>3. CASE Restart
    <3>1. file' \in 0..issued \cup {Torn}
      BY <2>3, SavingIssued DEF Restart, TokensInv
    <3>2. CloudOK' /\ MemoryOK' /\ FilesOK'
      BY <2>3, <3>1 DEF Restart, cloudVars, TokensInv, CloudOK, MemoryOK, FilesOK, None, Torn
    <3>3. CallsOK'
      BY <2>3, BoundsAssumption DEF Restart, CallsOK, Phases, AtRest, None
    <3> QED BY <3>2, <3>3 DEF TokensInv
  <2>4. ASSUME NEW p \in Pairs, Expires(p) PROVE TokensInv'
    BY <2>4 DEF Expires, bgVars, TokensInv, CloudOK, MemoryOK, FilesOK, CallsOK
  <2>5. CASE UNCHANGED vars
    BY <2>5 DEF vars, cloudVars, bgVars, TokensInv, CloudOK, MemoryOK, FilesOK, CallsOK
  <2> QED BY <2>1, <2>2, <2>3, <2>4, <2>5 DEF Next
<1>3. TokensInv => TypeOK
  <2> SUFFICES ASSUME TokensInv PROVE TypeOK
    OBVIOUS
  <2>1. 0..issued \subseteq 0..MaxPairs
    BY BoundsAssumption DEF TokensInv, CloudOK
  <2>2. saved \in [Requests -> 0..MaxPairs] /\ bgSaved \in [Requests -> 0..MaxPairs]
    BY <2>1 DEF TokensInv, FilesOK
  <2> QED BY <2>2 DEF TokensInv, TypeOK, CloudOK, MemoryOK, FilesOK, CallsOK
<1> QED BY <1>1, <1>2, <1>3, PTL DEF Spec

-----------------------------------------------------------------------------
(* The caches: lifetimes *)

\* Every nonempty set of natural numbers has a least one.
LEMMA LeastExists ==
    ASSUME NEW S \in SUBSET Nat, S # {}
    PROVE  \E x \in S : \A y \in S : x <= y
<1> DEFINE R == {xy \in Nat \X Nat : xy[1] < xy[2]}
<1>1. IsWellFoundedOn(R, Nat)
  BY NatLessThanWellFounded DEF OpToRel
<1>2. PICK x \in S : \A y \in S : ~(<<y, x>> \in R)
  BY <1>1, WFMin
<1>3. ASSUME NEW y \in S PROVE x <= y
  <2>1. ~(<<y, x>> \in R) /\ x \in Nat /\ y \in Nat
    BY <1>2
  <2> QED BY <2>1
<1> QED BY <1>3

\* A finite set of natural numbers has its Max: the one with fewest above it.
LEMMA MaxOfFinite ==
    ASSUME NEW S \in SUBSET Nat, S # {}, IsFiniteSet(S)
    PROVE  Max(S) \in S /\ \A y \in S : y <= Max(S)
<1> DEFINE Above(x) == {y \in S : y > x}
           Counts == {Cardinality(Above(x)) : x \in S}
<1>1. \A x \in S : Above(x) \in SUBSET S
  OBVIOUS
<1>2. \A x \in S : IsFiniteSet(Above(x)) /\ Cardinality(Above(x)) \in Nat
  BY <1>1, FS_Subset, FS_CardinalityType
<1>3. PICK x \in S : \A y \in S : Cardinality(Above(x)) <= Cardinality(Above(y))
  <2>1. Counts \in SUBSET Nat /\ Counts # {}
    BY <1>2
  <2>2. PICK n \in Counts : \A k \in Counts : n <= k
    BY <2>1, LeastExists
  <2> QED BY <2>2
<1>4. ASSUME NEW y \in S PROVE x >= y
  <2> SUFFICES ASSUME y > x PROVE FALSE
    OBVIOUS
  <2>1. Above(y) \in SUBSET Above(x) /\ y \in Above(x) /\ y \notin Above(y)
    <3>1. x \in Nat /\ y \in Nat /\ y > x
      OBVIOUS
    <3>2. \A z \in S : z > y => z > x
      BY <3>1
    <3>3. ~(y > y)
      BY <3>1
    <3> QED BY <3>1, <3>2, <3>3, Zenon
  <2>2. Cardinality(Above(y)) <= Cardinality(Above(x)) /\ Above(y) # Above(x)
    BY <1>2, <2>1, FS_Subset
  <2>3. Cardinality(Above(x)) = Cardinality(Above(y))
    BY <1>2, <1>3, <2>2
  <2> QED BY <1>2, <2>1, <2>2, <2>3, FS_Subset
<1>5. Max(S) \in S /\ \A y \in S : Max(S) >= y
  BY <1>4, Zenon DEF Max
<1> QED BY <1>5

\* The greater and the lesser of two.
LEMMA MaxOfTwo ==
    ASSUME NEW a \in Nat, NEW b \in Nat
    PROVE  Max({a, b}) = IF a <= b THEN b ELSE a
<1>1. \E x \in {a, b} : \A y \in {a, b} : x >= y
  OBVIOUS
<1>2. Max({a, b}) \in {a, b} /\ \A y \in {a, b} : Max({a, b}) >= y
  BY <1>1, Zenon DEF Max
<1> QED BY <1>2

LEMMA MinOfTwo ==
    ASSUME NEW a \in Nat, NEW b \in Nat
    PROVE  Min({a, b}) = IF a <= b THEN a ELSE b
<1>1. \E x \in {a, b} : \A y \in {a, b} : x <= y
  OBVIOUS
<1>2. Min({a, b}) \in {a, b} /\ \A y \in {a, b} : Min({a, b}) <= y
  BY <1>1, Zenon DEF Min
<1> QED BY <1>2

\* MaxTtl is the longest of the lifetimes.
LEMMA Lifetimes ==
    /\ MaxTtl \in StreamTtls /\ \A t \in StreamTtls : t \in Nat \ {0} /\ t <= MaxTtl
    /\ MaxTtl \in Nat \ {0} /\ MaxAge = MaxTtl + MaxLag /\ MaxAge \in Nat /\ MaxLag \in Nat
<1>1. StreamTtls \in SUBSET Nat /\ StreamTtls # {} /\ IsFiniteSet(StreamTtls)
  BY TtlAssumption
<1>2. MaxTtl \in StreamTtls /\ \A t \in StreamTtls : t <= MaxTtl
  BY <1>1, MaxOfFinite, Zenon DEF MaxTtl
<1> QED BY <1>2, TtlAssumption, BoundAssumption DEF MaxAge

\* Information a unit of time later.
LEMMA OlderInfo ==
    ASSUME NEW info \in Info
    PROVE  /\ Older(info) \in Info /\ Older(info).of = info.of
           /\ Older(info).age = IF info.age + 1 <= MaxAge THEN info.age + 1 ELSE MaxAge
<1>1. info.age \in 0..MaxAge /\ MaxAge \in Nat
  BY Lifetimes DEF Info
<1>2. Min({info.age + 1, MaxAge}) = IF info.age + 1 <= MaxAge THEN info.age + 1 ELSE MaxAge
  BY <1>1, MinOfTwo
<1>3. Min({info.age + 1, MaxAge}) \in 0..MaxAge
  BY <1>1, <1>2
<1> QED BY <1>2, <1>3 DEF Older, Info

-----------------------------------------------------------------------------
(* The caches: what an entry and a call hold *)

\* Information grows as old as its lifetime and the time its answer was held back,
\* and no older than it has time left.
EntryOK(k, entry) ==
    entry # Nothing =>
        /\ entry \in Entry
        /\ entry.info.of = k
        /\ entry.info.age + entry.left <= MaxTtl + MaxLag

StreamsOK == \A k \in Wanted : EntryOK(k, streams[k])

\* Information under way is of what the call wants, and held back for MaxLag at most.
CallOK(s) ==
    /\ s \in Call
    /\ s.at = "issued" => s.info \in Info /\ s.info.of = s.wanted /\ s.info.age <= MaxLag
    /\ s.at = "returned" /\ s.info # Nothing =>
          s.info.of = s.wanted /\ s.info.age < MaxTtl + MaxLag

\* A call gone on to a place where it holds no information.
LEMMA MovedOK ==
    ASSUME NEW s \in Call,
           NEW at \in {"listing", "downloading", "finding", "fetching", "pausing", "capturing"}
    PROVE  CallOK([s EXCEPT !.at = at])
BY DEF Call, CallOK

LEMMA RestedOK ==
    ASSUME NEW at \in Resting
    PROVE  CallOK(Rested(at)) /\ Rested(at).at = at
<1>1. (CHOOSE w \in Wanted : TRUE) \in Wanted
  <2>1. PICK m : m \in Macs
    BY MacsAssumption
  <2>2. [mac |-> m, sub |-> TRUE] \in Wanted
    BY <2>1, Zenon DEF Wanted
  <2> QED BY <2>2, Zenon
<1>2. 0 \in 0..MaxAttempts - 1
  BY BoundAssumption
<1> DEFINE wanted == CHOOSE w \in Wanted : TRUE
<1> HIDE DEF wanted
<1>3. Rested(at) = [at |-> at, kind |-> "info", wanted |-> wanted, noCache |-> FALSE,
                    ttl |-> MaxTtl, attempt |-> 0, info |-> Nothing, spoiled |-> FALSE]
  BY DEF Rested, wanted
<1>4. wanted \in Wanted
  BY <1>1 DEF wanted
<1>5. Rested(at) \in Call
  BY <1>2, <1>3, <1>4, Lifetimes DEF Call, Kinds
<1>6. Rested(at).at = at /\ Rested(at).info = Nothing
  BY <1>3
<1> QED BY <1>5, <1>6 DEF CallOK, Resting

\* What is served from the cache is of what was asked for, and has time left.
LEMMA LookupOK ==
    ASSUME StreamsOK, NEW s \in Call
    PROVE  CallOK(Lookup(s))
<1> DEFINE entry == streams[s.wanted]
<1>1. s.wanted \in Wanted
  BY DEF Call
<1>2. CASE ~s.noCache /\ Live(entry)
  <2>1. Lookup(s) = [s EXCEPT !.at = "returned", !.attempt = 0, !.info = entry.info]
    BY <1>2 DEF Lookup, streamCacheKey
  <2>2. entry # Nothing /\ entry.left > 0
    BY <1>2 DEF Live
  <2>3. entry \in Entry /\ entry.info.of = s.wanted
        /\ entry.info.age + entry.left <= MaxTtl + MaxLag
    BY <1>1, <2>2 DEF StreamsOK, EntryOK
  <2>4. entry.info \in Info /\ entry.info.age \in Nat /\ entry.left \in Nat
    BY <2>3, Lifetimes DEF Entry, Info
  <2> HIDE DEF entry
  <2>5. entry.info.age < MaxTtl + MaxLag
    BY <2>2, <2>3, <2>4, Lifetimes
  <2>6. 0 \in 0..MaxAttempts - 1
    BY BoundAssumption
  <2>7. Lookup(s) \in Call
    BY <2>1, <2>4, <2>6 DEF Call, Resting
  <2>8. Lookup(s).at = "returned" /\ Lookup(s).wanted = s.wanted /\ Lookup(s).info = entry.info
    BY <2>1 DEF Call
  <2> QED BY <2>3, <2>5, <2>7, <2>8 DEF CallOK
<1>3. CASE ~(~s.noCache /\ Live(entry))
  <2>1. Lookup(s) = [s EXCEPT !.at = "fetching"]
    BY <1>3 DEF Lookup, streamCacheKey
  <2> QED BY <2>1, MovedOK
<1> QED BY <1>2, <1>3

LEMMA LookupPhotoOK ==
    ASSUME NEW s \in Call
    PROVE  CallOK(LookupPhoto(s))
<1>1. CASE LookupPhoto(s) = Rested("returned")
  BY <1>1, RestedOK DEF Resting
<1>2. CASE LookupPhoto(s) = [s EXCEPT !.at = "fetching", !.kind = "snapshot"]
  BY <1>2 DEF Call, Kinds, CallOK
<1> QED BY <1>1, <1>2 DEF LookupPhoto

\* A failure ends the call, or lets it try again within MaxAttempts.
LEMMA FailedOK ==
    ASSUME NEW s \in Call
    PROVE  CallOK(Failed(s))
<1>1. CASE s.kind = "reconnect" /\ s.attempt + 1 < MaxAttempts
  <2>1. Failed(s) = [s EXCEPT !.at = "pausing", !.attempt = s.attempt + 1, !.info = Nothing,
                              !.spoiled = FALSE]
    BY <1>1 DEF Failed
  <2>2. s.attempt + 1 \in 0..MaxAttempts - 1
    BY <1>1, BoundAssumption DEF Call
  <2> QED BY <2>1, <2>2 DEF Call, CallOK
<1>2. CASE ~(s.kind = "reconnect" /\ s.attempt + 1 < MaxAttempts)
  <2>1. Failed(s) = Rested("threw")
    BY <1>2 DEF Failed
  <2> QED BY <2>1, RestedOK DEF Resting
<1> QED BY <1>1, <1>2

-----------------------------------------------------------------------------
(* The caches: the invariant *)

CacheInv ==
    /\ streams \in [Wanted -> Entry \cup {Nothing}] /\ StreamsOK
    /\ call \in [Calls -> Call] /\ \A c \in Calls : CallOK(call[c])

\* The ways in which a caller may ask.
LEMMA AskedCalls ==
    ASSUME NEW c \in Calls, Asks(c)
    PROVE  \E s \in Call :
              \/ Now(c, Lookup(s)) \/ Now(c, LookupPhoto(s))
              \/ \E at \in {"listing", "finding"} : Now(c, [s EXCEPT !.at = at])
<1>1. PICK w \in Wanted, noCache \in BOOLEAN :
         \/ \E kind \in {"info", "reconnect"}, ttl \in StreamTtls :
               Now(c, Lookup([[Rested("idle") EXCEPT !.kind = kind, !.wanted = w,
                                                     !.noCache = noCache] EXCEPT !.ttl = ttl]))
         \/ Now(c, LookupPhoto([Rested("idle") EXCEPT !.kind = "snapshot", !.wanted = w,
                                                      !.noCache = noCache]))
         \/ \E at \in {"listing", "finding"} :
               Now(c, [[Rested("idle") EXCEPT !.kind = "image", !.wanted = w,
                                              !.noCache = noCache] EXCEPT !.at = at])
  BY Zenon DEF Asks
<1> DEFINE asked(kind) == [Rested("idle") EXCEPT !.kind = kind, !.wanted = w,
                                                 !.noCache = noCache]
<1>2. ASSUME NEW kind \in Kinds PROVE asked(kind) \in Call
  <2>1. Rested("idle") \in Call
    BY RestedOK DEF Resting, CallOK
  <2> QED BY <2>1 DEF Call
<1>3. {"info", "reconnect", "snapshot", "image"} = Kinds
  BY DEF Kinds
<1>4. \A kind \in {"info", "reconnect"}, ttl \in StreamTtls :
         [asked(kind) EXCEPT !.ttl = ttl] \in Call
  <2> SUFFICES ASSUME NEW kind \in {"info", "reconnect"}, NEW ttl \in StreamTtls
               PROVE  [asked(kind) EXCEPT !.ttl = ttl] \in Call
    OBVIOUS
  <2>1. asked(kind) \in Call
    BY <1>2, <1>3
  <2> HIDE DEF asked
  <2> QED BY <2>1 DEF Call
<1>5. asked("snapshot") \in Call /\ asked("image") \in Call
  BY <1>2, <1>3
<1> QED BY <1>1, <1>4, <1>5, Zenon

\* A caller that asks is served, or is on its way.
LEMMA AsksOK ==
    ASSUME CacheInv, NEW c \in Calls, Asks(c)
    PROVE  \E s : CallOK(s) /\ Now(c, s)
<1>1. PICK s \in Call :
         \/ Now(c, Lookup(s)) \/ Now(c, LookupPhoto(s))
         \/ \E at \in {"listing", "finding"} : Now(c, [s EXCEPT !.at = at])
  BY AskedCalls
<1>2. /\ CallOK(Lookup(s)) /\ CallOK(LookupPhoto(s))
      /\ \A at \in {"listing", "finding"} : CallOK([s EXCEPT !.at = at])
  BY LookupOK, LookupPhotoOK, MovedOK DEF CacheInv
<1> QED BY <1>1, <1>2, Zenon

LEMMA CallStepOK ==
    ASSUME CacheInv, NEW c \in Calls, CallStep(c)
    PROVE  \E s : CallOK(s) /\ Now(c, s)
<1>0. call[c] \in Call /\ CallOK(call[c]) /\ StreamsOK
  BY DEF CacheInv
<1>1. CASE Asks(c)
  BY <1>1, AsksOK
<1>2. CASE Listed(c)
  <2>1. PICK at \in {"downloading", "finding"} : Now(c, [call[c] EXCEPT !.at = at])
    BY <1>2, Zenon DEF Listed
  <2>2. CallOK([call[c] EXCEPT !.at = at])
    BY <1>0, MovedOK
  <2> QED BY <2>1, <2>2, Zenon
<1>3. CASE ListFails(c) \/ CaptureFails(c)
  <2>1. Now(c, Rested("threw"))
    BY <1>3, Zenon DEF ListFails, CaptureFails
  <2>2. CallOK(Rested("threw"))
    BY RestedOK DEF Resting
  <2> QED BY <2>1, <2>2, Zenon
<1>4. CASE Downloaded(c)
  <2>1. Now(c, Rested("returned")) \/ Now(c, [call[c] EXCEPT !.at = "finding"])
    BY <1>4, Zenon DEF Downloaded
  <2>2. CallOK(Rested("returned")) /\ CallOK([call[c] EXCEPT !.at = "finding"])
    BY <1>0, RestedOK, MovedOK DEF Resting
  <2> QED BY <2>1, <2>2, Zenon
<1>5. CASE Found(c) \/ FetchFails(c) \/ PauseEnds(c)
  <2>1. Now(c, LookupPhoto(call[c])) \/ Now(c, Failed(call[c])) \/ Now(c, Lookup(call[c]))
    BY <1>5, Zenon DEF Found, FetchFails, PauseEnds
  <2>2. CallOK(LookupPhoto(call[c])) /\ CallOK(Failed(call[c])) /\ CallOK(Lookup(call[c]))
    BY <1>0, LookupPhotoOK, FailedOK, LookupOK
  <2> QED BY <2>1, <2>2, Zenon
<1>6. CASE Issued(c)
  <2> DEFINE info == [of |-> call[c].wanted, age |-> 0]
             s == [call[c] EXCEPT !.at = "issued", !.info = info]
  <2>1. Now(c, s)
    BY <1>6, Zenon DEF Issued
  <2>2. info \in Info /\ info.of = call[c].wanted /\ info.age = 0
    BY <1>0, Lifetimes DEF Info, Call
  <2> HIDE DEF info
  <2>3. s \in Call /\ s.at = "issued" /\ s.info = info /\ s.wanted = call[c].wanted
    BY <1>0, <2>2 DEF Call
  <2>4. CallOK(s)
    BY <2>2, <2>3, Lifetimes DEF CallOK
  <2> QED BY <2>1, <2>4, Zenon
<1>7. CASE Delivered(c)
  <2> DEFINE s == [call[c] EXCEPT !.at = "capturing", !.info = Nothing, !.spoiled = FALSE]
  <2>1. Now(c, s) \/ Now(c, Rested("returned"))
    BY <1>7, Zenon DEF Delivered
  <2>2. CallOK(s)
    BY <1>0 DEF Call, CallOK
  <2>3. CallOK(Rested("returned"))
    BY RestedOK DEF Resting
  <2> QED BY <2>1, <2>2, <2>3, Zenon
<1>8. CASE Captured(c)
  <2>1. Now(c, Rested("returned"))
    BY <1>8, Zenon DEF Captured
  <2>2. CallOK(Rested("returned"))
    BY RestedOK DEF Resting
  <2> QED BY <2>1, <2>2, Zenon
<1> QED BY <1>1, <1>2, <1>3, <1>4, <1>5, <1>6, <1>7, <1>8 DEF CallStep

\* Only a delivery for sharing writes to the cache of streams, and what it writes
\* was issued for its key and held back for MaxLag at most.
LEMMA CallStepKeepsStreams ==
    ASSUME CacheInv, NEW c \in Calls, CallStep(c)
    PROVE  streams' \in [Wanted -> Entry \cup {Nothing}] /\ StreamsOK'
<1>0. streams \in [Wanted -> Entry \cup {Nothing}] /\ StreamsOK /\ CallOK(call[c])
  BY DEF CacheInv
<1>1. ASSUME streams' = streams
      PROVE  streams' \in [Wanted -> Entry \cup {Nothing}] /\ StreamsOK'
  BY <1>0, <1>1, Zenon DEF StreamsOK
<1>2. ASSUME call[c].at = "issued", streams' = Stored(call[c])
      PROVE  streams' \in [Wanted -> Entry \cup {Nothing}] /\ StreamsOK'
  <2> DEFINE entry == [info |-> call[c].info, left |-> call[c].ttl]
  <2>1. /\ call[c].wanted \in Wanted /\ call[c].ttl \in 0..MaxTtl
        /\ call[c].info \in Info /\ call[c].info.of = call[c].wanted
        /\ call[c].info.age <= MaxLag
    <3>1. call[c].wanted \in Wanted /\ call[c].ttl \in StreamTtls
      BY <1>0 DEF CallOK, Call
    <3>2. call[c].ttl \in 0..MaxTtl
      <4>1. \A t \in StreamTtls : t \in 0..MaxTtl
        BY Lifetimes
      <4> QED BY <3>1, <4>1, Zenon
    <3> QED BY <1>0, <1>2, <3>1, <3>2, Zenon DEF CallOK
  <2>2. entry \in Entry /\ entry.info = call[c].info /\ entry.left = call[c].ttl
    BY <2>1 DEF Entry
  <2>3. streams' = [streams EXCEPT ![call[c].wanted] = entry]
    BY <1>2, Zenon DEF Stored, streamCacheKey
  <2> HIDE DEF entry
  <2>4. entry.info.age + entry.left <= MaxTtl + MaxLag
    <3>1. call[c].info.age \in Nat
      BY <2>1, Lifetimes DEF Info
    <3> QED BY <2>1, <2>2, <3>1, Lifetimes
  <2>5. EntryOK(call[c].wanted, entry)
    BY <2>1, <2>2, <2>4 DEF EntryOK
  <2>6. \A k \in Wanted : streams'[k] = IF k = call[c].wanted THEN entry ELSE streams[k]
    BY <1>0, <2>3, Zenon
  <2>7. \A k \in Wanted : EntryOK(k, streams'[k])
    BY <1>0, <2>5, <2>6, Zenon DEF StreamsOK
  <2>8. StreamsOK'
    BY <2>7, Zenon DEF StreamsOK, EntryOK
  <2>9. streams' \in [Wanted -> Entry \cup {Nothing}]
    BY <1>0, <2>2, <2>3, Zenon
  <2> QED BY <2>8, <2>9
<1>3. CASE Delivered(c)
  <2>1. call[c].at = "issued" /\ (streams' = streams \/ streams' = Stored(call[c]))
    BY <1>3, Zenon DEF Delivered
  <2> QED BY <1>1, <1>2, <2>1
<1>4. CASE \/ Asks(c) \/ Listed(c) \/ ListFails(c) \/ Downloaded(c) \/ Found(c)
           \/ Issued(c) \/ FetchFails(c) \/ PauseEnds(c) \/ Captured(c) \/ CaptureFails(c)
  <2>1. streams' = streams
    BY <1>4, Zenon DEF Asks, Listed, ListFails, Downloaded, Found, Issued, FetchFails,
                       PauseEnds, Captured, CaptureFails
  <2> QED BY <1>1, <2>1
<1> QED BY <1>3, <1>4 DEF CallStep

\* Clearing takes entries away and marks what is under way, no more.
LEMMA ClearedKeepsInv == CacheInv /\ Cleared => CacheInv'
<1> SUFFICES ASSUME CacheInv, Cleared PROVE CacheInv'
  OBVIOUS
<1>1. PICK macs : Clear(macs)
  BY Zenon DEF Cleared
<1>2. /\ streams' = [k \in Wanted |-> IF k.mac \in macs THEN Nothing ELSE streams[k]]
      /\ call' = [c \in Calls |->
                     IF call[c].at = "issued" /\ call[c].wanted.mac \in macs
                     THEN [call[c] EXCEPT !.spoiled = TRUE] ELSE call[c]]
  BY <1>1, Zenon DEF Clear
<1>3. /\ streams \in [Wanted -> Entry \cup {Nothing}] /\ StreamsOK
      /\ \A c \in Calls : CallOK(call[c])
  BY DEF CacheInv
<1>4. \A k \in Wanted : streams'[k] = Nothing \/ streams'[k] = streams[k]
  BY <1>2
<1>5. streams' \in [Wanted -> Entry \cup {Nothing}]
  <2>1. \A k \in Wanted :
           (IF k.mac \in macs THEN Nothing ELSE streams[k]) \in Entry \cup {Nothing}
    BY <1>3, Zenon
  <2> QED BY <1>2, <2>1, Zenon
<1>6. \A k \in Wanted : EntryOK(k, streams'[k])
  BY <1>3, <1>4, Zenon DEF StreamsOK, EntryOK
<1>7. ASSUME NEW c \in Calls PROVE CallOK(call'[c])
  <2>1. CallOK([call[c] EXCEPT !.spoiled = TRUE])
    BY <1>3 DEF CallOK, Call
  <2> QED BY <1>2, <1>3, <2>1
<1>8. call' \in [Calls -> Call]
  <2>1. \A c \in Calls : call'[c] \in Call
    BY <1>7, Zenon DEF CallOK
  <2>2. call' = [c \in Calls |-> call'[c]]
    BY <1>2, Zenon
  <2> QED BY <2>1, <2>2, Zenon
<1> QED BY <1>5, <1>6, <1>7, <1>8, Zenon DEF CacheInv, StreamsOK, EntryOK, CallOK

\* What is kept ages as its time runs down; what is under way ages while it may.
LEMMA TickKeepsInv == CacheInv /\ Tick => CacheInv'
<1> SUFFICES ASSUME CacheInv, Tick PROVE CacheInv'
  OBVIOUS
<1>1. /\ \A c \in Calls : call[c].at = "issued" => call[c].info.age < MaxLag
      /\ streams' = [k \in Wanted |->
                      IF streams[k] = Nothing THEN Nothing
                      ELSE [info |-> Older(streams[k].info), left |-> Less(streams[k].left)]]
      /\ call' = [c \in Calls |-> IF call[c].at = "issued"
                                  THEN [call[c] EXCEPT !.info = Older(@)] ELSE call[c]]
  BY Zenon DEF Tick
<1>2. /\ streams \in [Wanted -> Entry \cup {Nothing}] /\ StreamsOK
      /\ \A c \in Calls : CallOK(call[c])
  BY DEF CacheInv
<1>3. ASSUME NEW k \in Wanted
      PROVE  streams'[k] \in Entry \cup {Nothing} /\ EntryOK(k, streams'[k])
  <2>1. CASE streams[k] = Nothing
    BY <1>1, <2>1 DEF EntryOK
  <2>2. CASE streams[k] # Nothing
    <3> DEFINE old == streams[k]
               new == [info |-> Older(old.info), left |-> Less(old.left)]
    <3>1. streams'[k] = new
      BY <1>1, <2>2
    <3>2. /\ old \in Entry /\ old.info.of = k
          /\ old.info.age + old.left <= MaxTtl + MaxLag
      BY <1>2, <2>2 DEF StreamsOK, EntryOK
    <3>3. old.info \in Info /\ old.left \in 0..MaxTtl
      BY <3>2 DEF Entry
    <3>4. old.info.age \in 0..MaxAge
      BY <3>3 DEF Info
    <3>5. new.info = Older(old.info) /\ new.left = Less(old.left)
      OBVIOUS
    <3> HIDE DEF old, new
    <3>6. /\ Less(old.left) \in 0..MaxTtl
          /\ old.left = 0 => Less(old.left) = 0
          /\ old.left > 0 => Less(old.left) = old.left - 1
      BY <3>3, Lifetimes DEF Less
    <3>7. Older(old.info).age + Less(old.left) <= MaxTtl + MaxLag
      <4>1. Older(old.info).age = IF old.info.age + 1 <= MaxAge
                                  THEN old.info.age + 1 ELSE MaxAge
        BY <3>3, OlderInfo
      <4>2. CASE old.left = 0
        BY <3>4, <3>6, <4>1, <4>2, Lifetimes
      <4>3. CASE old.left > 0
        BY <3>2, <3>3, <3>4, <3>6, <4>1, <4>3, Lifetimes
      <4> QED BY <3>3, <4>2, <4>3, Lifetimes
    <3>8. Older(old.info) \in Info /\ Older(old.info).of = k
      BY <3>2, <3>3, OlderInfo
    <3>9. new \in Entry
      BY <3>6, <3>8 DEF new, Entry
    <3> QED BY <3>1, <3>5, <3>7, <3>8, <3>9 DEF EntryOK
  <2> QED BY <2>1, <2>2
<1>4. ASSUME NEW c \in Calls PROVE CallOK(call'[c])
  <2>1. CASE call[c].at # "issued"
    BY <1>1, <1>2, <2>1
  <2>2. CASE call[c].at = "issued"
    <3>1. call'[c] = [call[c] EXCEPT !.info = Older(call[c].info)]
      BY <1>1, <2>2
    <3>2. /\ call[c] \in Call /\ call[c].info \in Info
          /\ call[c].info.of = call[c].wanted /\ call[c].info.age < MaxLag
      BY <1>1, <1>2, <2>2 DEF CallOK
    <3>3. Older(call[c].info) \in Info /\ Older(call[c].info).of = call[c].wanted
      BY <3>2, OlderInfo
    <3>4. Older(call[c].info).age <= MaxLag
      <4>1. call[c].info.age \in Nat
        BY <3>2, Lifetimes DEF Info
      <4>2. Older(call[c].info).age = IF call[c].info.age + 1 <= MaxAge
                                      THEN call[c].info.age + 1 ELSE MaxAge
        BY <3>2, OlderInfo
      <4> QED BY <3>2, <4>1, <4>2, Lifetimes
    <3>5. /\ call'[c] \in Call /\ call'[c].at = "issued"
          /\ call'[c].info = Older(call[c].info) /\ call'[c].wanted = call[c].wanted
      BY <2>2, <3>1, <3>2, <3>3 DEF Call
    <3> QED BY <3>3, <3>4, <3>5 DEF CallOK
  <2> QED BY <2>1, <2>2
<1>5. call' \in [Calls -> Call]
  <2>1. \A c \in Calls : call'[c] \in Call
    BY <1>4, Zenon DEF CallOK
  <2>2. call' = [c \in Calls |-> call'[c]]
    BY <1>1, Zenon
  <2> QED BY <2>1, <2>2, Zenon
<1>6. streams' \in [Wanted -> Entry \cup {Nothing}]
  <2>1. streams' = [k \in Wanted |-> streams'[k]]
    BY <1>1, Zenon
  <2> QED BY <1>3, <2>1, Zenon
<1> QED BY <1>3, <1>4, <1>5, <1>6, Zenon DEF CacheInv, StreamsOK, EntryOK, CallOK

LEMMA NextCacheInv == CacheInv /\ [CacheNext]_cacheVars => CacheInv'
<1> SUFFICES ASSUME CacheInv, [CacheNext]_cacheVars PROVE CacheInv'
  OBVIOUS
<1>1. ASSUME NEW c \in Calls, CallStep(c) PROVE CacheInv'
  <2>1. streams' \in [Wanted -> Entry \cup {Nothing}] /\ StreamsOK'
    BY <1>1, CallStepKeepsStreams
  <2>2. PICK s : CallOK(s) /\ Now(c, s)
    BY <1>1, CallStepOK
  <2>3. s \in Call /\ call' = [call EXCEPT ![c] = s] /\ call \in [Calls -> Call]
    BY <2>2, Zenon DEF CallOK, Now, CacheInv
  <2>4. call' \in [Calls -> Call]
    BY <2>3, Zenon
  <2>5. \A d \in Calls : call'[d] = IF d = c THEN s ELSE call[d]
    BY <2>3, Zenon
  <2>6. \A d \in Calls : CallOK(call'[d])
    BY <2>2, <2>5, Zenon DEF CacheInv
  <2> QED BY <2>1, <2>4, <2>6, Zenon DEF CacheInv, CallOK
<1>2. CASE UNCHANGED cacheVars
  BY <1>2, Zenon DEF cacheVars, CacheInv, StreamsOK, EntryOK, CallOK
<1> QED BY <1>1, <1>2, ClearedKeepsInv, TickKeepsInv, Zenon DEF CacheNext

LEMMA SpecCacheInv == CacheSpec => []CacheInv
<1>1. CacheInit => CacheInv
  <2> SUFFICES ASSUME CacheInit PROVE CacheInv
    OBVIOUS
  <2>1. streams = [k \in Wanted |-> Nothing] /\ call = [c \in Calls |-> Rested("idle")]
    BY Zenon DEF CacheInit
  <2>2. CallOK(Rested("idle")) /\ Rested("idle") \in Call
    BY RestedOK DEF Resting, CallOK
  <2>3. call \in [Calls -> Call] /\ \A c \in Calls : CallOK(call[c])
    BY <2>1, <2>2, Zenon
  <2>4. streams \in [Wanted -> Entry \cup {Nothing}] /\ \A k \in Wanted : streams[k] = Nothing
    BY <2>1, Zenon
  <2> QED BY <2>3, <2>4, Zenon DEF CacheInv, StreamsOK, EntryOK
<1> QED BY <1>1, NextCacheInv, PTL DEF CacheSpec

\* Stream information served from the cache is of the stream that was asked for, and
\* younger than the longest lifetime and the lag of an answer: fetches that overtake
\* each other, late answers and clears bring no other, and no older, to a caller.
THEOREM ServedFresh == CacheSpec => []ServedIsFresh
<1>1. CacheInv => ServedIsFresh
  BY DEF CacheInv, CallOK, ServedIsFresh
<1> QED BY <1>1, SpecCacheInv, PTL

-----------------------------------------------------------------------------
(* The caches: one fetch per lifetime *)

\* Times are in their ranges.
TimesInv ==
    /\ photos \in [Macs -> 0..PhotoTtl]
    /\ lease \in [Wanted -> 0..MaxTtl]

\* Information that ought to be shared is there, and for as long as it ought to be.
LeaseInv ==
    \A k \in Wanted : lease[k] > 0 => streams[k] # Nothing /\ lease[k] <= streams[k].left

LEMMA LessTyped == ASSUME NEW m \in Nat, NEW n \in 0..m PROVE Less(n) \in 0..m
BY DEF Less

\* What calls do to pictures and leases.
LEMMA CallStepTimes ==
    ASSUME NEW c \in Calls, CallStep(c)
    PROVE  /\ \/ photos' = photos
              \/ photos' = [photos EXCEPT ![call[c].wanted.mac] = PhotoTtl]
           /\ \/ lease' = lease /\ streams' = streams
              \/ /\ call[c].at = "issued" /\ streams' = Stored(call[c])
                 /\ lease' = [lease EXCEPT ![call[c].wanted] = Max({@, call[c].ttl})]
<1>1. CASE Delivered(c)
  BY <1>1, Zenon DEF Delivered
<1>2. CASE Captured(c)
  BY <1>2, Zenon DEF Captured
<1>3. CASE \/ Asks(c) \/ Listed(c) \/ ListFails(c) \/ Downloaded(c) \/ Found(c)
           \/ Issued(c) \/ FetchFails(c) \/ PauseEnds(c) \/ CaptureFails(c)
  BY <1>3, Zenon DEF Asks, Listed, ListFails, Downloaded, Found, Issued, FetchFails,
                     PauseEnds, CaptureFails
<1> QED BY <1>1, <1>2, <1>3, Zenon DEF CallStep

\* The lease of information stored is the longer of two.
LEMMA StoredLease ==
    ASSUME TimesInv, CacheInv, NEW c \in Calls
    PROVE  /\ call[c].wanted \in Wanted /\ call[c].ttl \in StreamTtls
           /\ call[c].wanted.mac \in Macs
           /\ Max({lease[call[c].wanted], call[c].ttl}) \in 0..MaxTtl
           /\ call[c].ttl = MaxTtl => Max({lease[call[c].wanted], call[c].ttl}) = MaxTtl
<1>1. call[c].wanted \in Wanted /\ call[c].ttl \in StreamTtls
  BY DEF CacheInv, Call
<1>2. call[c].wanted.mac \in Macs
  BY <1>1 DEF Wanted
<1> DEFINE held == lease[call[c].wanted]
           ttl == call[c].ttl
<1>3. held \in 0..MaxTtl
  BY <1>1, Zenon DEF TimesInv
<1>4. ttl \in Nat /\ ttl <= MaxTtl /\ MaxTtl \in Nat
  BY <1>1, Lifetimes, Zenon
<1> HIDE DEF held, ttl
<1>5. Max({held, ttl}) = IF held <= ttl THEN ttl ELSE held
  BY <1>3, <1>4, MaxOfTwo
<1>6. /\ Max({held, ttl}) \in 0..MaxTtl
      /\ ttl = MaxTtl => Max({held, ttl}) = MaxTtl
  BY <1>3, <1>4, <1>5
<1> QED BY <1>1, <1>2, <1>6, Zenon DEF held, ttl

LEMMA NextTimesInv == CacheInv /\ TimesInv /\ [CacheNext]_cacheVars => TimesInv'
<1> SUFFICES ASSUME CacheInv, TimesInv, [CacheNext]_cacheVars PROVE TimesInv'
  OBVIOUS
<1>0. PhotoTtl \in Nat /\ MaxTtl \in Nat
  BY TtlAssumption, Lifetimes
<1>1. CASE Cleared
  <2>1. PICK macs : /\ lease' = [k \in Wanted |-> IF k.mac \in macs THEN 0 ELSE lease[k]]
                    /\ photos' = photos
    BY <1>1, Zenon DEF Cleared, Clear
  <2>2. 0 \in 0..MaxTtl
    BY <1>0
  <2>3. \A k \in Wanted : (IF k.mac \in macs THEN 0 ELSE lease[k]) \in 0..MaxTtl
    BY <2>2, Zenon DEF TimesInv
  <2> QED BY <2>1, <2>3, Zenon DEF TimesInv
<1>2. CASE Tick
  <2>1. /\ photos' = [m \in Macs |-> Less(photos[m])]
        /\ lease' = [k \in Wanted |-> Less(lease[k])]
    BY <1>2, Zenon DEF Tick
  <2>2. \A m \in Macs : Less(photos[m]) \in 0..PhotoTtl
    BY <1>0, LessTyped DEF TimesInv
  <2>3. \A k \in Wanted : Less(lease[k]) \in 0..MaxTtl
    BY <1>0, LessTyped DEF TimesInv
  <2> QED BY <2>1, <2>2, <2>3, Zenon DEF TimesInv
<1>3. ASSUME NEW c \in Calls, CallStep(c) PROVE TimesInv'
  <2>1. PhotoTtl \in 0..PhotoTtl
    BY <1>0
  <2>2. photos' \in [Macs -> 0..PhotoTtl]
    BY <1>3, <2>1, CallStepTimes, StoredLease, Zenon DEF TimesInv
  <2>3. lease' \in [Wanted -> 0..MaxTtl]
    BY <1>3, CallStepTimes, StoredLease, Zenon DEF TimesInv
  <2> QED BY <2>2, <2>3 DEF TimesInv
<1>4. CASE UNCHANGED cacheVars
  BY <1>4, Zenon DEF cacheVars, TimesInv
<1> QED BY <1>1, <1>2, <1>3, <1>4, Zenon DEF CacheNext

LEMMA SpecTimesInv == CacheSpec => []TimesInv
<1>1. CacheInit => TimesInv
  BY TtlAssumption, Lifetimes DEF CacheInit, TimesInv
<1> QED BY <1>1, NextTimesInv, SpecCacheInv, PTL DEF CacheSpec

\* Entries and calls are of their kinds: ages and times left never leave their ranges.
THEOREM CacheTypes == CacheSpec => []CacheTypeOK
<1>1. CacheInv /\ TimesInv => CacheTypeOK
  BY DEF CacheInv, TimesInv, CacheTypeOK
<1> QED BY <1>1, SpecCacheInv, SpecTimesInv, PTL

\* With one lifetime for all, what is stored lasts as long as any lease on it.
LEMMA NextLeaseInv ==
    ASSUME \A t \in StreamTtls : t = MaxTtl
    PROVE  CacheInv /\ TimesInv /\ LeaseInv /\ [CacheNext]_cacheVars => LeaseInv'
<1> SUFFICES ASSUME CacheInv, TimesInv, LeaseInv, [CacheNext]_cacheVars PROVE LeaseInv'
  OBVIOUS
<1>1. CASE Cleared
  <2>1. PICK macs :
           /\ lease' = [k \in Wanted |-> IF k.mac \in macs THEN 0 ELSE lease[k]]
           /\ streams' = [k \in Wanted |-> IF k.mac \in macs THEN Nothing ELSE streams[k]]
    BY <1>1, Zenon DEF Cleared, Clear
  <2>2. \A k \in Wanted : \/ lease'[k] = 0
                          \/ lease'[k] = lease[k] /\ streams'[k] = streams[k]
    BY <2>1
  <2>3. ~(0 > 0)
    OBVIOUS
  <2> QED BY <2>2, <2>3, Zenon DEF LeaseInv
<1>2. CASE Tick
  <2>1. /\ lease' = [k \in Wanted |-> Less(lease[k])]
        /\ streams' = [k \in Wanted |->
                        IF streams[k] = Nothing THEN Nothing
                        ELSE [info |-> Older(streams[k].info), left |-> Less(streams[k].left)]]
    BY <1>2, Zenon DEF Tick
  <2>2. ASSUME NEW k \in Wanted, lease'[k] > 0
        PROVE  streams'[k] # Nothing /\ lease'[k] <= streams'[k].left
    <3>1. lease[k] \in Nat /\ lease'[k] = Less(lease[k])
      BY <2>1, Lifetimes DEF TimesInv
    <3>2. lease[k] > 0 /\ lease'[k] = lease[k] - 1
      BY <2>2, <3>1 DEF Less
    <3>3. streams[k] # Nothing /\ lease[k] <= streams[k].left
      BY <3>2 DEF LeaseInv
    <3>4. streams[k] \in Entry
      BY <3>3 DEF CacheInv
    <3>5. streams[k].info \in Info /\ streams[k].left \in 0..MaxTtl
      BY <3>4 DEF Entry
    <3>6. streams'[k] = [info |-> Older(streams[k].info), left |-> Less(streams[k].left)]
      BY <2>1, <3>3
    <3>7. Less(streams[k].left) \in 0..MaxTtl /\ Older(streams[k].info) \in Info
      BY <3>5, LessTyped, OlderInfo, Lifetimes
    <3>8. streams'[k] \in Entry
      BY <3>6, <3>7 DEF Entry
    <3>9. streams'[k].left = Less(streams[k].left)
      BY <3>6
    <3>10. lease[k] - 1 <= Less(streams[k].left)
      BY <3>1, <3>2, <3>3, <3>5, Lifetimes DEF Less
    <3> QED BY <3>2, <3>8, <3>9, <3>10, NothingAssumption
  <2> QED BY <2>2, Zenon DEF LeaseInv
<1>3. ASSUME NEW c \in Calls, CallStep(c) PROVE LeaseInv'
  <2>1. CASE lease' = lease /\ streams' = streams
    BY <2>1, Zenon DEF LeaseInv
  <2>2. CASE /\ call[c].at = "issued" /\ streams' = Stored(call[c])
             /\ lease' = [lease EXCEPT ![call[c].wanted] = Max({@, call[c].ttl})]
    <3> DEFINE w == call[c].wanted
               entry == [info |-> call[c].info, left |-> call[c].ttl]
    <3>1. w \in Wanted /\ call[c].ttl = MaxTtl /\ Max({lease[w], call[c].ttl}) = MaxTtl
      BY StoredLease
    <3>2. streams' = [streams EXCEPT ![w] = entry]
      BY <2>2, Zenon DEF Stored, streamCacheKey
    <3>3. entry.left = MaxTtl /\ entry # Nothing
      <4>1. call[c].info \in Info /\ call[c].ttl \in 0..MaxTtl
        BY <2>2, <3>1, Lifetimes DEF CacheInv, CallOK
      <4>2. entry \in Entry
        BY <4>1 DEF Entry
      <4> QED BY <3>1, <4>2, NothingAssumption
    <3> HIDE DEF w, entry
    <3>4. lease' = [lease EXCEPT ![w] = MaxTtl]
      BY <2>2, <3>1, Zenon DEF w
    <3>5. ASSUME NEW k \in Wanted, lease'[k] > 0
          PROVE  streams'[k] # Nothing /\ lease'[k] <= streams'[k].left
      <4>1. CASE k = w
        <5>1. lease'[k] = MaxTtl /\ streams'[k] = entry
          BY <3>1, <3>2, <3>4, <4>1, Zenon DEF TimesInv, CacheInv
        <5> QED BY <3>3, <5>1, Lifetimes
      <4>2. CASE k # w
        <5>1. lease'[k] = lease[k] /\ streams'[k] = streams[k]
          BY <3>1, <3>2, <3>4, <4>2, Zenon DEF TimesInv, CacheInv
        <5> QED BY <3>5, <5>1, Zenon DEF LeaseInv
      <4> QED BY <4>1, <4>2
    <3> QED BY <3>5, Zenon DEF LeaseInv
  <2> QED BY <1>3, <2>1, <2>2, CallStepTimes
<1>4. CASE UNCHANGED cacheVars
  BY <1>4, Zenon DEF cacheVars, LeaseInv
<1> QED BY <1>1, <1>2, <1>3, <1>4, Zenon DEF CacheNext

-----------------------------------------------------------------------------
(* The caches: who asks the cloud *)

\* A caller that may share and looks the stream up asks only where no lease runs.
LEMMA LookupShares ==
    ASSUME CacheInv, LeaseInv, TimesInv, NEW s \in Call,
           Lookup(s).at = "fetching", ~Lookup(s).noCache
    PROVE  lease[Lookup(s).wanted] = 0
<1>1. s.wanted \in Wanted
  BY DEF Call
<1>2. CASE ~s.noCache /\ Live(streams[s.wanted])
  <2>1. Lookup(s) = [s EXCEPT !.at = "returned", !.attempt = 0,
                              !.info = streams[s.wanted].info]
    BY <1>2 DEF Lookup, streamCacheKey
  <2>2. Lookup(s).at = "returned"
    BY <2>1 DEF Call
  <2> QED BY <2>2
<1>3. CASE ~(~s.noCache /\ Live(streams[s.wanted]))
  <2>1. Lookup(s) = [s EXCEPT !.at = "fetching"]
    BY <1>3, Zenon DEF Lookup, streamCacheKey
  <2>2. Lookup(s).wanted = s.wanted /\ Lookup(s).noCache = s.noCache
    BY <2>1, Zenon DEF Call
  <2>3. ~Live(streams[s.wanted])
    BY <1>3, <2>2, Zenon
  <2>4. lease[s.wanted] \in Nat
    BY <1>1, Lifetimes DEF TimesInv
  <2>5. ~(lease[s.wanted] > 0)
    <3> SUFFICES ASSUME lease[s.wanted] > 0 PROVE FALSE
      OBVIOUS
    <3>1. streams[s.wanted] # Nothing /\ lease[s.wanted] <= streams[s.wanted].left
      BY <1>1, Zenon DEF LeaseInv
    <3>2. ~(streams[s.wanted].left > 0)
      BY <2>3, <3>1, Zenon DEF Live
    <3>3. streams[s.wanted].left \in Nat
      <4>1. streams[s.wanted] \in Entry
        BY <1>1, <3>1 DEF CacheInv
      <4> QED BY <4>1, Lifetimes DEF Entry
    <3> QED BY <2>4, <3>1, <3>2, <3>3
  <2> QED BY <2>2, <2>4, <2>5
<1> QED BY <1>2, <1>3

\* A step of a call that comes to ask the cloud has looked the stream up, or it
\* takes a snapshot.
LEMMA FetchesAfterLookup ==
    ASSUME CacheInv, NEW c \in Calls, CallStep(c),
           call'[c].at = "fetching", call[c].at # "fetching"
    PROVE  \/ \E s \in Call : call'[c] = Lookup(s)
           \/ call'[c].kind = "snapshot"
<1>0. call \in [Calls -> Call] /\ call[c] \in Call
  BY DEF CacheInv
<1>1. \A s : Now(c, s) => call'[c] = s
  BY <1>0 DEF Now
<1>2. \A at \in Resting : Rested(at).at # "fetching"
  BY RestedOK DEF Resting
<1>3. \A s \in Call : LookupPhoto(s).at = "fetching" => LookupPhoto(s).kind = "snapshot"
  <2> SUFFICES ASSUME NEW s \in Call, LookupPhoto(s).at = "fetching"
               PROVE  LookupPhoto(s).kind = "snapshot"
    OBVIOUS
  <2>1. LookupPhoto(s) # Rested("returned")
    BY <1>2 DEF Resting
  <2>2. LookupPhoto(s) = [s EXCEPT !.at = "fetching", !.kind = "snapshot"]
    BY <2>1, Zenon DEF LookupPhoto
  <2> QED BY <2>2 DEF Call
<1>4. \A s \in Call : \A at \in {"listing", "downloading", "finding"} :
         [s EXCEPT !.at = at].at # "fetching"
  BY DEF Call
<1>5. CASE Asks(c)
  <2>1. PICK s \in Call :
           \/ Now(c, Lookup(s)) \/ Now(c, LookupPhoto(s))
           \/ \E at \in {"listing", "finding"} : Now(c, [s EXCEPT !.at = at])
    BY <1>5, AskedCalls
  <2> QED BY <1>1, <1>3, <1>4, <2>1
<1>6. CASE Found(c)
  <2>1. call'[c] = LookupPhoto(call[c])
    BY <1>1, <1>6, Zenon DEF Found
  <2> QED BY <1>0, <1>3, <2>1
<1>7. CASE PauseEnds(c)
  <2>1. call'[c] = Lookup(call[c])
    BY <1>1, <1>7, Zenon DEF PauseEnds
  <2> QED BY <1>0, <2>1
<1>8. CASE FetchFails(c)
  <2>1. call'[c] = Failed(call[c])
    BY <1>1, <1>8, Zenon DEF FetchFails
  <2>2. Failed(call[c]).at # "fetching"
    <3>1. CASE Failed(call[c]) = Rested("threw")
      BY <1>2, <3>1 DEF Resting
    <3>2. CASE Failed(call[c]) = [call[c] EXCEPT !.at = "pausing", !.attempt = @ + 1,
                                                 !.info = Nothing, !.spoiled = FALSE]
      BY <1>0, <3>2 DEF Call
    <3> QED BY <3>1, <3>2, Zenon DEF Failed
  <2> QED BY <2>1, <2>2
<1>9. CASE Issued(c)
  <2>1. call[c].at = "fetching"
    BY <1>9, Zenon DEF Issued
  <2> QED BY <2>1
<1>10. CASE Delivered(c)
  <2>1. \/ call'[c] = [call[c] EXCEPT !.at = "capturing", !.info = Nothing, !.spoiled = FALSE]
        \/ call'[c] = Rested("returned")
    BY <1>1, <1>10, Zenon DEF Delivered
  <2>2. [call[c] EXCEPT !.at = "capturing", !.info = Nothing, !.spoiled = FALSE].at
            # "fetching"
    BY <1>0 DEF Call
  <2> QED BY <1>2, <2>1, <2>2 DEF Resting
<1>11. CASE Listed(c) \/ Downloaded(c)
  <2>1. \/ \E at \in {"downloading", "finding"} : call'[c] = [call[c] EXCEPT !.at = at]
        \/ call'[c] = Rested("returned")
    BY <1>1, <1>11, Zenon DEF Listed, Downloaded
  <2> QED BY <1>0, <1>2, <1>4, <2>1 DEF Resting
<1>12. CASE ListFails(c) \/ Captured(c) \/ CaptureFails(c)
  <2>1. call'[c] = Rested("threw") \/ call'[c] = Rested("returned")
    BY <1>1, <1>12, Zenon DEF ListFails, Captured, CaptureFails
  <2> QED BY <1>2, <2>1 DEF Resting
<1> QED BY <1>5, <1>6, <1>7, <1>8, <1>9, <1>10, <1>11, <1>12 DEF CallStep

\* Where every caller gives the same lifetime, the cloud is asked for a stream once
\* in that time, by all callers that share: those that wake from a back-off, and those
\* that come while the answers of others are late, included.
THEOREM FetchedOncePerLifetime ==
    ASSUME NEW t, StreamTtls = {t}
    PROVE  CacheSpec => OneFetchPerLifetime
<1>0. \A ttl \in StreamTtls : ttl = MaxTtl
  BY Lifetimes
<1>1. CacheInit => LeaseInv
  <2> SUFFICES ASSUME CacheInit, NEW k \in Wanted PROVE lease[k] = 0
    BY DEF LeaseInv
  <2> QED BY Zenon DEF CacheInit
<1>2. CacheInv /\ TimesInv /\ LeaseInv /\ [CacheNext]_cacheVars => LeaseInv'
  BY <1>0, NextLeaseInv
<1>3. CacheInv /\ TimesInv /\ LeaseInv /\ [CacheNext]_cacheVars
        => [\A c \in Calls :
              call'[c].at = "fetching" /\ call[c].at # "fetching"
                /\ call'[c].kind # "snapshot" /\ ~call'[c].noCache
                  => lease[call'[c].wanted] = 0]_cacheVars
  <2> SUFFICES ASSUME CacheInv, TimesInv, LeaseInv, CacheNext, NEW c \in Calls,
                      call'[c].at = "fetching", call[c].at # "fetching",
                      call'[c].kind # "snapshot", ~call'[c].noCache
               PROVE  lease[call'[c].wanted] = 0
    BY Zenon
  <2>0. call \in [Calls -> Call]
    BY DEF CacheInv
  <2>1. CASE Cleared
    <3>1. PICK macs : call' = [d \in Calls |->
                                  IF call[d].at = "issued" /\ call[d].wanted.mac \in macs
                                  THEN [call[d] EXCEPT !.spoiled = TRUE] ELSE call[d]]
      BY <2>1, Zenon DEF Cleared, Clear
    <3>2. call'[c].at = call[c].at
      BY <2>0, <3>1 DEF Call
    <3> QED BY <3>2
  <2>2. CASE Tick
    <3>1. call' = [d \in Calls |-> IF call[d].at = "issued"
                                   THEN [call[d] EXCEPT !.info = Older(@)] ELSE call[d]]
      BY <2>2, Zenon DEF Tick
    <3>2. call'[c].at = call[c].at
      BY <2>0, <3>1 DEF Call
    <3> QED BY <3>2
  <2>3. ASSUME NEW d \in Calls, CallStep(d) PROVE lease[call'[c].wanted] = 0
    <3>1. CASE d = c
      <4>1. PICK s \in Call : call'[c] = Lookup(s)
        BY <2>3, <3>1, FetchesAfterLookup, Zenon
      <4> QED BY <4>1, LookupShares, Zenon
    <3>2. CASE d # c
      <4>1. PICK s : Now(d, s)
        BY <2>3, CallStepOK
      <4>2. call'[c] = call[c]
        BY <2>0, <3>2, <4>1 DEF Now
      <4> QED BY <4>2
    <3> QED BY <3>1, <3>2
  <2> QED BY <2>1, <2>2, <2>3, Zenon DEF CacheNext
<1> QED BY <1>1, <1>2, <1>3, SpecCacheInv, SpecTimesInv, PTL DEF CacheSpec, OneFetchPerLifetime
=============================================================================
