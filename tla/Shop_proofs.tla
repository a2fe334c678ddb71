----------------------------- MODULE Shop_proofs -----------------------------
(***************************************************************************)
(* A shop from its signup to its life with customers: TenantLifecycle      *)
(* starts with the documents that Signup ends with.                        *)
(*                                                                         *)
(* First what Signup promises for any number of requests, any businesses   *)
(* and any of the faults.  Then what TenantLifecycle promises for any      *)
(* number of shops, numbers, business accounts and overlapping requests.   *)
(***************************************************************************)
EXTENDS Signup, TenantLifecycle, FiniteSetTheorems, TLAPS

(***************************************************************************)
(* Signing up.                                                             *)
(***************************************************************************)
Typed ==
  /\ SignupTypeOK
  /\ \A s \in Starts : pc[s] \in StartLabels
  /\ \A v \in Verifies : pc[v] \in VerifyLabels
  /\ code # Nothing => attempts <= MaxAttempts

\* What a verification has made where it stands; going back it has undone the
\* later parts, if no call of the undoing failed.
MadeSoFar(v) ==
  /\ pc[v] \in {"idle", "consume", "stashed", "check", "tenant"} => made[v] = {}
  /\ pc[v] = "group" => made[v] = {"tenant"}
  /\ pc[v] \in {"link", "user"} => made[v] = {"tenant", "group"}
  /\ pc[v] = "owner" => made[v] = {"tenant", "group", "user"}
  /\ ~failed => /\ pc[v] = "undo user" => made[v] = {"tenant", "group", "user"}
                /\ pc[v] = "undo group" => made[v] = {"tenant", "group"}
                /\ pc[v] = "undo tenant" => made[v] = {"tenant"}
                /\ pc[v] \in {"cleanup", "done"} => made[v] \in {{}, Parts}

MadeInv == \A v \in Verifies : MadeSoFar(v)

(***************************************************************************)
(* Sign-ups apart.                                                         *)
(***************************************************************************)

\* A verification that has the details it provisions, and one that found the
\* phone unknown.
Provides(v) == pc[v] \in {"check", "tenant", "group", "link", "user", "owner"}
Creates(v)  == pc[v] \in {"tenant", "group", "link", "user", "owner"}

\* A sign-up that overlapped none has the claim while a request of it is in
\* progress, and then no other sign-up has one in progress.
KeptInv == \A s \in Starts \ overlapped : ~ Overlaps(s)

\* The details in the stash are those of who has the claim, and nobody has
\* stashed theirs before the end.
StashInv ==
  /\ pending # Nothing => claim = pending \/ pending \in overlapped
  /\ \A s \in Starts : pc[s] # "done" => pending # s

\* A verification in progress has accepted a code, and provisions its details.
CodeOf(v) ==
  /\ Running(v) => used[v] \in Starts
  /\ Provides(v) \/ made[v] # {} => (Apart(v) => details[v] = used[v])

CodeInv == \A v \in Verifies : CodeOf(v)

\* While a verification creates, only one of the same sign-up makes the owner.
CreateInv ==
  \A v, w \in Verifies :
    v # w /\ Creates(v) /\ "owner" \in made[w] /\ Apart(v) /\ Apart(w) => used[v] = used[w]

\* Who holds the claim is on the way to a code and its details, has left them,
\* or is being verified.
HeldInv ==
  ~ failed /\ claim \notin overlapped \cup {Nothing} =>
    \/ pc[claim] = "code"
    \/ pc[claim] \in {"send", "stash"} /\ code = claim
    \/ pc[claim] = "done" /\ code = claim /\ pending = claim
    \/ \E v \in Verifies : Running(v) /\ used[v] = claim

ApartInv == KeptInv /\ StashInv /\ CodeInv /\ CreateInv /\ OnePhoneOneOwner /\ HeldInv

(***************************************************************************)
(* Types.                                                                  *)
(***************************************************************************)

\* The steps of a start and of a verification.
StartStep(s) ==
  BeginStart(s) \/ ClaimPhone(s) \/ GenerateCode(s) \/ SendCode(s) \/ StashDetails(s)

VerifyStep(v) ==
  \/ VerifyCode(v) \/ ConsumeCode(v) \/ LoadDetails(v) \/ CheckPhone(v)
  \/ LinkGroup(v) \/ EndVerify(v)
  \/ \E part \in Parts : Provision(v, part)
  \/ \E part \in Parts \ {"owner"} : UndoPart(v, part)

\* Every step is one of a start, one of a verification, a crash, an expiry or a stutter.
LEMMA Steps ==
  [SignupNext]_signupVars =>
     \/ /\ NoteOverlaps
        /\ \/ \E s \in Starts : StartStep(s)
           \/ \E v \in Verifies : VerifyStep(v)
           \/ \E x \in Starts \cup Verifies : RequestDies(x)
           \/ Expire
     \/ UNCHANGED signupVars
BY DEF SignupNext, RequestStep, StartStep, VerifyStep

\* A request moves on alone.
LEMMA Moves ==
  ASSUME Typed, NEW x \in Starts \cup Verifies, NEW label \in StartLabels \cup VerifyLabels,
         Proceed(x, label)
  PROVE  /\ pc' \in [Starts \cup Verifies -> StartLabels \cup VerifyLabels]
         /\ pc'[x] = label
         /\ \A y \in Starts \cup Verifies : y # x => pc'[y] = pc[y]
BY DEF Typed, SignupTypeOK, Proceed

\* Where the undoing of parts goes next, and where the making does.
LEMMA UndoIs ==
  \A parts : /\ Undo(parts) \in {"undo user", "undo group", "undo tenant", "cleanup"}
             /\ Undo(parts) \in VerifyLabels
             /\ "user" \in parts => Undo(parts) = "undo user"
             /\ "user" \notin parts /\ "group" \in parts => Undo(parts) = "undo group"
             /\ "user" \notin parts /\ "group" \notin parts =>
                  Undo(parts) = IF "tenant" \in parts THEN "undo tenant" ELSE "cleanup"
BY DEF Undo, VerifyLabels

\* The label a creation goes to next.
LEMMA AfterIs ==
  /\ After("tenant") = "group" /\ After("group") = "link"
  /\ After("user") = "owner" /\ After("owner") = "cleanup"
BY DEF After

\* A step of a start moves it to one of its labels, and types are kept.
LEMMA StartTypes ==
  ASSUME Typed, NoteOverlaps, NEW s \in Starts, StartStep(s)
  PROVE  Typed' /\ \E label \in StartLabels : Proceed(s, label)
<1>1. PICK label \in StartLabels : Proceed(s, label)
  BY DEF StartStep, BeginStart, ClaimPhone, GenerateCode, SendCode, StashDetails, StartLabels
<1>2. /\ pc' \in [Starts \cup Verifies -> StartLabels \cup VerifyLabels]
      /\ pc'[s] = label
      /\ \A y \in Starts \cup Verifies : y # s => pc'[y] = pc[y]
  BY <1>1, Moves
<1>3. \A v \in Verifies : v # s
  BY RequestsAssumption
<1>4. /\ \A r \in Starts : pc'[r] \in StartLabels
      /\ \A v \in Verifies : pc'[v] \in VerifyLabels
  BY <1>2, <1>3 DEF Typed
<1>5. /\ failed' \in BOOLEAN /\ overlapped' \subseteq Starts
      /\ {claim', code', pending'} \subseteq Starts \cup {Nothing} /\ sent' \subseteq Starts
      /\ UNCHANGED <<made, used, details>>
      /\ (attempts' = attempts /\ code' = code) \/ attempts' = 0
  BY DEF Typed, SignupTypeOK, StartStep, BeginStart, ClaimPhone, GenerateCode, SendCode, StashDetails, redis,
         NoteOverlaps
<1>6. attempts' \in 0 .. MaxAttempts + 1 /\ (code' # Nothing => attempts' <= MaxAttempts)
  BY <1>5, AttemptsAssumption DEF Typed, SignupTypeOK
<1> QED
  BY <1>1, <1>2, <1>4, <1>5, <1>6 DEF Typed, SignupTypeOK

\* A step of a verification moves it to one of its labels, and types are kept.
LEMMA VerifyTypes ==
  ASSUME Typed, NoteOverlaps, NEW v \in Verifies, VerifyStep(v)
  PROVE  Typed' /\ \E label \in VerifyLabels : Proceed(v, label)
<1>1. PICK label \in VerifyLabels : Proceed(v, label)
  <2>1. CASE VerifyCode(v) \/ ConsumeCode(v) \/ LoadDetails(v) \/ CheckPhone(v) \/ EndVerify(v)
    BY <2>1 DEF VerifyCode, ConsumeCode, LoadDetails, CheckPhone, EndVerify, VerifyLabels
  <2>2. CASE LinkGroup(v)
    BY <2>2, UndoIs DEF LinkGroup, VerifyLabels
  <2>3. CASE \E part \in Parts : Provision(v, part)
    BY <2>3, UndoIs, AfterIs DEF Provision, Parts, VerifyLabels
  <2>4. CASE \E part \in Parts \ {"owner"} : UndoPart(v, part)
    BY <2>4, UndoIs DEF UndoPart, VerifyLabels
  <2> QED
    BY <2>1, <2>2, <2>3, <2>4 DEF VerifyStep
<1>2. /\ pc' \in [Starts \cup Verifies -> StartLabels \cup VerifyLabels]
      /\ pc'[v] = label
      /\ \A y \in Starts \cup Verifies : y # v => pc'[y] = pc[y]
  BY <1>1, Moves
<1>3. \A s \in Starts : v # s
  BY RequestsAssumption
<1>4. /\ \A r \in Starts : pc'[r] \in StartLabels
      /\ \A w \in Verifies : pc'[w] \in VerifyLabels
  BY <1>2, <1>3 DEF Typed
<1>5. /\ failed' \in BOOLEAN /\ overlapped' \subseteq Starts
      /\ claim' \in {claim, Nothing} /\ code' \in {code, Nothing} /\ pending' \in {pending, Nothing}
      /\ sent' = sent
  BY DEF Typed, SignupTypeOK, VerifyStep, VerifyCode, ConsumeCode, LoadDetails, CheckPhone, LinkGroup,
         EndVerify, Provision, UndoPart, Cleanup, NoteOverlaps, redis
<1>6. /\ used' \in [Verifies -> Starts \cup {Nothing}]
      /\ details' \in [Verifies -> Starts \cup {Nothing}]
  BY DEF Typed, SignupTypeOK, VerifyStep, VerifyCode, ConsumeCode, LoadDetails, CheckPhone, LinkGroup,
         EndVerify, Provision, UndoPart
<1>7. made' \in [Verifies -> SUBSET Parts]
  <2>1. made' = made \/ \E m \in SUBSET Parts : made' = [made EXCEPT ![v] = m]
    BY DEF Typed, SignupTypeOK, VerifyStep, VerifyCode, ConsumeCode, LoadDetails, CheckPhone, LinkGroup,
           EndVerify, Provision, UndoPart
  <2> QED
    BY <2>1 DEF Typed, SignupTypeOK
<1>8. attempts' \in 0 .. MaxAttempts + 1 /\ (code' # Nothing => attempts' <= MaxAttempts)
  <2>1. CASE VerifyCode(v)
    BY <2>1, AttemptsAssumption DEF Typed, SignupTypeOK, VerifyCode, TooMany
  <2>2. CASE ConsumeCode(v)
    BY <2>2, AttemptsAssumption DEF ConsumeCode
  <2>3. CASE ~ (VerifyCode(v) \/ ConsumeCode(v))
    <3>1. attempts' = attempts /\ code' = code
      BY <2>3 DEF VerifyStep, LoadDetails, CheckPhone, LinkGroup, EndVerify, Provision, UndoPart, redis
    <3> QED
      BY <3>1 DEF Typed, SignupTypeOK
  <2> QED
    BY <2>1, <2>2, <2>3
<1>9. {claim', code', pending'} \subseteq Starts \cup {Nothing}
  BY <1>5 DEF Typed, SignupTypeOK
<1> QED
  BY <1>1, <1>2, <1>4, <1>5, <1>6, <1>7, <1>8, <1>9 DEF Typed, SignupTypeOK

\* A request that dies leaves every other request where it was.
LEMMA CrashTypes ==
  ASSUME Typed, NoteOverlaps, NEW x \in Starts \cup Verifies, RequestDies(x)
  PROVE  /\ Typed' /\ pc'[x] = "done"
         /\ \A y \in Starts \cup Verifies : y # x => pc'[y] = pc[y]
<1>1. /\ pc' \in [Starts \cup Verifies -> StartLabels \cup VerifyLabels]
      /\ pc'[x] = "done"
      /\ \A y \in Starts \cup Verifies : y # x => pc'[y] = pc[y]
  BY Moves DEF RequestDies, StartLabels
<1>2. /\ \A r \in Starts : pc'[r] \in StartLabels
      /\ \A w \in Verifies : pc'[w] \in VerifyLabels
  BY <1>1 DEF Typed, StartLabels, VerifyLabels
<1> QED
  BY <1>1, <1>2 DEF RequestDies, redis, NoteOverlaps, Typed, SignupTypeOK

\* Every step keeps the types.
LEMMA SignupTypeStep == Typed /\ [SignupNext]_signupVars => Typed'
<1> SUFFICES ASSUME Typed, [SignupNext]_signupVars PROVE Typed'
  OBVIOUS
<1>1. ASSUME NoteOverlaps, Expire PROVE Typed'
  <2>1. 0 \in 0 .. MaxAttempts + 1
    BY AttemptsAssumption
  <2> QED
    BY <1>1, <2>1 DEF Expire, Cleanup, NoteOverlaps, Typed, SignupTypeOK
<1>2. CASE UNCHANGED signupVars
  BY <1>2 DEF signupVars, Typed, SignupTypeOK
<1> QED
  BY <1>1, <1>2, Steps, StartTypes, VerifyTypes, CrashTypes

\* Every reachable state has the types of Typed (SignupTypeOK with the range of each label).
LEMMA TypeHolds == SignupSpec => []Typed
<1>1. SignupInit => Typed
  <2>1. 0 \in 0 .. MaxAttempts + 1
    BY AttemptsAssumption
  <2>2. "idle" \in StartLabels /\ "idle" \in VerifyLabels
    BY DEF StartLabels, VerifyLabels
  <2> QED
    BY <2>1, <2>2 DEF SignupInit, Typed, SignupTypeOK
<1> QED
  BY <1>1, SignupTypeStep, PTL DEF SignupSpec

\* Types: the Redis keys, the attempt counter and the documents of the sign-up
\* code (vendor.controller.ts, signupOtp.ts) keep the shape of SignupTypeOK, for any number
\* of requests, whether or not they overlap.
THEOREM SignupTypeCorrect == SignupSpec => []SignupTypeOK
<1>1. Typed => SignupTypeOK
  BY DEF Typed
<1> QED
  BY <1>1, TypeHolds, PTL

(***************************************************************************)
(* All or nothing.                                                         *)
(***************************************************************************)

\* A verification that does not move, and whose parts do not change.
LEMMA MadeFrame ==
  ASSUME NEW v, MadeSoFar(v), made'[v] = made[v], pc'[v] = pc[v], failed => failed'
  PROVE  MadeSoFar(v)'
BY DEF MadeSoFar

\* What a step of a verification does to its parts.
LEMMA VerifyMade ==
  ASSUME Typed, MadeInv, NEW v \in Verifies, VerifyStep(v)
  PROVE  MadeSoFar(v)'
<1>1. MadeSoFar(v)
  BY DEF MadeInv
<1>2. \A label \in VerifyLabels : Proceed(v, label) => pc'[v] = label
  BY Moves
<1>3. CASE VerifyCode(v)
  <2>1. pc[v] = "idle" /\ pc'[v] \in {"done", "consume"} /\ made' = made
    BY <1>2, <1>3 DEF VerifyCode, VerifyLabels
  <2> QED
    BY <1>1, <2>1 DEF MadeSoFar
<1>4. CASE ConsumeCode(v)
  <2>1. pc[v] = "consume" /\ pc'[v] = "stashed" /\ made' = made
    BY <1>2, <1>4 DEF ConsumeCode, VerifyLabels
  <2> QED
    BY <1>1, <2>1 DEF MadeSoFar
<1>5. CASE LoadDetails(v)
  <2>1. pc[v] = "stashed" /\ pc'[v] \in {"done", "check"} /\ made' = made
    BY <1>2, <1>5 DEF LoadDetails, VerifyLabels
  <2> QED
    BY <1>1, <2>1 DEF MadeSoFar
<1>6. CASE CheckPhone(v)
  <2>1. pc[v] = "check" /\ pc'[v] \in {"cleanup", "tenant"} /\ made' = made
    BY <1>2, <1>6 DEF CheckPhone, VerifyLabels
  <2> QED
    BY <1>1, <2>1 DEF MadeSoFar
<1>7. CASE LinkGroup(v)
  <2>1. pc[v] = "link" /\ made' = made /\ made[v] = {"tenant", "group"}
    BY <1>1, <1>7 DEF LinkGroup, MadeSoFar
  <2>2. pc'[v] \in {"user", "undo group"}
    BY <1>2, <1>7, <2>1, UndoIs DEF LinkGroup, VerifyLabels
  <2> QED
    BY <2>1, <2>2 DEF MadeSoFar
<1>8. CASE EndVerify(v)
  <2>1. pc[v] = "cleanup" /\ pc'[v] = "done" /\ UNCHANGED <<made, failed>>
    BY <1>2, <1>8 DEF EndVerify, VerifyLabels
  <2> QED
    BY <1>1, <2>1 DEF MadeSoFar
<1>9. ASSUME NEW part \in Parts, Provision(v, part) PROVE MadeSoFar(v)'
  <2>1. /\ pc[v] = part /\ made[v] \in SUBSET Parts
        /\ made[v] = CASE part = "tenant" -> {} [] part = "group" -> {"tenant"}
                       [] part = "user" -> {"tenant", "group"}
                       [] part = "owner" -> {"tenant", "group", "user"}
    BY <1>1, <1>9 DEF Provision, Parts, MadeSoFar, Typed, SignupTypeOK
  <2>2. \/ made' = [made EXCEPT ![v] = @ \cup {part}] /\ Proceed(v, After(part))
        \/ made' = made /\ Proceed(v, Undo(made[v]))
        \/ made' = [made EXCEPT ![v] = @ \cup {part}] /\ Proceed(v, Undo(made[v])) /\ failed'
    BY <1>9 DEF Provision
  <2>3. CASE made' = [made EXCEPT ![v] = @ \cup {part}] /\ Proceed(v, After(part))
    <3>1. made'[v] = made[v] \cup {part} /\ pc'[v] = After(part)
      BY <1>2, <2>3, AfterIs DEF Typed, SignupTypeOK, Parts, VerifyLabels
    <3> QED
      BY <2>1, <3>1, AfterIs DEF MadeSoFar, Parts
  <2>4. CASE made' = made /\ Proceed(v, Undo(made[v]))
    <3>1. pc'[v] = Undo(made[v])
      BY <1>2, <2>4, UndoIs
    <3>2. CASE part = "owner"
      BY <2>1, <2>4, <3>1, <3>2, UndoIs DEF MadeSoFar
    <3>3. CASE part = "user"
      BY <2>1, <2>4, <3>1, <3>3, UndoIs DEF MadeSoFar
    <3>4. CASE part = "group"
      BY <2>1, <2>4, <3>1, <3>4, UndoIs DEF MadeSoFar
    <3>5. CASE part = "tenant"
      BY <2>1, <2>4, <3>1, <3>5, UndoIs DEF MadeSoFar
    <3> QED
      BY <3>2, <3>3, <3>4, <3>5 DEF Parts
  <2>5. CASE Proceed(v, Undo(made[v])) /\ failed'
    <3>1. pc'[v] \in {"undo user", "undo group", "undo tenant", "cleanup"}
      BY <1>2, <2>5, UndoIs DEF VerifyLabels
    <3> QED
      BY <2>5, <3>1 DEF MadeSoFar
  <2> QED
    BY <2>2, <2>3, <2>4, <2>5
<1>10. ASSUME NEW part \in Parts \ {"owner"}, UndoPart(v, part) PROVE MadeSoFar(v)'
  <2>1. pc'[v] = Undo(made[v] \cap Before(part))
    BY <1>2, <1>10, UndoIs DEF UndoPart
  <2>2. CASE failed'
    BY <2>1, <2>2, UndoIs DEF MadeSoFar
  <2>3. CASE ~ failed'
    <3>1. ~ failed /\ made' = [made EXCEPT ![v] = @ \ {part}]
      BY <1>10, <2>3 DEF UndoPart
    <3>2. made'[v] = made[v] \ {part}
      BY <3>1 DEF Typed, SignupTypeOK
    <3>3. CASE part = "user"
      <4>1. pc[v] = "undo user" /\ Before(part) = {"tenant", "group"}
        BY <1>10, <3>3 DEF UndoPart, UndoLabel, Before
      <4>2. made[v] = {"tenant", "group", "user"}
        BY <1>1, <3>1, <4>1 DEF MadeSoFar
      <4>3. made'[v] = {"tenant", "group"}
        BY <3>2, <3>3, <4>2
      <4>4. pc'[v] = "undo group"
        <5>1. "group" \in made[v] \cap Before(part) /\ "user" \notin made[v] \cap Before(part)
          BY <4>1, <4>2
        <5> QED
          BY <2>1, <5>1, UndoIs
      <4> QED
        BY <4>3, <4>4 DEF MadeSoFar
    <3>4. CASE part = "group"
      <4>1. pc[v] = "undo group" /\ Before(part) = {"tenant"}
        BY <1>10, <3>4 DEF UndoPart, UndoLabel, Before
      <4>2. made[v] = {"tenant", "group"}
        BY <1>1, <3>1, <4>1 DEF MadeSoFar
      <4>3. made'[v] = {"tenant"}
        BY <3>2, <3>4, <4>2
      <4>4. pc'[v] = "undo tenant"
        <5>1. "tenant" \in made[v] \cap Before(part) /\ made[v] \cap Before(part) \cap {"user", "group"} = {}
          BY <4>1, <4>2
        <5> QED
          BY <2>1, <5>1, UndoIs
      <4> QED
        BY <4>3, <4>4 DEF MadeSoFar
    <3>5. CASE part = "tenant"
      <4>1. pc[v] = "undo tenant" /\ Before(part) = {}
        BY <1>10, <3>5 DEF UndoPart, UndoLabel, Before
      <4>2. made[v] = {"tenant"}
        BY <1>1, <3>1, <4>1 DEF MadeSoFar
      <4>3. made'[v] = {}
        BY <3>2, <3>5, <4>2
      <4>4. pc'[v] = "cleanup"
        <5>1. made[v] \cap Before(part) = {}
          BY <4>1, <4>2
        <5> QED
          BY <2>1, <5>1, UndoIs
      <4> QED
        BY <4>3, <4>4 DEF MadeSoFar
    <3> QED
      BY <3>3, <3>4, <3>5 DEF Parts
  <2> QED
    BY <2>2, <2>3
<1> QED
  BY <1>3, <1>4, <1>5, <1>6, <1>7, <1>8, <1>9, <1>10 DEF VerifyStep

\* No step of any request breaks the tie between where a verification stands and the
\* documents it has made.
LEMMA MadeStep == Typed /\ MadeInv /\ [SignupNext]_signupVars => MadeInv'
<1> SUFFICES ASSUME Typed, MadeInv, [SignupNext]_signupVars, NEW w \in Verifies PROVE MadeSoFar(w)'
  BY DEF MadeInv
<1>1. MadeSoFar(w)
  BY DEF MadeInv
<1>2. ASSUME NoteOverlaps, NEW s \in Starts, StartStep(s) PROVE MadeSoFar(w)'
  <2>1. pc'[w] = pc[w]
    BY <1>2, StartTypes, Moves, RequestsAssumption
  <2>2. made' = made /\ (failed => failed')
    BY <1>2 DEF StartStep, BeginStart, ClaimPhone, GenerateCode, SendCode, StashDetails
  <2> QED
    BY <1>1, <2>1, <2>2, MadeFrame
<1>3. ASSUME NoteOverlaps, NEW v \in Verifies, VerifyStep(v) PROVE MadeSoFar(w)'
  <2>1. CASE w = v
    BY <1>3, <2>1, VerifyMade
  <2>2. CASE w # v
    <3>1. pc'[w] = pc[w]
      BY <1>3, <2>2, VerifyTypes, Moves
    <3>2. made' = made \/ \E m : made' = [made EXCEPT ![v] = m]
      BY <1>3 DEF VerifyStep, VerifyCode, ConsumeCode, LoadDetails, CheckPhone, LinkGroup,
                  EndVerify, Provision, UndoPart
    <3>3. made'[w] = made[w]
      BY <2>2, <3>2 DEF Typed, SignupTypeOK
    <3>4. failed => failed'
      BY <1>3 DEF VerifyStep, VerifyCode, ConsumeCode, LoadDetails, CheckPhone, LinkGroup,
                  EndVerify, Provision, UndoPart
    <3> QED
      BY <1>1, <3>1, <3>3, <3>4, MadeFrame
  <2> QED
    BY <2>1, <2>2
<1>4. ASSUME NoteOverlaps, NEW x \in Starts \cup Verifies, RequestDies(x) PROVE MadeSoFar(w)'
  <2>1. made' = made /\ failed' /\ (pc'[w] = pc[w] \/ pc'[w] = "done")
    BY <1>4, CrashTypes DEF RequestDies
  <2> QED
    BY <1>1, <2>1 DEF MadeSoFar
<1>5. CASE Expire \/ UNCHANGED signupVars
  BY <1>1, <1>5, MadeFrame DEF Expire, signupVars
<1> QED
  BY <1>2, <1>3, <1>4, <1>5, Steps

\* AllOrNothing (vendor.controller.ts:225, the undoing of a failed provisioning): once everything is
\* quiet and no undo or crash has failed, every verification has left the whole of a
\* shop behind it or nothing of it, however many requests ran and overlapped.
THEOREM ShopsAreWhole == SignupSpec => []AllOrNothing
<1>1. SignupInit => MadeInv
  BY DEF SignupInit, MadeInv, MadeSoFar
<1>2. Typed /\ MadeInv => AllOrNothing
  <2> SUFFICES ASSUME Typed, MadeInv, ~ failed, Quiet, NEW v \in Verifies PROVE made[v] \in {{}, Parts}
    BY DEF AllOrNothing
  <2>1. pc[v] \in {"idle", "done"}
    BY DEF Quiet, Running
  <2> QED
    BY <2>1 DEF MadeInv, MadeSoFar
<1> QED
  BY <1>1, <1>2, TypeHolds, MadeStep, PTL DEF SignupSpec

(***************************************************************************)
(* One sign-up at a time.                                                  *)
(***************************************************************************)

\* What is noted stays noted, and a sign-up that is not noted overlaps none.
LEMMA Noted ==
  ASSUME Typed, NoteOverlaps
  PROVE  overlapped \subseteq overlapped' /\ KeptInv'
BY DEF NoteOverlaps, KeptInv, Typed, SignupTypeOK

\* Who overlapped none is alone: a request of it has the claim, and while it has
\* the claim every request is of it.
LEMMA Alone ==
  ASSUME Typed, KeptInv, NEW s \in Starts \ overlapped
  PROVE  /\ HasRequest(s) => claim = s
         /\ claim = s => \A r \in Starts : HasRequest(r) => r = s
BY DEF KeptInv, Overlaps

\* What a step of a start does to the rest of the phone's state.
LEMMA StartFacts ==
  ASSUME Typed, NoteOverlaps, NEW s \in Starts, StartStep(s)
  PROVE  /\ \A label \in StartLabels : Proceed(s, label) => pc'[s] = label
         /\ \A r \in Starts : r # s => pc'[r] = pc[r]
         /\ \A v \in Verifies : pc'[v] = pc[v]
         /\ UNCHANGED <<made, used, details, failed>>
<1>1. UNCHANGED <<made, used, details, failed>>
  BY DEF StartStep, BeginStart, ClaimPhone, GenerateCode, SendCode, StashDetails
<1> QED
  BY <1>1, StartTypes, Moves, RequestsAssumption

\* A start writes the details and the code of its own sign-up, which then has
\* the claim or overlapped another.
LEMMA StartKeeps ==
  ASSUME Typed, ApartInv, NoteOverlaps, NEW s \in Starts, StartStep(s)
  PROVE  ApartInv'
<1>1. /\ \A label \in StartLabels : Proceed(s, label) => pc'[s] = label
      /\ \A r \in Starts : r # s => pc'[r] = pc[r]
      /\ \A v \in Verifies : pc'[v] = pc[v]
      /\ UNCHANGED <<made, used, details, failed>>
  BY StartFacts
<1>2. overlapped \subseteq overlapped' /\ KeptInv'
  BY Noted
<1>3. \A v \in Verifies : /\ Apart(v)' => Apart(v)
                          /\ Running(v)' <=> Running(v)
                          /\ Provides(v)' <=> Provides(v)
                          /\ Creates(v)' <=> Creates(v)
  BY <1>1, <1>2 DEF Apart, Running, Provides, Creates
<1>4. CodeInv' /\ CreateInv'
  BY <1>1, <1>3 DEF ApartInv, CodeInv, CodeOf, CreateInv
<1>5. OnePhoneOneOwner'
  BY <1>1, <1>3 DEF ApartInv, OnePhoneOneOwner
<1>6. pc[s] \in {"code", "send", "stash"} => HasRequest(s)
  BY DEF HasRequest
<1>7. claim \in Starts \ overlapped /\ HasRequest(s) => claim = s
  BY Alone DEF ApartInv
<1>8. HasRequest(s) => claim = s \/ s \in overlapped
  BY Alone DEF ApartInv
<1>9. s # Nothing /\ claim \in Starts \cup {Nothing} /\ pending \in Starts \cup {Nothing}
  BY NothingAssumption DEF Typed, SignupTypeOK
<1>10. StashInv'
  <2>1. CASE BeginStart(s) \/ GenerateCode(s)
    <3>1. pc[s] \in {"idle", "code"} /\ UNCHANGED <<claim, pending>>
      BY <2>1 DEF BeginStart, GenerateCode, redis
    <3> QED
      BY <1>1, <1>2, <3>1 DEF ApartInv, StashInv
  <2>2. CASE ClaimPhone(s)
    <3>1. pc[s] = "claim" /\ UNCHANGED pending /\ (claim # Nothing => UNCHANGED claim)
      BY <2>2 DEF ClaimPhone
    <3> QED
      BY <1>1, <1>2, <1>9, <3>1 DEF ApartInv, StashInv
  <2>3. CASE SendCode(s)
    <3>1. pc[s] = "send" /\ UNCHANGED pending /\ claim' \in {claim, Nothing}
      BY <2>3 DEF SendCode
    <3>2. pending # Nothing /\ pending \notin overlapped => claim = pending /\ pending = s
      BY <1>6, <1>7, <1>9, <3>1 DEF ApartInv, StashInv
    <3>3. pending # s
      BY <3>1 DEF ApartInv, StashInv
    <3> QED
      BY <1>1, <1>2, <3>1, <3>2, <3>3 DEF ApartInv, StashInv
  <2>4. CASE StashDetails(s)
    <3>1. pc[s] = "stash" /\ pc'[s] = "done" /\ pending' = s /\ UNCHANGED claim
      BY <1>1, <2>4 DEF StashDetails, StartLabels
    <3> QED
      BY <1>1, <1>2, <1>6, <1>8, <3>1 DEF StashInv
  <2> QED
    BY <2>1, <2>2, <2>3, <2>4 DEF StartStep
<1>11. HeldInv'
  <2> SUFFICES ASSUME ~ failed, claim' \notin overlapped' \cup {Nothing}
               PROVE  \/ pc'[claim'] = "code"
                      \/ pc'[claim'] \in {"send", "stash"} /\ code' = claim'
                      \/ pc'[claim'] = "done" /\ code' = claim' /\ pending' = claim'
                      \/ \E v \in Verifies : Running(v)' /\ used'[v] = claim'
    BY <1>1 DEF HeldInv
  <2>1. CASE BeginStart(s)
    <3>1. pc[s] = "idle" /\ UNCHANGED <<claim, code, pending>>
      BY <2>1 DEF BeginStart, redis
    <3> QED
      BY <1>1, <1>2, <1>3, <1>9, <3>1 DEF ApartInv, HeldInv
  <2>2. CASE ClaimPhone(s)
    <3>1. /\ pc[s] = "claim" /\ UNCHANGED <<code, pending>>
          /\ claim = Nothing => claim' = s /\ pc'[s] = "code"
          /\ claim # Nothing => claim' = claim
      BY <1>1, <2>2 DEF ClaimPhone, StartLabels
    <3> QED
      BY <1>1, <1>2, <1>3, <1>9, <3>1 DEF ApartInv, HeldInv
  <2>3. CASE GenerateCode(s)
    <3>1. pc[s] = "code" /\ pc'[s] = "send" /\ code' = s /\ UNCHANGED claim
      BY <1>1, <2>3 DEF GenerateCode, StartLabels
    <3>2. claim = s
      BY <1>2, <1>6, <1>7, <1>9, <3>1
    <3> QED
      BY <3>1, <3>2
  <2>4. CASE SendCode(s)
    <3>1. /\ pc[s] = "send" /\ UNCHANGED code
          /\ claim' = Nothing \/ (UNCHANGED claim /\ pc'[s] = "stash")
      BY <1>1, <2>4 DEF SendCode, StartLabels
    <3>2. claim = s /\ claim' = s /\ pc'[s] = "stash"
      BY <1>2, <1>6, <1>7, <1>9, <3>1
    <3> QED
      BY <1>1, <1>2, <1>3, <3>1, <3>2 DEF ApartInv, HeldInv
  <2>5. CASE StashDetails(s)
    <3>1. pc[s] = "stash" /\ pc'[s] = "done" /\ pending' = s /\ UNCHANGED <<claim, code>>
      BY <1>1, <2>5 DEF StashDetails, StartLabels
    <3>2. claim = s
      BY <1>2, <1>6, <1>7, <1>9, <3>1
    <3> QED
      BY <1>1, <1>2, <1>3, <3>1, <3>2 DEF ApartInv, HeldInv
  <2> QED
    BY <2>1, <2>2, <2>3, <2>4, <2>5 DEF StartStep
<1> QED
  BY <1>2, <1>4, <1>5, <1>10, <1>11 DEF ApartInv

\* What a step of a verification does: the code and the details only go, and it
\* ends with the claim released, unless a wrong code was typed.
LEMMA VerifyFacts ==
  ASSUME Typed, NoteOverlaps, NEW v \in Verifies, VerifyStep(v)
  PROVE  /\ \A label \in VerifyLabels : Proceed(v, label) => pc'[v] = label
         /\ \A w \in Verifies : w # v => pc'[w] = pc[w]
         /\ \A s \in Starts : pc'[s] = pc[s]
         /\ UNCHANGED <<claim, pending>> \/ Cleanup
         /\ failed => failed'
         /\ \/ VerifyCode(v)
            \/ /\ Running(v) /\ used' = used
               /\ code' = code \/ pc[v] = "consume"
               /\ Cleanup \/ Running(v)'
<1>1. /\ \A label \in VerifyLabels : Proceed(v, label) => pc'[v] = label
      /\ \A w \in Verifies : w # v => pc'[w] = pc[w]
      /\ \A s \in Starts : pc'[s] = pc[s]
  BY VerifyTypes, Moves, RequestsAssumption
<1>2. /\ UNCHANGED <<claim, pending>> \/ Cleanup
      /\ failed => failed'
  <2>1. CASE \/ VerifyCode(v) \/ ConsumeCode(v) \/ LoadDetails(v)
             \/ CheckPhone(v) \/ LinkGroup(v) \/ EndVerify(v)
    BY <2>1 DEF VerifyCode, ConsumeCode, LoadDetails, CheckPhone, LinkGroup, EndVerify, redis
  <2>2. ASSUME NEW part \in Parts, Provision(v, part)
        PROVE  UNCHANGED <<claim, pending>> /\ (failed => failed')
    BY <2>2 DEF Provision, redis
  <2>3. ASSUME NEW part \in Parts, UndoPart(v, part)
        PROVE  UNCHANGED <<claim, pending>> /\ (failed => failed')
    BY <2>3 DEF UndoPart, redis
  <2> QED
    BY <2>1, <2>2, <2>3 DEF VerifyStep
<1>3. CASE ~ VerifyCode(v)
  <2>1. used' = used
    BY <1>3 DEF VerifyStep, ConsumeCode, LoadDetails, CheckPhone, LinkGroup, EndVerify, Provision, UndoPart
  <2>2. code' = code \/ pc[v] = "consume"
    BY <1>3 DEF VerifyStep, ConsumeCode, LoadDetails, CheckPhone, LinkGroup, EndVerify, Provision, UndoPart, redis
  <2>3. CASE ConsumeCode(v) \/ LoadDetails(v) \/ CheckPhone(v) \/ EndVerify(v)
    <3>1. Running(v)
      BY <2>3 DEF ConsumeCode, LoadDetails, CheckPhone, EndVerify, Running
    <3>2. Cleanup \/ Running(v)'
      BY <1>1, <2>3 DEF ConsumeCode, LoadDetails, CheckPhone, EndVerify, VerifyLabels, Running
    <3> QED
      BY <1>1, <1>2, <2>1, <2>2, <3>1, <3>2
  <2>4. CASE LinkGroup(v) \/ (\E part \in Parts : Provision(v, part))
             \/ \E part \in Parts \ {"owner"} : UndoPart(v, part)
    <3>1. PICK label \in VerifyLabels : Proceed(v, label) /\ label \notin {"idle", "done"}
      <4>1. \A parts : Undo(parts) \in VerifyLabels /\ Undo(parts) \notin {"idle", "done"}
        BY UndoIs
      <4>2. \A part \in Parts : After(part) \in VerifyLabels /\ After(part) \notin {"idle", "done"}
        BY AfterIs DEF Parts, VerifyLabels
      <4> QED
        BY <2>4, <4>1, <4>2 DEF LinkGroup, Provision, UndoPart, VerifyLabels
    <3>2. pc[v] \notin {"idle", "done"}
      <4>1. ASSUME NEW part \in Parts \ {"owner"}, UndoPart(v, part) PROVE pc[v] \notin {"idle", "done"}
        <5>1. /\ UndoLabel["user"] = "undo user" /\ UndoLabel["group"] = "undo group"
              /\ UndoLabel["tenant"] = "undo tenant"
          BY DEF UndoLabel
        <5> QED
          BY <4>1, <5>1 DEF UndoPart, Parts
      <4> QED
        BY <2>4, <4>1 DEF LinkGroup, Provision, Parts
    <3> QED
      BY <1>1, <1>2, <2>1, <2>2, <3>1, <3>2 DEF Running
  <2> QED
    BY <1>3, <2>3, <2>4 DEF VerifyStep
<1> QED
  BY <1>1, <1>2, <1>3

\* What a step of a verification does to its details and to what it makes.
LEMMA VerifyMakes ==
  ASSUME Typed, MadeInv, NoteOverlaps, NEW v \in Verifies, VerifyStep(v)
  PROVE  /\ \A w \in Verifies : w # v => details'[w] = details[w] /\ made'[w] = made[w] /\ used'[w] = used[w]
         /\ \/ details' = details /\ (Provides(v)' => Provides(v))
            \/ /\ pc[v] = "stashed" /\ pending # Nothing /\ made[v] = {} /\ made' = made
               /\ details' = [details EXCEPT ![v] = pending]
         /\ made'[v] # {} => made[v] # {} \/ Provides(v)
         /\ Creates(v)' => Creates(v) \/ ~ PhoneKnown
         /\ \/ "owner" \in made'[v] => "owner" \in made[v]
            \/ /\ pc[v] = "owner" /\ ~ Conflict(v, "owner")
               /\ UNCHANGED <<details, used>> /\ ~ Creates(v)'
<1>1. /\ \A label \in VerifyLabels : Proceed(v, label) => pc'[v] = label
  BY VerifyFacts
<1>2. \A w \in Verifies : w # v => details'[w] = details[w] /\ made'[w] = made[w] /\ used'[w] = used[w]
  <2>1. details' = details \/ \E d : details' = [details EXCEPT ![v] = d]
    BY DEF VerifyStep, VerifyCode, ConsumeCode, LoadDetails, CheckPhone, LinkGroup, EndVerify, Provision, UndoPart
  <2>2. made' = made \/ \E m : made' = [made EXCEPT ![v] = m]
    BY DEF VerifyStep, VerifyCode, ConsumeCode, LoadDetails, CheckPhone, LinkGroup, EndVerify, Provision, UndoPart
  <2>3. used' = used \/ \E u : used' = [used EXCEPT ![v] = u]
    BY DEF VerifyStep, VerifyCode, ConsumeCode, LoadDetails, CheckPhone, LinkGroup, EndVerify, Provision, UndoPart
  <2> QED
    BY <2>1, <2>2, <2>3 DEF Typed, SignupTypeOK
<1>3. /\ \/ details' = details /\ (Provides(v)' => Provides(v))
         \/ /\ pc[v] = "stashed" /\ pending # Nothing /\ made[v] = {} /\ made' = made
            /\ details' = [details EXCEPT ![v] = pending]
      /\ Creates(v)' => Creates(v) \/ ~ PhoneKnown
  <2>1. CASE VerifyCode(v)
    BY <1>1, <2>1 DEF VerifyCode, VerifyLabels, Provides, Creates
  <2>2. CASE ConsumeCode(v) \/ EndVerify(v)
    BY <1>1, <2>2 DEF ConsumeCode, EndVerify, VerifyLabels, Provides, Creates
  <2>3. CASE LoadDetails(v)
    BY <1>1, <2>3 DEF LoadDetails, MadeInv, MadeSoFar, VerifyLabels, Provides, Creates
  <2>4. CASE CheckPhone(v)
    BY <1>1, <2>4 DEF CheckPhone, VerifyLabels, Provides, Creates
  <2>5. CASE LinkGroup(v)
    BY <1>1, <2>5, UndoIs DEF LinkGroup, VerifyLabels, Provides, Creates
  <2>6. ASSUME NEW part \in Parts, Provision(v, part) PROVE Provides(v) /\ Creates(v) /\ details' = details
    BY <2>6 DEF Provision, Parts, Provides, Creates
  <2>7. ASSUME NEW part \in Parts \ {"owner"}, UndoPart(v, part)
        PROVE  ~ Provides(v)' /\ ~ Creates(v)' /\ details' = details
    BY <1>1, <2>7, UndoIs DEF UndoPart, Provides, Creates
  <2> QED
    BY <2>1, <2>2, <2>3, <2>4, <2>5, <2>6, <2>7 DEF VerifyStep
<1>4. made'[v] # {} => made[v] # {} \/ Provides(v)
  BY DEF VerifyStep, VerifyCode, ConsumeCode, LoadDetails, CheckPhone, LinkGroup, EndVerify, Provision, UndoPart,
         Provides, Parts, Typed, SignupTypeOK
<1>5. \/ "owner" \in made'[v] => "owner" \in made[v]
      \/ /\ pc[v] = "owner" /\ ~ Conflict(v, "owner")
         /\ UNCHANGED <<details, used>> /\ ~ Creates(v)'
  <2>1. CASE \/ VerifyCode(v) \/ ConsumeCode(v) \/ LoadDetails(v) \/ CheckPhone(v)
             \/ LinkGroup(v) \/ EndVerify(v)
    BY <2>1 DEF VerifyCode, ConsumeCode, LoadDetails, CheckPhone, LinkGroup, EndVerify
  <2>2. ASSUME NEW part \in Parts, Provision(v, part), "owner" \in made'[v], "owner" \notin made[v]
        PROVE  pc[v] = "owner" /\ ~ Conflict(v, "owner") /\ UNCHANGED <<details, used>> /\ ~ Creates(v)'
    <3>1. /\ pc[v] = part /\ ~ Conflict(v, part) /\ UNCHANGED <<details, used>>
          /\ made' = [made EXCEPT ![v] = @ \cup {part}]
          /\ Proceed(v, After(part)) \/ Proceed(v, Undo(made[v]))
      BY <2>2 DEF Provision
    <3>2. part = "owner"
      BY <2>2, <3>1 DEF Typed, SignupTypeOK
    <3>3. ~ Creates(v)'
      BY <1>1, <3>1, <3>2, AfterIs, UndoIs DEF Creates, VerifyLabels
    <3> QED
      BY <3>1, <3>2, <3>3
  <2>3. ASSUME NEW part \in Parts, UndoPart(v, part), "owner" \in made'[v]
        PROVE  "owner" \in made[v]
    BY <2>3 DEF UndoPart, Typed, SignupTypeOK
  <2> QED
    BY <2>1, <2>2, <2>3 DEF VerifyStep
<1> QED
  BY <1>2, <1>3, <1>4, <1>5

\* A verification provisions the details of its own sign-up.
LEMMA VerifyDetails ==
  ASSUME Typed, MadeInv, ApartInv, NoteOverlaps, NEW v \in Verifies, VerifyStep(v)
  PROVE  CodeInv'
<1>1. /\ \A label \in VerifyLabels : Proceed(v, label) => pc'[v] = label
      /\ \A w \in Verifies : w # v => pc'[w] = pc[w]
      /\ VerifyCode(v) \/ (Running(v) /\ used' = used)
  BY VerifyFacts
<1>2. /\ \A w \in Verifies : w # v => details'[w] = details[w] /\ made'[w] = made[w] /\ used'[w] = used[w]
      /\ \/ details' = details /\ (Provides(v)' => Provides(v))
         \/ /\ pc[v] = "stashed" /\ pending # Nothing /\ made[v] = {} /\ made' = made
            /\ details' = [details EXCEPT ![v] = pending]
      /\ made'[v] # {} => made[v] # {} \/ Provides(v)
  BY VerifyMakes
<1>3. overlapped \subseteq overlapped'
  BY Noted
<1>4. ASSUME NEW w \in Verifies, w # v PROVE CodeOf(w)'
  BY <1>1, <1>2, <1>3, <1>4 DEF ApartInv, CodeInv, CodeOf, Provides, Running, Apart
<1>5. CASE VerifyCode(v)
  <2>1. pc[v] = "idle" /\ made[v] = {} /\ made' = made /\ pc'[v] \in {"done", "consume"}
    BY <1>1, <1>5 DEF VerifyCode, MadeInv, MadeSoFar, VerifyLabels
  <2>2. pc'[v] = "consume" => used'[v] \in Starts
    <3>1. pc'[v] = "consume" => code # Nothing /\ used' = [used EXCEPT ![v] = code]
      BY <1>1, <1>5 DEF VerifyCode, Accepts, VerifyLabels
    <3> QED
      BY <3>1 DEF Typed, SignupTypeOK
  <2>3. CodeOf(v)'
    BY <2>1, <2>2 DEF CodeOf, Provides, Running
  <2> QED
    BY <1>4, <2>3 DEF CodeInv
<1>6. CASE Running(v) /\ used' = used
  <2>1. used[v] \in Starts /\ HasRequest(used[v])
    BY <1>6 DEF ApartInv, CodeInv, CodeOf, HasRequest
  <2>2. ASSUME Provides(v)' \/ made'[v] # {}, Apart(v)' PROVE details'[v] = used'[v]
    <3>1. CASE details' = details /\ (Provides(v)' => Provides(v))
      BY <1>2, <1>3, <1>6, <2>2, <3>1 DEF ApartInv, CodeInv, CodeOf, Apart
    <3>2. CASE /\ pending # Nothing
               /\ details' = [details EXCEPT ![v] = pending]
      <4>1. details'[v] = pending
        BY <3>2 DEF Typed, SignupTypeOK
      <4>2. pending \notin overlapped /\ used[v] \notin overlapped
        BY <1>3, <1>6, <2>2, <4>1 DEF Apart
      <4> QED
        BY <1>6, <2>1, <3>2, <4>1, <4>2, Alone DEF ApartInv, StashInv
    <3> QED
      BY <1>2, <3>1, <3>2
  <2>3. CodeOf(v)'
    BY <1>6, <2>1, <2>2 DEF CodeOf
  <2> QED
    BY <1>4, <2>3 DEF CodeInv
<1> QED
  BY <1>1, <1>5, <1>6

\* Two verifications in progress are of one sign-up, unless theirs overlapped.
LEMMA SameSignup ==
  ASSUME Typed, ApartInv, NEW v \in Verifies, NEW w \in Verifies,
         Running(v), Running(w), Apart(v), Apart(w)
  PROVE  used[v] = used[w]
<1>1. used[v] \in Starts \ overlapped /\ used[w] \in Starts \ overlapped
  BY DEF ApartInv, CodeInv, CodeOf, Apart
<1>2. HasRequest(used[v]) /\ HasRequest(used[w])
  BY DEF HasRequest
<1> QED
  BY <1>1, <1>2, Alone DEF ApartInv

\* The owner that a verification makes is the phone's only one, and it finds none
\* but its own sign-up's.
LEMMA VerifyOwners ==
  ASSUME Typed, MadeInv, ApartInv, NoteOverlaps, NEW v \in Verifies, VerifyStep(v)
  PROVE  CreateInv' /\ OnePhoneOneOwner'
<1>1. /\ \A w \in Verifies : w # v => pc'[w] = pc[w]
      /\ \A w \in Verifies : w # v => details'[w] = details[w] /\ made'[w] = made[w] /\ used'[w] = used[w]
      /\ Creates(v)' => Creates(v) \/ ~ PhoneKnown
      /\ \/ "owner" \in made'[v] => "owner" \in made[v]
         \/ /\ pc[v] = "owner" /\ ~ Conflict(v, "owner")
            /\ UNCHANGED <<details, used>> /\ ~ Creates(v)'
  BY VerifyFacts, VerifyMakes
<1>2. /\ overlapped \subseteq overlapped'
      /\ Creates(v)' \/ "owner" \in made'[v] => UNCHANGED <<details, used>>
  <2>1. VerifyCode(v) => pc'[v] \in {"done", "consume"} /\ made'[v] = {}
    BY VerifyFacts DEF VerifyCode, MadeInv, MadeSoFar, VerifyLabels
  <2>2. LoadDetails(v) => pc'[v] \in {"done", "check"} /\ made'[v] = {}
    BY VerifyFacts DEF LoadDetails, MadeInv, MadeSoFar, VerifyLabels
  <2>3. VerifyCode(v) \/ LoadDetails(v) \/ UNCHANGED <<details, used>>
    BY DEF VerifyStep, ConsumeCode, CheckPhone, LinkGroup, EndVerify, Provision, UndoPart
  <2> QED
    BY <2>1, <2>2, <2>3, Noted DEF Creates
<1>3. \A w \in Verifies : /\ (Creates(w)' \/ "owner" \in made'[w]) /\ Apart(w)' => Apart(w)
                          /\ Creates(w)' \/ "owner" \in made'[w] => used'[w] = used[w] /\ details'[w] = details[w]
                          /\ w # v => (Creates(w)' <=> Creates(w))
                          /\ Creates(w) => Running(w)
  BY <1>1, <1>2 DEF Apart, Creates, Running
<1>4. pc[v] = "owner" => Creates(v)
  BY DEF Creates
<1>5. ASSUME NEW u \in Verifies, NEW w \in Verifies, u # w, Creates(u)', "owner" \in made'[w], Apart(u)', Apart(w)'
      PROVE  used'[u] = used'[w]
  <2>1. Apart(u) /\ Apart(w) /\ used'[u] = used[u] /\ used'[w] = used[w]
    BY <1>3, <1>5
  <2>2. CASE u = v
    <3>1. "owner" \in made[w] /\ Creates(v)
      BY <1>1, <1>5, <2>2 DEF PhoneKnown
    <3> QED
      BY <1>5, <2>1, <2>2, <3>1 DEF ApartInv, CreateInv
  <2>3. CASE u # v
    <3>1. Creates(u)
      BY <1>3, <1>5, <2>3
    <3>2. CASE "owner" \in made[w]
      BY <1>5, <2>1, <3>1, <3>2 DEF ApartInv, CreateInv
    <3>3. CASE "owner" \notin made[w]
      <4>1. w = v /\ pc[v] = "owner"
        BY <1>1, <1>5, <3>3
      <4> QED
        BY <1>3, <1>4, <2>1, <3>1, <4>1, SameSignup
    <3> QED
      BY <3>2, <3>3
  <2> QED
    BY <2>2, <2>3
<1>6. CreateInv'
  BY <1>5 DEF CreateInv
<1>7. ASSUME NEW w \in Verifies, w # v, "owner" \in made'[v], "owner" \in made'[w]
      PROVE  /\ Business[details'[v]] # Business[details'[w]]
             /\ ~ (Apart(v)' /\ Apart(w)')
  <2>1. /\ "owner" \in made[w] /\ details'[v] = details[v] /\ details'[w] = details[w]
        /\ used'[v] = used[v] /\ used'[w] = used[w]
        /\ (Apart(v)' => Apart(v)) /\ (Apart(w)' => Apart(w))
    BY <1>1, <1>3, <1>7
  <2>2. CASE "owner" \in made[v]
    BY <1>3, <1>7, <2>1, <2>2 DEF ApartInv, OnePhoneOneOwner
  <2>3. CASE "owner" \notin made[v]
    <3>1. pc[v] = "owner" /\ ~ Conflict(v, "owner")
      BY <1>1, <1>7, <2>3
    <3>2. Business[details[v]] # Business[details[w]]
      BY <1>7, <2>1, <3>1 DEF Conflict
    <3>3. ~ (Apart(v) /\ Apart(w))
      <4> SUFFICES ASSUME Apart(v), Apart(w) PROVE FALSE
        OBVIOUS
      <4>1. used[v] = used[w]
        BY <1>4, <1>7, <2>1, <3>1 DEF ApartInv, CreateInv
      <4>2. details[v] = used[v] /\ details[w] = used[w]
        BY <2>1, <3>1 DEF ApartInv, CodeInv, CodeOf, Provides
      <4> QED
        BY <3>2, <4>1, <4>2
    <3> QED
      BY <1>3, <1>7, <2>1, <3>2, <3>3
  <2> QED
    BY <2>2, <2>3
<1>8. ASSUME NEW u \in Verifies, NEW w \in Verifies, u # w, u # v, w # v,
             "owner" \in made'[u], "owner" \in made'[w]
      PROVE  /\ Business[details'[u]] # Business[details'[w]]
             /\ ~ (Apart(u)' /\ Apart(w)')
  <2>1. /\ "owner" \in made[u] /\ "owner" \in made[w]
        /\ details'[u] = details[u] /\ details'[w] = details[w]
    BY <1>1, <1>8
  <2> QED
    BY <1>3, <1>8, <2>1 DEF ApartInv, OnePhoneOneOwner
<1>9. OnePhoneOneOwner'
  BY <1>7, <1>8 DEF OnePhoneOneOwner
<1> QED
  BY <1>6, <1>9

\* A verification leaves the claim alone or releases it with the details, and
\* takes away the code of its own sign-up only.
LEMMA VerifyKeeps ==
  ASSUME Typed, MadeInv, ApartInv, NoteOverlaps, NEW v \in Verifies, VerifyStep(v)
  PROVE  ApartInv'
<1>1. /\ \A w \in Verifies : w # v => pc'[w] = pc[w]
      /\ \A s \in Starts : pc'[s] = pc[s]
      /\ UNCHANGED <<claim, pending>> \/ Cleanup
      /\ failed => failed'
      /\ \/ VerifyCode(v)
         \/ /\ Running(v) /\ used' = used
            /\ code' = code \/ pc[v] = "consume"
            /\ Cleanup \/ Running(v)'
  BY VerifyFacts
<1>2. overlapped \subseteq overlapped' /\ KeptInv'
  BY Noted
<1>3. CodeInv' /\ CreateInv' /\ OnePhoneOneOwner'
  BY VerifyDetails, VerifyOwners
<1>4. StashInv'
  BY <1>1, <1>2, NothingAssumption DEF ApartInv, StashInv, Cleanup
<1>5. HeldInv'
  <2> SUFFICES ASSUME ~ failed', claim' \notin overlapped' \cup {Nothing}
               PROVE  \/ pc'[claim'] = "code"
                      \/ pc'[claim'] \in {"send", "stash"} /\ code' = claim'
                      \/ pc'[claim'] = "done" /\ code' = claim' /\ pending' = claim'
                      \/ \E w \in Verifies : Running(w)' /\ used'[w] = claim'
    BY DEF HeldInv
  <2>1. ~ Cleanup /\ UNCHANGED <<claim, pending>> /\ ~ failed
    BY <1>1 DEF Cleanup
  <2>2. claim \in Starts \ overlapped /\ pc'[claim] = pc[claim]
    BY <1>1, <1>2, <2>1 DEF Typed, SignupTypeOK
  <2>3. /\ \/ pc[claim] = "code"
           \/ pc[claim] \in {"send", "stash"} /\ code = claim
           \/ pc[claim] = "done" /\ code = claim /\ pending = claim
           \/ \E w \in Verifies : Running(w) /\ used[w] = claim
    BY <2>1, <2>2, NothingAssumption DEF ApartInv, HeldInv
  <2>4. CASE VerifyCode(v)
    <3>1. pc[v] = "idle" /\ code' = code /\ \A w \in Verifies : w # v => used'[w] = used[w]
      BY <2>1, <2>4 DEF VerifyCode, Typed, SignupTypeOK
    <3>2. \A w \in Verifies : Running(w) => Running(w)' /\ used'[w] = used[w]
      BY <1>1, <3>1 DEF Running
    <3> QED
      BY <2>1, <2>2, <2>3, <3>1, <3>2
  <2>5. CASE Running(v) /\ used' = used /\ Running(v)' /\ code' = code
    <3>1. \A w \in Verifies : Running(w) => Running(w)'
      BY <1>1, <2>5 DEF Running
    <3> QED
      BY <2>1, <2>2, <2>3, <2>5, <3>1
  <2>6. CASE Running(v) /\ used' = used /\ Running(v)'
    <3>1. used[v] \in Starts /\ HasRequest(used[v])
      BY <2>6 DEF ApartInv, CodeInv, CodeOf, HasRequest
    <3>2. used[v] = claim
      BY <2>2, <3>1, Alone DEF ApartInv
    <3> QED
      BY <2>1, <2>6, <3>2
  <2> QED
    BY <1>1, <2>1, <2>4, <2>6
<1> QED
  BY <1>2, <1>3, <1>4, <1>5 DEF ApartInv

\* A request that dies leaves what it held and made; nothing else changes.
LEMMA CrashKeeps ==
  ASSUME Typed, ApartInv, NoteOverlaps, NEW x \in Starts \cup Verifies, RequestDies(x)
  PROVE  ApartInv'
<1>1. \A y \in Starts \cup Verifies : pc'[y] = pc[y] \/ pc'[y] = "done"
  BY CrashTypes
<1>2. UNCHANGED <<claim, code, pending, made, used, details>> /\ failed'
  BY DEF RequestDies, redis
<1>3. overlapped \subseteq overlapped' /\ KeptInv'
  BY Noted
<1>4. \A v \in Verifies : /\ Apart(v)' => Apart(v)
                          /\ Running(v)' => Running(v)
                          /\ Provides(v)' => Provides(v)
                          /\ Creates(v)' => Creates(v)
  BY <1>1, <1>2, <1>3 DEF Apart, Running, Provides, Creates
<1>5. StashInv' /\ HeldInv'
  BY <1>1, <1>2, <1>3 DEF ApartInv, StashInv, HeldInv
<1>6. CodeInv' /\ CreateInv'
  BY <1>2, <1>4 DEF ApartInv, CodeInv, CodeOf, CreateInv
<1>7. OnePhoneOneOwner'
  BY <1>2, <1>4 DEF ApartInv, OnePhoneOneOwner
<1> QED
  BY <1>3, <1>5, <1>6, <1>7 DEF ApartInv

\* The keys of Redis expire together only when nothing runs.
LEMMA ExpireKeeps ==
  ASSUME Typed, ApartInv, NoteOverlaps, Expire
  PROVE  ApartInv'
<1>1. pending' = Nothing /\ claim' = Nothing /\ UNCHANGED <<made, used, details, pc>>
  BY DEF Expire, Cleanup
<1>2. overlapped \subseteq overlapped' /\ KeptInv'
  BY Noted
<1>3. StashInv' /\ HeldInv'
  BY <1>1, NothingAssumption DEF StashInv, HeldInv
<1>4. \A v \in Verifies : Apart(v)' => Apart(v)
  BY <1>1, <1>2 DEF Apart
<1>5. CodeInv' /\ CreateInv' /\ OnePhoneOneOwner'
  BY <1>1, <1>4 DEF ApartInv, CodeInv, CodeOf, CreateInv, OnePhoneOneOwner, Running, Provides, Creates
<1> QED
  BY <1>2, <1>3, <1>5 DEF ApartInv

\* The inductive invariant, whatever overlaps.
LEMMA SignupHolds == SignupSpec => [](Typed /\ ApartInv)
<1>1. SignupInit => MadeInv /\ ApartInv
  <2> SUFFICES ASSUME SignupInit PROVE MadeInv /\ ApartInv
    OBVIOUS
  <2>1. MadeInv
    BY DEF SignupInit, MadeInv, MadeSoFar
  <2>2. \A x \in Starts \cup Verifies : pc[x] = "idle"
    BY DEF SignupInit
  <2>3. KeptInv
    <3>1. \A s \in Starts : ~ HasRequest(s) /\ claim # s
      BY <2>2, NothingAssumption DEF SignupInit, HasRequest, Running
    <3> QED
      BY <3>1 DEF KeptInv, Overlaps
  <2>4. StashInv /\ HeldInv
    BY NothingAssumption DEF SignupInit, StashInv, HeldInv
  <2>5. CodeInv /\ CreateInv /\ OnePhoneOneOwner
    BY <2>2 DEF SignupInit, CodeInv, CodeOf, CreateInv, OnePhoneOneOwner, Running, Provides, Creates
  <2> QED
    BY <2>1, <2>3, <2>4, <2>5 DEF ApartInv
<1>2. Typed /\ MadeInv /\ ApartInv /\ [SignupNext]_signupVars => ApartInv'
  <2> SUFFICES ASSUME Typed, MadeInv, ApartInv, [SignupNext]_signupVars PROVE ApartInv'
    OBVIOUS
  <2>1. CASE UNCHANGED signupVars
    BY <2>1 DEF signupVars, ApartInv, KeptInv, Overlaps, HasRequest, StashInv, CodeInv, CodeOf, CreateInv,
                OnePhoneOneOwner, HeldInv, Apart, Running, Provides, Creates
  <2> QED
    BY <2>1, Steps, StartKeeps, VerifyKeeps, CrashKeeps, ExpireKeeps
<1> QED
  BY <1>1, <1>2, TypeHolds, MadeStep, PTL DEF SignupSpec

\* DetailsMatchCode (vendor.controller.ts:35): the details a verification provisions
\* are those of the start whose code was typed, whatever requests run beside it, as
\* long as no other sign-up of the phone overlaps the sign-ups of both.
THEOREM DetailsAreTheCodes == SignupSpec => []DetailsMatchCode
<1>1. ApartInv => DetailsMatchCode
  BY DEF ApartInv, CodeInv, CodeOf, DetailsMatchCode
<1> QED
  BY <1>1, SignupHolds, PTL

\* ClaimCanFinish (vendor.controller.ts:125): while nothing runs and nothing is left half
\* done, a claimed phone has the live code and the details of the start that claimed it,
\* also after sends that failed; only a sign-up that overlapped another may have lost them.
THEOREM ClaimsCanFinish == SignupSpec => []ClaimCanFinish
<1>1. Typed /\ ApartInv => ClaimCanFinish
  BY DEF Typed, SignupTypeOK, ApartInv, HeldInv, ClaimCanFinish, Quiet, Running
<1> QED
  BY <1>1, SignupHolds, PTL

\* OnePhoneOneOwner (vendor.controller.ts:263): however many requests overlap, one business
\* is provisioned once, and two sign-ups of a phone both make an owner only if one of them
\* overlapped another sign-up; two taps on Verify never do.
THEOREM PhonesHaveOneOwner == SignupSpec => []OnePhoneOneOwner
<1>1. ApartInv => OnePhoneOneOwner
  BY DEF ApartInv
<1> QED
  BY <1>1, SignupHolds, PTL

(***************************************************************************)
(* The shops.                                                              *)
(***************************************************************************)
Documents == [status : Statuses, phone : Phones \cup {None}, waba : Wabas \cup {None},
              connected : BOOLEAN, credential : {"none", "live", "revoked"},
              methods : SUBSET Methods]

Labels == {"idle", "decide", "recover", "activate", "subscribe", "load", "connect", "disconnect"}

Requests == [pc : Labels, t : Tenants \cup {None}, status : {"none", "TRIAL", "REJECTED"},
             phone : Phones \cup {None}, waba : Wabas \cup {None}, token : BOOLEAN,
             seen : Documents]

\* The requests in progress hold values the code knows too.
TypesOK == TypeOK /\ at \in [Handlers -> Requests]

\* A document keeps the fields an activation asks for once it has them.
Keeps(d, e) == /\ d.phone # None => e.phone # None
               /\ d.waba # None => e.waba # None
               /\ d.methods # {} => e.methods # {}

\* What a request knows at each point, whatever happens beside it.
Knows(h) ==
  LET r == at[h] IN
  /\ r.pc # "idle" => r.t \in Tenants
  /\ r.pc = "decide" => r.status # "none"
  /\ r.pc \in {"recover", "activate"} => r.t \in approved
  /\ r.pc = "activate" => MissingActivationFields(tenants[r.t]) = {}
  /\ r.pc \in {"subscribe", "load", "connect"} =>
       [t |-> r.t, phone |-> r.phone, waba |-> r.waba] \in proved /\ Belongs[r.phone] = r.waba
       /\ r.phone # None /\ r.waba # None
  /\ r.pc \in {"load", "connect"} => r.waba \in subscribed
  /\ r.pc = "connect" => Keeps(r.seen, tenants[r.t])

\* What holds of a shop: the four promises of the module, for one shop, and that
\* it always has a way to deliver.
ShopOK(t) ==
  LET d == tenants[t] IN
  /\ d.methods # {}
  /\ d.status = "ACTIVE" => MissingActivationFields(d) = {}
  /\ t \in invited \/ d.status \in {"TRIAL", "ACTIVE"} => t \in approved
  /\ d.phone # None => /\ \E x \in proved : x.t = t /\ x.phone = d.phone
                       /\ Belongs[d.phone] \in subscribed
  /\ d.waba # None => \E x \in proved : x.t = t /\ x.waba = d.waba

ShopInv == (\A t \in Tenants : ShopOK(t)) /\ (\A h \in Handlers : Knows(h))

\* Nothing is missing for an activation when number, WABA and a method are there.
LEMMA Ready ==
  ASSUME NEW d \in Documents
  PROVE  MissingActivationFields(d) = {} <=> d.phone # None /\ d.waba # None /\ d.methods # {}
<1>1. d["phone"] = d.phone /\ d["waba"] = d.waba
  BY DEF Documents
<1>2. CASE d.methods = {}
  BY <1>2 DEF MissingActivationFields
<1>3. CASE d.methods # {}
  BY <1>1, <1>3 DEF MissingActivationFields
<1> QED
  BY <1>2, <1>3

(***************************************************************************)
(* Types.                                                                  *)
(***************************************************************************)

\* TypeOK, with the shops and requests in terms of the record sets above.
LEMMA TenantTypes ==
  TypeOK <=> /\ tenants \in [Tenants -> Documents]
             /\ subscribed \subseteq Wabas /\ approved \subseteq Tenants /\ invited \subseteq Tenants
             /\ proved \subseteq [t : Tenants, phone : Phones, waba : Wabas]
BY DEF TypeOK, Documents

\* The document a connection leaves: what it read decides what it writes.
LEMMA ConnectEffect ==
  ASSUME TypesOK, NEW h \in Handlers, at[h].t \in Tenants, SaveConnect(h)
  PROVE  /\ tenants' \in [Tenants -> Documents]
         /\ \A t \in Tenants : t # at[h].t => tenants'[t] = tenants[t]
         /\ \/ tenants' = tenants
            \/ LET r == at[h]  d == tenants[r.t]  e == tenants'[r.t] IN
               /\ NumberFree(h)
               /\ e.status = d.status /\ e.methods = d.methods
               /\ e.phone = IF r.phone = r.seen.phone THEN d.phone ELSE r.phone
               /\ e.waba = IF r.waba = r.seen.waba THEN d.waba ELSE r.waba
<1> DEFINE r == at[h]
           d == tenants[r.t]
           e == [d EXCEPT !.phone      = Written(r.seen.phone, r.phone, @),
                          !.waba       = Written(r.seen.waba, r.waba, @),
                          !.connected  = Written(r.seen.connected, TRUE, @),
                          !.credential = IF r.token THEN "live" ELSE @]
<1>1. r \in Requests /\ d \in Documents
  BY DEF TypesOK, TypeOK, Documents
<1>2. CASE tenants' = tenants
  BY <1>2, TenantTypes DEF TypesOK
<1>3. CASE tenants' # tenants
  <2>1. NumberFree(h) /\ tenants' = [tenants EXCEPT ![r.t] = e]
    BY <1>3 DEF SaveConnect
  <2>2. /\ e \in Documents
        /\ e.status = d.status /\ e.methods = d.methods
        /\ e.phone = IF r.phone = r.seen.phone THEN d.phone ELSE r.phone
        /\ e.waba = IF r.waba = r.seen.waba THEN d.waba ELSE r.waba
    BY <1>1 DEF Written, Documents, Requests
  <2> HIDE DEF e
  <2>3. tenants'[r.t] = e
    BY <2>1, TenantTypes DEF TypesOK
  <2> QED
    BY <2>1, <2>2, <2>3, TenantTypes DEF TypesOK
<1> QED
  BY <1>2, <1>3

\* The document a disconnection leaves keeps its number, WABA, status and methods.
LEMMA DisconnectEffect ==
  ASSUME TypesOK, NEW h \in Handlers, at[h].t \in Tenants, SaveDisconnect(h)
  PROVE  /\ tenants' \in [Tenants -> Documents]
         /\ \A t \in Tenants : t # at[h].t => tenants'[t] = tenants[t]
         /\ LET d == tenants[at[h].t]  e == tenants'[at[h].t] IN
            e.status = d.status /\ e.methods = d.methods /\ e.phone = d.phone /\ e.waba = d.waba
<1> DEFINE r == at[h]
           d == tenants[r.t]
           e == [d EXCEPT !.connected  = Written(r.seen.connected, FALSE, @),
                          !.credential = IF r.seen.credential # "none" THEN "revoked" ELSE @]
<1>1. r \in Requests /\ d \in Documents
  BY DEF TypesOK, TypeOK, Documents
<1>2. tenants' = [tenants EXCEPT ![r.t] = e]
  BY DEF SaveDisconnect
<1>3. /\ e \in Documents
      /\ e.status = d.status /\ e.methods = d.methods /\ e.phone = d.phone /\ e.waba = d.waba
  BY <1>1 DEF Written, Documents, Requests
<1> HIDE DEF e
<1>4. tenants'[r.t] = e
  BY <1>2, TenantTypes DEF TypesOK
<1> QED
  BY <1>2, <1>3, <1>4, TenantTypes DEF TypesOK

\* One path of a document set by itself.
LEMMA FieldEffect ==
  ASSUME NEW d \in Documents, NEW s \in Statuses, NEW m \in SUBSET Methods
  PROVE  /\ [d EXCEPT !.status = s] \in Documents
         /\ [d EXCEPT !.status = s].status = s
         /\ [d EXCEPT !.status = s].phone = d.phone
         /\ [d EXCEPT !.status = s].waba = d.waba
         /\ [d EXCEPT !.status = s].methods = d.methods
         /\ [d EXCEPT !.methods = m] \in Documents
         /\ [d EXCEPT !.methods = m].methods = m
         /\ [d EXCEPT !.methods = m].status = d.status
         /\ [d EXCEPT !.methods = m].phone = d.phone
         /\ [d EXCEPT !.methods = m].waba = d.waba
BY DEF Documents

\* A request starts idle and ends idle.
LEMMA IdleRequest == Idle \in Requests /\ Idle.pc = "idle" /\ NewTenant \in Documents
BY DEF Idle, NewTenant, Requests, Documents, Labels, Statuses, Methods

\* Only values the code knows are stored or held by a request.
LEMMA TypeStep == TypesOK /\ ShopInv /\ [Next]_vars => TypesOK'
<1> SUFFICES ASSUME TypesOK, ShopInv, [Next]_vars PROVE TypesOK'
  OBVIOUS
<1>1. /\ tenants \in [Tenants -> Documents] /\ at \in [Handlers -> Requests]
      /\ subscribed \subseteq Wabas /\ approved \subseteq Tenants /\ invited \subseteq Tenants
      /\ proved \subseteq [t : Tenants, phone : Phones, waba : Wabas]
  BY TenantTypes DEF TypesOK
<1>2. ASSUME tenants' \in [Tenants -> Documents], at' \in [Handlers -> Requests],
             subscribed' \subseteq Wabas, approved' \subseteq Tenants, invited' \subseteq Tenants,
             proved' \subseteq [t : Tenants, phone : Phones, waba : Wabas]
      PROVE  TypesOK'
  BY <1>2 DEF TypesOK, TypeOK, Documents
<1>3. ASSUME NEW h \in Handlers, NEW t \in Tenants, NEW status \in {"TRIAL", "REJECTED"},
             BeginDecision(h, t, status)
      PROVE  TypesOK'
  <2>1. [Idle EXCEPT !.pc = "decide", !.t = t, !.status = status] \in Requests
    BY IdleRequest DEF Requests, Labels
  <2> QED
    BY <1>1, <1>2, <1>3, <2>1 DEF BeginDecision, Start
<1>4. ASSUME NEW h \in Handlers, NEW t \in Tenants, BeginInvite(h, t) \/ BeginActivation(h, t)
      PROVE  TypesOK'
  <2>1. /\ [Idle EXCEPT !.pc = "recover", !.t = t] \in Requests
        /\ [Idle EXCEPT !.pc = "activate", !.t = t] \in Requests
    BY IdleRequest DEF Requests, Labels
  <2> QED
    BY <1>1, <1>2, <1>4, <2>1 DEF BeginInvite, BeginActivation, Start
<1>5. ASSUME NEW h \in Handlers, NEW t \in Tenants, NEW p \in Phones, NEW w \in Wabas,
             NEW token \in BOOLEAN, BeginConnect(h, t, p, w, token)
      PROVE  TypesOK'
  <2>1. [Idle EXCEPT !.pc = "subscribe", !.t = t, !.phone = p, !.waba = w, !.token = token]
          \in Requests
    BY IdleRequest DEF Requests, Labels
  <2> QED
    BY <1>1, <1>2, <1>5, <2>1 DEF BeginConnect, Start
<1>6. ASSUME NEW h \in Handlers, NEW t \in Tenants, LoadForDisconnect(h, t) PROVE TypesOK'
  <2>1. [Idle EXCEPT !.pc = "disconnect", !.t = t, !.seen = tenants[t]] \in Requests
    BY <1>1, IdleRequest DEF Requests, Labels
  <2> QED
    BY <1>1, <1>2, <1>6, <2>1 DEF LoadForDisconnect, Start
<1>7. ASSUME NEW t \in Tenants, NEW methods \in SUBSET Methods, UpdateBusiness(t, methods)
      PROVE  TypesOK'
  <2>1. [tenants[t] EXCEPT !.methods = methods] \in Documents
    BY <1>1, FieldEffect DEF Statuses
  <2> QED
    BY <1>1, <1>2, <1>7, <2>1 DEF UpdateBusiness
<1>8. ASSUME NEW h \in Handlers, NEW label \in Labels PROVE [at[h] EXCEPT !.pc = label] \in Requests
  BY <1>1 DEF Requests
<1>9. ASSUME NEW h \in Handlers, at[h].pc # "idle" PROVE at[h].t \in Tenants
  BY <1>9 DEF ShopInv, Knows
<1>10. ASSUME NEW h \in Handlers, SaveDecision(h) PROVE TypesOK'
  <2>1. at[h].t \in Tenants /\ at[h].status \in Statuses
    BY <1>1, <1>9, <1>10 DEF SaveDecision, ShopInv, Knows, Requests, Statuses
  <2>2. [tenants[at[h].t] EXCEPT !.status = at[h].status] \in Documents
    BY <1>1, <2>1, FieldEffect
  <2>3. tenants' \in [Tenants -> Documents]
    BY <1>1, <1>10, <2>1, <2>2 DEF SaveDecision
  <2>4. at' = [at EXCEPT ![h] = [at[h] EXCEPT !.pc = "recover"]] \/ at' = [at EXCEPT ![h] = Idle]
    BY <1>10 DEF SaveDecision, Goto, Finish
  <2>5. at' \in [Handlers -> Requests]
    BY <1>1, <1>8, <2>4, IdleRequest DEF Labels
  <2> QED
    BY <1>1, <1>2, <1>10, <2>1, <2>3, <2>5 DEF SaveDecision
<1>11. ASSUME NEW h \in Handlers, RecoverOwner(h) PROVE TypesOK'
  <2>1. at[h].t \in Tenants
    BY <1>9, <1>11 DEF RecoverOwner
  <2> QED
    BY <1>1, <1>2, <1>11, <2>1, IdleRequest DEF RecoverOwner, Finish
<1>12. ASSUME NEW h \in Handlers, SaveActivation(h) PROVE TypesOK'
  <2>1. [tenants[at[h].t] EXCEPT !.status = "ACTIVE"] \in Documents
    BY <1>1, <1>9, <1>12, FieldEffect DEF SaveActivation, Statuses
  <2> QED
    BY <1>1, <1>2, <1>12, <2>1, IdleRequest DEF SaveActivation, Finish
<1>13. ASSUME NEW h \in Handlers, SubscribeApp(h) PROVE TypesOK'
  <2>1. at[h].waba \in Wabas
    BY <1>1, <1>13 DEF SubscribeApp, ShopInv, Knows, Requests
  <2>2. at' \in [Handlers -> Requests]
    BY <1>1, <1>8, <1>13 DEF SubscribeApp, Goto, Labels
  <2> QED
    BY <1>1, <1>2, <1>13, <2>1, <2>2 DEF SubscribeApp
<1>14. ASSUME NEW h \in Handlers, LoadForConnect(h) PROVE TypesOK'
  <2>1. [at[h] EXCEPT !.pc = "connect", !.seen = tenants[at[h].t]] \in Requests
    BY <1>1, <1>9, <1>14 DEF LoadForConnect, Requests, Labels
  <2>2. at' = [at EXCEPT ![h] = [at[h] EXCEPT !.pc = "connect", !.seen = tenants[at[h].t]]]
    BY <1>14 DEF LoadForConnect
  <2> QED
    BY <1>1, <1>2, <1>14, <2>1, <2>2 DEF LoadForConnect
<1>15. ASSUME NEW h \in Handlers, SaveConnect(h) \/ SaveDisconnect(h) PROVE TypesOK'
  <2>1. at[h].t \in Tenants
    BY <1>9, <1>15 DEF SaveConnect, SaveDisconnect
  <2>2. tenants' \in [Tenants -> Documents]
    BY <1>15, <2>1, ConnectEffect, DisconnectEffect
  <2> QED
    BY <1>1, <1>2, <1>15, <2>2, IdleRequest DEF SaveConnect, SaveDisconnect, Finish
<1>16. ASSUME NEW h \in Handlers, Fail(h) PROVE TypesOK'
  BY <1>1, <1>2, <1>16, IdleRequest DEF Fail, Finish
<1>17. CASE Crash
  BY <1>1, <1>2, <1>17, IdleRequest DEF Crash
<1>18. CASE UNCHANGED vars
  BY <1>1, <1>2, <1>18 DEF vars
<1> QED
  BY <1>3, <1>4, <1>5, <1>6, <1>7, <1>10, <1>11, <1>12, <1>13, <1>14, <1>15, <1>16, <1>17, <1>18
     DEF Next, Operator, Owner, Step

(***************************************************************************)
(* The promises.                                                           *)
(***************************************************************************)

\* Approvals, proofs and subscriptions are never taken back, and no document
\* loses a field an activation asks for.
Grows == /\ approved \subseteq approved' /\ proved \subseteq proved' /\ subscribed \subseteq subscribed'
         /\ \A t \in Tenants : Keeps(tenants[t], tenants'[t])

\* What a request knows stays true while others work.
LEMMA KnowsKept ==
  ASSUME TypesOK, TypesOK', NEW h \in Handlers, Knows(h), at'[h] = at[h], Grows
  PROVE  Knows(h)'
<1> DEFINE r == at[h]
<1>1. /\ r \in Requests
      /\ \A t \in Tenants : tenants[t] \in Documents /\ tenants'[t] \in Documents
  BY TenantTypes DEF TypesOK, TypeOK, Documents
<1>2. r.pc # "idle" => r.t \in Tenants
  BY DEF Knows
<1>3. r.pc = "activate" => MissingActivationFields(tenants'[r.t]) = {}
  <2> SUFFICES ASSUME r.pc = "activate" PROVE MissingActivationFields(tenants'[r.t]) = {}
    OBVIOUS
  <2>1. r.t \in Tenants /\ MissingActivationFields(tenants[r.t]) = {}
    BY DEF Knows
  <2>2. Keeps(tenants[r.t], tenants'[r.t])
    BY <2>1 DEF Grows
  <2> QED
    BY <1>1, <2>1, <2>2, Ready DEF Keeps
<1>4. r.pc = "connect" => Keeps(r.seen, tenants'[r.t])
  <2> SUFFICES ASSUME r.pc = "connect" PROVE Keeps(r.seen, tenants'[r.t])
    OBVIOUS
  <2>1. r.t \in Tenants /\ Keeps(r.seen, tenants[r.t])
    BY DEF Knows
  <2> QED
    BY <2>1 DEF Grows, Keeps
<1> QED
  BY <1>2, <1>3, <1>4 DEF Knows, Grows

\* A step of one request, or of none, keeps the invariant when nothing is taken
\* back, the request knows what it must, and each document it changes is right.
LEMMA ShopFrame ==
  ASSUME TypesOK, TypesOK', ShopInv, Grows,
         \A h \in Handlers : at'[h] = at[h] \/ Knows(h)',
         \A t \in Tenants : ShopOK(t)'
  PROVE  ShopInv'
BY KnowsKept DEF ShopInv

\* A shop whose document did not change stays right while others work.
LEMMA ShopKept ==
  ASSUME NEW t \in Tenants, ShopOK(t), Grows, tenants'[t] = tenants[t],
         t \in invited' => t \in invited \/ t \in approved
  PROVE  ShopOK(t)'
BY DEF ShopOK, Grows

\* Every step keeps the promises of every shop.
LEMMA ShopStep == TypesOK /\ TypesOK' /\ ShopInv /\ [Next]_vars => ShopInv'
<1> SUFFICES ASSUME TypesOK, TypesOK', ShopInv, [Next]_vars PROVE ShopInv'
  OBVIOUS
<1>1. /\ tenants \in [Tenants -> Documents] /\ at \in [Handlers -> Requests]
      /\ tenants' \in [Tenants -> Documents] /\ at' \in [Handlers -> Requests]
  BY TenantTypes DEF TypesOK, TypeOK, Documents
<1>2. \A d \in Documents : Keeps(d, d)
  BY DEF Keeps
<1>3. \A h \in Handlers : at'[h].pc = "idle" => Knows(h)'
  BY DEF Knows
<1>4. \A h \in Handlers : at[h].pc # "idle" => at[h].t \in Tenants
  BY DEF ShopInv, Knows
<1>5. ASSUME NEW h \in Handlers, at' = [at EXCEPT ![h] = Idle]
      PROVE  \A g \in Handlers : at'[g] = at[g] \/ Knows(g)'
  BY <1>1, <1>3, <1>5, IdleRequest
<1>6. ASSUME UNCHANGED tenants, approved \subseteq approved', proved \subseteq proved',
             subscribed \subseteq subscribed', \A t \in invited' : t \in invited \/ t \in approved
      PROVE  Grows /\ \A t \in Tenants : ShopOK(t)'
  <2>1. Grows
    BY <1>1, <1>2, <1>6 DEF Grows
  <2> QED
    BY <1>6, <2>1, ShopKept DEF ShopInv
<1>7. ASSUME NEW h \in Handlers, NEW t \in Tenants, NEW status \in {"TRIAL", "REJECTED"},
             BeginDecision(h, t, status)
      PROVE  ShopInv'
  <2>1. Knows(h)' /\ \A g \in Handlers : g # h => at'[g] = at[g]
    BY <1>1, <1>7 DEF BeginDecision, Start, Knows, Idle
  <2> QED
    BY <1>6, <1>7, <2>1, ShopFrame DEF BeginDecision
<1>8. ASSUME NEW h \in Handlers, NEW t \in Tenants, BeginInvite(h, t) PROVE ShopInv'
  <2>1. t \in approved
    BY <1>8 DEF BeginInvite, ShopInv, ShopOK
  <2>2. Knows(h)' /\ \A g \in Handlers : g # h => at'[g] = at[g]
    BY <1>1, <1>8, <2>1 DEF BeginInvite, Start, Knows, Idle
  <2> QED
    BY <1>6, <1>8, <2>2, ShopFrame DEF BeginInvite
<1>9. ASSUME NEW h \in Handlers, NEW t \in Tenants, BeginActivation(h, t) PROVE ShopInv'
  <2>1. t \in approved /\ MissingActivationFields(tenants[t]) = {}
    BY <1>9 DEF BeginActivation, ShopInv, ShopOK
  <2>2. Knows(h)' /\ \A g \in Handlers : g # h => at'[g] = at[g]
    BY <1>1, <1>9, <2>1 DEF BeginActivation, Start, Knows, Idle
  <2> QED
    BY <1>6, <1>9, <2>2, ShopFrame DEF BeginActivation
<1>10. ASSUME NEW h \in Handlers, NEW t \in Tenants, NEW p \in Phones, NEW w \in Wabas,
              NEW token \in BOOLEAN, BeginConnect(h, t, p, w, token)
       PROVE  ShopInv'
  <2>1. p # None /\ w # None
    BY NoneAssumption
  <2>2. /\ at'[h].pc = "subscribe" /\ at'[h].t = t /\ at'[h].phone = p /\ at'[h].waba = w
        /\ \A g \in Handlers : g # h => at'[g] = at[g]
    BY <1>1, <1>10 DEF BeginConnect, Start, Idle
  <2>3. Belongs[p] = w /\ proved' = proved \cup {[t |-> t, phone |-> p, waba |-> w]}
    BY <1>10 DEF BeginConnect
  <2>4. Knows(h)'
    BY <2>1, <2>2, <2>3 DEF Knows
  <2> QED
    BY <1>6, <1>10, <2>2, <2>3, <2>4, ShopFrame DEF BeginConnect
<1>11. ASSUME NEW h \in Handlers, NEW t \in Tenants, LoadForDisconnect(h, t) PROVE ShopInv'
  <2>1. /\ at'[h].pc = "disconnect" /\ at'[h].t = t
        /\ \A g \in Handlers : g # h => at'[g] = at[g]
    BY <1>1, <1>11 DEF LoadForDisconnect, Start, Idle
  <2>2. Knows(h)'
    BY <2>1 DEF Knows
  <2> QED
    BY <1>6, <1>11, <2>1, <2>2, ShopFrame DEF LoadForDisconnect
<1>12. ASSUME NEW t \in Tenants, NEW methods \in SUBSET Methods, UpdateBusiness(t, methods)
       PROVE  ShopInv'
  <2>1. /\ methods # {} /\ UNCHANGED <<subscribed, approved, invited, proved, at>>
        /\ tenants'[t] = [tenants[t] EXCEPT !.methods = methods]
        /\ \A u \in Tenants : u # t => tenants'[u] = tenants[u]
    BY <1>1, <1>12 DEF UpdateBusiness
  <2>2. LET d == tenants[t]  e == tenants'[t] IN
        e.status = d.status /\ e.phone = d.phone /\ e.waba = d.waba /\ e.methods = methods
    BY <1>1, <2>1, FieldEffect DEF Statuses
  <2>3. Grows
    BY <1>1, <1>2, <2>1, <2>2 DEF Grows, Keeps
  <2>4. MissingActivationFields(tenants[t]) = {} => MissingActivationFields(tenants'[t]) = {}
    BY <1>1, <2>1, <2>2, Ready
  <2>5. ShopOK(t)'
    BY <2>1, <2>2, <2>4 DEF ShopInv, ShopOK
  <2>6. \A u \in Tenants : ShopOK(u)'
    BY <2>1, <2>3, <2>5, ShopKept DEF ShopInv
  <2> QED
    BY <2>1, <2>3, <2>6, ShopFrame
<1>13. ASSUME NEW h \in Handlers, SaveDecision(h) PROVE ShopInv'
  <2> PICK t \in Tenants : t = at[h].t
    BY <1>4, <1>13 DEF SaveDecision
  <2> DEFINE status == at[h].status
  <2>1. t \in Tenants /\ status \in {"TRIAL", "REJECTED"} /\ at[h].pc = "decide"
    BY <1>1, <1>13 DEF SaveDecision, ShopInv, Knows, Requests
  <2>2. /\ UNCHANGED <<subscribed, invited, proved>>
        /\ approved' = IF status = "TRIAL" THEN approved \cup {t} ELSE approved
        /\ tenants'[t] = [tenants[t] EXCEPT !.status = status]
        /\ \A u \in Tenants : u # t => tenants'[u] = tenants[u]
    BY <1>1, <1>13, <2>1 DEF SaveDecision
  <2>3. LET d == tenants[t]  e == tenants'[t] IN
        e.status = status /\ e.phone = d.phone /\ e.waba = d.waba /\ e.methods = d.methods
    BY <1>1, <2>1, <2>2, FieldEffect DEF Statuses
  <2>4. Grows
    BY <1>1, <1>2, <2>2, <2>3 DEF Grows, Keeps
  <2>5. ShopOK(t)'
    BY <2>1, <2>2, <2>3 DEF ShopInv, ShopOK
  <2>6. \A u \in Tenants : ShopOK(u)'
    BY <2>2, <2>4, <2>5, ShopKept DEF ShopInv
  <2>7. \A g \in Handlers : at'[g] = at[g] \/ Knows(g)'
    <3>1. CASE status = "TRIAL"
      <4>1. /\ at'[h].pc = "recover" /\ at'[h].t = t
            /\ \A g \in Handlers : g # h => at'[g] = at[g]
        BY <1>1, <1>13, <3>1 DEF SaveDecision, Goto, Requests
      <4>2. Knows(h)'
        BY <2>1, <2>2, <3>1, <4>1 DEF Knows
      <4> QED
        BY <4>1, <4>2
    <3>2. CASE status # "TRIAL"
      BY <1>5, <1>13, <3>2 DEF SaveDecision, Finish
    <3> QED
      BY <3>1, <3>2
  <2> QED
    BY <2>4, <2>6, <2>7, ShopFrame
<1>14. ASSUME NEW h \in Handlers, RecoverOwner(h) PROVE ShopInv'
  <2>1. at[h].t \in approved
    BY <1>14 DEF RecoverOwner, ShopInv, Knows
  <2> QED
    BY <1>5, <1>6, <1>14, <2>1, ShopFrame DEF RecoverOwner, Finish
<1>15. ASSUME NEW h \in Handlers, SaveActivation(h) PROVE ShopInv'
  <2> PICK t \in Tenants : t = at[h].t
    BY <1>4, <1>15 DEF SaveActivation
  <2>1. t \in Tenants /\ t \in approved /\ MissingActivationFields(tenants[t]) = {}
    BY <1>15 DEF SaveActivation, ShopInv, Knows
  <2>2. /\ UNCHANGED <<subscribed, approved, invited, proved>>
        /\ tenants'[t] = [tenants[t] EXCEPT !.status = "ACTIVE"]
        /\ \A u \in Tenants : u # t => tenants'[u] = tenants[u]
    BY <1>1, <1>15, <2>1 DEF SaveActivation
  <2>3. LET d == tenants[t]  e == tenants'[t] IN
        e.status = "ACTIVE" /\ e.phone = d.phone /\ e.waba = d.waba /\ e.methods = d.methods
    BY <1>1, <2>1, <2>2, FieldEffect DEF Statuses
  <2>4. Grows
    BY <1>1, <1>2, <2>2, <2>3 DEF Grows, Keeps
  <2>5. MissingActivationFields(tenants'[t]) = {}
    BY <1>1, <2>1, <2>3, Ready
  <2>6. ShopOK(t)'
    BY <2>1, <2>2, <2>3, <2>5 DEF ShopInv, ShopOK
  <2>7. \A u \in Tenants : ShopOK(u)'
    BY <2>2, <2>4, <2>6, ShopKept DEF ShopInv
  <2> QED
    BY <1>5, <1>15, <2>4, <2>7, ShopFrame DEF SaveActivation, Finish
<1>16. ASSUME NEW h \in Handlers, SubscribeApp(h) PROVE ShopInv'
  <2>1. /\ at'[h] = [at[h] EXCEPT !.pc = "load"] /\ at[h].pc = "subscribe"
        /\ subscribed' = subscribed \cup {at[h].waba}
        /\ UNCHANGED <<tenants, approved, invited, proved>>
        /\ \A g \in Handlers : g # h => at'[g] = at[g]
    BY <1>1, <1>16 DEF SubscribeApp, Goto
  <2>2. /\ at'[h].pc = "load" /\ at'[h].t = at[h].t
        /\ at'[h].phone = at[h].phone /\ at'[h].waba = at[h].waba
    BY <1>1, <2>1 DEF Requests
  <2>3. Knows(h)'
    BY <2>1, <2>2 DEF ShopInv, Knows
  <2> QED
    BY <1>6, <2>1, <2>3, ShopFrame
<1>17. ASSUME NEW h \in Handlers, LoadForConnect(h) PROVE ShopInv'
  <2>1. /\ at'[h] = [at[h] EXCEPT !.pc = "connect", !.seen = tenants[at[h].t]]
        /\ at[h].pc = "load" /\ UNCHANGED <<tenants, subscribed, approved, invited, proved>>
        /\ \A g \in Handlers : g # h => at'[g] = at[g]
    BY <1>1, <1>17 DEF LoadForConnect
  <2>2. /\ at'[h].pc = "connect" /\ at'[h].t = at[h].t /\ at'[h].seen = tenants[at[h].t]
        /\ at'[h].phone = at[h].phone /\ at'[h].waba = at[h].waba
    BY <1>1, <2>1 DEF Requests
  <2>3. Knows(h)'
    BY <1>1, <1>2, <1>4, <2>1, <2>2 DEF ShopInv, Knows
  <2> QED
    BY <1>6, <2>1, <2>3, ShopFrame
<1>18. ASSUME NEW h \in Handlers, SaveConnect(h) PROVE ShopInv'
  <2> PICK t \in Tenants : t = at[h].t
    BY <1>4, <1>18 DEF SaveConnect
  <2> DEFINE r == at[h]
             d == tenants[t]
             e == tenants'[t]
  <2>1. /\ t \in Tenants /\ r.pc = "connect"
        /\ [t |-> t, phone |-> r.phone, waba |-> r.waba] \in proved
        /\ r.phone # None /\ r.waba # None /\ Belongs[r.phone] \in subscribed
        /\ Keeps(r.seen, d)
    BY <1>18 DEF SaveConnect, ShopInv, Knows
  <2>2. UNCHANGED <<subscribed, approved, invited, proved>> /\ at' = [at EXCEPT ![h] = Idle]
    BY <1>18 DEF SaveConnect, Finish
  <2>3. CASE tenants' = tenants
    BY <1>5, <1>6, <2>2, <2>3, ShopFrame
  <2>4. CASE tenants' # tenants
    <3>1. /\ e.status = d.status /\ e.methods = d.methods
          /\ e.phone = IF r.phone = r.seen.phone THEN d.phone ELSE r.phone
          /\ e.waba = IF r.waba = r.seen.waba THEN d.waba ELSE r.waba
          /\ \A u \in Tenants : u # t => tenants'[u] = tenants[u]
      BY <1>18, <2>1, <2>4, ConnectEffect
    <3>2. e.phone # None /\ e.waba # None
      BY <2>1, <3>1 DEF Keeps
    <3>3. Grows
      BY <1>1, <1>2, <2>2, <3>1, <3>2 DEF Grows, Keeps
    <3>4. MissingActivationFields(d) = {} => MissingActivationFields(e) = {}
      BY <1>1, <2>1, <3>1, <3>2, Ready
    <3>5. /\ \E x \in proved : x.t = t /\ x.phone = e.phone
          /\ Belongs[e.phone] \in subscribed
      BY <2>1, <3>1, <3>2 DEF ShopInv, ShopOK
    <3>6. \E x \in proved : x.t = t /\ x.waba = e.waba
      BY <2>1, <3>1, <3>2 DEF ShopInv, ShopOK
    <3>7. ShopOK(t)'
      BY <2>1, <2>2, <3>1, <3>4, <3>5, <3>6 DEF ShopInv, ShopOK
    <3>8. \A u \in Tenants : ShopOK(u)'
      BY <2>2, <3>1, <3>3, <3>7, ShopKept DEF ShopInv
    <3> QED
      BY <1>5, <2>2, <3>3, <3>8, ShopFrame
  <2> QED
    BY <2>3, <2>4
<1>19. ASSUME NEW h \in Handlers, SaveDisconnect(h) PROVE ShopInv'
  <2> PICK t \in Tenants : t = at[h].t
    BY <1>4, <1>19 DEF SaveDisconnect
  <2> DEFINE d == tenants[t]
             e == tenants'[t]
  <2>1. t \in Tenants
    BY <1>4, <1>19 DEF SaveDisconnect
  <2>2. UNCHANGED <<subscribed, approved, invited, proved>> /\ at' = [at EXCEPT ![h] = Idle]
    BY <1>19 DEF SaveDisconnect, Finish
  <2>3. /\ e.status = d.status /\ e.methods = d.methods /\ e.phone = d.phone /\ e.waba = d.waba
        /\ \A u \in Tenants : u # t => tenants'[u] = tenants[u]
    BY <1>19, <2>1, DisconnectEffect
  <2>4. Grows
    BY <1>1, <1>2, <2>2, <2>3 DEF Grows, Keeps
  <2>5. MissingActivationFields(d) = {} => MissingActivationFields(e) = {}
    BY <1>1, <2>1, <2>3, Ready
  <2>6. ShopOK(t)'
    BY <2>1, <2>2, <2>3, <2>5 DEF ShopInv, ShopOK
  <2>7. \A u \in Tenants : ShopOK(u)'
    BY <2>2, <2>3, <2>4, <2>6, ShopKept DEF ShopInv
  <2> QED
    BY <1>5, <2>2, <2>4, <2>7, ShopFrame
<1>20. ASSUME NEW h \in Handlers, Fail(h) PROVE ShopInv'
  BY <1>5, <1>6, <1>20, ShopFrame DEF Fail, Finish
<1>21. CASE Crash
  <2>1. \A h \in Handlers : Knows(h)'
    BY <1>3, <1>21, IdleRequest DEF Crash
  <2> QED
    BY <1>6, <1>21, <2>1, ShopFrame DEF Crash
<1>22. CASE UNCHANGED vars
  BY <1>6, <1>22, ShopFrame DEF vars
<1> QED
  BY <1>7, <1>8, <1>9, <1>10, <1>11, <1>12, <1>13, <1>14, <1>15, <1>16, <1>17, <1>18, <1>19,
     <1>20, <1>21, <1>22 DEF Next, Operator, Owner, Step

\* What every request relies on holds of every behaviour.
LEMMA Invariance == Spec => [](TypesOK /\ ShopInv)
<1>1. Init => TypesOK /\ ShopInv
  <2> SUFFICES ASSUME Init PROVE TypesOK /\ ShopInv
    OBVIOUS
  <2>1. TypesOK
    BY IdleRequest, TenantTypes DEF Init, TypesOK
  <2>2. \A t \in Tenants : ShopOK(t)
    BY DEF Init, ShopOK, NewTenant
  <2>3. \A h \in Handlers : Knows(h)
    BY IdleRequest DEF Init, Knows
  <2> QED
    BY <2>1, <2>2, <2>3 DEF ShopInv
<1> QED
  BY <1>1, TypeStep, ShopStep, PTL DEF Spec

\* The Tenant documents only hold values the code knows.
THEOREM TypeCorrect == Spec => []TypeOK
<1>1. TypesOK => TypeOK
  BY DEF TypesOK
<1> QED
  BY <1>1, Invariance, PTL

\* A shop that is live keeps what it was activated for, through any disconnect,
\* reconnect and profile change that overlaps its activation.
THEOREM LiveShopsAreReady == Spec => []ActiveIsReady
<1>1. ShopInv => ActiveIsReady
  BY DEF ShopInv, ShopOK, ActiveIsReady
<1> QED
  BY <1>1, Invariance, PTL

\* No number and no WABA is stored that Meta has not confirmed to a request of
\* this shop, and the number's messages reach the app before the shop has it.
THEOREM StoredNumbersAreProved == Spec => []NumberIsProved
<1>1. ShopInv => NumberIsProved
  BY DEF ShopInv, ShopOK, NumberIsProved
<1> QED
  BY <1>1, Invariance, PTL

\* Nobody gets a link into a shop, and no shop serves customers, that no operator
\* has approved.
THEOREM ApprovalComesFirst == Spec => []ApprovedFirst
<1>1. ShopInv => ApprovedFirst
  BY DEF ShopInv, ShopOK, ApprovedFirst
<1> QED
  BY <1>1, Invariance, PTL

\* A number belongs to one shop: no step writes a number another shop has, and a
\* number that a connection leaves as it was stays where it was.
LEMMA NumberStep == TypesOK /\ ShopInv /\ NumberHeldByOne /\ [Next]_vars => NumberHeldByOne'
<1> SUFFICES ASSUME TypesOK, ShopInv, NumberHeldByOne, [Next]_vars PROVE NumberHeldByOne'
  OBVIOUS
<1>1. tenants \in [Tenants -> Documents] /\ \A h \in Handlers : at[h].pc # "idle" => at[h].t \in Tenants
  BY TenantTypes DEF TypesOK, ShopInv, Knows
<1>2. ASSUME \A t \in Tenants : tenants'[t].phone = tenants[t].phone PROVE NumberHeldByOne'
  BY <1>2 DEF NumberHeldByOne
<1>3. ASSUME NEW h \in Handlers, SaveConnect(h) PROVE NumberHeldByOne'
  <2> PICK t \in Tenants : t = at[h].t
    BY <1>1, <1>3 DEF SaveConnect
  <2>1. CASE tenants' = tenants
    BY <1>2, <2>1
  <2>2. CASE tenants' # tenants
    <3>1. /\ NumberFree(h)
          /\ tenants'[t].phone = IF at[h].phone = at[h].seen.phone THEN tenants[t].phone ELSE at[h].phone
          /\ \A u \in Tenants : u # t => tenants'[u] = tenants[u]
      BY <1>3, <2>2, ConnectEffect
    <3> QED
      BY <3>1 DEF NumberHeldByOne, NumberFree
  <2> QED
    BY <2>1, <2>2
<1>4. ASSUME NEW h \in Handlers, SaveDisconnect(h) PROVE NumberHeldByOne'
  BY <1>1, <1>2, <1>4, DisconnectEffect DEF SaveDisconnect
<1>5. ASSUME NEW t \in Tenants, NEW methods \in SUBSET Methods, UpdateBusiness(t, methods)
      PROVE  NumberHeldByOne'
  BY <1>1, <1>2, <1>5, FieldEffect DEF UpdateBusiness, Statuses
<1>6. ASSUME NEW h \in Handlers, SaveDecision(h) \/ SaveActivation(h) PROVE NumberHeldByOne'
  <2> PICK t \in Tenants : t = at[h].t
    BY <1>1, <1>6 DEF SaveDecision, SaveActivation
  <2>1. \E s : tenants' = [tenants EXCEPT ![t] = [tenants[t] EXCEPT !.status = s]]
    BY <1>6 DEF SaveDecision, SaveActivation
  <2>2. \A u \in Tenants : tenants'[u].phone = tenants[u].phone
    BY <1>1, <2>1 DEF Documents
  <2> QED
    BY <1>2, <2>2
<1>7. CASE UNCHANGED tenants
  BY <1>2, <1>7
<1> QED
  BY <1>3, <1>4, <1>5, <1>6, <1>7
     DEF Next, Operator, Owner, Step, vars, BeginDecision, BeginInvite, BeginActivation,
         BeginConnect, LoadForDisconnect, RecoverOwner, SubscribeApp, LoadForConnect, Fail, Crash

\* The resolver finds at most one shop for a number, however many connect it at
\* once.
THEOREM NumbersHaveOneShop == Spec => []NumberHeldByOne
<1>1. Init => NumberHeldByOne
  BY DEF Init, NumberHeldByOne, NewTenant
<1> QED
  BY <1>1, Invariance, NumberStep, PTL DEF Spec
===============================================================================
