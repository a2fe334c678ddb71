------------------------------- MODULE Signup -------------------------------
(***************************************************************************)
(* Signing up a shop with one phone number                                 *)
(* (controllers/dashboard/vendor.controller.ts, services/signupOtp.ts).    *)
(*                                                                         *)
(* A start claims the phone, sends a code to it and stashes the details of *)
(* the business, all in Redis.  A verification checks the code and         *)
(* provisions, one remote call after the other: the tenant, its Authentik  *)
(* group, the owner's account, the owner's seat.  When a call fails it     *)
(* undoes what it made, in reverse.                                        *)
(*                                                                         *)
(* The two requests are named after what they carry: a start by the        *)
(* details it was sent, a verification by what it provisions.  Any of them *)
(* may overlap; only the claim keeps the sign-ups of a phone apart, and    *)
(* every end of a verification releases it, whoever holds it by then.      *)
(***************************************************************************)
EXTENDS Naturals, FiniteSets

CONSTANTS
  Starts,       \* requests to start, each with its details
  Verifies,     \* requests to verify
  Nothing,      \* a value that is no start
  Business,     \* Business[s]: the business, with its email, start s is for
  MaxAttempts,  \* SIGNUP_OTP_MAX_ATTEMPTS
  Faults        \* a subset of AllFaults

AllFaults ==
  {"crash",       \* the process dies in a request
   "call_fails",  \* a remote call of the provisioning fails
   "undo_fails"}  \* a call that undoes one fails too, and is logged

ASSUME NothingAssumption  == Nothing \notin Starts
ASSUME RequestsAssumption == Starts \cap Verifies = {}
ASSUME BusinessAssumption == DOMAIN Business = Starts
ASSUME AttemptsAssumption == MaxAttempts \in Nat \ {0}
ASSUME FaultsAssumption   == Faults \subseteq AllFaults

\* What a verification makes, in this order.
Parts == {"tenant", "group", "user", "owner"}

VARIABLES
  claim,     \* phone-claim: the start that set it, or Nothing; nobody reads whose it is
  code,      \* signup-otp: the start whose code is live, or Nothing
  attempts,  \* signup-otp-attempts
  pending,   \* signup-pending: the start whose details are stashed, or Nothing
  sent,      \* the starts whose code reached the phone
  made,      \* made[v]: the parts verification v has made and not undone
  used,      \* used[v]: the start whose code v accepted
  details,   \* details[v]: the start whose details v provisions
  failed,    \* one of the Faults has left a request, or its undoing, half done
  overlapped, \* history: the sign-ups that overlapped another one, see Overlaps
  pc         \* where each request stands

redis == <<claim, code, attempts, pending>>
signupVars  == <<claim, code, attempts, pending, sent, made, used, details, failed, overlapped, pc>>

StartLabels  == {"idle", "claim", "code", "send", "stash", "done"}
VerifyLabels == {"idle", "consume", "stashed", "check", "tenant", "group", "link", "user",
                 "owner",
                 "undo user", "undo group", "undo tenant", "cleanup", "done"}

SignupTypeOK ==
  /\ failed \in BOOLEAN
  /\ {claim, code, pending} \subseteq Starts \cup {Nothing}
  /\ overlapped \subseteq Starts
  /\ attempts \in 0 .. MaxAttempts + 1
  /\ sent \subseteq Starts
  /\ made \in [Verifies -> SUBSET Parts]
  /\ used \in [Verifies -> Starts \cup {Nothing}]
  /\ details \in [Verifies -> Starts \cup {Nothing}]
  /\ pc \in [Starts \cup Verifies -> StartLabels \cup VerifyLabels]

SignupInit ==
  /\ claim = Nothing /\ code = Nothing /\ pending = Nothing
  /\ attempts = 0
  /\ sent = {}
  /\ made = [v \in Verifies |-> {}]
  /\ used = [v \in Verifies |-> Nothing]
  /\ details = [v \in Verifies |-> Nothing]
  /\ failed = FALSE
  /\ overlapped = {}
  /\ pc = [x \in Starts \cup Verifies |-> "idle"]

Proceed(x, label) == pc' = [pc EXCEPT ![x] = label]
Running(x)     == pc[x] \notin {"idle", "done"}
Quiet          == \A x \in Starts \cup Verifies : ~ Running(x)

PhoneKnown == \E v \in Verifies : "owner" \in made[v]

(***************************************************************************)
(* signupStart.                                                            *)
(***************************************************************************)
BeginStart(s) ==
  /\ pc[s] = "idle"
  /\ Proceed(s, IF PhoneKnown THEN "done" ELSE "claim")
  /\ UNCHANGED <<redis, sent, made, used, details, failed>>

\* SET NX: the claim of another start sends this one home.
ClaimPhone(s) ==
  /\ pc[s] = "claim"
  /\ IF claim = Nothing THEN claim' = s /\ Proceed(s, "code")
     ELSE UNCHANGED claim /\ Proceed(s, "done")
  /\ UNCHANGED <<code, attempts, pending, sent, made, used, details, failed>>

\* A new code replaces the old one and starts its attempts afresh.
GenerateCode(s) ==
  /\ pc[s] = "code"
  /\ code' = s
  /\ attempts' = 0
  /\ Proceed(s, "send")
  /\ UNCHANGED <<claim, pending, sent, made, used, details, failed>>

\* Mutant: a send that fails keeps the phone.
SendCodeAndKeep(s) ==
  /\ pc[s] = "send"
  /\ \/ sent' = sent \cup {s} /\ Proceed(s, "stash")
     \/ "call_fails" \in Faults /\ UNCHANGED sent /\ Proceed(s, "done")
  /\ UNCHANGED <<redis, made, used, details, failed>>

\* A send that fails, whether or not the code got through, frees the phone.
SendCode(s) ==
  /\ pc[s] = "send"
  /\ \/ sent' = sent \cup {s} /\ Proceed(s, "stash") /\ UNCHANGED claim
     \/ /\ "call_fails" \in Faults
        /\ sent' \in {sent, sent \cup {s}}
        /\ claim' = Nothing
        /\ Proceed(s, "done")
  /\ UNCHANGED <<code, attempts, pending, made, used, details, failed>>

StashDetails(s) ==
  /\ pc[s] = "stash"
  /\ pending' = s
  /\ Proceed(s, "done")
  /\ UNCHANGED <<claim, code, attempts, sent, made, used, details, failed>>

(***************************************************************************)
(* signupVerify.                                                           *)
(***************************************************************************)

\* Mutant: the details are left behind.
CleanupClaim == claim' = Nothing /\ UNCHANGED pending

\* cleanupSignupState.
Cleanup == pending' = Nothing /\ claim' = Nothing

\* verifySignupOtp compares the code entered with the one stored.
Accepts(s) == code = s

TooMany == attempts >= MaxAttempts

\* The code of start s is entered, or a wrong one.  Without a live code, or
\* after too many attempts, the sign-up starts over.
VerifyCode(v) ==
  /\ pc[v] = "idle"
  /\ \E s \in sent \cup {Nothing} :
       \/ /\ code = Nothing
          /\ Cleanup /\ Proceed(v, "done")
          /\ UNCHANGED <<code, attempts, used>>
       \/ /\ code # Nothing /\ TooMany
          /\ attempts' = attempts + 1
          /\ code' = Nothing
          /\ Cleanup /\ Proceed(v, "done")
          /\ UNCHANGED used
       \/ /\ code # Nothing /\ ~ TooMany
          /\ attempts' = attempts + 1
          /\ IF s # Nothing /\ Accepts(s)
             THEN Proceed(v, "consume") /\ used' = [used EXCEPT ![v] = s]
             ELSE Proceed(v, "done") /\ UNCHANGED used
          /\ UNCHANGED <<claim, code, pending>>
  /\ UNCHANGED <<sent, made, details, failed>>

ConsumeCode(v) ==
  /\ pc[v] = "consume"
  /\ code' = Nothing
  /\ attempts' = 0
  /\ Proceed(v, "stashed")
  /\ UNCHANGED <<claim, pending, sent, made, used, details, failed>>

LoadDetails(v) ==
  /\ pc[v] = "stashed"
  /\ IF pending = Nothing
     THEN Cleanup /\ Proceed(v, "done") /\ UNCHANGED details
     ELSE Proceed(v, "check") /\ details' = [details EXCEPT ![v] = pending] /\ UNCHANGED <<claim, pending>>
  /\ UNCHANGED <<code, attempts, sent, made, used, failed>>

CheckPhone(v) ==
  /\ pc[v] = "check"
  /\ Proceed(v, IF PhoneKnown THEN "cleanup" ELSE "tenant")
  /\ UNCHANGED <<redis, sent, made, used, details, failed>>

\* Mutant: nothing is unique.
NoConflict(v, part) == FALSE

\* The name and the email of a business are unique among tenants, its email
\* among accounts and among seats.
Conflict(v, part) ==
  \E w \in Verifies \ {v} : part \in made[w] /\ Business[details[w]] = Business[details[v]]

After(part) ==
  CASE part = "tenant" -> "group" [] part = "group" -> "link"
    [] part = "user" -> "owner"   [] OTHER -> "cleanup"

\* Where undoing begins, or goes on: the latest part first.
Undo(parts) ==
  IF "user" \in parts THEN "undo user"
  ELSE IF "group" \in parts THEN "undo group"
  ELSE IF "tenant" \in parts THEN "undo tenant" ELSE "cleanup"

\* One call of the provisioning: the part is made, or the call fails, or the
\* part is made and the call fails all the same.
Provision(v, part) ==
  /\ pc[v] = part
  /\ \/ /\ ~ Conflict(v, part)
        /\ made' = [made EXCEPT ![v] = @ \cup {part}]
        /\ Proceed(v, After(part))
        /\ UNCHANGED failed
     \/ /\ Conflict(v, part) \/ "call_fails" \in Faults
        /\ Proceed(v, Undo(made[v]))
        /\ UNCHANGED <<made, failed>>
     \/ /\ "call_fails" \in Faults /\ ~ Conflict(v, part)
        /\ made' = [made EXCEPT ![v] = @ \cup {part}]
        /\ Proceed(v, Undo(made[v]))
        /\ failed' = TRUE
  /\ UNCHANGED <<redis, sent, used, details>>

\* The group's key is saved on the tenant, for invitations.
LinkGroup(v) ==
  /\ pc[v] = "link"
  /\ \/ Proceed(v, "user")
     \/ "call_fails" \in Faults /\ Proceed(v, Undo(made[v]))
  /\ UNCHANGED <<redis, sent, made, used, details, failed>>

\* The parts that came before this one.
Before(part) == CASE part = "user" -> {"tenant", "group"} [] part = "group" -> {"tenant"} [] OTHER -> {}

UndoLabel == [user |-> "undo user", group |-> "undo group", tenant |-> "undo tenant"]

\* Mutant: undoing stops after one part.
UndoOne(v, part) ==
  /\ pc[v] = UndoLabel[part]
  /\ made' = [made EXCEPT ![v] = @ \ {part}]
  /\ Proceed(v, "cleanup")
  /\ UNCHANGED <<redis, sent, used, details, failed>>

\* A call that undoes a part; a failure is logged and the undoing goes on.
UndoPart(v, part) ==
  /\ pc[v] = UndoLabel[part]
  /\ \/ made' = [made EXCEPT ![v] = @ \ {part}] /\ UNCHANGED failed
     \/ "undo_fails" \in Faults /\ UNCHANGED made /\ failed' = TRUE
  /\ Proceed(v, Undo(made[v] \cap Before(part)))
  /\ UNCHANGED <<redis, sent, used, details>>

\* Whatever the outcome, the sign-up state is cleared.
EndVerify(v) ==
  /\ pc[v] = "cleanup"
  /\ Cleanup
  /\ Proceed(v, "done")
  /\ UNCHANGED <<code, attempts, sent, made, used, details, failed>>

\* The keys of a sign-up nobody finished expire.
Expire ==
  /\ Quiet
  /\ Cleanup
  /\ code' = Nothing
  /\ attempts' = 0
  /\ UNCHANGED <<sent, made, used, details, failed, pc>>

RequestDies(x) ==
  /\ "crash" \in Faults
  /\ Running(x)
  /\ Proceed(x, "done")
  /\ failed' = TRUE
  /\ UNCHANGED <<redis, sent, made, used, details>>

(***************************************************************************)
(* Which sign-ups overlap.                                                 *)
(***************************************************************************)

\* A request of the sign-up that start s began is in progress.
HasRequest(s) ==
  \/ pc[s] \in {"code", "send", "stash"}
  \/ \E v \in Verifies : Running(v) /\ used[v] = s

\* A request of s goes on without the claim, or s has the claim while a request
\* of another sign-up goes on.
Overlaps(s) ==
  \/ HasRequest(s) /\ claim # s
  \/ claim = s /\ \E r \in Starts \ {s} : HasRequest(r)

NoteOverlaps == overlapped' = overlapped \cup {s \in Starts : Overlaps(s)'}

RequestStep ==
  \/ \E s \in Starts :
       BeginStart(s) \/ ClaimPhone(s) \/ GenerateCode(s) \/ SendCode(s) \/ StashDetails(s)
  \/ \E v \in Verifies :
       \/ VerifyCode(v) \/ ConsumeCode(v) \/ LoadDetails(v) \/ CheckPhone(v)
       \/ LinkGroup(v) \/ EndVerify(v)
       \/ \E part \in Parts : Provision(v, part)
       \/ \E part \in Parts \ {"owner"} : UndoPart(v, part)
  \/ \E x \in Starts \cup Verifies : RequestDies(x)
  \/ Expire

SignupNext == RequestStep /\ NoteOverlaps

SignupSpec == SignupInit /\ [][SignupNext]_signupVars

(***************************************************************************)
(* What signing up promises.                                               *)
(***************************************************************************)

\* The sign-ups of the code v accepted and of the details it provisions overlapped
\* no other.
Apart(v) == {used[v], details[v]} \cap overlapped = {}

\* What is provisioned are the details sent with the code that was verified
\* (vendor.controller.ts:35), unless the sign-up of one or the other overlapped
\* another sign-up.
DetailsMatchCode ==
  \A v \in Verifies : made[v] # {} /\ Apart(v) => details[v] = used[v]

\* A sign-up makes all of a shop or nothing: whatever call fails, and however
\* often Verify is tapped (vendor.controller.ts:225).
AllOrNothing ==
  ~ failed /\ Quiet => \A v \in Verifies : made[v] \in {{}, Parts}

\* A phone that is claimed can be signed up: its code is live and the details
\* are there, so nobody is told to wait for a code that does not exist
\* (vendor.controller.ts:125), unless the sign-up overlapped another.
ClaimCanFinish ==
  ~ failed /\ Quiet /\ claim \notin overlapped \cup {Nothing} => code = claim /\ pending = claim

\* One phone owns one shop (vendor.controller.ts:263, signupOtp.ts:91): however
\* often the code of a sign-up is verified it makes one owner, and two sign-ups
\* make two only if one overlapped another.  Never are the two of one business.
OnePhoneOneOwner ==
  \A v, w \in Verifies : v # w /\ "owner" \in made[v] \cap made[w] =>
    /\ Business[details[v]] # Business[details[w]]
    /\ ~ (Apart(v) /\ Apart(w))

=============================================================================
