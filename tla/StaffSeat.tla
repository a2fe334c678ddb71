------------------------------ MODULE StaffSeat ------------------------------
(***************************************************************************)
(* One teammate's seat on a tenant's dashboard                             *)
(* (controllers/dashboard/vendor.controller.ts and the resolvers of        *)
(* controllers/middleware).                                                *)
(*                                                                         *)
(* The same email may be invited again after a revocation.  Every          *)
(* invitation provisions an account of its own at the identity provider,   *)
(* Authentik, and a VendorUser document that records it; both are named    *)
(* after the invitation.  The owner revokes or removes, the invitee signs  *)
(* in, visits the dashboard and activates the seat with a code sent to     *)
(* their phone.  A request is a sequence of awaits, and requests overlap.  *)
(* Sessions outlive the account that opened them.                          *)
(***************************************************************************)
EXTENDS Naturals, FiniteSets

CONSTANTS
  Invites,   \* the invitations of the email
  NoOne,     \* a value that is no invitation
  Handlers,  \* how many requests are in progress at a time
  Faults     \* a subset of AllFaults

Ops == {"invite", "visit", "activate", "revoke", "remove"}

AllFaults ==
  {"crash",          \* the process dies in a request
   "response_lost",  \* Authentik creates the account, its answer never arrives
   "idp_fails"}      \* a best-effort call to Authentik fails and is logged

ASSUME NoOneAssumption == NoOne \notin Invites
ASSUME FaultAssumption == Faults \subseteq AllFaults

Seats == [status : {"none", "invited", "active", "disabled", "deleted"},
          subject : Invites \cup {NoOne}, verified : BOOLEAN]
NoSeat == [status |-> "none", subject |-> NoOne, verified |-> FALSE]

VARIABLES
  seat,      \* seat[i]: the VendorUser document of invitation i
  account,   \* account[i]: the Authentik account of invitation i
  sessions,  \* the accounts with a dashboard session for the tenant
  code,      \* an activation code is live for the phone
  entered,   \* [who, row]: accounts the resolver let in, and as which document
  failed,    \* one of the Faults has happened
  rebound,   \* history: documents bound over a binding to another account
  overtaken, \* history: documents last removed while an activation was under way
  contested, \* history: documents that joined while a revocation was under way
  at         \* at[x]: the request x, where it stands, and what the invitee's loaded

history == <<rebound, overtaken, contested>>
vars    == <<seat, account, sessions, code, entered, failed, rebound, overtaken, contested, at>>

Idle   == [op |-> "none", pc |-> "idle", who |-> NoOne, row |-> NoOne, seen |-> NoSeat]
Labels == {"idle", "account", "seat", "undo", "bind", "code", "load", "confirm",
           "unaccount", "delete", "disable", "suspend"}

TypeOK ==
  /\ seat \in [Invites -> Seats]
  /\ account \in [Invites -> {"none", "active", "disabled", "deleted"}]
  /\ sessions \subseteq Invites
  /\ code \in BOOLEAN /\ failed \in BOOLEAN
  /\ rebound \subseteq Invites /\ overtaken \subseteq Invites /\ contested \subseteq Invites
  /\ entered \subseteq [who : Invites, row : Invites]
  /\ at \in [Handlers -> [op : Ops \cup {"none"}, pc : Labels, who : Invites \cup {NoOne},
                          row : Invites \cup {NoOne}, seen : Seats]]

Init ==
  /\ seat = [i \in Invites |-> NoSeat]
  /\ account = [i \in Invites |-> "none"]
  /\ sessions = {}
  /\ code = FALSE
  /\ entered = {}
  /\ failed = FALSE
  /\ rebound = {} /\ overtaken = {} /\ contested = {}
  /\ at = [x \in Handlers |-> Idle]

Running(x)  == at[x].pc # "idle"
Goto(x, pc) == at' = [at EXCEPT ![x].pc = pc]
Finish(x)   == at' = [at EXCEPT ![x] = Idle]
Then(x, pc) == IF pc = "idle" THEN Finish(x) ELSE Goto(x, pc)

\* save() writes a path only where the value set differs from the one loaded.
Written(loaded, new, stored) == IF new = loaded THEN stored ELSE new

\* A document that can be found; the email is unique among them and among the
\* accounts Authentik knows.
Stored(i)  == seat[i].status \notin {"none", "deleted"}
EmailTaken == \E i \in Invites : Stored(i)
EmailKnown == \E i \in Invites : account[i] \in {"active", "disabled"}

UnderWay(op, i) == \E y \in Handlers : at[y].op = op /\ at[y].row = i

Start(x, op, pc, who, row, seen) ==
  /\ ~ Running(x)
  /\ at' = [at EXCEPT ![x] = [op |-> op, pc |-> pc, who |-> who, row |-> row, seen |-> seen]]

(***************************************************************************)
(* inviteVendorUser.                                                       *)
(***************************************************************************)
BeginInvite(x, i) ==
  /\ account[i] = "none"
  /\ \A y \in Handlers : at[y].op = "invite" => at[y].row # i
  /\ ~ EmailTaken
  /\ Start(x, "invite", "account", NoOne, i, NoSeat)
  /\ UNCHANGED <<seat, account, sessions, code, entered, failed, history>>

\* Authentik refuses a username it knows.  If only its answer is lost, the
\* handler has no account to clean up.
CreateAccount(x) ==
  /\ at[x].pc = "account"
  /\ IF EmailKnown
     THEN Finish(x) /\ UNCHANGED <<account, failed>>
     ELSE /\ account' = [account EXCEPT ![at[x].row] = "active"]
          /\ \/ Goto(x, "seat") /\ UNCHANGED failed
             \/ "response_lost" \in Faults /\ Finish(x) /\ failed' = TRUE
  /\ UNCHANGED <<seat, sessions, code, entered, history>>

\* The unique email index decides; the setup email may fail unnoticed.
CreateSeat(x) ==
  /\ at[x].pc = "seat"
  /\ IF EmailTaken
     THEN Goto(x, "undo") /\ UNCHANGED seat
     ELSE /\ seat' = [seat EXCEPT ![at[x].row].status = "invited"]
          /\ Finish(x)
  /\ UNCHANGED <<account, sessions, code, entered, failed, history>>

\* Mutant: the account of a refused document is left behind.
NoUndo(x, next) ==
  /\ Then(x, next)
  /\ UNCHANGED <<account, failed>>

\* authentik.deleteUser, best effort.
DeleteAccount(x, next) ==
  /\ \/ account' = [account EXCEPT ![at[x].row] = "deleted"] /\ UNCHANGED failed
     \/ "idp_fails" \in Faults /\ UNCHANGED account /\ failed' = TRUE
  /\ Then(x, next)

UndoAccount(x) ==
  /\ at[x].pc = "undo"
  /\ DeleteAccount(x, "idle")
  /\ UNCHANGED <<seat, sessions, code, entered, history>>

(***************************************************************************)
(* The invitee: sign-in, the resolvers, activation.                        *)
(***************************************************************************)

\* Mutant: the email decides, whoever the document is bound to.
MemberByEmail(i) == {r \in Invites : Stored(r)}

\* resolveMembership: the document bound to the account, else the one with its
\* email if it is bound to nobody.
Member(i) ==
  LET bound == {r \in Invites : Stored(r) /\ seat[r].subject = i}
  IN  IF bound # {} THEN bound ELSE {r \in Invites : Stored(r) /\ seat[r].subject = NoOne}

\* The sign-in callback scopes the session to the tenant of the document found.
SignIn(i) ==
  /\ account[i] = "active"
  /\ Member(i) # {}
  /\ sessions' = sessions \cup {i}
  /\ UNCHANGED <<seat, account, code, entered, failed, at, history>>

\* A request reaches the resolver of the dashboard or of the activation page.
LoadMember(x, op, i) ==
  /\ i \in sessions
  /\ \E r \in Member(i) :
       /\ seat[r].status # "disabled"
       /\ Start(x, op, "bind", i, r, seat[r])
  /\ UNCHANGED <<seat, account, sessions, code, entered, failed, history>>

Unverified(s) == s.status = "invited" /\ ~ s.verified

\* Mutant: the whole document is written back as it was loaded.
BindWholeDocument(x) ==
  LET a == at[x] IN
  /\ a.pc = "bind"
  /\ seat' = IF Stored(a.row) THEN [seat EXCEPT ![a.row] = [a.seen EXCEPT !.subject = a.who]]
             ELSE seat
  /\ IF Unverified(a.seen) /\ a.op = "activate" THEN Goto(x, "code") ELSE Finish(x)
  /\ UNCHANGED <<account, sessions, code, entered, failed, history>>

\* resolveVendorUser saves the binding; saving a deleted document throws.  An
\* unverified seat only gets as far as its activation.
BindSubject(x) ==
  LET a == at[x] IN
  /\ a.pc = "bind"
  /\ IF ~ Stored(a.row)
     THEN Finish(x) /\ UNCHANGED <<seat, entered, rebound>>
     ELSE /\ seat' = [seat EXCEPT
                        ![a.row].subject = IF a.seen.subject = NoOne THEN a.who ELSE @,
                        ![a.row].status  = IF a.seen.status = "invited" /\ a.seen.verified
                                           THEN "active" ELSE @]
          /\ rebound' = IF a.seen.subject = NoOne /\ seat[a.row].subject \notin {NoOne, a.who}
                        THEN rebound \cup {a.row} ELSE rebound
          /\ entered' = IF Unverified(a.seen) \/ a.op = "activate" THEN entered
                        ELSE entered \cup {[who |-> a.who, row |-> a.row]}
          /\ IF Unverified(a.seen) /\ a.op = "activate" THEN Goto(x, "code") ELSE Finish(x)
  /\ UNCHANGED <<account, sessions, code, failed, overtaken, contested>>

\* activationStart: a new code for the seat's phone.
SendCode(x) ==
  /\ at[x].pc = "code"
  /\ code' = TRUE
  /\ Finish(x)
  /\ UNCHANGED <<seat, account, sessions, entered, failed, history>>

\* activationVerify: the code is checked, then cleared; two requests may both
\* have seen it.  A wrong or expired code ends the request.
VerifyCode(x) ==
  /\ at[x].pc = "code"
  /\ \/ code /\ Goto(x, "load")
     \/ Finish(x)
  /\ UNCHANGED <<seat, account, sessions, code, entered, failed, history>>

LoadForActivation(x) ==
  /\ at[x].pc = "load"
  /\ code' = FALSE
  /\ IF Stored(at[x].row)
     THEN at' = [at EXCEPT ![x].pc = "confirm", ![x].seen = seat[at[x].row]]
     ELSE Finish(x)
  /\ UNCHANGED <<seat, account, sessions, entered, failed, history>>

\* The phone is verified and the seat ACTIVE, whatever it was.
Activate(x) ==
  LET a == at[x] IN
  /\ a.pc = "confirm"
  /\ IF ~ Stored(a.row)
     THEN UNCHANGED <<seat, contested>>
     ELSE /\ seat' = [seat EXCEPT ![a.row].verified = TRUE,
                                  ![a.row].status   = Written(a.seen.status, "active", @)]
          /\ contested' = IF UnderWay("revoke", a.row) THEN contested \cup {a.row} ELSE contested
  /\ Finish(x)
  /\ UNCHANGED <<account, sessions, code, entered, failed, rebound, overtaken>>

(***************************************************************************)
(* The owner: revokeInvitation and removeStaff.                            *)
(***************************************************************************)

\* Mutant: the check of removeStaff.
RevocableUnlessRemoved(s) == s.status # "disabled"

Revocable(s) == s.status = "invited" /\ s.subject = NoOne

LoadTarget(x, op, i) ==
  /\ Stored(i)
  /\ IF op = "revoke" THEN Revocable(seat[i]) ELSE seat[i].status # "disabled"
  /\ Start(x, op, IF op = "revoke" THEN "unaccount" ELSE "disable", NoOne, i, NoSeat)
  /\ UNCHANGED <<seat, account, sessions, code, entered, failed, history>>

RevokeAccount(x) ==
  /\ at[x].pc = "unaccount"
  /\ DeleteAccount(x, "delete")
  /\ UNCHANGED <<seat, sessions, code, entered, history>>

\* deleteOne by id, whatever the document has become.
DeleteSeat(x) ==
  /\ at[x].pc = "delete"
  /\ seat' = [seat EXCEPT ![at[x].row].status = "deleted"]
  /\ Finish(x)
  /\ UNCHANGED <<account, sessions, code, entered, failed, history>>

\* The DISABLED write, then the account, best effort.
DisableSeat(x) ==
  /\ at[x].pc = "disable"
  /\ IF Stored(at[x].row)
     THEN /\ seat' = [seat EXCEPT ![at[x].row].status = "disabled"]
          /\ overtaken' = IF UnderWay("activate", at[x].row)
                          THEN overtaken \cup {at[x].row} ELSE overtaken \ {at[x].row}
          /\ Goto(x, "suspend")
     ELSE Finish(x) /\ UNCHANGED <<seat, overtaken>>
  /\ UNCHANGED <<account, sessions, code, entered, failed, rebound, contested>>

SuspendAccount(x) ==
  /\ at[x].pc = "suspend"
  /\ \/ /\ account' = [account EXCEPT ![at[x].row] = IF @ = "active" THEN "disabled" ELSE @]
        /\ UNCHANGED failed
     \/ "idp_fails" \in Faults /\ UNCHANGED account /\ failed' = TRUE
  /\ Finish(x)
  /\ UNCHANGED <<seat, sessions, code, entered, history>>

Crash(x) ==
  /\ "crash" \in Faults
  /\ Running(x)
  /\ Finish(x)
  /\ failed' = TRUE
  /\ UNCHANGED <<seat, account, sessions, code, entered, history>>

Step(x) ==
  \/ CreateAccount(x) \/ CreateSeat(x) \/ UndoAccount(x)
  \/ BindSubject(x) \/ SendCode(x) \/ VerifyCode(x) \/ LoadForActivation(x) \/ Activate(x)
  \/ RevokeAccount(x) \/ DeleteSeat(x) \/ DisableSeat(x) \/ SuspendAccount(x)

Next ==
  \/ \E i \in Invites : SignIn(i)
  \/ \E x \in Handlers :
       \/ Step(x) \/ Crash(x)
       \/ \E i \in Invites :
            \/ BeginInvite(x, i)
            \/ LoadMember(x, "visit", i) \/ LoadMember(x, "activate", i)
            \/ LoadTarget(x, "revoke", i) \/ LoadTarget(x, "remove", i)

Spec == Init /\ [][Next]_vars

(***************************************************************************)
(* What the seat promises.                                                 *)
(***************************************************************************)

\* Only one account is ever let in as one document, although several accounts
\* with its email have had sessions (vendorMembership.ts:61), unless two requests
\* bound it at once and one binding overwrote the other.
EnteredByOne ==
  \A e, f \in entered : e.row = f.row /\ e.row \notin rebound => e.who = f.who

\* Who was removed stays out: the seat is never anything but disabled or gone
\* again (vendor.controller.ts:614), unless an activation was under way when it
\* was removed.
RemovedStaysOut ==
  [][\A i \in Invites : seat[i].status = "disabled" /\ i \notin overtaken
       => seat'[i].status \in {"disabled", "deleted"}]_vars

\* A revocation never deletes a teammate who has joined
\* (vendor.controller.ts:566), unless they joined while it was under way.
JoinedIsKept ==
  [][\A i \in Invites : seat[i].status = "active" /\ i \notin contested
       => seat'[i].status # "deleted"]_vars

\* When the dust settles, the seats and the accounts agree: a pending or active
\* seat has a working account, and no working account is left without a seat,
\* which would refuse the email for ever (vendor.controller.ts:486, 568).
SeatsMatchAccounts ==
  ~ failed /\ (\A x \in Handlers : ~ Running(x)) =>
    \A i \in Invites \ overtaken : account[i] = "active" <=> seat[i].status \in {"invited", "active"}

\* Not kept: a seat is entered by the account that was provisioned with it.  The
\* session of a revoked invitation finds the next one by its email, and binds it.
OwnSeatOnly == \A e \in entered : e.who = e.row

=============================================================================
