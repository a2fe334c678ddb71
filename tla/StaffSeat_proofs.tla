--------------------------- MODULE StaffSeat_proofs ---------------------------
(***************************************************************************)
(* What StaffSeat promises for any number of invitations and of requests,  *)
(* whatever overlaps and whatever fails.                                   *)
(***************************************************************************)
EXTENDS StaffSeat, TLAPS

(***************************************************************************)
(* The inductive invariants.                                               *)
(***************************************************************************)

\* What a request is for where it stands.
Shape(a) ==
  \/ a = Idle
  \/ a.row \in Invites /\ \/ a.op = "invite" /\ a.pc \in {"account", "seat", "undo"}
                          \/ a.op = "visit"  /\ a.pc = "bind" /\ a.who \in Invites
                          \/ a.op = "activate" /\ a.pc \in {"bind", "code", "load", "confirm"}
                             /\ a.who \in Invites
                          \/ a.op = "revoke" /\ a.pc \in {"unaccount", "delete"}
                          \/ a.op = "remove" /\ a.pc \in {"disable", "suspend"}

Typed == TypeOK /\ \A x \in Handlers : Shape(at[x])

\* An invitation in progress is the only one of its name; its account comes
\* before its seat.
Inviting(x) ==
  at[x].op = "invite" =>
    /\ \A y \in Handlers : at[y].op = "invite" /\ at[y].row = at[x].row => y = x
    /\ seat[at[x].row].status = "none"
    /\ at[x].pc = "account" <=> account[at[x].row] = "none"

\* What another request found was there; what it found joined stays joined.
Found(x) ==
  /\ at[x].seen.status = "invited" => ~ at[x].seen.verified
  /\ at[x].op \notin {"none", "invite"} => seat[at[x].row].status # "none"
  /\ at[x].op = "activate" /\ at[x].seen.status # "invited" => seat[at[x].row].status # "invited"

\* A seat that waits for its invitee has no verified phone.
Seated(i) ==
  /\ account[i] = "none" => seat[i].status = "none"
  /\ seat[i].status \in {"none", "invited"} => ~ seat[i].verified

\* A seat that is being activated is not disabled, and one whose account is
\* being suspended is, unless it was removed during an activation.
RemovalInv ==
  \A x \in Handlers :
    at[x].row \notin overtaken =>
      /\ at[x].op = "activate" => seat[at[x].row].status # "disabled"
      /\ at[x].pc = "suspend" => seat[at[x].row].status \in {"disabled", "deleted"}

\* An account and its seat differ only while a request sees to it.
Matched(i) ==
  ~ failed =>
    /\ i \notin overtaken =>
         /\ seat[i].status \in {"invited", "active"} /\ account[i] # "active" =>
              \E x \in Handlers : at[x].pc = "delete" /\ at[x].row = i
         /\ account[i] = "active" =>
              \/ seat[i].status \in {"invited", "active"}
              \/ seat[i].status = "none" /\ \E x \in Handlers : at[x].pc \in {"seat", "undo"} /\ at[x].row = i
              \/ seat[i].status = "disabled" /\ \E x \in Handlers : at[x].pc = "suspend" /\ at[x].row = i
    /\ \A x \in Handlers : at[x].pc \in {"seat", "undo"} /\ at[x].row = i => account[i] = "active"
    /\ \A x \in Handlers : at[x].pc = "delete" /\ at[x].row = i => account[i] = "deleted"

SeatInv ==
  /\ \A x \in Handlers : Inviting(x) /\ Found(x)
  /\ \A i \in Invites : Seated(i)

MatchInv == \A i \in Invites : Matched(i)

\* Who found a document bound to them still has it, and so has who entered,
\* unless a binding overwrote it.
Binding(x) ==
  at[x].pc = "bind" =>
    /\ at[x].seen.subject \in {NoOne, at[x].who}
    /\ at[x].seen.subject = at[x].who /\ at[x].row \notin rebound => seat[at[x].row].subject = at[x].who

BoundInv ==
  /\ \A x \in Handlers : Binding(x)
  /\ \A e \in entered : e.row \notin rebound => seat[e.row].subject = e.who

\* A seat under revocation has not joined, unless it joined meanwhile.
RevocationInv ==
  \A x \in Handlers :
    at[x].op = "revoke" /\ at[x].row \notin contested => seat[at[x].row].status # "active"

(***************************************************************************)
(* Types.                                                                  *)
(***************************************************************************)

Requests ==
  [op : Ops \cup {"none"}, pc : Labels, who : Invites \cup {NoOne}, row : Invites \cup {NoOne}, seen : Seats]

\* What is true of each of the states a request goes to.
LEMMA FinishIs ==
  ASSUME Typed, NEW x \in Handlers, Finish(x)
  PROVE  /\ at'[x] = Idle
         /\ \A y \in Handlers : y # x => at'[y] = at[y]
         /\ at' \in [Handlers -> Requests] /\ \A y \in Handlers : Shape(at'[y])
<1>1. at' = [at EXCEPT ![x] = Idle] /\ at \in [Handlers -> Requests]
  BY DEF Finish, Typed, TypeOK, Requests
<1>2. Idle \in Requests /\ Shape(Idle)
  BY DEF Idle, NoSeat, Requests, Seats, Labels, Shape
<1> QED
  BY <1>1, <1>2 DEF Typed

\* A request goes on to another place where its operation may stand.
LEMMA GotoIs ==
  ASSUME Typed, NEW x \in Handlers, at[x].pc # "idle",
         NEW pc \in {"seat", "undo", "code", "load", "confirm", "delete", "suspend"}, Goto(x, pc),
         pc \in {"seat", "undo"} => at[x].op = "invite",
         pc \in {"code", "load", "confirm"} => at[x].op = "activate",
         pc = "delete" => at[x].op = "revoke",
         pc = "suspend" => at[x].op = "remove"
  PROVE  /\ at'[x].pc = pc /\ at'[x].op = at[x].op /\ at'[x].who = at[x].who
         /\ at'[x].row = at[x].row /\ at'[x].seen = at[x].seen
         /\ \A y \in Handlers : y # x => at'[y] = at[y]
         /\ at' \in [Handlers -> Requests] /\ \A y \in Handlers : Shape(at'[y])
<1>1. at' = [at EXCEPT ![x] = [at[x] EXCEPT !.pc = pc]] /\ at \in [Handlers -> Requests]
  BY DEF Goto, Typed, TypeOK, Requests
<1> DEFINE new == [at[x] EXCEPT !.pc = pc]
<1>2. at[x] \in Requests /\ Shape(at[x]) /\ at[x] # Idle
  BY <1>1 DEF Typed, Idle
<1>3. /\ new \in Requests
      /\ new.pc = pc /\ new.op = at[x].op /\ new.who = at[x].who /\ new.row = at[x].row /\ new.seen = at[x].seen
  BY <1>2 DEF Requests, Labels
<1>4. Shape(new)
  <2> HIDE DEF new
  <2> QED
    BY <1>2, <1>3 DEF Shape
<1>5. at'[x] = new /\ \A y \in Handlers : y # x => at'[y] = at[y]
  BY <1>1
<1> QED
  BY <1>1, <1>3, <1>4, <1>5 DEF Typed

\* A request starts where its operation begins.
LEMMA StartIs ==
  ASSUME Typed, NEW x \in Handlers, NEW op, NEW pc, NEW who \in Invites \cup {NoOne}, NEW row \in Invites,
         NEW seen \in Seats, Start(x, op, pc, who, row, seen),
         \/ op = "invite" /\ pc = "account"
         \/ op \in {"visit", "activate"} /\ pc = "bind" /\ who \in Invites
         \/ op = "revoke" /\ pc = "unaccount"
         \/ op = "remove" /\ pc = "disable"
  PROVE  /\ at'[x] = [op |-> op, pc |-> pc, who |-> who, row |-> row, seen |-> seen]
         /\ \A y \in Handlers : y # x => at'[y] = at[y]
         /\ at' \in [Handlers -> Requests] /\ \A y \in Handlers : Shape(at'[y])
         /\ at[x] = Idle
<1> DEFINE new == [op |-> op, pc |-> pc, who |-> who, row |-> row, seen |-> seen]
<1>1. at' = [at EXCEPT ![x] = new] /\ at \in [Handlers -> Requests]
  BY DEF Start, Typed, TypeOK, Requests
<1>2. new \in Requests
  BY DEF Requests, Labels, Ops
<1>3. Shape(new)
  BY DEF Shape
<1>4. at[x] = Idle
  BY DEF Start, Running, Typed, Shape
<1> QED
  BY <1>1, <1>2, <1>3, <1>4 DEF Typed

\* Where a request stands says what it is for.
LEMMA StandsAt ==
  ASSUME Typed, NEW x \in Handlers
  PROVE  /\ at[x].pc \in {"account", "seat", "undo"} <=> at[x].op = "invite"
         /\ at[x].pc = "bind" => at[x].op \in {"visit", "activate"}
         /\ at[x].pc \in {"code", "load", "confirm"} => at[x].op = "activate"
         /\ at[x].pc \in {"unaccount", "delete"} <=> at[x].op = "revoke"
         /\ at[x].pc \in {"disable", "suspend"} <=> at[x].op = "remove"
         /\ at[x].pc = "idle" <=> at[x].op = "none"
         /\ at[x].pc # "idle" => at[x].row \in Invites
         /\ at[x].op \in {"visit", "activate"} => at[x].who \in Invites
         /\ at[x] \in Requests /\ at[x].seen \in Seats
BY DEF Typed, TypeOK, Shape, Idle, Requests

\* A step of a request.
Move(x) ==
  \/ CreateAccount(x) \/ CreateSeat(x) \/ UndoAccount(x) \/ BindSubject(x)
  \/ SendCode(x) \/ VerifyCode(x) \/ LoadForActivation(x) \/ Activate(x)
  \/ RevokeAccount(x) \/ DeleteSeat(x) \/ DisableSeat(x) \/ SuspendAccount(x) \/ Crash(x)
  \/ \E i \in Invites : \/ BeginInvite(x, i)
                        \/ \E op \in {"visit", "activate"} : LoadMember(x, op, i)
                        \/ \E op \in {"revoke", "remove"} : LoadTarget(x, op, i)

\* Every step is a stutter, a sign-in or a step of a request.
LEMMA Steps ==
  ASSUME [Next]_vars
  PROVE  \/ UNCHANGED vars
         \/ \E i \in Invites : SignIn(i)
         \/ \E x \in Handlers : Move(x)
BY DEF Next, Step, Move

\* Every request that moves leaves the others where they are, and stands where
\* its operation may stand.
LEMMA Moves ==
  ASSUME Typed, NEW x \in Handlers, Move(x)
  PROVE  /\ \A y \in Handlers : y # x => at'[y] = at[y]
         /\ at' \in [Handlers -> Requests] /\ \A y \in Handlers : Shape(at'[y])
<1>1. CASE CreateAccount(x)
  BY <1>1, FinishIs, GotoIs, StandsAt DEF CreateAccount
<1>2. CASE CreateSeat(x)
  BY <1>2, FinishIs, GotoIs, StandsAt DEF CreateSeat
<1>3. CASE UndoAccount(x)
  BY <1>3, FinishIs DEF UndoAccount, DeleteAccount, Then
<1>4. CASE BindSubject(x)
  BY <1>4, FinishIs, GotoIs, StandsAt DEF BindSubject
<1>5. CASE SendCode(x) \/ Activate(x) \/ DeleteSeat(x) \/ SuspendAccount(x) \/ Crash(x)
  BY <1>5, FinishIs DEF SendCode, Activate, DeleteSeat, SuspendAccount, Crash
<1>6. CASE VerifyCode(x)
  BY <1>6, FinishIs, GotoIs, StandsAt DEF VerifyCode
<1>7. CASE LoadForActivation(x)
  <2>1. CASE Finish(x)
    BY <2>1, FinishIs
  <2>2. CASE ~ Finish(x)
    <3> DEFINE new == [at[x] EXCEPT !.pc = "confirm", !.seen = seat[at[x].row]]
    <3>1. /\ at' = [at EXCEPT ![x] = new] /\ at \in [Handlers -> Requests]
          /\ at[x] \in Requests /\ at[x].op = "activate" /\ at[x].row \in Invites
          /\ at[x].who \in Invites /\ seat[at[x].row] \in Seats
      BY <1>7, <2>2, StandsAt DEF LoadForActivation, Typed, TypeOK, Requests
    <3>2. new \in Requests /\ new.op = "activate" /\ new.pc = "confirm" /\ new.row \in Invites /\ new.who \in Invites
      BY <3>1 DEF Requests, Labels
    <3>3. Shape(new)
      <4> HIDE DEF new
      <4> QED
        BY <3>2 DEF Shape
    <3> QED
      BY <3>1, <3>2, <3>3 DEF Typed
  <2> QED
    BY <2>1, <2>2
<1>8. CASE RevokeAccount(x)
  BY <1>8, GotoIs, StandsAt DEF RevokeAccount, DeleteAccount, Then
<1>9. CASE DisableSeat(x)
  BY <1>9, FinishIs, GotoIs, StandsAt DEF DisableSeat
<1>10. ASSUME NEW i \in Invites, BeginInvite(x, i)
       PROVE  (\A y \in Handlers : y # x => at'[y] = at[y]) /\ at' \in [Handlers -> Requests]
              /\ (\A y \in Handlers : Shape(at'[y]))
  <2>1. NoSeat \in Seats
    BY DEF NoSeat, Seats
  <2> QED
    BY <1>10, <2>1, StartIs DEF BeginInvite
<1>11. ASSUME NEW i \in Invites, NEW op \in {"visit", "activate"}, LoadMember(x, op, i)
       PROVE  (\A y \in Handlers : y # x => at'[y] = at[y]) /\ at' \in [Handlers -> Requests]
              /\ (\A y \in Handlers : Shape(at'[y]))
  <2>1. PICK r \in Invites : Start(x, op, "bind", i, r, seat[r])
    BY <1>11 DEF LoadMember, Member
  <2>2. seat[r] \in Seats
    BY DEF Typed, TypeOK
  <2> QED
    BY <2>1, <2>2, StartIs
<1>12. ASSUME NEW i \in Invites, NEW op \in {"revoke", "remove"}, LoadTarget(x, op, i)
       PROVE  (\A y \in Handlers : y # x => at'[y] = at[y]) /\ at' \in [Handlers -> Requests]
              /\ (\A y \in Handlers : Shape(at'[y]))
  <2>1. NoSeat \in Seats
    BY DEF NoSeat, Seats
  <2>2. CASE op = "revoke"
    BY <1>12, <2>1, <2>2, StartIs DEF LoadTarget
  <2>3. CASE op = "remove"
    BY <1>12, <2>1, <2>3, StartIs DEF LoadTarget
  <2> QED
    BY <2>2, <2>3
<1> QED
  BY <1>1, <1>2, <1>3, <1>4, <1>5, <1>6, <1>7, <1>8, <1>9, <1>10, <1>11, <1>12 DEF Move

\* What the steps that write a document write.
LEMMA BindIs ==
  ASSUME Typed, NEW x \in Handlers, BindSubject(x)
  PROVE  LET a == at[x] IN
         /\ a.row \in Invites /\ a.who \in Invites /\ seat' \in [Invites -> Seats]
         /\ \A i \in Invites : i # a.row \/ ~ Stored(a.row) => seat'[i] = seat[i]
         /\ seat'[a.row].verified = seat[a.row].verified
         /\ Stored(a.row) =>
              /\ seat'[a.row].subject = IF a.seen.subject = NoOne THEN a.who ELSE seat[a.row].subject
              /\ seat'[a.row].status = IF a.seen.status = "invited" /\ a.seen.verified
                                       THEN "active" ELSE seat[a.row].status
<1> DEFINE r == at[x].row
           s == IF at[x].seen.subject = NoOne THEN at[x].who ELSE seat[r].subject
           t == IF at[x].seen.status = "invited" /\ at[x].seen.verified THEN "active" ELSE seat[r].status
           new == [seat[r] EXCEPT !.subject = s, !.status = t]
<1>1. r \in Invites /\ at[x].who \in Invites /\ seat[r] \in Seats /\ seat \in [Invites -> Seats]
  BY StandsAt DEF BindSubject, Typed, TypeOK
<1>2. s \in Invites \cup {NoOne} /\ t \in {"none", "invited", "active", "disabled", "deleted"}
  BY <1>1 DEF Seats
<1>3. Stored(r) => seat' = [seat EXCEPT ![r] = new]
  BY <1>1 DEF BindSubject, Seats
<1>4. ~ Stored(r) => seat' = seat
  BY DEF BindSubject
<1> HIDE DEF s, t
<1>5. new \in Seats /\ new.verified = seat[r].verified /\ new.subject = s /\ new.status = t
  BY <1>1, <1>2 DEF Seats
<1> HIDE DEF new, r
<1> QED
  BY <1>1, <1>3, <1>4, <1>5 DEF s, t, r

\* The activation writes the phone's verification, and the status unless it was loaded active.
LEMMA ActivateIs ==
  ASSUME Typed, NEW x \in Handlers, Activate(x)
  PROVE  LET a == at[x] IN
         /\ a.row \in Invites /\ a.op = "activate" /\ seat' \in [Invites -> Seats]
         /\ \A i \in Invites : i # a.row \/ ~ Stored(a.row) => seat'[i] = seat[i]
         /\ seat'[a.row].subject = seat[a.row].subject
         /\ Stored(a.row) => /\ seat'[a.row].verified
                             /\ seat'[a.row].status = IF a.seen.status = "active"
                                                      THEN seat[a.row].status ELSE "active"
<1> DEFINE r == at[x].row
           t == IF at[x].seen.status = "active" THEN seat[r].status ELSE "active"
           new == [seat[r] EXCEPT !.verified = TRUE, !.status = t]
<1>1. r \in Invites /\ at[x].op = "activate" /\ seat[r] \in Seats /\ seat \in [Invites -> Seats]
  BY StandsAt DEF Activate, Typed, TypeOK
<1>2. t \in {"none", "invited", "active", "disabled", "deleted"}
  BY <1>1 DEF Seats
<1>3. Stored(r) => seat' = [seat EXCEPT ![r] = new]
  BY <1>1 DEF Activate, Seats, Written
<1>4. ~ Stored(r) => seat' = seat
  BY DEF Activate
<1> HIDE DEF t
<1>5. new \in Seats /\ new.verified /\ new.subject = seat[r].subject /\ new.status = t
  BY <1>1, <1>2 DEF Seats
<1> HIDE DEF new, r
<1> QED
  BY <1>1, <1>3, <1>4, <1>5 DEF t, r

\* The owner's steps and the invitation write the status alone.
LEMMA StatusIs ==
  ASSUME Typed, NEW r \in Invites, NEW status \in {"invited", "disabled", "deleted"},
         seat' = [seat EXCEPT ![r].status = status]
  PROVE  /\ seat' \in [Invites -> Seats]
         /\ \A i \in Invites : i # r => seat'[i] = seat[i]
         /\ seat'[r].status = status /\ seat'[r].verified = seat[r].verified
         /\ seat'[r].subject = seat[r].subject
BY DEF Typed, TypeOK, Seats

\* What is noted is noted of documents.
LEMMA Noted ==
  ASSUME Typed, NEW x \in Handlers, Move(x)
  PROVE  rebound' \subseteq Invites /\ overtaken' \subseteq Invites /\ contested' \subseteq Invites
<1>1. /\ rebound \subseteq Invites /\ overtaken \subseteq Invites /\ contested \subseteq Invites
      /\ at[x].pc # "idle" => at[x].row \in Invites
  BY StandsAt DEF Typed, TypeOK
<1>2. CASE BindSubject(x) \/ Activate(x) \/ DisableSeat(x)
  BY <1>1, <1>2 DEF BindSubject, Activate, DisableSeat
<1>3. CASE ~ (BindSubject(x) \/ Activate(x) \/ DisableSeat(x))
  BY <1>1, <1>3 DEF Move, history, CreateAccount, CreateSeat, UndoAccount, SendCode, VerifyCode,
       LoadForActivation, RevokeAccount, DeleteSeat, SuspendAccount, Crash, BeginInvite, LoadMember, LoadTarget
<1> QED
  BY <1>2, <1>3

\* Types, and the place of each request, are kept by every step.
LEMMA TypeStep == Typed /\ [Next]_vars => Typed'
<1> SUFFICES ASSUME Typed, [Next]_vars PROVE Typed'
  OBVIOUS
<1>1. CASE UNCHANGED vars
  BY <1>1 DEF vars, Typed, TypeOK
<1>2. ASSUME NEW i \in Invites, SignIn(i) PROVE Typed'
  BY <1>2 DEF SignIn, Typed, TypeOK, history
<1>3. ASSUME NEW x \in Handlers,
             at' \in [Handlers -> Requests], \A y \in Handlers : Shape(at'[y]),
             seat' \in [Invites -> Seats], account' \in [Invites -> {"none", "active", "disabled", "deleted"}],
             sessions' = sessions, code' \in BOOLEAN, failed' \in BOOLEAN,
             entered' \subseteq [who : Invites, row : Invites],
             rebound' \subseteq Invites, overtaken' \subseteq Invites, contested' \subseteq Invites
      PROVE  Typed'
  BY <1>3 DEF Typed, TypeOK, Requests
<1>4. ASSUME NEW x \in Handlers, Move(x) PROVE Typed'
  <2>1. /\ at' \in [Handlers -> Requests] /\ \A y \in Handlers : Shape(at'[y])
        /\ rebound' \subseteq Invites /\ overtaken' \subseteq Invites /\ contested' \subseteq Invites
    BY <1>4, Moves, Noted
  <2>2. /\ at[x].pc # "idle" => at[x].row \in Invites
        /\ at[x].pc = "bind" => at[x].who \in Invites
        /\ at[x].seen \in Seats
    BY StandsAt
  <2>3. /\ seat \in [Invites -> Seats] /\ account \in [Invites -> {"none", "active", "disabled", "deleted"}]
        /\ code \in BOOLEAN /\ failed \in BOOLEAN /\ entered \subseteq [who : Invites, row : Invites]
    BY DEF Typed, TypeOK
  <2>4. CASE CreateAccount(x) \/ UndoAccount(x) \/ RevokeAccount(x) \/ SuspendAccount(x)
    <3>1. /\ UNCHANGED <<seat, sessions, code, entered>>
          /\ failed' \in BOOLEAN
          /\ account' \in [Invites -> {"none", "active", "disabled", "deleted"}]
      BY <2>2, <2>3, <2>4 DEF CreateAccount, UndoAccount, RevokeAccount, SuspendAccount, DeleteAccount
    <3> QED
      BY <1>3, <2>1, <2>3, <3>1
  <2>5. CASE BindSubject(x)
    <3>1. entered' \subseteq [who : Invites, row : Invites] /\ UNCHANGED <<account, sessions, code, failed>>
      BY <2>2, <2>3, <2>5 DEF BindSubject
    <3>2. seat' \in [Invites -> Seats]
      BY <2>5, BindIs
    <3> QED
      BY <1>3, <2>1, <2>3, <3>1, <3>2
  <2>6. CASE CreateSeat(x) \/ DeleteSeat(x) \/ DisableSeat(x)
    <3>1. UNCHANGED <<account, sessions, code, entered, failed>>
      BY <2>6 DEF CreateSeat, DeleteSeat, DisableSeat
    <3>2. seat' \in [Invites -> Seats]
      BY <2>2, <2>3, <2>6 DEF CreateSeat, DeleteSeat, DisableSeat, Seats
    <3> QED
      BY <1>3, <2>1, <2>3, <3>1, <3>2
  <2>7. CASE Activate(x)
    <3>1. UNCHANGED <<account, sessions, code, entered, failed>>
      BY <2>7 DEF Activate
    <3>2. seat' \in [Invites -> Seats]
      BY <2>7, ActivateIs
    <3> QED
      BY <1>3, <2>1, <2>3, <3>1, <3>2
  <2>8. CASE SendCode(x) \/ VerifyCode(x) \/ LoadForActivation(x)
    BY <1>3, <2>1, <2>3, <2>8 DEF SendCode, VerifyCode, LoadForActivation
  <2>9. CASE Crash(x)
    BY <1>3, <2>1, <2>3, <2>9 DEF Crash
  <2>10. CASE \E i \in Invites : \/ BeginInvite(x, i)
                                 \/ \E op \in {"visit", "activate"} : LoadMember(x, op, i)
                                 \/ \E op \in {"revoke", "remove"} : LoadTarget(x, op, i)
    BY <1>3, <2>1, <2>3, <2>10 DEF BeginInvite, LoadMember, LoadTarget
  <2> QED
    BY <1>4, <2>4, <2>5, <2>6, <2>7, <2>8, <2>9, <2>10 DEF Move
<1> QED
  BY <1>1, <1>2, <1>4, Steps

(***************************************************************************)
(* What requests find.                                                     *)
(***************************************************************************)

\* A step that begins no document and no account, and by which no request
\* starts or loads anything.
LEMMA SeatFrame ==
  ASSUME Typed, SeatInv,
         \A i \in Invites : /\ account'[i] = "none" <=> account[i] = "none"
                            /\ seat'[i].status = "none" <=> seat[i].status = "none"
                            /\ seat'[i].status = "invited" => seat[i].status = "invited"
                            /\ seat'[i].status \in {"none", "invited"} => ~ seat'[i].verified,
         \A y \in Handlers : \/ at'[y] = at[y] \/ at'[y] = Idle
                             \/ /\ at'[y].op = at[y].op /\ at'[y].row = at[y].row
                                /\ at'[y].seen = at[y].seen
                                /\ at'[y].pc = "account" <=> at[y].pc = "account"
  PROVE  SeatInv'
<1>1. ASSUME NEW y \in Handlers PROVE Inviting(y)' /\ Found(y)'
  <2>1. Inviting(y) /\ Found(y)
    BY DEF SeatInv
  <2>2. /\ at'[y].op = "invite" => /\ at[y].op = "invite" /\ at'[y].row = at[y].row
                                   /\ at'[y].pc = "account" <=> at[y].pc = "account"
        /\ \A z \in Handlers : at'[z].op = "invite" => at[z].op = "invite" /\ at'[z].row = at[z].row
    BY DEF Idle
  <2>3. at[y].op # "none" => at[y].row \in Invites
    BY StandsAt
  <2>4. Inviting(y)'
    BY <2>1, <2>2, <2>3 DEF Inviting
  <2>5. Found(y)'
    <3>1. CASE at'[y] = Idle
      BY <3>1 DEF Found, Idle, NoSeat
    <3>2. CASE at'[y].op = at[y].op /\ at'[y].row = at[y].row /\ at'[y].seen = at[y].seen
      BY <2>1, <2>3, <3>2 DEF Found
    <3> QED
      BY <3>1, <3>2
  <2> QED
    BY <2>4, <2>5
<1>2. \A i \in Invites : Seated(i)'
  BY DEF SeatInv, Seated
<1> QED
  BY <1>1, <1>2 DEF SeatInv

\* What a request finds stays so, whatever the others do.
LEMMA SeatStep == Typed /\ SeatInv /\ [Next]_vars => SeatInv'
<1> SUFFICES ASSUME Typed, SeatInv, [Next]_vars PROVE SeatInv'
  OBVIOUS
<1>0. /\ \A y \in Handlers : Inviting(y) /\ Found(y)
      /\ \A i \in Invites : Seated(i)
  BY DEF SeatInv
<1>1. CASE UNCHANGED vars \/ \E i \in Invites : SignIn(i)
  BY <1>0, <1>1, SeatFrame DEF vars, SignIn, Seated
<1>2. ASSUME NEW x \in Handlers, Move(x) PROVE SeatInv'
  <2>0. UNCHANGED seat => \A i \in Invites : /\ seat'[i].status = seat[i].status
                                            /\ seat'[i].status \in {"none", "invited"} => ~ seat'[i].verified
    BY <1>0 DEF Seated
  <2>1. /\ \A y \in Handlers : y # x => at'[y] = at[y]
        /\ Finish(x) => at'[x] = Idle
    BY <1>2, Moves, FinishIs
  <2>2. CASE SendCode(x) \/ Crash(x)
    BY <2>0, <2>1, <2>2, SeatFrame DEF SendCode, Crash
  <2>3. CASE VerifyCode(x)
    <3>1. Goto(x, "load") => at'[x].op = at[x].op /\ at'[x].row = at[x].row /\ at'[x].seen = at[x].seen
                             /\ at'[x].pc = "load" /\ at[x].pc # "account"
      BY <2>3, GotoIs, StandsAt DEF VerifyCode
    <3> QED
      BY <2>0, <2>1, <2>3, <3>1, SeatFrame DEF VerifyCode
  <2>4. CASE CreateAccount(x)
    <3>1. CASE EmailKnown
      BY <2>0, <2>1, <2>4, <3>1, SeatFrame DEF CreateAccount
    <3>2. CASE ~ EmailKnown
      <4> DEFINE r == at[x].row
      <4>1. /\ at[x].pc = "account" /\ at[x].op = "invite" /\ r \in Invites
            /\ account' = [account EXCEPT ![r] = "active"] /\ UNCHANGED seat
            /\ Goto(x, "seat") \/ Finish(x)
        BY <2>4, <3>2, StandsAt DEF CreateAccount
      <4>2. \/ at'[x] = Idle
            \/ at'[x].pc = "seat" /\ at'[x].op = "invite" /\ at'[x].row = r /\ at'[x].seen = at[x].seen
        BY <2>1, <4>1, GotoIs
      <4>3. account'[r] = "active" /\ \A i \in Invites : i # r => account'[i] = account[i]
        BY <4>1 DEF Typed, TypeOK
      <4>4. ASSUME NEW y \in Handlers PROVE Inviting(y)' /\ Found(y)'
        <5>1. Inviting(y)'
          <6> SUFFICES ASSUME at'[y].op = "invite" PROVE Inviting(y)'
            BY DEF Inviting
          <6>1. at'[y].row = at[y].row /\ at[y].op = "invite"
            BY <2>1, <4>1, <4>2 DEF Idle
          <6>2. \A z \in Handlers : at'[z].op = "invite" => at[z].op = "invite" /\ at'[z].row = at[z].row
            BY <2>1, <4>1, <4>2 DEF Idle
          <6>3. at[y].row \in Invites /\ Inviting(y)
            BY <1>0, <6>1, StandsAt
          <6>4. CASE y = x
            BY <4>1, <4>2, <4>3, <6>1, <6>2, <6>3, <6>4 DEF Inviting, Idle
          <6>5. CASE y # x
            <7>1. at[y].row # r
              BY <4>1, <6>1, <6>3, <6>5 DEF Inviting
            <7> QED
              BY <2>1, <4>1, <4>3, <6>1, <6>2, <6>3, <6>5, <7>1 DEF Inviting
          <6> QED
            BY <6>4, <6>5
        <5>2. Found(y)'
          BY <1>0, <2>1, <4>1, <4>2 DEF Found, Idle, NoSeat
        <5> QED
          BY <5>1, <5>2
      <4>5. \A i \in Invites : Seated(i)'
        BY <1>0, <4>1, <4>3 DEF Seated
      <4> QED
        BY <4>4, <4>5 DEF SeatInv
    <3> QED
      BY <3>1, <3>2
  <2>5. CASE CreateSeat(x)
    <3>1. CASE UNCHANGED seat
      <4>1. \/ at'[x] = Idle
            \/ /\ at'[x].op = at[x].op /\ at'[x].row = at[x].row /\ at'[x].seen = at[x].seen
               /\ at'[x].pc = "undo" /\ at[x].pc = "seat"
        BY <2>1, <2>5, <3>1, GotoIs, StandsAt DEF CreateSeat
      <4> QED
        BY <2>0, <2>1, <2>5, <3>1, <4>1, SeatFrame DEF CreateSeat
    <3>2. CASE ~ UNCHANGED seat
      <4> DEFINE r == at[x].row
      <4>1. /\ at[x].pc = "seat" /\ at[x].op = "invite" /\ r \in Invites
            /\ seat' = [seat EXCEPT ![r].status = "invited"] /\ UNCHANGED account
            /\ at'[x] = Idle
        BY <2>1, <2>5, <3>2, StandsAt DEF CreateSeat
      <4>2. /\ seat'[r].status = "invited" /\ seat'[r].verified = seat[r].verified
            /\ \A i \in Invites : i # r => seat'[i] = seat[i]
        BY <4>1, StatusIs
      <4>3. seat[r].status = "none" /\ account[r] # "none"
        BY <1>0, <4>1 DEF Inviting
      <4>4. ASSUME NEW y \in Handlers, y # x PROVE Inviting(y)' /\ Found(y)'
        <5>1. Inviting(y)'
          <6>1. at[y].op = "invite" => at[y].row # r /\ at[y].row \in Invites
            BY <1>0, <4>1, <4>4, StandsAt DEF Inviting
          <6>2. \A z \in Handlers : at'[z].op = "invite" => at[z].op = "invite" /\ at'[z].row = at[z].row
            BY <2>1, <4>1 DEF Idle
          <6> QED
            BY <1>0, <2>1, <4>1, <4>2, <4>4, <6>1, <6>2 DEF Inviting
        <5>2. Found(y)'
          <6>1. at[y].op \notin {"none", "invite"} => at[y].row # r /\ at[y].row \in Invites
            BY <1>0, <4>3, StandsAt DEF Found
          <6> QED
            BY <1>0, <2>1, <4>2, <4>4, <6>1 DEF Found
        <5> QED
          BY <5>1, <5>2
      <4>5. Inviting(x)' /\ Found(x)'
        BY <4>1 DEF Inviting, Found, Idle, NoSeat
      <4>6. \A i \in Invites : Seated(i)'
        BY <1>0, <4>1, <4>2, <4>3 DEF Seated
      <4> QED
        BY <4>4, <4>5, <4>6 DEF SeatInv
    <3> QED
      BY <3>1, <3>2
  <2>6. CASE UndoAccount(x) \/ RevokeAccount(x) \/ SuspendAccount(x)
    <3>1. UNCHANGED seat /\ \A i \in Invites : account'[i] = "none" <=> account[i] = "none"
      <4>1. at[x].row \in Invites /\ account[at[x].row] # "none"
        <5>1. at[x].row \in Invites
          BY <2>6, StandsAt DEF UndoAccount, RevokeAccount, SuspendAccount
        <5>2. CASE UndoAccount(x)
          BY <1>0, <5>2, StandsAt DEF UndoAccount, Inviting
        <5>3. CASE RevokeAccount(x) \/ SuspendAccount(x)
          <6>1. at[x].op \in {"revoke", "remove"}
            BY <5>3, StandsAt DEF RevokeAccount, SuspendAccount
          <6> QED
            BY <1>0, <5>1, <6>1 DEF Found, Seated
        <5> QED
          BY <2>6, <5>1, <5>2, <5>3
      <4> QED
        BY <2>6, <4>1 DEF UndoAccount, RevokeAccount, SuspendAccount, DeleteAccount, Typed, TypeOK
    <3>2. \/ at'[x] = Idle
          \/ at'[x].op = at[x].op /\ at'[x].row = at[x].row /\ at'[x].seen = at[x].seen
             /\ at'[x].pc = "delete" /\ at[x].pc = "unaccount"
      BY <2>1, <2>6, GotoIs, StandsAt DEF UndoAccount, RevokeAccount, SuspendAccount, DeleteAccount, Then
    <3> QED
      BY <2>0, <2>1, <3>1, <3>2, SeatFrame
  <2>7. CASE BindSubject(x)
    <3>1. \A i \in Invites : seat'[i].status = seat[i].status /\ seat'[i].verified = seat[i].verified
      BY <1>0, <2>7, BindIs DEF Found
    <3>2. \/ at'[x] = Idle
          \/ at'[x].op = at[x].op /\ at'[x].row = at[x].row /\ at'[x].seen = at[x].seen
             /\ at'[x].pc = "code" /\ at[x].pc = "bind"
      BY <2>1, <2>7, GotoIs, StandsAt DEF BindSubject
    <3>3. UNCHANGED account
      BY <2>7 DEF BindSubject
    <3> QED
      BY <1>0, <2>1, <3>1, <3>2, <3>3, SeatFrame DEF Seated
  <2>8. CASE Activate(x)
    <3>1. \A i \in Invites : \/ seat'[i] = seat[i]
                             \/ Stored(i) /\ seat'[i].status \notin {"none", "invited"}
      <4>1. at[x].seen.status = "active" => seat[at[x].row].status # "invited"
        BY <1>0, <2>8, ActivateIs DEF Found
      <4> QED
        BY <2>8, <4>1, ActivateIs DEF Stored
    <3>2. at'[x] = Idle /\ UNCHANGED account
      BY <2>1, <2>8 DEF Activate
    <3> QED
      BY <1>0, <2>1, <3>1, <3>2, SeatFrame DEF Seated, Stored
  <2>9. CASE DeleteSeat(x) \/ DisableSeat(x)
    <3>1. UNCHANGED account /\ at[x].row \in Invites /\ at[x].op \in {"revoke", "remove"}
      BY <2>9, StandsAt DEF DeleteSeat, DisableSeat
    <3>2. \/ seat' = seat \/ seat' = [seat EXCEPT ![at[x].row].status = "deleted"]
          \/ seat' = [seat EXCEPT ![at[x].row].status = "disabled"]
      BY <2>9 DEF DeleteSeat, DisableSeat
    <3>3. \A i \in Invites : \/ seat'[i] = seat[i]
                             \/ seat[i].status # "none" /\ seat'[i].status \notin {"none", "invited"}
      BY <1>0, <3>1, <3>2, StatusIs DEF Found
    <3>4. \/ at'[x] = Idle
          \/ at'[x].op = at[x].op /\ at'[x].row = at[x].row /\ at'[x].seen = at[x].seen
             /\ at'[x].pc = "suspend" /\ at[x].pc = "disable"
      BY <2>1, <2>9, GotoIs, StandsAt DEF DeleteSeat, DisableSeat
    <3> QED
      BY <1>0, <2>1, <3>1, <3>3, <3>4, SeatFrame DEF Seated
  <2>10. CASE LoadForActivation(x)
    <3>1. UNCHANGED <<seat, account>>
      BY <2>10 DEF LoadForActivation
    <3>2. CASE Finish(x)
      BY <2>0, <2>1, <3>1, <3>2, SeatFrame
    <3>3. CASE ~ Finish(x)
      <4>1. at[x].pc = "load" /\ at[x].row \in Invites /\ at[x].op = "activate" /\ at[x] \in Requests
        BY <2>10, StandsAt DEF LoadForActivation
      <4>2. /\ at'[x].op = "activate" /\ at'[x].row = at[x].row /\ at'[x].pc = "confirm"
            /\ at'[x].seen = seat[at[x].row] /\ Stored(at[x].row)
        BY <2>10, <3>3, <4>1 DEF LoadForActivation, Typed, TypeOK, Requests
      <4>3. Inviting(x)' /\ Found(x)'
        BY <1>0, <3>1, <4>1, <4>2 DEF Inviting, Found, Seated, Stored
      <4>4. ASSUME NEW y \in Handlers, y # x PROVE Inviting(y)' /\ Found(y)'
        BY <1>0, <2>1, <3>1, <4>2, <4>4 DEF Inviting, Found
      <4> QED
        BY <1>0, <3>1, <4>3, <4>4 DEF SeatInv, Seated
    <3> QED
      BY <3>2, <3>3
  <2>11. ASSUME NEW i \in Invites, BeginInvite(x, i) PROVE SeatInv'
    <3>1. /\ at'[x] = [op |-> "invite", pc |-> "account", who |-> NoOne, row |-> i, seen |-> NoSeat]
          /\ UNCHANGED <<seat, account>> /\ account[i] = "none"
          /\ \A y \in Handlers : at[y].op = "invite" => at[y].row # i
      <4>1. NoSeat \in Seats
        BY DEF NoSeat, Seats
      <4> QED
        BY <2>11, <4>1, StartIs DEF BeginInvite
    <3>2. Inviting(x)' /\ Found(x)'
      BY <1>0, <2>1, <3>1 DEF Inviting, Found, NoSeat, Seated
    <3>3. ASSUME NEW y \in Handlers, y # x PROVE Inviting(y)' /\ Found(y)'
      BY <1>0, <2>1, <3>1, <3>3 DEF Inviting, Found
    <3> QED
      BY <1>0, <3>1, <3>2, <3>3 DEF SeatInv, Seated
  <2>12. ASSUME NEW op \in {"visit", "activate", "revoke", "remove"}, NEW pc \in {"bind", "unaccount", "disable"},
                NEW who \in Invites \cup {NoOne}, NEW r \in Invites, NEW seen \in {seat[r], NoSeat}, Stored(r),
                op = "activate" => seen = seat[r],
                at'[x] = [op |-> op, pc |-> pc, who |-> who, row |-> r, seen |-> seen],
                UNCHANGED <<seat, account>>
         PROVE  SeatInv'
    <3>1. Inviting(x)' /\ Found(x)'
      BY <1>0, <2>1, <2>12 DEF Inviting, Found, Seated, Stored, NoSeat
    <3>2. ASSUME NEW y \in Handlers, y # x PROVE Inviting(y)' /\ Found(y)'
      BY <1>0, <2>1, <2>12, <3>2 DEF Inviting, Found
    <3> QED
      BY <1>0, <2>12, <3>1, <3>2 DEF SeatInv, Seated
  <2>13. ASSUME NEW i \in Invites, NEW op \in {"visit", "activate"}, LoadMember(x, op, i) PROVE SeatInv'
    <3>1. PICK r \in Invites : Stored(r) /\ Start(x, op, "bind", i, r, seat[r])
      BY <2>13 DEF LoadMember, Member
    <3>2. seat[r] \in Seats /\ UNCHANGED <<seat, account>>
      BY <2>13 DEF Typed, TypeOK, LoadMember
    <3>3. at'[x] = [op |-> op, pc |-> "bind", who |-> i, row |-> r, seen |-> seat[r]]
      BY <3>1, <3>2, StartIs
    <3> QED
      BY <2>12, <3>1, <3>2, <3>3
  <2>14. ASSUME NEW i \in Invites, NEW op \in {"revoke", "remove"}, LoadTarget(x, op, i) PROVE SeatInv'
    <3>1. NoSeat \in Seats /\ Stored(i) /\ UNCHANGED <<seat, account>>
      BY <2>14 DEF NoSeat, Seats, LoadTarget
    <3>2. CASE op = "revoke"
      <4>1. Start(x, "revoke", "unaccount", NoOne, i, NoSeat)
        BY <2>14, <3>2 DEF LoadTarget
      <4>2. at'[x] = [op |-> "revoke", pc |-> "unaccount", who |-> NoOne, row |-> i, seen |-> NoSeat]
        BY <3>1, <4>1, StartIs
      <4> QED
        BY <2>12, <3>1, <4>2
    <3>3. CASE op = "remove"
      <4>1. Start(x, "remove", "disable", NoOne, i, NoSeat)
        BY <2>14, <3>3 DEF LoadTarget
      <4>2. at'[x] = [op |-> "remove", pc |-> "disable", who |-> NoOne, row |-> i, seen |-> NoSeat]
        BY <3>1, <4>1, StartIs
      <4> QED
        BY <2>12, <3>1, <4>2
    <3> QED
      BY <3>2, <3>3
  <2> QED
    BY <1>2, <2>2, <2>3, <2>4, <2>5, <2>6, <2>7, <2>8, <2>9, <2>10, <2>11, <2>13, <2>14 DEF Move
<1> QED
  BY <1>1, <1>2, Steps

\* The inductive invariant that needs no hypothesis: types, places and what requests find.
LEMMA BaseHolds == Spec => [](Typed /\ SeatInv)
<1>1. Init => Typed /\ SeatInv
  <2> SUFFICES ASSUME Init PROVE Typed /\ SeatInv
    OBVIOUS
  <2>1. Idle \in Requests /\ NoSeat \in Seats /\ Shape(Idle)
    BY DEF Idle, NoSeat, Requests, Seats, Labels, Shape
  <2>2. Typed
    BY <2>1 DEF Init, Typed, TypeOK, Requests
  <2>3. SeatInv
    BY DEF Init, SeatInv, Inviting, Found, Seated, Idle, NoSeat
  <2> QED
    BY <2>2, <2>3
<1> QED
  BY <1>1, TypeStep, SeatStep, PTL DEF Spec

\* Types: documents, accounts, sessions and requests keep the shape of TypeOK, for any
\* number of invitations and requests, whatever overlaps and whatever fails.
THEOREM TypeCorrect == Spec => []TypeOK
<1>1. Typed => TypeOK
  BY DEF Typed
<1> QED
  BY <1>1, BaseHolds, PTL

(***************************************************************************)
(* What moves, whatever the step.                                          *)
(***************************************************************************)

\* The status of a document is written by four steps only.
LEMMA Writes ==
  ASSUME Typed, SeatInv, NEW x \in Handlers, Move(x), NEW i \in Invites
  PROVE  \/ seat'[i].status = seat[i].status
         \/ CreateSeat(x) /\ at[x].row = i /\ seat[i].status = "none" /\ seat'[i].status = "invited"
         \/ Activate(x) /\ at[x].row = i /\ Stored(i) /\ seat'[i].status = "active"
         \/ DeleteSeat(x) /\ at[x].row = i /\ seat'[i].status = "deleted"
         \/ DisableSeat(x) /\ at[x].row = i /\ Stored(i) /\ seat'[i].status = "disabled"
<1>0. at[x].pc # "idle" => at[x].row \in Invites
  BY StandsAt
<1>1. CASE BindSubject(x)
  BY <1>1, BindIs DEF SeatInv, Found
<1>2. CASE Activate(x)
  BY <1>2, ActivateIs
<1>3. CASE DeleteSeat(x)
  BY <1>0, <1>3, StatusIs DEF DeleteSeat
<1>4. CASE DisableSeat(x)
  BY <1>0, <1>4, StatusIs DEF DisableSeat
<1>5. CASE CreateSeat(x)
  <2>1. at[x].op = "invite" /\ at[x].row \in Invites
    BY <1>0, <1>5, StandsAt DEF CreateSeat
  <2> QED
    BY <1>5, <2>1, StatusIs DEF CreateSeat, SeatInv, Inviting
<1>6. CASE ~ (BindSubject(x) \/ Activate(x) \/ DeleteSeat(x) \/ DisableSeat(x) \/ CreateSeat(x))
  <2>1. UNCHANGED seat
    BY <1>6 DEF Move, CreateAccount, UndoAccount, SendCode, VerifyCode, LoadForActivation, RevokeAccount,
                SuspendAccount, Crash, BeginInvite, LoadMember, LoadTarget
  <2> QED
    BY <2>1
<1> QED
  BY <1>1, <1>2, <1>3, <1>4, <1>5, <1>6

\* A request ends, goes on with what it is for, or has just started.
LEMMA GoesOn ==
  ASSUME Typed, NEW x \in Handlers, Move(x)
  PROVE  \/ at'[x] = Idle
         \/ at'[x].op = at[x].op /\ at'[x].row = at[x].row /\ at'[x].who = at[x].who /\ at[x].op # "none"
         \/ /\ at[x].op = "none"
            /\ UNCHANGED <<seat, account, sessions, code, entered, failed, rebound, overtaken, contested>>
            /\ at'[x].row \in Invites
            /\ at'[x].op = "invite" => at'[x].pc = "account"
            /\ at'[x].op # "invite" => at'[x].pc \in {"bind", "unaccount", "disable"} /\ Stored(at'[x].row)
            /\ at'[x].op \in {"visit", "activate"} => at'[x].seen = seat[at'[x].row]
            /\ at'[x].op = "revoke" => Revocable(seat[at'[x].row])
            /\ at'[x].pc = "bind" => at'[x].row \in Member(at'[x].who)
            /\ at'[x].op \in {"visit", "activate", "remove"} => seat[at'[x].row].status # "disabled"
<1>1. CASE CreateAccount(x)
  BY <1>1, FinishIs, GotoIs, StandsAt DEF CreateAccount
<1>2. CASE CreateSeat(x)
  BY <1>2, FinishIs, GotoIs, StandsAt DEF CreateSeat
<1>3. CASE UndoAccount(x)
  BY <1>3, FinishIs DEF UndoAccount, DeleteAccount, Then
<1>4. CASE BindSubject(x)
  BY <1>4, FinishIs, GotoIs, StandsAt DEF BindSubject
<1>5. CASE SendCode(x) \/ Activate(x) \/ DeleteSeat(x) \/ SuspendAccount(x) \/ Crash(x)
  BY <1>5, FinishIs DEF SendCode, Activate, DeleteSeat, SuspendAccount, Crash
<1>6. CASE VerifyCode(x)
  BY <1>6, FinishIs, GotoIs, StandsAt DEF VerifyCode
<1>7. CASE LoadForActivation(x)
  <2>1. CASE Finish(x)
    BY <2>1, FinishIs
  <2>2. CASE ~ Finish(x)
    BY <1>7, <2>2, StandsAt DEF LoadForActivation, Typed, TypeOK, Requests
  <2> QED
    BY <2>1, <2>2
<1>8. CASE RevokeAccount(x)
  BY <1>8, GotoIs, StandsAt DEF RevokeAccount, DeleteAccount, Then
<1>9. CASE DisableSeat(x)
  BY <1>9, FinishIs, GotoIs, StandsAt DEF DisableSeat
<1>10. CASE \E i \in Invites : BeginInvite(x, i)
  <2>1. PICK i \in Invites : BeginInvite(x, i)
    BY <1>10
  <2>2. NoSeat \in Seats
    BY DEF NoSeat, Seats
  <2>3. Start(x, "invite", "account", NoOne, i, NoSeat)
    BY <2>1 DEF BeginInvite
  <2>4. at'[x] = [op |-> "invite", pc |-> "account", who |-> NoOne, row |-> i, seen |-> NoSeat] /\ at[x] = Idle
    BY <2>2, <2>3, StartIs
  <2> QED
    BY <2>1, <2>3, <2>4 DEF BeginInvite, Idle, history
<1>11. CASE \E i \in Invites, op \in {"visit", "activate"} : LoadMember(x, op, i)
  <2>1. PICK i \in Invites, op \in {"visit", "activate"} : LoadMember(x, op, i)
    BY <1>11
  <2>2. PICK r \in Member(i) : seat[r].status # "disabled" /\ Start(x, op, "bind", i, r, seat[r])
    BY <2>1 DEF LoadMember
  <2>3. r \in Invites /\ Stored(r) /\ seat[r] \in Seats
    BY <2>2 DEF Member, Typed, TypeOK
  <2>4. at'[x] = [op |-> op, pc |-> "bind", who |-> i, row |-> r, seen |-> seat[r]] /\ at[x] = Idle
    BY <2>2, <2>3, StartIs
  <2> QED
    BY <2>1, <2>2, <2>3, <2>4 DEF LoadMember, Idle, history
<1>12. CASE \E i \in Invites, op \in {"revoke", "remove"} : LoadTarget(x, op, i)
  <2>1. PICK i \in Invites, op \in {"revoke", "remove"} : LoadTarget(x, op, i)
    BY <1>12
  <2> DEFINE pc == IF op = "revoke" THEN "unaccount" ELSE "disable"
  <2>2. /\ Start(x, op, pc, NoOne, i, NoSeat) /\ Stored(i) /\ NoSeat \in Seats
        /\ op = "revoke" => Revocable(seat[i])
        /\ op = "remove" => seat[i].status # "disabled"
    BY <2>1 DEF LoadTarget, NoSeat, Seats
  <2>3. at'[x] = [op |-> op, pc |-> pc, who |-> NoOne, row |-> i, seen |-> NoSeat] /\ at[x] = Idle
    BY <2>2, StartIs
  <2> QED
    BY <2>1, <2>2, <2>3 DEF LoadTarget, Idle, history
<1> QED
  BY <1>1, <1>2, <1>3, <1>4, <1>5, <1>6, <1>7, <1>8, <1>9, <1>10, <1>11, <1>12 DEF Move

\* What is noted changes in three steps only.
LEMMA Notes ==
  ASSUME Typed, NEW x \in Handlers, Move(x)
  PROVE  /\ rebound' = rebound \/ BindSubject(x)
         /\ overtaken' = overtaken \/ (DisableSeat(x) /\ Stored(at[x].row))
         /\ contested' = contested \/ Activate(x)
         /\ rebound \subseteq rebound' /\ contested \subseteq contested'
         /\ \A i \in Invites : i # at[x].row => (i \in overtaken' <=> i \in overtaken)
<1>1. CASE BindSubject(x)
  BY <1>1 DEF BindSubject
<1>2. CASE Activate(x)
  BY <1>2 DEF Activate
<1>3. CASE DisableSeat(x)
  BY <1>3 DEF DisableSeat
<1>4. CASE ~ (BindSubject(x) \/ Activate(x) \/ DisableSeat(x))
  BY <1>4 DEF Move, history, CreateAccount, CreateSeat, UndoAccount, SendCode, VerifyCode,
       LoadForActivation, RevokeAccount, DeleteSeat, SuspendAccount, Crash, BeginInvite, LoadMember, LoadTarget
<1> QED
  BY <1>1, <1>2, <1>3, <1>4

(***************************************************************************)
(* Removals.                                                               *)
(***************************************************************************)

\* Only the removal leads to the suspension of the account.
LEMMA Suspends ==
  ASSUME Typed, NEW x \in Handlers, Move(x), at'[x].pc = "suspend"
  PROVE  DisableSeat(x) /\ Stored(at[x].row) /\ at'[x].row = at[x].row
<1>1. ~ Finish(x) /\ \A label \in {"seat", "undo", "code", "load", "delete"} : ~ Goto(x, label)
  <2>1. \A label \in {"seat", "undo", "code", "load", "delete"} : Goto(x, label) => at'[x].pc = label
    BY DEF Goto, Typed, TypeOK, Requests
  <2> QED
    BY <2>1, FinishIs DEF Idle
<1>2. at[x].op # "none"
  BY GoesOn, StandsAt DEF Idle
<1>3. ~ LoadForActivation(x)
  BY <1>1 DEF LoadForActivation, Typed, TypeOK, Requests
<1>4. \A op, pc, who, row, seen : ~ Start(x, op, pc, who, row, seen)
  BY <1>2, StandsAt DEF Start, Running
<1>5. DisableSeat(x)
  BY <1>1, <1>3, <1>4 DEF Move, CreateAccount, CreateSeat, UndoAccount, DeleteAccount, Then, BindSubject, SendCode,
       VerifyCode, Activate, RevokeAccount, DeleteSeat, SuspendAccount, Crash, BeginInvite, LoadMember, LoadTarget
<1>6. Stored(at[x].row) /\ Goto(x, "suspend")
  BY <1>1, <1>5 DEF DisableSeat
<1> QED
  BY <1>5, <1>6, GotoIs, StandsAt DEF DisableSeat

\* A removal finds no activation under way, or notes it.
LEMMA RemovalStep ==
  ASSUME Typed, SeatInv, RemovalInv, NEW x \in Handlers, Move(x)
  PROVE  RemovalInv'
<1>0. \A y \in Handlers : y # x => at'[y] = at[y]
  BY Moves
<1>1. \A y \in Handlers : at'[y].op = "activate" =>
        (at[y].op = "activate" /\ at'[y].row = at[y].row) \/ (at[y].op = "none" /\ y = x)
  BY <1>0, GoesOn DEF Idle
<1>2. ASSUME NEW y \in Handlers, at'[y].op = "activate", at'[y].row \notin overtaken'
      PROVE  seat'[at'[y].row].status # "disabled"
  <2>1. CASE at[y].op = "activate" /\ at'[y].row = at[y].row
    <3>1. at[y].row \in Invites
      BY <2>1, StandsAt
    <3>2. CASE DisableSeat(x) /\ at[x].row = at[y].row /\ Stored(at[x].row)
      BY <1>2, <2>1, <3>2 DEF DisableSeat, UnderWay
    <3>3. CASE ~ (DisableSeat(x) /\ at[x].row = at[y].row /\ Stored(at[x].row))
      <4>1. at[y].row \notin overtaken
        BY <1>2, <2>1, <3>1, <3>3, Notes
      <4>2. seat[at[y].row].status # "disabled"
        BY <2>1, <4>1 DEF RemovalInv
      <4> QED
        BY <2>1, <3>1, <3>3, <4>2, Writes
    <3> QED
      BY <3>2, <3>3
  <2>2. CASE at[y].op = "none" /\ y = x
    BY <1>2, <2>2, GoesOn DEF Idle
  <2> QED
    BY <1>1, <1>2, <2>1, <2>2
<1>3. ASSUME NEW y \in Handlers, at'[y].pc = "suspend", at'[y].row \notin overtaken'
      PROVE  seat'[at'[y].row].status \in {"disabled", "deleted"}
  <2>1. CASE DisableSeat(x) /\ at[x].row = at'[y].row /\ Stored(at[x].row)
    <3>1. at[x].row \in Invites /\ seat' = [seat EXCEPT ![at[x].row].status = "disabled"]
      BY <2>1, StandsAt DEF DisableSeat
    <3> QED
      BY <2>1, <3>1, StatusIs
  <2>2. CASE ~ (DisableSeat(x) /\ at[x].row = at'[y].row /\ Stored(at[x].row))
    <3>1. y # x /\ at'[y] = at[y] /\ at[y].row \in Invites
      <4>1. y # x
        BY <1>3, <2>2, Suspends
      <4> QED
        BY <1>0, <1>3, <4>1, StandsAt
    <3>2. at[y].row \notin overtaken
      BY <1>3, <2>2, <3>1, Notes
    <3>3. seat[at[y].row].status \in {"disabled", "deleted"}
      BY <1>3, <3>1, <3>2 DEF RemovalInv
    <3>4. Activate(x) => at[x].row # at[y].row \/ ~ Stored(at[x].row)
      BY <3>2, <3>3, ActivateIs DEF RemovalInv, Stored
    <3> QED
      BY <3>1, <3>3, <3>4, Writes
  <2> QED
    BY <2>1, <2>2
<1> QED
  BY <1>2, <1>3 DEF RemovalInv

\* The inductive invariant of removals.
LEMMA RemovalHolds == Spec => [](Typed /\ SeatInv /\ RemovalInv)
<1>1. Init => RemovalInv
  BY DEF Init, RemovalInv, Idle
<1>2. Typed /\ SeatInv /\ RemovalInv /\ [Next]_vars => RemovalInv'
  <2> SUFFICES ASSUME Typed, SeatInv, RemovalInv, [Next]_vars PROVE RemovalInv'
    OBVIOUS
  <2>1. CASE UNCHANGED vars \/ \E i \in Invites : SignIn(i)
    BY <2>1 DEF vars, SignIn, RemovalInv, history
  <2> QED
    BY <2>1, RemovalStep, Steps
<1> QED
  BY <1>1, <1>2, BaseHolds, PTL DEF Spec

\* RemovedStaysOut (vendor.controller.ts:614): who was removed stays out, with any number of
\* requests and failures.  Only an activation that the resolver let in before the removal, and
\* that was still under way, writes the seat active again.
THEOREM RemovedStayOut == Spec => RemovedStaysOut
<1> DEFINE Out == \A i \in Invites : seat[i].status = "disabled" /\ i \notin overtaken
                                       => seat'[i].status \in {"disabled", "deleted"}
<1>1. Typed /\ SeatInv /\ RemovalInv /\ [Next]_vars => [Out]_vars
  <2> SUFFICES ASSUME Typed, SeatInv, RemovalInv, [Next]_vars,
                      NEW i \in Invites, seat[i].status = "disabled", i \notin overtaken
               PROVE  seat'[i].status \in {"disabled", "deleted"}
    OBVIOUS
  <2>1. CASE UNCHANGED vars \/ \E j \in Invites : SignIn(j)
    BY <2>1 DEF vars, SignIn
  <2>2. ASSUME NEW x \in Handlers, Move(x) PROVE seat'[i].status \in {"disabled", "deleted"}
    <3>1. Activate(x) => at[x].row # i
      BY <2>2, ActivateIs DEF RemovalInv
    <3> QED
      BY <2>2, <3>1, Writes
  <2> QED
    BY <2>1, <2>2, Steps
<1>2. RemovedStaysOut <=> [][Out]_vars
  BY PTL DEF RemovedStaysOut
<1> QED
  BY <1>1, <1>2, RemovalHolds, PTL DEF Spec

(***************************************************************************)
(* Revocations.                                                            *)
(***************************************************************************)

\* A seat that joins during a revocation is noted.
LEMMA RevocationStep ==
  ASSUME Typed, SeatInv, RevocationInv, NEW x \in Handlers, Move(x)
  PROVE  RevocationInv'
<1> SUFFICES ASSUME NEW y \in Handlers, at'[y].op = "revoke", at'[y].row \notin contested'
             PROVE  seat'[at'[y].row].status # "active"
  BY DEF RevocationInv
<1>0. at'[y].row \notin contested
  BY Notes
<1>1. CASE at[y].op = "revoke" /\ at'[y].row = at[y].row
  <2>1. at[y].row \in Invites /\ seat[at[y].row].status # "active"
    BY <1>0, <1>1, StandsAt DEF RevocationInv
  <2>2. Activate(x) => at[x].row # at[y].row \/ ~ Stored(at[x].row)
    BY <1>1 DEF Activate, UnderWay
  <2> QED
    BY <1>1, <2>1, <2>2, Writes
<1>2. CASE y = x /\ at[x].op = "none"
  BY <1>2, GoesOn DEF Idle, Revocable
<1> QED
  BY <1>1, <1>2, Moves, GoesOn DEF Idle

\* JoinedIsKept (vendor.controller.ts:566): no revocation deletes a teammate who has joined,
\* unless they joined while it was under way: it deletes by id, whatever the document has become.
THEOREM JoinedAreKept == Spec => JoinedIsKept
<1> DEFINE Kept == \A i \in Invites : seat[i].status = "active" /\ i \notin contested
                                        => seat'[i].status # "deleted"
<1>1. Init => RevocationInv
  BY DEF Init, RevocationInv, Idle
<1>2. Typed /\ SeatInv /\ RevocationInv /\ [Next]_vars => RevocationInv' /\ [Kept]_vars
  <2> SUFFICES ASSUME Typed, SeatInv, RevocationInv, [Next]_vars PROVE RevocationInv' /\ Kept
    OBVIOUS
  <2>1. CASE UNCHANGED vars \/ \E j \in Invites : SignIn(j)
    BY <2>1 DEF vars, SignIn, RevocationInv, history
  <2>2. ASSUME NEW x \in Handlers, Move(x) PROVE Kept
    <3>1. DeleteSeat(x) => at[x].op = "revoke"
      BY StandsAt DEF DeleteSeat
    <3> QED
      BY <2>2, <3>1, Writes DEF RevocationInv
  <2> QED
    BY <2>1, <2>2, RevocationStep, Steps
<1>3. JoinedIsKept <=> [][Kept]_vars
  BY PTL DEF JoinedIsKept
<1> QED
  BY <1>1, <1>2, <1>3, BaseHolds, PTL DEF Spec

(***************************************************************************)
(* Who enters.                                                             *)
(***************************************************************************)

\* Only the resolver binds a document.
LEMMA Binds ==
  ASSUME Typed, NEW x \in Handlers, Move(x), NEW i \in Invites
  PROVE  \/ seat'[i].subject = seat[i].subject
         \/ /\ BindSubject(x) /\ at[x].row = i /\ at[x].seen.subject = NoOne
            /\ seat'[i].subject = at[x].who
<1>0. at[x].pc # "idle" => at[x].row \in Invites
  BY StandsAt
<1>1. CASE BindSubject(x)
  BY <1>1, BindIs
<1>2. CASE Activate(x)
  BY <1>2, ActivateIs
<1>3. CASE DeleteSeat(x) \/ DisableSeat(x) \/ CreateSeat(x)
  BY <1>0, <1>3, StatusIs DEF DeleteSeat, DisableSeat, CreateSeat
<1>4. CASE ~ (BindSubject(x) \/ Activate(x) \/ DeleteSeat(x) \/ DisableSeat(x) \/ CreateSeat(x))
  <2>1. UNCHANGED seat
    BY <1>4 DEF Move, CreateAccount, UndoAccount, SendCode, VerifyCode, LoadForActivation, RevokeAccount,
                SuspendAccount, Crash, BeginInvite, LoadMember, LoadTarget
  <2> QED
    BY <2>1
<1> QED
  BY <1>1, <1>2, <1>3, <1>4

\* Only a request that has just started stands before its binding.
LEMMA StartsBinding ==
  ASSUME Typed, NEW x \in Handlers, Move(x), at'[x].pc = "bind"
  PROVE  at[x].op = "none"
<1> SUFFICES ASSUME at[x].op # "none" PROVE FALSE
  OBVIOUS
<1>1. ~ Finish(x) /\ \A label \in {"seat", "undo", "code", "load", "delete", "suspend"} : ~ Goto(x, label)
  <2>1. \A label \in {"seat", "undo", "code", "load", "delete", "suspend"} : Goto(x, label) => at'[x].pc = label
    BY DEF Goto, Typed, TypeOK, Requests
  <2> QED
    BY <2>1, FinishIs DEF Idle
<1>2. ~ LoadForActivation(x)
  BY <1>1 DEF LoadForActivation, Typed, TypeOK, Requests
<1>3. \A op, pc, who, row, seen : ~ Start(x, op, pc, who, row, seen)
  BY StandsAt DEF Start, Running
<1> QED
  BY <1>1, <1>2, <1>3 DEF Move, CreateAccount, CreateSeat, UndoAccount, DeleteAccount, Then, BindSubject, SendCode,
       VerifyCode, Activate, RevokeAccount, DeleteSeat, DisableSeat, SuspendAccount, Crash, BeginInvite, LoadMember, LoadTarget

\* A binding leaves the document to whoever has it, or notes that it was taken over.
LEMMA Keeps ==
  ASSUME Typed, NEW x \in Handlers, Move(x), NEW i \in Invites, i \notin rebound',
         seat[i].subject # NoOne
  PROVE  i \notin rebound /\ seat'[i].subject = seat[i].subject
<1>1. i \notin rebound
  BY Notes
<1>2. CASE seat'[i].subject # seat[i].subject
  <2>1. /\ BindSubject(x) /\ at[x].row = i /\ at[x].seen.subject = NoOne
        /\ seat'[i].subject = at[x].who
    BY <1>2, Binds
  <2>2. Stored(i)
    BY <1>2, <2>1 DEF BindSubject
  <2>3. i \in rebound'
    BY <1>2, <2>1, <2>2 DEF BindSubject
  <2> QED
    BY <2>3
<1> QED
  BY <1>1, <1>2

\* A document stays bound to the account that has entered with it.
LEMMA BoundStep ==
  ASSUME Typed, BoundInv, NEW x \in Handlers, Move(x)
  PROVE  BoundInv'
<1>0. \A y \in Handlers : y # x => at'[y] = at[y]
  BY Moves
<1>1. ASSUME NEW y \in Handlers, at'[y].pc = "bind" PROVE Binding(y)'
  <2>1. CASE y # x
    <3>1. at'[y] = at[y] /\ at[y].row \in Invites /\ at[y].who \in Invites /\ Binding(y)
      BY <1>0, <1>1, <2>1, StandsAt DEF BoundInv
    <3>2. ASSUME at[y].seen.subject = at[y].who, at[y].row \notin rebound'
          PROVE  seat'[at[y].row].subject = at[y].who
      <4>1. at[y].row \notin rebound
        BY <3>2, Notes
      <4>2. seat[at[y].row].subject = at[y].who /\ at[y].who # NoOne
        BY <1>1, <3>1, <3>2, <4>1, NoOneAssumption DEF Binding
      <4> QED
        BY <3>1, <3>2, <4>2, Keeps
    <3> QED
      BY <1>1, <3>1, <3>2 DEF Binding
  <2>2. CASE y = x
    <3>1. at[x].op = "none"
      BY <1>1, <2>2, StartsBinding
    <3>2. /\ at'[x].row \in Member(at'[x].who) /\ UNCHANGED seat
          /\ at'[x].seen = seat[at'[x].row]
      <4>1. at'[x].op \in {"visit", "activate"}
        BY <1>1, <2>2, Moves DEF Shape, Idle
      <4> QED
        BY <1>1, <2>2, <3>1, <4>1, GoesOn DEF Idle
    <3>3. seat[at'[x].row].subject \in {NoOne, at'[x].who}
      BY <3>2 DEF Member
    <3> QED
      BY <2>2, <3>2, <3>3 DEF Binding
  <2> QED
    BY <2>1, <2>2
<1>2. ASSUME NEW e \in entered', e.row \notin rebound' PROVE seat'[e.row].subject = e.who
  <2>1. CASE e \in entered
    <3>1. e.row \in Invites /\ e.who # NoOne /\ e.row \notin rebound
      BY <1>2, <2>1, NoOneAssumption, Notes DEF Typed, TypeOK
    <3>2. seat[e.row].subject = e.who
      BY <2>1, <3>1 DEF BoundInv
    <3> QED
      BY <1>2, <3>1, <3>2, Keeps
  <2>2. CASE e \notin entered
    <3>1. BindSubject(x)
      BY <1>2, <2>2 DEF Move, CreateAccount, CreateSeat, UndoAccount, SendCode, VerifyCode, LoadForActivation, Activate,
          RevokeAccount, DeleteSeat, DisableSeat, SuspendAccount, Crash, BeginInvite, LoadMember, LoadTarget
    <3>2. e = [who |-> at[x].who, row |-> at[x].row] /\ Stored(at[x].row) /\ at[x].pc = "bind"
      BY <1>2, <2>2, <3>1 DEF BindSubject
    <3>3. Binding(x) /\ at[x].who \in Invites /\ at[x].row \in Invites /\ e.row \notin rebound
      BY <1>2, <3>2, StandsAt, Notes DEF BoundInv
    <3>4. CASE at[x].seen.subject = NoOne
      BY <3>1, <3>2, <3>4, BindIs
    <3>5. CASE at[x].seen.subject # NoOne
      BY <3>1, <3>2, <3>3, <3>5, BindIs DEF Binding
    <3> QED
      BY <3>4, <3>5
  <2> QED
    BY <2>1, <2>2
<1>3. \A y \in Handlers : Binding(y)'
  BY <1>1 DEF Binding
<1> QED
  BY <1>2, <1>3 DEF BoundInv

\* EnteredByOne (vendorMembership.ts:61): only one account is ever let in as one document, however
\* many invitations, sessions and requests there are, unless two resolvers that both found the
\* document unbound bind it one over the other.  It does not say which account: the session of a
\* revoked invitation may be the one that binds the next invitation's document.
THEOREM SeatsAdmitOne == Spec => []EnteredByOne
<1>1. Init => BoundInv
  BY DEF Init, BoundInv, Binding, Idle
<1>2. Typed /\ BoundInv /\ [Next]_vars => BoundInv'
  <2> SUFFICES ASSUME Typed, BoundInv, [Next]_vars PROVE BoundInv'
    OBVIOUS
  <2>1. CASE UNCHANGED vars \/ \E i \in Invites : SignIn(i)
    BY <2>1 DEF vars, SignIn, BoundInv, Binding, history
  <2> QED
    BY <2>1, BoundStep, Steps
<1>3. BoundInv => EnteredByOne
  BY DEF BoundInv, EnteredByOne
<1> QED
  BY <1>1, <1>2, <1>3, BaseHolds, PTL DEF Spec

(***************************************************************************)
(* Seats and accounts.                                                     *)
(***************************************************************************)

\* Where an account and its seat may differ for a while.
Seeing(x, i) ==
  IF at[x].row = i THEN IF at[x].pc \in {"seat", "undo"} THEN "create"
                        ELSE IF at[x].pc \in {"delete", "suspend"} THEN at[x].pc ELSE "no"
  ELSE "no"

\* A step that leaves an invitation as it was, and who sees to it.
LEMMA MatchFrame ==
  ASSUME NEW i \in Invites, Matched(i), failed' = failed, account'[i] = account[i],
         i \in overtaken' <=> i \in overtaken,
         \/ seat'[i].status = seat[i].status
         \/ {seat'[i].status, seat[i].status} \subseteq {"invited", "active"}
         \/ i \in overtaken,
         \A y \in Handlers : Seeing(y, i)' = Seeing(y, i)
  PROVE  Matched(i)'
<1>1. \A y \in Handlers :
        /\ at'[y].row = i /\ at'[y].pc \in {"seat", "undo"} <=> at[y].row = i /\ at[y].pc \in {"seat", "undo"}
        /\ at'[y].row = i /\ at'[y].pc = "delete" <=> at[y].row = i /\ at[y].pc = "delete"
        /\ at'[y].row = i /\ at'[y].pc = "suspend" <=> at[y].row = i /\ at[y].pc = "suspend"
  BY DEF Seeing
<1> QED
  BY <1>1 DEF Matched

\* A request that sees to nothing before and after.
LEMMA MatchOthers ==
  ASSUME Typed, MatchInv, NEW x \in Handlers, Move(x), failed' = failed, UNCHANGED account,
         overtaken' = overtaken,
         \A i \in Invites : \/ seat'[i].status = seat[i].status
                            \/ {seat'[i].status, seat[i].status} \subseteq {"invited", "active"}
                            \/ i \in overtaken,
         \A i \in Invites : Seeing(x, i)' = Seeing(x, i)
  PROVE  MatchInv'
<1>1. \A y \in Handlers, i \in Invites : Seeing(y, i)' = Seeing(y, i)
  BY Moves DEF Seeing
<1> QED
  BY <1>1, MatchFrame DEF MatchInv

\* An account and its seat differ only while a request sees to it, until something fails.
LEMMA MatchStep ==
  ASSUME Typed, SeatInv, RemovalInv, MatchInv, NEW x \in Handlers, Move(x)
  PROVE  MatchInv'
<1>0. /\ \A y \in Handlers : Inviting(y) /\ Found(y) /\ (y # x => at'[y] = at[y])
      /\ \A i \in Invites : Seated(i) /\ Matched(i)
      /\ Finish(x) => at'[x] = Idle
  BY Moves, FinishIs DEF SeatInv, MatchInv
<1>r. PICK r : r = at[x].row
  OBVIOUS
<1> USE <1>r
<1>1. \A i \in Invites : at'[x] = Idle /\ at[x].pc \notin {"seat", "undo", "delete", "suspend"}
                           => Seeing(x, i)' = Seeing(x, i)
  BY DEF Seeing, Idle
<1>2. CASE ~ failed /\ failed'
  BY <1>2 DEF MatchInv, Matched
<1>3. CASE failed
  <2>1. failed'
    BY <1>3 DEF Move, CreateAccount, CreateSeat, UndoAccount, DeleteAccount, BindSubject, SendCode, VerifyCode,
           LoadForActivation, Activate, RevokeAccount, DeleteSeat, DisableSeat, SuspendAccount, Crash,
           BeginInvite, LoadMember, LoadTarget
  <2> QED
    BY <2>1 DEF MatchInv, Matched
<1> SUFFICES ASSUME ~ failed, ~ failed' PROVE MatchInv'
  BY <1>2, <1>3
<1>4. failed' = failed
  BY DEF Typed, TypeOK, Move, CreateAccount, CreateSeat, UndoAccount, DeleteAccount, BindSubject, SendCode, VerifyCode,
         LoadForActivation, Activate, RevokeAccount, DeleteSeat, DisableSeat, SuspendAccount, Crash,
         BeginInvite, LoadMember, LoadTarget
<1>5. \A i \in Invites, y \in Handlers : i # r /\ (y # x \/ at'[x] = Idle \/ at'[x].row = r)
        => Seeing(y, i)' = Seeing(y, i)
  BY <1>0, NoOneAssumption DEF Seeing, Idle
<1>n. \A i \in Invites : i # r => (i \in overtaken' <=> i \in overtaken)
  BY Notes
<1>6. ASSUME r \in Invites, at'[x] = Idle \/ at'[x].row = r, Matched(r)',
             \A i \in Invites : i # r => account'[i] = account[i] /\ seat'[i] = seat[i]
      PROVE  MatchInv'
  <2>1. ASSUME NEW i \in Invites, i # r PROVE Matched(i)'
    BY <1>0, <1>4, <1>5, <1>6, <1>n, <2>1, MatchFrame
  <2> QED
    BY <1>6, <2>1 DEF MatchInv
<1>7. \A y \in Handlers : at[y].pc \in {"seat", "undo"} => /\ seat[at[y].row].status = "none"
                                                         /\ at[y].op = "invite"
  BY <1>0, StandsAt DEF Inviting
<1>8. \A y \in Handlers : at[y].pc \in {"delete", "suspend", "unaccount", "disable"} => seat[at[y].row].status # "none"
  BY <1>0, StandsAt DEF Found
<1>o. (DisableSeat(x) /\ Stored(r)) \/ overtaken' = overtaken
  BY Notes
<1>s. at[x].pc # "disable" => overtaken' = overtaken
  BY <1>o DEF DisableSeat
<1>9. CASE CreateAccount(x)
  <2>1. at[x].pc = "account" /\ at[x].op = "invite" /\ r \in Invites /\ UNCHANGED seat
    BY <1>9, StandsAt DEF CreateAccount
  <2>2. CASE EmailKnown
    BY <1>0, <1>1, <1>4, <1>9, <2>1, <2>2, <1>s, MatchOthers DEF CreateAccount
  <2>3. CASE ~ EmailKnown
    <3>1. /\ account' = [account EXCEPT ![r] = "active"]
          /\ Goto(x, "seat")
      BY <1>9, <2>3 DEF CreateAccount
    <3>2. account'[r] = "active" /\ \A i \in Invites : i # r => account'[i] = account[i]
      BY <2>1, <3>1 DEF Typed, TypeOK
    <3>3. at'[x].pc = "seat" /\ at'[x].row = r
      BY <2>1, <3>1, GotoIs
    <3>4. seat[r].status = "none"
      BY <1>0, <2>1 DEF Inviting
    <3>5. \A y \in Handlers : at'[y].pc = "delete" => at'[y].row # r
      BY <1>0, <1>8, <3>3, <3>4
    <3>6. Matched(r)'
      BY <2>1, <3>2, <3>3, <3>4, <3>5 DEF Matched
    <3> QED
      BY <1>6, <2>1, <3>2, <3>3, <3>6
  <2> QED
    BY <2>2, <2>3
<1>10. CASE CreateSeat(x)
  <2>1. at[x].pc = "seat" /\ at[x].op = "invite" /\ r \in Invites /\ UNCHANGED account
    BY <1>10, StandsAt DEF CreateSeat
  <2>2. CASE EmailTaken
    <3>1. at'[x].pc = "undo" /\ at'[x].row = r /\ UNCHANGED seat
      BY <1>10, <2>1, <2>2, GotoIs DEF CreateSeat
    <3>2. \A i \in Invites : Seeing(x, i)' = Seeing(x, i)
      BY <2>1, <3>1 DEF Seeing
    <3> QED
      BY <1>4, <2>1, <3>1, <3>2, <1>s, MatchOthers
  <2>3. CASE ~ EmailTaken
    <3>1. seat' = [seat EXCEPT ![r].status = "invited"] /\ at'[x] = Idle
      BY <1>0, <1>10, <2>3 DEF CreateSeat
    <3>2. seat'[r].status = "invited" /\ \A i \in Invites : i # r => seat'[i] = seat[i]
      BY <2>1, <3>1, StatusIs
    <3>3. account'[r] = "active"
      BY <1>0, <2>1 DEF Matched
    <3>4. \A y \in Handlers : at'[y].pc = "delete" => at'[y].row # r
      BY <1>0, <1>7, <1>8, <2>1, <3>1 DEF Idle
    <3>5. Matched(r)'
      BY <3>2, <3>3, <3>4 DEF Matched
    <3> QED
      BY <1>6, <2>1, <3>1, <3>2, <3>5
  <2> QED
    BY <2>2, <2>3
<1>11. CASE UndoAccount(x)
  <2>1. at[x].pc = "undo" /\ at[x].op = "invite" /\ r \in Invites /\ UNCHANGED seat /\ at'[x] = Idle
    BY <1>0, <1>11, StandsAt DEF UndoAccount, DeleteAccount, Then
  <2>2. account'[r] = "deleted" /\ \A i \in Invites : i # r => account'[i] = account[i]
    BY <1>11, <2>1 DEF UndoAccount, DeleteAccount, Typed, TypeOK
  <2>3. seat[r].status = "none" /\ \A y \in Handlers : at'[y].pc \in {"seat", "undo"} => at'[y].row # r
    BY <1>0, <1>7, <2>1 DEF Inviting, Idle
  <2>4. Matched(r)'
    BY <2>1, <2>2, <2>3 DEF Matched
  <2> QED
    BY <1>6, <2>1, <2>2, <2>4
<1>12. CASE RevokeAccount(x)
  <2>1. at[x].pc = "unaccount" /\ r \in Invites /\ UNCHANGED seat /\ Goto(x, "delete")
    BY <1>12, StandsAt DEF RevokeAccount, DeleteAccount, Then
  <2>2. at'[x].pc = "delete" /\ at'[x].row = r
    BY <2>1, GotoIs, StandsAt
  <2>3. account'[r] = "deleted" /\ \A i \in Invites : i # r => account'[i] = account[i]
    BY <1>12, <2>1 DEF RevokeAccount, DeleteAccount, Typed, TypeOK
  <2>4. \A y \in Handlers : at'[y].pc \in {"seat", "undo"} => at'[y].row # r
    BY <1>0, <1>7, <1>8, <2>1, <2>2
  <2>5. Matched(r)'
    BY <2>1, <2>2, <2>3, <2>4 DEF Matched
  <2> QED
    BY <1>6, <2>1, <2>2, <2>3, <2>5
<1>13. CASE DeleteSeat(x)
  <2>1. /\ at[x].pc = "delete" /\ r \in Invites /\ UNCHANGED account /\ at'[x] = Idle
        /\ seat' = [seat EXCEPT ![r].status = "deleted"]
    BY <1>0, <1>13, StandsAt DEF DeleteSeat
  <2>2. seat'[r].status = "deleted" /\ \A i \in Invites : i # r => seat'[i] = seat[i]
    BY <2>1, StatusIs
  <2>3. account[r] = "deleted"
    BY <1>0, <2>1 DEF Matched
  <2>4. \A y \in Handlers : at'[y].pc \in {"seat", "undo"} => at'[y].row # r
    BY <1>0, <1>7, <1>8, <2>1 DEF Idle
  <2>5. Matched(r)'
    BY <2>1, <2>2, <2>3, <2>4 DEF Matched
  <2> QED
    BY <1>6, <2>1, <2>2, <2>5
<1>14. CASE DisableSeat(x)
  <2>1. at[x].pc = "disable" /\ r \in Invites /\ UNCHANGED account
    BY <1>14, StandsAt DEF DisableSeat
  <2>2. CASE ~ Stored(r)
    BY <1>0, <1>1, <1>4, <1>14, <2>1, <2>2, <1>o, MatchOthers DEF DisableSeat
  <2>3. CASE Stored(r)
    <3>1. seat' = [seat EXCEPT ![r].status = "disabled"] /\ Goto(x, "suspend")
      BY <1>14, <2>3 DEF DisableSeat
    <3>2. at'[x].pc = "suspend" /\ at'[x].row = r
      BY <2>1, <3>1, GotoIs, StandsAt
    <3>3. seat'[r].status = "disabled" /\ \A i \in Invites : i # r => seat'[i] = seat[i]
      BY <2>1, <3>1, StatusIs
    <3>4. \A y \in Handlers : at'[y].pc \in {"seat", "undo"} => at'[y].row # r
      BY <1>0, <1>7, <1>8, <2>1, <3>2
    <3>5. \A y \in Handlers : at'[y].pc = "delete" => at[y] = at'[y]
      BY <1>0, <3>2
    <3>6. Matched(r)'
      BY <1>0, <2>1, <3>2, <3>3, <3>4, <3>5 DEF Matched
    <3> QED
      BY <1>6, <2>1, <3>2, <3>3, <3>6
  <2> QED
    BY <2>2, <2>3
<1>15. CASE SuspendAccount(x)
  <2>1. at[x].pc = "suspend" /\ r \in Invites /\ UNCHANGED seat /\ at'[x] = Idle
    BY <1>0, <1>15, StandsAt DEF SuspendAccount
  <2>2. /\ account'[r] = IF account[r] = "active" THEN "disabled" ELSE account[r]
        /\ \A i \in Invites : i # r => account'[i] = account[i]
    BY <1>15, <2>1 DEF SuspendAccount, Typed, TypeOK
  <2>3. /\ r \notin overtaken => seat[r].status \in {"disabled", "deleted"}
        /\ overtaken' = overtaken
    BY <1>s, <2>1 DEF RemovalInv
  <2>4. \A y \in Handlers : at'[y].pc \in {"seat", "undo"} => at'[y].row # r
    BY <1>0, <1>7, <1>8, <2>1 DEF Idle
  <2>5. \A y \in Handlers : at'[y].pc = "delete" => at[y] = at'[y]
    BY <1>0, <2>1 DEF Idle
  <2>6. Matched(r)'
    BY <1>0, <2>1, <2>2, <2>3, <2>4, <2>5 DEF Matched
  <2> QED
    BY <1>6, <2>1, <2>2, <2>6
<1>16. CASE Activate(x)
  <2>1. \A i \in Invites : \/ seat'[i].status = seat[i].status
                           \/ {seat'[i].status, seat[i].status} \subseteq {"invited", "active"}
                           \/ i \in overtaken
    <3> SUFFICES ASSUME NEW i \in Invites, seat'[i].status # seat[i].status, i \notin overtaken
                 PROVE  {seat'[i].status, seat[i].status} \subseteq {"invited", "active"}
      OBVIOUS
    <3>1. Stored(i) /\ i = at[x].row /\ seat'[i].status = "active" /\ at[x].op = "activate"
      BY <1>16, ActivateIs
    <3>2. seat[i].status \in {"invited", "active"}
      BY <3>1 DEF RemovalInv, Stored, Typed, TypeOK, Seats
    <3> QED
      BY <3>1, <3>2
  <2>2. at[x].pc = "confirm" /\ at'[x] = Idle /\ UNCHANGED account
    BY <1>0, <1>16 DEF Activate
  <2> QED
    BY <1>1, <1>4, <2>1, <2>2, <1>s, MatchOthers
<1>17. CASE BindSubject(x)
  <2>1. \A i \in Invites : seat'[i].status = seat[i].status
    BY <1>0, <1>17, BindIs DEF Found
  <2>2. /\ at[x].pc = "bind" /\ UNCHANGED account
        /\ at'[x] = Idle \/ at'[x].pc = "code"
    BY <1>0, <1>17, GotoIs, StandsAt DEF BindSubject
  <2>3. \A i \in Invites : Seeing(x, i)' = Seeing(x, i)
    BY <2>2 DEF Seeing, Idle
  <2> QED
    BY <1>4, <2>1, <2>2, <2>3, <1>s, MatchOthers
<1>18. CASE SendCode(x) \/ VerifyCode(x) \/ LoadForActivation(x)
  <2>1. /\ at[x].pc \in {"code", "load"} /\ UNCHANGED <<seat, account>>
        /\ at'[x] = Idle \/ at'[x].pc \in {"load", "confirm"}
    BY <1>0, <1>18, GotoIs, StandsAt DEF SendCode, VerifyCode, LoadForActivation, Typed, TypeOK, Requests
  <2>2. \A i \in Invites : Seeing(x, i)' = Seeing(x, i)
    BY <2>1 DEF Seeing, Idle
  <2> QED
    BY <1>4, <2>1, <2>2, <1>s, MatchOthers
<1>19. CASE \E i \in Invites : \/ BeginInvite(x, i)
                               \/ \E op \in {"visit", "activate"} : LoadMember(x, op, i)
                               \/ \E op \in {"revoke", "remove"} : LoadTarget(x, op, i)
  <2>1. ~ Running(x) /\ at[x].pc = "idle" /\ UNCHANGED <<seat, account>>
    BY <1>19 DEF BeginInvite, LoadMember, LoadTarget, Start, Running
  <2>2. at'[x].pc \in {"idle", "account", "bind", "unaccount", "disable"}
    BY <2>1, GoesOn, StandsAt DEF Idle
  <2>3. \A i \in Invites : Seeing(x, i)' = Seeing(x, i)
    BY <2>1, <2>2 DEF Seeing
  <2> QED
    BY <1>4, <2>1, <2>3, <1>s, MatchOthers
<1>20. ~ Crash(x)
  BY DEF Crash
<1> QED
  BY <1>9, <1>10, <1>11, <1>12, <1>13, <1>14, <1>15, <1>16, <1>17, <1>18, <1>19, <1>20 DEF Move

\* SeatsMatchAccounts (vendor.controller.ts:486, 568): once no request is in progress and if
\* nothing has failed, exactly the pending and active seats have a working account, however
\* invitations, visits, activations, revocations and removals overlapped; a seat that an
\* activation made active again after its removal is the only exception.
THEOREM SeatsHaveAccounts == Spec => []SeatsMatchAccounts
<1>1. Init => MatchInv
  BY DEF Init, MatchInv, Matched, Idle, NoSeat
<1>2. Typed /\ SeatInv /\ RemovalInv /\ MatchInv /\ [Next]_vars => MatchInv'
  <2> SUFFICES ASSUME Typed, SeatInv, RemovalInv, MatchInv, [Next]_vars PROVE MatchInv'
    OBVIOUS
  <2>1. CASE UNCHANGED vars \/ \E i \in Invites : SignIn(i)
    <3>1. UNCHANGED <<seat, account, failed, overtaken, at>>
      BY <2>1 DEF vars, SignIn, history
    <3> QED
      BY <3>1 DEF MatchInv, Matched
  <2> QED
    BY <2>1, MatchStep, Steps
<1>3. MatchInv => SeatsMatchAccounts
  <2> SUFFICES ASSUME MatchInv, ~ failed, \A x \in Handlers : ~ Running(x), NEW i \in Invites \ overtaken
               PROVE  account[i] = "active" <=> seat[i].status \in {"invited", "active"}
    BY DEF SeatsMatchAccounts
  <2>1. \A x \in Handlers : at[x].pc = "idle"
    BY DEF Running
  <2> QED
    BY <2>1 DEF MatchInv, Matched
<1> QED
  BY <1>1, <1>2, <1>3, RemovalHolds, PTL DEF Spec

=============================================================================
