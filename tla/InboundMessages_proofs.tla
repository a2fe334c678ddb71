------------------------ MODULE InboundMessages_proofs ------------------------
(***************************************************************************)
(* What InboundMessages promises for any messages, any number of requests  *)
(* in progress, any page size and any number of failures.                  *)
(***************************************************************************)
EXTENDS InboundMessages, FiniteSetTheorems, WellFoundedInduction, TLAPS

Labels == {"idle", "resolve", "dedup", "handle", "insert", "summarise"}

Nobody == CHOOSE m \in Messages : TRUE

\* The ids a row can have, what a request has yet to save, and the rows of the log.
Ids == {NoId} \cup {<<"reply", m, k>> : m \in Messages, k \in 1 .. 2}
              \cup {<<"message", m>> : m \in Messages}
Unsaved == [dir : {"in", "out"}, ext : Ids, at : Nat]
Rows    == [n : Nat, dir : {"in", "out"}, ext : Ids, at : Nat]

AtWork == [pc : Labels, m : Messages \cup {Nobody}, rest : SUBSET Messages, rows : Seq(Unsaved)]

\* The part of the types the handlers of messages read and write.
Typed ==
  /\ processed \subseteq Messages
  /\ at \in [Requests -> AtWork]
  /\ \A r \in Requests : at[r].pc # "idle" => at[r].m \in Messages
  /\ \A r \in Requests : at[r].pc \in {"insert", "summarise"} => at[r].rows # <<>>
  /\ handled \in [Messages -> Nat]
  /\ log \in SUBSET Rows /\ IsFiniteSet(log)

\* A handler runs for the one request that set the key of its message.
Handles(r, m) == at[r].pc = "handle" /\ at[r].m = m

OnceInv ==
  /\ HandledOnce
  /\ \A m \in Messages : handled[m] > 0 => m \in processed
  /\ \A r \in Requests, m \in Messages : Handles(r, m) => m \in processed /\ handled[m] = 0
  /\ \A r, q \in Requests, m \in Messages : Handles(r, m) /\ Handles(q, m) => r = q

\* The rows are numbered in the order of their _id, no two share an id, and one
\* of them is the newest.
Newest(x, rows) == x \in rows /\ \A y \in rows \ {x} : Newer(x, y)

LogInv ==
  /\ \A x \in log : x.n \in 1 .. Cardinality(log)
  /\ \A x, y \in log : x.n = y.n \/ x.ext = y.ext => x = y
  /\ log # {} => \E x \in log : Newest(x, log)

Summaries == [count : Nat, last : Nat, at : Nat]

\* The summary and what the script is about to write speak of rows of the log.
SummaryInv ==
  /\ summary \in Summaries /\ summary.last \in 0 .. Cardinality(log)
  /\ rebuild.result \in Summaries /\ rebuild.result.last \in 0 .. Cardinality(log)

Readers == [pc : {"idle", "page", "done"}, missing : SUBSET Rows, seen : SUBSET Rows,
            twice : BOOLEAN, cursor : {<<>>} \cup (Nat \X Nat)]

\* What a reader has not seen yet lies before the cursor, and what they have seen
\* does not.
ThreadInv ==
  /\ reader \in Readers
  /\ ThreadIsComplete
  /\ reader.pc = "page" => /\ reader.missing \subseteq Before(reader.cursor)
                           /\ reader.seen \subseteq log
                           /\ reader.seen \cap Before(reader.cursor) = {}

\* Numbers are well ordered.
LEMMA LeastNumber ==
  ASSUME NEW S \in SUBSET Nat, S # {}
  PROVE  \E m \in S : \A k \in S : m <= k
<1>1. PICK m \in S : \A k \in S : <<k, m>> \notin OpToRel(<, Nat)
  BY NatLessThanWellFounded, WFMin, Zenon
<1>2. \A k \in S : ~(k < m)
  BY <1>1, Zenon DEF OpToRel
<1> QED
  BY <1>2

(***************************************************************************)
(* Types.                                                                  *)
(***************************************************************************)

\* The steps that touch neither the requests nor the log.
Aside == /\ Aggregate \/ Overwrite \/ Open \/ ReadPage \/ UNCHANGED vars
         /\ UNCHANGED <<acked, processed, at, handled, lost, log>>

\* Every step is one of a request, a crash, or one beside the requests.
LEMMA Steps ==
  ASSUME [Next]_vars
  PROVE  \/ \E r \in Requests, m \in Messages, rest \in SUBSET Messages : Deliver(r, m, rest)
         \/ \E r \in Requests : \/ Resolve(r) \/ Dedup(r) \/ Handle(r) \/ Insert(r) \/ Summarise(r)
         \/ Crash
         \/ Aside
BY DEF Next, Webhook, Aside, Aggregate, Overwrite, Open, ReadPage, vars

\* What a handler leaves to be saved is a sequence of rows.
LEMMA RepliesTyped ==
  ASSUME NEW m \in Messages
  PROVE  Replies(m) \subseteq Seq(Unsaved) /\ Described(m) \in Seq(Unsaved)
<1>1. /\ <<"reply", m, 1>> \in Ids /\ <<"reply", m, 2>> \in Ids
      /\ <<"message", m>> \in Ids /\ NoId \in Ids
  BY DEF Ids
<1>2. <<>> \in Seq(Unsaved) /\ \A x \in Unsaved : <<x>> \in Seq(Unsaved)
  OBVIOUS
<1>3. \A k \in 1 .. 2 : Sent(m, k) \subseteq Seq(Unsaved)
  <2> SUFFICES ASSUME NEW k \in 1 .. 2, NEW s \in Sent(m, k)
               PROVE  s \in Seq(Unsaved)
    OBVIOUS
  <2>1. PICK t \in ReplyTimes : s = <<Row("out", <<"reply", m, k>>, t)>> \/ s = <<Row("out", NoId, t)>>
    BY DEF Sent
  <2>2. t \in Nat /\ <<"reply", m, k>> \in Ids
    BY <1>1, MessageAssumption
  <2>3. Row("out", <<"reply", m, k>>, t) \in Unsaved /\ Row("out", NoId, t) \in Unsaved
    BY <1>1, <2>2 DEF Row, Unsaved
  <2> QED
    BY <1>2, <2>1, <2>3, Zenon
<1>4. Sent(m, 1) \subseteq Seq(Unsaved) /\ Sent(m, 2) \subseteq Seq(Unsaved)
  BY <1>3
<1>5. Attempt(m) \subseteq Seq(Unsaved)
  BY <1>2, <1>4, Zenon DEF Attempt
<1>6. interactiveHandler(m) \subseteq Seq(Unsaved)
  <2> SUFFICES ASSUME NEW s \in interactiveHandler(m), s \notin Attempt(m) PROVE s \in Seq(Unsaved)
    BY <1>5
  <2>1. PICK first \in Sent(m, 1), second \in Sent(m, 2) : s = first \o second
    BY SMT DEF interactiveHandler
  <2>2. first \in Seq(Unsaved) /\ second \in Seq(Unsaved)
    BY <1>4
  <2> QED
    BY <2>1, <2>2
<1>7. Described(m) \in Seq(Unsaved)
  <2>1. Row("in", <<"message", m>>, Stamp[m]) \in Unsaved
    BY <1>1, MessageAssumption DEF Row, Unsaved
  <2> QED
    BY <1>2, <2>1 DEF Described
<1>8. Replies(m) \in {Attempt(m), interactiveHandler(m), {<<>>}}
  BY DEF Replies, textHandler, reactionHandler
<1> QED
  BY <1>2, <1>5, <1>6, <1>7, <1>8, Zenon

\* A request that has just come, and an idle one.
LEMMA FreshRequest ==
  /\ Idle \in AtWork /\ Idle.pc = "idle"
  /\ \A m \in Messages, rest \in SUBSET Messages :
       LET x == [Idle EXCEPT !.pc = "resolve", !.m = m, !.rest = rest] IN
       x \in AtWork /\ x.pc = "resolve" /\ x.m = m
<1>1. Idle = [pc |-> "idle", m |-> Nobody, rest |-> {}, rows |-> <<>>]
  BY Zenon DEF Idle, Nobody
<1>2. <<>> \in Seq(Unsaved)
  OBVIOUS
<1> QED
  BY <1>1, <1>2 DEF AtWork, Labels

\* A request that goes on, and one that saves what is left of its rows.
LEMMA NextRequest ==
  ASSUME NEW r \in Requests, at[r] \in AtWork
  PROVE  /\ \A l \in Labels : LET x == [at[r] EXCEPT !.pc = l] IN
              x \in AtWork /\ x.pc = l /\ x.m = at[r].m /\ x.rows = at[r].rows
         /\ \A rows \in Seq(Unsaved) : LET x == Saving(r, rows) IN
              /\ x \in AtWork /\ x.m = at[r].m /\ x.rows = rows
              /\ x.pc = IF rows = <<>> THEN "idle" ELSE "insert"
BY DEF AtWork, Labels, Saving

\* What a step does to its request.
LEMMA ResolveMoves ==
  ASSUME Typed, NEW r \in Requests, Resolve(r)
  PROVE  \E x \in AtWork : /\ x.pc \in {"idle", "dedup"} /\ (x.pc = "dedup" => x.m \in Messages)
                           /\ at' = [at EXCEPT ![r] = x]
<1>1. at[r] \in AtWork /\ at[r].m \in Messages /\ "dedup" \in Labels
  BY DEF Typed, Resolve, Labels
<1>2. at' = [at EXCEPT ![r] = Idle] \/ at' = [at EXCEPT ![r] = [at[r] EXCEPT !.pc = "dedup"]]
  BY DEF Resolve
<1>3. CASE at' = [at EXCEPT ![r] = Idle]
  BY <1>3, FreshRequest
<1>4. CASE at' = [at EXCEPT ![r] = [at[r] EXCEPT !.pc = "dedup"]]
  BY <1>1, <1>4, NextRequest
<1> QED
  BY <1>2, <1>3, <1>4

\* The key decides between handling the message and dropping it.
LEMMA DedupMoves ==
  ASSUME Typed, NEW r \in Requests, Dedup(r)
  PROVE  \E x \in AtWork : /\ x.pc \in {"idle", "handle"} /\ (x.pc = "handle" => x.m \in Messages)
                           /\ at' = [at EXCEPT ![r] = x]
<1>1. at[r] \in AtWork /\ at[r].m \in Messages /\ "handle" \in Labels
  BY DEF Typed, Dedup, Labels
<1>2. at' = [at EXCEPT ![r] = Idle] \/ at' = [at EXCEPT ![r] = [at[r] EXCEPT !.pc = "handle"]]
  BY DEF Dedup, isMessageProcessed
<1>3. CASE at' = [at EXCEPT ![r] = Idle]
  BY <1>3, FreshRequest
<1>4. CASE at' = [at EXCEPT ![r] = [at[r] EXCEPT !.pc = "handle"]]
  BY <1>1, <1>4, NextRequest
<1> QED
  BY <1>2, <1>3, <1>4

\* After its handler a request has rows to save, or is done.
LEMMA HandleMoves ==
  ASSUME Typed, NEW r \in Requests, Handle(r)
  PROVE  \E x \in AtWork : /\ x.m = at[r].m /\ x.pc \in {"idle", "insert"}
                           /\ x.pc = "insert" => x.rows # <<>>
                           /\ at' = [at EXCEPT ![r] = x]
<1>1. at[r] \in AtWork /\ at[r].m \in Messages
  BY DEF Typed, Handle
<1>2. PICK reply \in Replies(at[r].m) : \/ at' = [at EXCEPT ![r] = Saving(r, reply \o Described(at[r].m))]
                                        \/ at' = [at EXCEPT ![r] = Saving(r, reply)]
  BY DEF Handle
<1>3. reply \in Seq(Unsaved) /\ reply \o Described(at[r].m) \in Seq(Unsaved)
  BY <1>1, <1>2, RepliesTyped
<1>4. PICK rows \in Seq(Unsaved) : at' = [at EXCEPT ![r] = Saving(r, rows)]
  BY <1>2, <1>3
<1> DEFINE x == Saving(r, rows)
<1>5. /\ x \in AtWork /\ x.m = at[r].m /\ x.rows = rows
      /\ x.pc = IF rows = <<>> THEN "idle" ELSE "insert"
  BY <1>1, NextRequest
<1>6. at' = [at EXCEPT ![r] = x]
  BY <1>4
<1> HIDE DEF x
<1> QED
  BY <1>5, <1>6

\* A row is saved, skipped, or its summary written: the request keeps its message.
LEMMA SaveMoves ==
  ASSUME Typed, NEW r \in Requests, Insert(r) \/ Summarise(r)
  PROVE  /\ Head(at[r].rows) \in Unsaved
         /\ \E x \in AtWork : /\ x.m = at[r].m /\ (x.pc # "idle" => x.rows # <<>>)
                              /\ \/ x.pc \in {"idle", "insert"}
                                 \/ x.pc = "summarise" /\ x.rows = at[r].rows /\ ~Collides(Head(x.rows))
                              /\ at' = [at EXCEPT ![r] = x]
<1>1. /\ at[r] \in AtWork /\ at[r].rows \in Seq(Unsaved) /\ at[r].rows # <<>>
      /\ "summarise" \in Labels
  BY DEF Typed, Insert, Summarise, AtWork, Labels
<1>2. Tail(at[r].rows) \in Seq(Unsaved) /\ Head(at[r].rows) \in Unsaved
  BY <1>1
<1>3. \/ at' = [at EXCEPT ![r] = Saving(r, Tail(at[r].rows))]
      \/ at' = [at EXCEPT ![r] = [at[r] EXCEPT !.pc = "summarise"]] /\ ~Collides(Head(at[r].rows))
  BY DEF Insert, Summarise
<1>4. CASE at' = [at EXCEPT ![r] = Saving(r, Tail(at[r].rows))]
  <2> DEFINE x == Saving(r, Tail(at[r].rows))
  <2>1. /\ x \in AtWork /\ x.m = at[r].m /\ x.rows = Tail(at[r].rows)
        /\ x.pc = IF Tail(at[r].rows) = <<>> THEN "idle" ELSE "insert"
    BY <1>1, <1>2, NextRequest
  <2>2. at' = [at EXCEPT ![r] = x]
    BY <1>4
  <2> HIDE DEF x
  <2> QED
    BY <1>2, <2>1, <2>2
<1>5. CASE at' = [at EXCEPT ![r] = [at[r] EXCEPT !.pc = "summarise"]] /\ ~Collides(Head(at[r].rows))
  <2> DEFINE x == [at[r] EXCEPT !.pc = "summarise"]
  <2>1. x \in AtWork /\ x.pc = "summarise" /\ x.m = at[r].m /\ x.rows = at[r].rows
    BY <1>1, NextRequest
  <2>2. at' = [at EXCEPT ![r] = x] /\ ~Collides(Head(x.rows)) /\ x.rows # <<>>
    BY <1>1, <1>5, <2>1
  <2> HIDE DEF x
  <2> QED
    BY <1>2, <2>1, <2>2
<1> QED
  BY <1>3, <1>4, <1>5

\* The types hold at the start.
LEMMA TypeInit == Init => Typed
<1> SUFFICES ASSUME Init PROVE Typed
  OBVIOUS
<1>1. \A r \in Requests : at[r].pc = "idle"
  BY DEF Init, Idle
<1> QED
  BY <1>1, FreshRequest, FS_EmptySet DEF Init, Typed

\* Every step keeps the types.
LEMMA TypeStep == Typed /\ [Next]_vars => Typed'
<1> SUFFICES ASSUME Typed, [Next]_vars PROVE Typed'
  OBVIOUS
<1>1. ASSUME NEW r \in Requests, NEW m \in Messages, NEW rest \in SUBSET Messages, Deliver(r, m, rest)
      PROVE  Typed'
  <2>1. PICK x \in AtWork : x.pc = "resolve" /\ x.m = m /\ at' = [at EXCEPT ![r] = x]
    BY <1>1, FreshRequest DEF Deliver
  <2> QED
    BY <1>1, <2>1 DEF Deliver, Typed
<1>2. ASSUME NEW r \in Requests, Resolve(r) PROVE Typed'
  <2>1. PICK x \in AtWork : /\ x.pc \in {"idle", "dedup"} /\ (x.pc = "dedup" => x.m \in Messages)
                            /\ at' = [at EXCEPT ![r] = x]
    BY <1>2, ResolveMoves
  <2> QED
    BY <1>2, <2>1 DEF Resolve, Typed
<1>3. ASSUME NEW r \in Requests, Dedup(r) PROVE Typed'
  <2>1. PICK x \in AtWork : /\ x.pc \in {"idle", "handle"} /\ (x.pc = "handle" => x.m \in Messages)
                            /\ at' = [at EXCEPT ![r] = x]
    BY <1>3, DedupMoves
  <2>2. processed' \subseteq Messages
    BY <1>3 DEF Dedup, isMessageProcessed, Typed
  <2> QED
    BY <1>3, <2>1, <2>2 DEF Dedup, Typed
<1>4. ASSUME NEW r \in Requests, Handle(r) PROVE Typed'
  <2>1. PICK x \in AtWork : /\ x.m = at[r].m /\ x.pc \in {"idle", "insert"}
                            /\ x.pc = "insert" => x.rows # <<>>
                            /\ at' = [at EXCEPT ![r] = x]
    BY <1>4, HandleMoves
  <2>2. at[r].m \in Messages
    BY <1>4 DEF Typed, Handle
  <2> QED
    BY <1>4, <2>1, <2>2 DEF Handle, Typed
<1>5. ASSUME NEW r \in Requests, Insert(r) \/ Summarise(r) PROVE Typed'
  <2>1. Head(at[r].rows) \in Unsaved
    BY <1>5, SaveMoves
  <2>2. PICK x \in AtWork : /\ x.m = at[r].m /\ (x.pc # "idle" => x.rows # <<>>)
                            /\ at' = [at EXCEPT ![r] = x]
    BY <1>5, SaveMoves
  <2>3. at[r].m \in Messages
    BY <1>5 DEF Typed, Insert, Summarise
  <2>4. log' \in SUBSET Rows /\ IsFiniteSet(log')
    <3>1. \A n \in Nat : [n |-> n, dir |-> Head(at[r].rows).dir, ext |-> Head(at[r].rows).ext,
                          at |-> Head(at[r].rows).at] \in Rows
      BY <2>1 DEF Unsaved, Rows
    <3>2. Cardinality(log) + 1 \in Nat
      BY FS_CardinalityType DEF Typed
    <3>3. log' = log \/ \E x1 \in Rows : log' = log \cup {x1}
      BY <1>5, <3>1, <3>2 DEF Insert, Summarise
    <3> QED
      BY <3>3, FS_AddElement DEF Typed
  <2> QED
    BY <1>5, <2>2, <2>3, <2>4 DEF Insert, Summarise, Typed
<1>6. CASE Crash
  BY <1>6, FreshRequest DEF Crash, Typed
<1>7. CASE Aside
  BY <1>7 DEF Aside, Typed
<1> QED
  BY <1>1, <1>2, <1>3, <1>4, <1>5, <1>6, <1>7, Steps

(***************************************************************************)
(* A message is handled once.                                              *)
(***************************************************************************)

\* At the start nothing is handled.
LEMMA OnceInit == Init => OnceInv
BY DEF Init, OnceInv, HandledOnce, Handles, Idle

\* A step that begins no handler and takes no key away keeps the invariant.
LEMMA OnceFrame ==
  ASSUME Typed, OnceInv, processed \subseteq processed', handled' = handled,
         \A q \in Requests, m \in Messages : Handles(q, m)' => Handles(q, m)
  PROVE  OnceInv'
BY DEF OnceInv, HandledOnce, Handles

\* Every step keeps a message to one handler.
LEMMA OnceStep == Typed /\ OnceInv /\ [Next]_vars => OnceInv'
<1> SUFFICES ASSUME Typed, OnceInv, [Next]_vars PROVE OnceInv'
  OBVIOUS
<1>1. \A q \in Requests : at[q] \in AtWork
  BY DEF Typed
<1>2. ASSUME NEW r \in Requests, NEW m \in Messages, NEW rest \in SUBSET Messages, Deliver(r, m, rest)
      PROVE  OnceInv'
  <2>1. PICK x : x.pc = "resolve" /\ at' = [at EXCEPT ![r] = x]
    BY <1>2, FreshRequest DEF Deliver
  <2>2. \A q \in Requests, y \in Messages : Handles(q, y)' => Handles(q, y)
    BY <2>1 DEF Typed, Handles
  <2> QED
    BY <1>2, <2>2, OnceFrame DEF Deliver
<1>3. ASSUME NEW r \in Requests, Resolve(r) PROVE OnceInv'
  <2>1. PICK x : x.pc \in {"idle", "dedup"} /\ at' = [at EXCEPT ![r] = x]
    BY <1>3, ResolveMoves
  <2>2. \A q \in Requests, y \in Messages : Handles(q, y)' => Handles(q, y)
    BY <2>1 DEF Typed, Handles
  <2> QED
    BY <1>3, <2>2, OnceFrame DEF Resolve
<1>4. ASSUME NEW r \in Requests, Dedup(r) PROVE OnceInv'
  <2> DEFINE m == at[r].m
  <2>1. m \in Messages
    BY <1>4 DEF Dedup, Typed
  <2>2. CASE processed' = processed \cup {m} /\ m \notin processed
             /\ at' = [at EXCEPT ![r] = [at[r] EXCEPT !.pc = "handle"]]
    <3>1. handled' = handled /\ handled[m] = 0
      BY <1>4, <2>1, <2>2 DEF Dedup, Typed, OnceInv
    <3>2. \A q \in Requests, y \in Messages : Handles(q, y)' <=> Handles(q, y) \/ (q = r /\ y = m)
      BY <1>1, <1>4, <2>2, NextRequest DEF Typed, Handles, Labels, Dedup
    <3>3. \A q \in Requests : ~Handles(q, m)
      BY <2>1, <2>2 DEF OnceInv
    <3> QED
      BY <2>1, <2>2, <3>1, <3>2, <3>3 DEF OnceInv, HandledOnce
  <2>3. CASE at' = [at EXCEPT ![r] = Idle] /\ processed \subseteq processed'
    <3>1. \A q \in Requests, y \in Messages : Handles(q, y)' => Handles(q, y)
      BY <2>3, FreshRequest DEF Typed, Handles
    <3> QED
      BY <1>4, <2>3, <3>1, OnceFrame DEF Dedup
  <2> QED
    BY <1>4, <2>2, <2>3 DEF Dedup, isMessageProcessed
<1>5. ASSUME NEW r \in Requests, Handle(r) PROVE OnceInv'
  <2> DEFINE m == at[r].m
  <2>1. m \in Messages /\ Handles(r, m)
    BY <1>5 DEF Typed, Handle, Handles
  <2>2. handled[m] = 0 /\ m \in processed /\ \A q \in Requests : Handles(q, m) => q = r
    BY <2>1 DEF OnceInv
  <2>3. PICK x : x.pc \in {"idle", "insert"} /\ at' = [at EXCEPT ![r] = x]
    BY <1>5, HandleMoves
  <2>4. \A q \in Requests, y \in Messages : Handles(q, y)' => Handles(q, y) /\ q # r
    BY <2>3 DEF Typed, Handles
  <2>5. handled' = [handled EXCEPT ![m] = 1] /\ processed' = processed
    BY <1>5, <2>1, <2>2 DEF Handle, Typed
  <2> QED
    BY <2>1, <2>2, <2>4, <2>5 DEF OnceInv, HandledOnce, Typed
<1>6. ASSUME NEW r \in Requests, Insert(r) \/ Summarise(r) PROVE OnceInv'
  <2>1. PICK x : x.pc \in {"idle", "insert", "summarise"} /\ at' = [at EXCEPT ![r] = x]
    BY <1>6, SaveMoves
  <2>2. \A q \in Requests, y \in Messages : Handles(q, y)' => Handles(q, y)
    BY <2>1 DEF Typed, Handles
  <2> QED
    BY <1>6, <2>2, OnceFrame DEF Insert, Summarise
<1>7. CASE Crash
  <2>1. \A q \in Requests, y \in Messages : Handles(q, y)' => Handles(q, y)
    BY <1>7, FreshRequest DEF Crash, Handles
  <2> QED
    BY <1>7, <2>1, OnceFrame DEF Crash
<1>8. CASE Aside
  BY <1>8, OnceFrame DEF Aside, Handles
<1> QED
  BY <1>2, <1>3, <1>4, <1>5, <1>6, <1>7, <1>8, Steps

\* However often WhatsApp delivers a message, side by side or after a crash, and
\* whatever Redis does, its handler runs at most once: the key is set in one
\* command, and a failure counts as "already processed"
\* (redis.controller.ts:94-101).
THEOREM MessagesAreHandledOnce == Spec => []HandledOnce
<1>1. Init => Typed /\ OnceInv
  BY TypeInit, OnceInit
<1>2. Typed /\ OnceInv /\ [Next]_vars => Typed' /\ OnceInv'
  BY TypeStep, OnceStep
<1>3. OnceInv => HandledOnce
  BY DEF OnceInv
<1> QED
  BY <1>1, <1>2, <1>3, PTL DEF Spec

(***************************************************************************)
(* The log.                                                                *)
(***************************************************************************)

\* A row that collides with none becomes the last of the log.
LEMMA InsertEffect ==
  ASSUME Typed, LogInv, NEW r \in Requests, Insert(r), ~Collides(Head(at[r].rows))
  PROVE  \E x \in Rows : /\ log' = log \cup {x} /\ x \notin log
                         /\ x.n = Cardinality(log) + 1 /\ x.ext = Head(at[r].rows).ext
                         /\ \A y \in log : y.ext # x.ext /\ y.n < x.n
                         /\ Cardinality(log) \in Nat /\ Cardinality(log') = Cardinality(log) + 1
<1> DEFINE row == Head(at[r].rows)
           x == [n |-> Cardinality(log) + 1, dir |-> row.dir, ext |-> row.ext, at |-> row.at]
<1>1. row \in Unsaved
  BY SaveMoves
<1>2. Cardinality(log) \in Nat
  BY FS_CardinalityType DEF Typed
<1>3. x \in Rows /\ x.n = Cardinality(log) + 1 /\ x.ext = row.ext
  BY <1>1, <1>2 DEF Unsaved, Rows
<1>4. log' = log \cup {x}
  BY DEF Insert
<1>5. \A y \in log : y.ext # row.ext /\ y.n < Cardinality(log) + 1
  BY <1>2 DEF LogInv, Collides
<1> HIDE DEF row, x
<1>6. x \notin log /\ \A y \in log : y.ext # x.ext /\ y.n < x.n
  BY <1>3, <1>5
<1>7. Cardinality(log') = Cardinality(log) + 1
  BY <1>4, <1>6, FS_AddElement DEF Typed
<1> QED
  BY <1>2, <1>3, <1>4, <1>6, <1>7 DEF row

\* Newer orders the rows.
LEMMA NewerOrders ==
  /\ \A x, y, z \in Rows : Newer(x, y) /\ Newer(y, z) => Newer(x, z)
  /\ \A x, y \in Rows : ~(Newer(x, y) /\ Newer(y, x))
  /\ \A x, y \in Rows : x.n # y.n => Newer(x, y) \/ Newer(y, x)
BY DEF Newer, Rows

\* The empty log.
LEMMA LogInit == Init => LogInv
BY DEF Init, LogInv

\* Every step keeps the rows numbered and apart, with a newest one.
LEMMA LogStep == Typed /\ LogInv /\ [Next]_vars => LogInv'
<1> SUFFICES ASSUME Typed, LogInv, [Next]_vars PROVE LogInv'
  OBVIOUS
<1>1. CASE log' = log
  BY <1>1 DEF LogInv, Newest, Newer
<1>2. ASSUME NEW r \in Requests, Insert(r), ~Collides(Head(at[r].rows)) PROVE LogInv'
  <2>1. PICK x \in Rows : /\ log' = log \cup {x} /\ x \notin log
                          /\ x.n = Cardinality(log) + 1 /\ x.ext = Head(at[r].rows).ext
                          /\ \A y \in log : y.ext # x.ext /\ y.n < x.n
                          /\ Cardinality(log) \in Nat /\ Cardinality(log') = Cardinality(log) + 1
    BY <1>2, InsertEffect
  <2>2. \A y \in log' : y.n \in 1 .. Cardinality(log')
    BY <2>1 DEF LogInv
  <2>3. \A y, z \in log' : y.n = z.n \/ y.ext = z.ext => y = z
    BY <2>1 DEF LogInv, Typed, Rows
  <2>4. \E y \in log' : Newest(y, log')
    <3>1. CASE log = {}
      BY <2>1, <3>1 DEF Newest
    <3>2. CASE log # {}
      <4>1. PICK w \in log : Newest(w, log)
        BY <3>2 DEF LogInv
      <4>2. log \subseteq Rows
        BY DEF Typed
      <4>3. CASE Newer(x, w)
        <5>1. \A y \in log : Newer(x, y)
          BY <4>1, <4>2, <4>3, NewerOrders DEF Newest
        <5> QED
          BY <2>1, <5>1 DEF Newest
      <4>4. CASE ~Newer(x, w)
        <5>1. Newer(w, x)
          BY <2>1, <4>1, <4>2, <4>4, NewerOrders DEF Rows
        <5> QED
          BY <2>1, <4>1, <5>1 DEF Newest
      <4> QED
        BY <4>3, <4>4
    <3> QED
      BY <3>1, <3>2
  <2> QED
    BY <2>2, <2>3, <2>4 DEF LogInv, Newest, Newer
<1>3. \/ log' = log
      \/ \E r \in Requests : Insert(r) /\ ~Collides(Head(at[r].rows))
  BY Steps DEF Deliver, Resolve, Dedup, Handle, Insert, Summarise, Crash, Aside
<1> QED
  BY <1>1, <1>2, <1>3

(***************************************************************************)
(* The summary.                                                            *)
(***************************************************************************)

\* At the start there is nothing to tell.
LEMMA SummaryInit == Init => SummaryInv
<1> SUFFICES ASSUME Init PROVE SummaryInv
  OBVIOUS
<1>1. Cardinality(log) = 0
  BY FS_EmptySet DEF Init
<1> QED
  BY <1>1 DEF Init, SummaryInv, Summaries, NoSummary, NoRebuild

\* The log only grows.
LEMMA LogGrows ==
  ASSUME Typed, LogInv, [Next]_vars
  PROVE  Cardinality(log) \in Nat /\ Cardinality(log') \in Nat /\ Cardinality(log) <= Cardinality(log')
<1>1. Cardinality(log) \in Nat
  BY FS_CardinalityType DEF Typed
<1>2. \/ log' = log
      \/ \E r \in Requests : Insert(r) /\ ~Collides(Head(at[r].rows))
  BY Steps DEF Deliver, Resolve, Dedup, Handle, Insert, Summarise, Crash, Aside
<1>3. CASE log' = log
  BY <1>1, <1>3
<1>4. ASSUME NEW r \in Requests, Insert(r), ~Collides(Head(at[r].rows))
      PROVE  Cardinality(log') = Cardinality(log) + 1
  BY <1>4, InsertEffect
<1> QED
  BY <1>1, <1>2, <1>3, <1>4

\* What the script finds in a log that has rows.
LEMMA GroupedRows ==
  ASSUME Typed, LogInv, log # {}
  PROVE  Grouped \in Summaries /\ Grouped.last \in 0 .. Cardinality(log)
<1> DEFINE newest == CHOOSE x \in log : \A y \in log \ {x} : Newer(x, y)
<1>1. newest \in log
  BY DEF LogInv, Newest
<1>2. newest.n \in 1 .. Cardinality(log) /\ newest.n \in Nat /\ newest.at \in Nat
  BY <1>1 DEF LogInv, Typed, Rows
<1>3. Grouped = [count |-> Cardinality(log), last |-> newest.n, at |-> newest.at]
  BY DEF Grouped
<1> HIDE DEF newest
<1> QED
  BY <1>2, <1>3, FS_CardinalityType DEF Summaries, Typed

\* Every step keeps the summary to rows of the log.
LEMMA SummaryStep == Typed /\ LogInv /\ SummaryInv /\ [Next]_vars => SummaryInv'
<1> SUFFICES ASSUME Typed, LogInv, SummaryInv, [Next]_vars PROVE SummaryInv'
  OBVIOUS
<1>1. \A k : k \in 0 .. Cardinality(log) => k \in 0 .. Cardinality(log')
  BY LogGrows
<1>2. CASE UNCHANGED <<summary, rebuild>>
  BY <1>1, <1>2 DEF SummaryInv
<1>3. CASE Aggregate
  BY <1>1, <1>3, GroupedRows DEF Aggregate, SummaryInv
<1>4. CASE Overwrite
  <2>1. NoSummary \in Summaries /\ NoSummary.last = 0
    BY DEF NoSummary, Summaries
  <2> QED
    BY <1>1, <1>4, <2>1, LogGrows DEF Overwrite, SummaryInv, NoRebuild
<1> QED
  BY <1>2, <1>3, <1>4 DEF Next, Webhook, Deliver, Resolve, Dedup, Handle, Insert, Summarise,
     updateConversationSummary, Crash, Open, ReadPage, vars

(***************************************************************************)
(* The thread.                                                             *)
(***************************************************************************)

\* Any rows of the log have an oldest one, and a newest one.
LEMMA OldestRow ==
  ASSUME Typed, LogInv, NEW rows \in SUBSET log, rows # {}
  PROVE  \E x \in rows : \A y \in rows \ {x} : Newer(y, x)
<1> DEFINE times == {y.at : y \in rows}
<1>1. \A y \in rows : y.at \in Nat /\ y.n \in Nat /\ y \in log
  BY DEF Typed, Rows
<1>2. times \in SUBSET Nat /\ times # {}
  BY <1>1
<1>3. PICK a \in times : \A t \in times : a <= t
  BY <1>2, LeastNumber
<1> DEFINE ns == {n \in Nat : \E y \in rows : y.at = a /\ y.n = n}
<1>4. ns \in SUBSET Nat /\ ns # {}
  BY <1>1
<1>5. PICK n \in ns : \A k \in ns : n <= k
  BY <1>4, LeastNumber
<1>6. PICK x \in rows : x.at = a /\ x.n = n
  BY <1>5
<1>7. ASSUME NEW y \in rows \ {x} PROVE Newer(y, x)
  <2>1. a <= y.at /\ y.at \in Nat /\ y.n \in Nat /\ a \in Nat /\ n \in Nat
    BY <1>1, <1>2, <1>3
  <2>2. y.n # n
    BY <1>1, <1>6 DEF LogInv
  <2>3. y.at = a => n < y.n
    BY <1>5, <2>1, <2>2
  <2> QED
    BY <1>6, <2>1, <2>3 DEF Newer
<1> QED
  BY <1>7

\* The newest of any rows, by counting back from the newest of all.
LEMMA NewestRow ==
  ASSUME Typed, LogInv, NEW rows \in SUBSET log, rows # {}
  PROVE  \E x \in rows : \A y \in rows \ {x} : Newer(x, y)
<1>1. PICK w \in log : Newest(w, log)
  BY DEF LogInv
<1> DEFINE ages == {w.at - y.at : y \in rows}
<1>2. Cardinality(log) \in Nat
  BY FS_CardinalityType DEF Typed
<1>3. \A y \in rows : y.at \in Nat /\ y.at <= w.at /\ y.n \in 1 .. Cardinality(log) /\ y \in log /\ w.at \in Nat
  BY <1>1 DEF Typed, Rows, LogInv, Newest, Newer
<1>4. ages \in SUBSET Nat /\ ages # {}
  BY <1>3
<1>5. PICK a \in ages : \A t \in ages : a <= t
  BY <1>4, LeastNumber
<1> DEFINE ns == {n \in Nat : \E y \in rows : w.at - y.at = a /\ Cardinality(log) - y.n = n}
<1>6. ns \in SUBSET Nat /\ ns # {}
  BY <1>2, <1>3
<1>7. PICK n \in ns : \A k \in ns : n <= k
  BY <1>6, LeastNumber
<1>8. PICK x \in rows : w.at - x.at = a /\ Cardinality(log) - x.n = n
  BY <1>7
<1>9. ASSUME NEW y \in rows \ {x} PROVE Newer(x, y)
  <2>1. a <= w.at - y.at
    BY <1>5
  <2>2. y.n # x.n
    BY <1>3, <1>8 DEF LogInv
  <2>3. y.at <= x.at
    BY <1>3, <1>8, <2>1
  <2>4. y.at = x.at => y.n < x.n
    <3>1. y.at = x.at => Cardinality(log) - y.n \in ns
      BY <1>2, <1>3, <1>8
    <3>2. y.at = x.at => Cardinality(log) - x.n <= Cardinality(log) - y.n
      BY <1>7, <1>8, <3>1
    <3> QED
      BY <1>2, <1>3, <1>8, <2>2, <3>2
  <2> QED
    BY <1>3, <2>3, <2>4 DEF Newer
<1> QED
  BY <1>9

\* A page that is not all there is ends with its oldest row, and all that is left
\* lies before that row.
LEMMA PageEffect ==
  ASSUME Typed, LogInv, NEW rows \in SUBSET log, Page(rows) # rows
  PROVE  LET oldest == CHOOSE x \in Page(rows) : \A y \in Page(rows) \ {x} : Newer(y, x) IN
         /\ oldest \in Page(rows)
         /\ \A y \in Page(rows) : ~Newer(oldest, y)
         /\ \A y \in rows \ Page(rows) : Newer(oldest, y)
<1> DEFINE page == Page(rows)
           oldest == CHOOSE x \in page : \A y \in page \ {x} : Newer(y, x)
           above(x) == {y \in rows : Newer(y, x)}
<1>1. page \in SUBSET rows /\ \A x \in rows : x \in page <=> Cardinality(above(x)) < PageSize
  BY DEF Page
<1>2. rows \in SUBSET Rows /\ IsFiniteSet(rows) /\ rows # {}
  BY <1>1, FS_Subset DEF Typed
<1>3. page # {}
  <2>1. PICK x \in rows : \A y \in rows \ {x} : Newer(x, y)
    BY <1>2, NewestRow
  <2>2. above(x) = {}
    <3> SUFFICES ASSUME NEW y \in rows, Newer(y, x) PROVE FALSE
      OBVIOUS
    <3>1. y = x
      BY <1>2, <2>1, NewerOrders
    <3> QED
      BY <1>2, <3>1, NewerOrders
  <2>3. Cardinality(above(x)) = 0
    BY <2>2, FS_EmptySet
  <2> QED
    BY <1>1, <2>3, PageAssumption
<1>4. oldest \in page /\ \A y \in page \ {oldest} : Newer(y, oldest)
  BY <1>1, <1>3, OldestRow
<1> HIDE DEF oldest
<1>5. \A y \in page : ~Newer(oldest, y)
  BY <1>1, <1>2, <1>4, NewerOrders
<1>6. ASSUME NEW y \in rows \ page PROVE Newer(oldest, y)
  <2>1. y \in Rows /\ oldest \in Rows /\ y \in log /\ oldest \in log /\ y # oldest
    BY <1>1, <1>2, <1>4
  <2>2. Newer(y, oldest) \/ Newer(oldest, y)
    BY <2>1, NewerOrders DEF LogInv
  <2>3. ASSUME Newer(y, oldest) PROVE FALSE
    <3>1. above(y) \in SUBSET above(oldest)
      BY <1>2, <2>1, <2>3, NewerOrders
    <3>2. above(oldest) \in SUBSET rows
      OBVIOUS
    <3> HIDE DEF above
    <3>3. IsFiniteSet(above(oldest)) /\ Cardinality(above(oldest)) \in Nat
      BY <1>2, <3>2, FS_Subset, FS_CardinalityType
    <3>4. Cardinality(above(y)) <= Cardinality(above(oldest)) /\ Cardinality(above(y)) \in Nat
      BY <3>1, <3>3, FS_Subset, FS_CardinalityType
    <3>5. Cardinality(above(oldest)) < PageSize /\ ~(Cardinality(above(y)) < PageSize)
      BY <1>1, <1>4
    <3> QED
      BY <3>3, <3>4, <3>5, PageAssumption
  <2> QED
    BY <2>2, <2>3
<1> QED
  BY <1>4, <1>5, <1>6 DEF oldest

\* At the start nobody reads.
LEMMA ReaderInit == Init => ThreadInv
BY DEF Init, ThreadInv, NoReader, Readers, ThreadIsComplete

\* The rows before a cursor are older than every row the cursor stands for.
LEMMA BeforeRow ==
  ASSUME Typed, NEW x \in log
  PROVE  /\ <<x.at, x.n>> \in Nat \X Nat /\ <<x.at, x.n>> # <<>>
         /\ Before(<<x.at, x.n>>) = {y \in log : Newer(x, y)}
<1>1. x.at \in Nat /\ x.n \in Nat /\ \A y \in log : y.at \in Nat /\ y.n \in Nat
  BY DEF Typed, Rows
<1>2. <<x.at, x.n>> # <<>>
  OBVIOUS
<1> QED
  BY <1>1, <1>2 DEF Before, Newer

\* What is before a row that is before the cursor is before the cursor too.
LEMMA BeforeIsDownward ==
  ASSUME Typed, ThreadInv, NEW x \in Before(reader.cursor), NEW y \in log, Newer(x, y)
  PROVE  x \in log /\ y \in Before(reader.cursor)
<1>1. /\ x \in log
      /\ x.at \in Nat /\ x.n \in Nat /\ y.at \in Nat /\ y.n \in Nat
  BY DEF Typed, Rows, Before
<1>2. CASE reader.cursor = <<>>
  BY <1>1, <1>2 DEF Before
<1>3. CASE reader.cursor # <<>>
  <2>1. reader.cursor \in Nat \X Nat
    BY <1>3 DEF ThreadInv, Readers
  <2>2. reader.cursor[1] \in Nat /\ reader.cursor[2] \in Nat
    BY <2>1
  <2> QED
    BY <1>1, <1>3, <2>2 DEF Before, Newer
<1> QED
  BY <1>2, <1>3

\* Every step keeps what is missing before the cursor and what was seen out of it.
LEMMA ThreadStep == Typed /\ LogInv /\ ThreadInv /\ [Next]_vars => ThreadInv'
<1> SUFFICES ASSUME Typed, LogInv, ThreadInv, [Next]_vars PROVE ThreadInv'
  OBVIOUS
<1>1. CASE reader' = reader /\ log' = log
  BY <1>1 DEF ThreadInv, ThreadIsComplete, Before
<1>2. ASSUME NEW r \in Requests, Insert(r), ~Collides(Head(at[r].rows)) PROVE ThreadInv'
  <2>1. PICK x \in Rows : log' = log \cup {x} /\ x \notin log
    BY <1>2, InsertEffect
  <2>2. reader' = reader
    BY <1>2 DEF Insert
  <2>3. Before(reader.cursor) \subseteq Before(reader.cursor)' /\
        Before(reader.cursor)' \subseteq Before(reader.cursor) \cup {x}
    BY <2>1, <2>2 DEF Before
  <2> QED
    BY <2>1, <2>2, <2>3 DEF ThreadInv, ThreadIsComplete
<1>3. CASE Open
  <2>1. reader' = [NoReader EXCEPT !.pc = "page", !.missing = log] /\ log' = log
    BY <1>3 DEF Open
  <2>2. reader' = [pc |-> "page", missing |-> log, seen |-> {}, twice |-> FALSE, cursor |-> <<>>]
    BY <2>1 DEF NoReader
  <2>3. /\ reader'.pc = "page" /\ reader'.missing = log /\ reader'.seen = {}
        /\ reader'.twice = FALSE /\ reader'.cursor = <<>>
    BY <2>2
  <2>4. Before(reader.cursor)' = log
    BY <2>1, <2>3 DEF Before
  <2>5. reader' \in Readers
    BY <2>2 DEF Readers, Typed
  <2> QED
    BY <2>3, <2>4, <2>5 DEF ThreadInv, ThreadIsComplete
<1>4. CASE ReadPage
  <2> DEFINE rows == Before(reader.cursor)
             page == Page(rows)
             oldest == CHOOSE x \in page : \A y \in page \ {x} : Newer(y, x)
  <2>1. /\ rows \in SUBSET log /\ page \in SUBSET rows
        /\ reader.missing \subseteq rows /\ reader.seen \subseteq log /\ reader.seen \cap rows = {}
        /\ reader.twice = FALSE /\ reader \in Readers
    BY <1>4 DEF ThreadInv, ThreadIsComplete, ReadPage, Before, Page
  <2>2. log' = log
    BY <1>4 DEF ReadPage
  <2>3. CASE page = rows
    <3>1. reader' = [NoReader EXCEPT !.pc = "done", !.missing = reader.missing \ page,
                                     !.twice = reader.twice \/ reader.seen \cap page # {}]
      BY <1>4, <2>3 DEF ReadPage
    <3>2. reader.missing \ page = {} /\ (reader.twice \/ reader.seen \cap page # {}) = FALSE
      BY <2>1, <2>3
    <3>3. reader' = [pc |-> "done", missing |-> {}, seen |-> {}, twice |-> FALSE, cursor |-> <<>>]
      BY <3>1, <3>2 DEF NoReader
    <3> QED
      BY <3>3 DEF ThreadInv, ThreadIsComplete, Readers
  <2>4. CASE page # rows
    <3>1. reader' = [reader EXCEPT !.missing = @ \ page, !.seen = @ \cup page,
                                   !.twice = @ \/ reader.seen \cap page # {},
                                   !.cursor = <<oldest.at, oldest.n>>]
      BY <1>4, <2>4 DEF ReadPage
    <3>2. /\ oldest \in page
          /\ \A y \in page : ~Newer(oldest, y)
          /\ \A y \in rows \ page : Newer(oldest, y)
      BY <2>1, <2>4, PageEffect
    <3> HIDE DEF oldest
    <3>3. PICK w \in page : /\ w = oldest
                            /\ \A y \in page : ~Newer(w, y)
                            /\ \A y \in rows \ page : Newer(w, y)
      BY <3>2
    <3>4. /\ reader' \in Readers
          /\ reader'.pc = reader.pc /\ reader'.missing = reader.missing \ page
          /\ reader'.seen = reader.seen \cup page /\ reader'.twice = FALSE
          /\ reader'.cursor = <<w.at, w.n>>
      <4>1. <<w.at, w.n>> \in Nat \X Nat /\ page \in SUBSET Rows
        BY <2>1, BeforeRow DEF Typed
      <4>2. (reader.twice \/ reader.seen \cap page # {}) = FALSE
        BY <2>1
      <4> HIDE DEF page, rows
      <4> QED
        BY <2>1, <3>1, <3>3, <4>1, <4>2 DEF Readers
    <3>5. Before(reader.cursor)' = {y \in log : Newer(w, y)}
      <4>1. Before(reader.cursor)' = Before(<<w.at, w.n>>)
        BY <2>2, <3>4 DEF Before
      <4> QED
        BY <2>1, <4>1, BeforeRow
    <3>6. \A y \in reader.seen : ~Newer(w, y)
      BY <2>1, BeforeIsDownward
    <3> QED
      BY <1>4, <2>1, <2>2, <3>3, <3>4, <3>5, <3>6 DEF ThreadInv, ThreadIsComplete, ReadPage
  <2> QED
    BY <2>3, <2>4
<1>5. \/ reader' = reader /\ log' = log
      \/ \E r \in Requests : Insert(r) /\ ~Collides(Head(at[r].rows))
      \/ Open \/ ReadPage
  BY Steps DEF Deliver, Resolve, Dedup, Handle, Insert, Summarise, Crash, Aside, Aggregate, Overwrite, vars
<1> QED
  BY <1>1, <1>2, <1>3, <1>4, <1>5

\* A reader who pages back to the start of a thread has seen every message that
\* was there when they opened it and none twice, for any page size, however many
\* rows share a second and whatever arrives meanwhile
\* (chats.controller.ts:118-190).
THEOREM ThreadsAreComplete == Spec => []ThreadIsComplete
<1> DEFINE IInv == Typed /\ LogInv /\ ThreadInv
<1>1. Init => IInv
  BY TypeInit, LogInit, ReaderInit
<1>2. IInv /\ [Next]_vars => IInv'
  BY TypeStep, LogStep, ThreadStep
<1>3. IInv => ThreadIsComplete
  BY DEF ThreadInv
<1> HIDE DEF IInv
<1> QED
  BY <1>1, <1>2, <1>3, PTL DEF Spec

\* The steps of a request before it has rows to save.
Quiet(r) == \/ \E m \in Messages, rest \in SUBSET Messages : Deliver(r, m, rest)
            \/ Resolve(r) \/ Dedup(r) \/ Handle(r)

\* Only messages are answered or lost.
LEMMA AnswersStep ==
  Typed /\ acked \cup lost \subseteq Messages /\ [Next]_vars => acked' \cup lost' \subseteq Messages
<1> SUFFICES ASSUME Typed, acked \cup lost \subseteq Messages, [Next]_vars
             PROVE  acked' \cup lost' \subseteq Messages
  OBVIOUS
<1>1. \A r \in Requests : at[r].rest \subseteq Messages /\ (at[r].pc # "idle" => at[r].m \in Messages)
  BY DEF Typed, AtWork
<1>2. ASSUME NEW r \in Requests, Quiet(r) PROVE acked' \cup lost' \subseteq Messages
  BY <1>1, <1>2 DEF Quiet, Deliver, Resolve, Dedup, isMessageProcessed, Handle
<1>3. CASE Crash
  BY <1>1, <1>3 DEF Crash
<1> QED
  BY <1>2, <1>3, Steps DEF Quiet, Insert, Summarise, Aside

\* Type correctness of the messages, the requests, the log and the summary; the
\* customer sends something.
THEOREM TypeCorrect ==
  ASSUME Messages # {}
  PROVE  Spec => []TypeOK
<1> DEFINE IInv == Typed /\ LogInv /\ SummaryInv /\ acked \cup lost \subseteq Messages
<1>1. Init => IInv
  BY TypeInit, LogInit, SummaryInit DEF Init
<1>2. IInv /\ [Next]_vars => IInv'
  BY TypeStep, LogStep, SummaryStep, AnswersStep
<1>3. IInv => TypeOK
  <2> SUFFICES ASSUME IInv PROVE TypeOK
    OBVIOUS
  <2>1. Nobody \in Messages
    BY DEF Nobody
  <2>2. \A r \in Requests : /\ at[r].pc \in Labels
                            /\ at[r].m \in Messages /\ at[r].rest \subseteq Messages
    BY <2>1 DEF Typed, AtWork
  <2>3. \A x \in log : x.n \in 1 .. Cardinality(log) /\ x.at \in Nat
    BY DEF Typed, LogInv, Rows
  <2>4. summary \in [count : Nat, last : 0 .. Cardinality(log), at : Nat]
    BY DEF SummaryInv, Summaries
  <2> QED
    BY <2>2, <2>3, <2>4 DEF TypeOK, Labels, Typed, SummaryInv
<1> HIDE DEF IInv
<1> QED
  BY <1>1, <1>2, <1>3, PTL DEF Spec

=============================================================================
