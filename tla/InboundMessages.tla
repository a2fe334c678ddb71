--------------------------- MODULE InboundMessages ---------------------------
(***************************************************************************)
(* What happens to a customer's WhatsApp messages: the webhook with its    *)
(* early acknowledgement and its deduplication in Redis                    *)
(* (controllers/whatsapp/incomingMessages.ts), the reply each kind gets    *)
(* (conversation.controller.ts, outgoingMessages.ts), the message log and  *)
(* the update of the conversation summary the database layer refuses       *)
(* (utils/whatsapp.utils.ts), the script that writes the summary while     *)
(* messages keep arriving (scripts/backfillConversations.ts) and the       *)
(* dashboard thread read page by page (dashboard/chats.controller.ts).     *)
(*                                                                         *)
(* One phone of one tenant: log rows, summary and deduplication keys of    *)
(* different phones never meet.  WhatsApp delivers at least once.          *)
(***************************************************************************)
EXTENDS Naturals, FiniteSets, Sequences

CONSTANTS
  Messages,       \* the messages the customer sends
  Kind,           \* Kind[m]: what m is
  Stamp,          \* Stamp[m]: the second m was sent at
  ReplyTimes,     \* the times a reply can be stamped with
  Requests,       \* webhook requests in progress at a time
  PageSize,       \* rows in a page of the thread
  MaxEvents       \* bound on duplicates, failures, crashes, rebuilds and readers together

Kinds == {"text", "choice", "order", "reaction", "unreaction", "location", "image"}

ASSUME MessageAssumption == /\ Kind \in [Messages -> Kinds]
                            /\ Stamp \in [Messages -> Nat]
                            /\ ReplyTimes \subseteq Nat
ASSUME PageAssumption    == PageSize \in Nat \ {0}

\* The externalId of a reply that WhatsApp refused: the row has none.
NoId == <<"none">>

VARIABLES
  acked,      \* the messages answered 200: WhatsApp does not send them again on its own
  processed,  \* the wa:msg:<id> keys in Redis
  at,         \* at[r]: the request r: message, batch companions, where it stands, rows to save
  handled,    \* handled[m]: how often m's handler ran
  lost,       \* the messages some request dropped after it was answered 200
  log,        \* the WhatsappMessage rows; n is the order of their _id
  summary,    \* the Conversation document of the phone
  rebuild,    \* the backfill script: where it stands and what it aggregated
  reader,     \* a dashboard user paging back through the thread
  events      \* how many events beyond plain traffic have happened

vars == <<acked, processed, at, handled, lost, log, summary, rebuild, reader, events>>

Idle       == [pc |-> "idle", m |-> CHOOSE m \in Messages : TRUE, rest |-> {}, rows |-> <<>>]
NoSummary  == [count |-> 0, last |-> 0, at |-> 0]
NoRebuild  == [pc |-> "idle", result |-> NoSummary]
NoReader   == [pc |-> "idle", missing |-> {}, seen |-> {}, twice |-> FALSE, cursor |-> <<>>]

Init ==
  /\ acked = {} /\ processed = {} /\ lost = {} /\ log = {}
  /\ at = [r \in Requests |-> Idle]
  /\ handled = [m \in Messages |-> 0]
  /\ summary = NoSummary
  /\ rebuild = NoRebuild
  /\ reader = NoReader
  /\ events = 0

Event == events < MaxEvents /\ events' = events + 1

-----------------------------------------------------------------------------
(* The webhook.                                                            *)

InFlight(m) == \E r \in Requests : at[r].pc # "idle" /\ m \in {at[r].m} \cup at[r].rest

\* WhatsApp posts m, perhaps with further messages in the same payload; m again
\* while it is unanswered or after its answer is a duplicate.
Deliver(r, m, rest) ==
  /\ at[r].pc = "idle"
  /\ m \notin rest
  /\ \A x \in rest : x \notin acked /\ ~InFlight(x)
  /\ IF m \in acked \/ InFlight(m) THEN Event ELSE UNCHANGED events
  /\ at' = [at EXCEPT ![r] = [Idle EXCEPT !.pc = "resolve", !.m = m, !.rest = rest]]
  /\ UNCHANGED <<acked, processed, handled, lost, log, summary, rebuild, reader>>

\* Mutant: a failed look-up is answered 200 too.
ResolveAcksFailures(r) ==
  /\ at[r].pc = "resolve"
  /\ acked' = acked \cup {at[r].m} \cup at[r].rest
  /\ \/ /\ lost' = lost \cup at[r].rest
        /\ at' = [at EXCEPT ![r].pc = "dedup"]
        /\ UNCHANGED events
     \/ /\ Event
        /\ at' = [at EXCEPT ![r] = Idle]
        /\ UNCHANGED lost
  /\ UNCHANGED <<processed, handled, log, summary, rebuild, reader>>

\* The tenant of the phone number id is looked up.  Found and allowed: the
\* request is answered 200 and goes on with the first message; the handler never
\* looks at the others.  Unknown or suspended: answered 200 and dropped.  The
\* look-up fails: 500, and WhatsApp will try again.
Resolve(r) ==
  /\ at[r].pc = "resolve"
  /\ \/ /\ acked' = acked \cup {at[r].m} \cup at[r].rest
        /\ lost' = lost \cup at[r].rest
        /\ at' = [at EXCEPT ![r].pc = "dedup"]
        /\ UNCHANGED events
     \/ /\ acked' = acked \cup {at[r].m} \cup at[r].rest
        /\ lost' = lost \cup {at[r].m} \cup at[r].rest
        /\ at' = [at EXCEPT ![r] = Idle]
        /\ UNCHANGED events
     \/ /\ Event
        /\ at' = [at EXCEPT ![r] = Idle]
        /\ UNCHANGED <<acked, lost>>
  /\ UNCHANGED <<processed, handled, log, summary, rebuild, reader>>

\* Mutant: a Redis error lets the message through.
isMessageProcessedOpen(r) ==
  LET m == at[r].m IN
  \/ /\ processed' = processed \cup {m}
     /\ at' = [at EXCEPT ![r] = IF m \in processed THEN Idle ELSE [@ EXCEPT !.pc = "handle"]]
     /\ UNCHANGED <<lost, events>>
  \/ /\ Event
     /\ at' = [at EXCEPT ![r].pc = "handle"]
     /\ UNCHANGED <<processed, lost>>

\* SET wa:msg:<id> NX EX.  A Redis error, before or after the key was set,
\* counts as "already processed".
isMessageProcessed(r) ==
  LET m == at[r].m IN
  \/ /\ processed' = processed \cup {m}
     /\ at' = [at EXCEPT ![r] = IF m \in processed THEN Idle ELSE [@ EXCEPT !.pc = "handle"]]
     /\ UNCHANGED <<lost, events>>
  \/ /\ Event
     /\ processed' \in {processed, processed \cup {m}}
     /\ at' = [at EXCEPT ![r] = Idle]
     /\ lost' = lost \cup {m}

Dedup(r) ==
  /\ at[r].pc = "dedup"
  /\ isMessageProcessed(r)
  /\ UNCHANGED <<acked, handled, log, summary, rebuild, reader>>

-----------------------------------------------------------------------------
(* The handlers answer through the senders.  A sender posts to the Graph   *)
(* API and then records the attempt.  WhatsApp takes the message: a row    *)
(* with its id.  The call fails: a row without one.  Another status than   *)
(* 200: no row at all.                                                     *)

Row(dir, ext, time) == [dir |-> dir, ext |-> ext, at |-> time]

\* The row the k-th send of m's handler leaves, or none.
Sent(m, k) == UNION {{<<Row("out", <<"reply", m, k>>, t)>>, <<Row("out", NoId, t)>>} : t \in ReplyTimes}
Attempt(m) == Sent(m, 1) \cup {<<>>}

\* The catalogue for a text, an echo of a reaction.
textHandler(m)     == Attempt(m)
reactionHandler(m) == Attempt(m)

\* Buttons, lists, forms, carts and pins run order code, which answers with one
\* message or two, may send nothing, or throw: then the message itself is not
\* recorded either.
interactiveHandler(m) == Attempt(m) \cup {first \o second : first \in Sent(m, 1), second \in Sent(m, 2)}
Throws(m) == Kind[m] \in {"choice", "order", "location"}

Replies(m) ==
  CASE Kind[m] = "text" -> textHandler(m)
    [] Kind[m] \in {"reaction", "unreaction"} -> reactionHandler(m)
    [] Throws(m) -> interactiveHandler(m)
    [] OTHER -> {<<>>}

\* A message's own row, unless there is nothing to show for it: an unknown type,
\* a reaction taken back.  Every other kind is described by a text that is never
\* empty: the title picked, the fields of a form, the size of a cart.
Described(m) == IF Kind[m] \in {"image", "unreaction"} THEN <<>>
                ELSE <<Row("in", <<"message", m>>, Stamp[m])>>

Saving(r, rows) == [at[r] EXCEPT !.pc = IF rows = <<>> THEN "idle" ELSE "insert", !.rows = rows]

Handle(r) ==
  LET m == at[r].m IN
  /\ at[r].pc = "handle"
  /\ handled' = [handled EXCEPT ![m] = @ + 1]
  /\ \E reply \in Replies(m) :
       \/ at' = [at EXCEPT ![r] = Saving(r, reply \o Described(m))]
       \/ Throws(m) /\ at' = [at EXCEPT ![r] = Saving(r, reply)]
  /\ UNCHANGED <<acked, processed, lost, log, summary, rebuild, reader, events>>

-----------------------------------------------------------------------------
(* The log and the summary (saveWhatsappMessage).                          *)

\* The unique index on (tenantId, externalId) is sparse, but a compound index
\* holds every row that has one of its fields, and tenantId is always there: two
\* rows without an externalId collide as well.
Collides(row) == \E x \in log : x.ext = row.ext

Insert(r) ==
  LET row == Head(at[r].rows) IN
  /\ at[r].pc = "insert"
  /\ IF Collides(row)
       THEN /\ at' = [at EXCEPT ![r] = Saving(r, Tail(at[r].rows))]
            /\ UNCHANGED log
       ELSE /\ log' = log \cup {[n |-> Cardinality(log) + 1, dir |-> row.dir,
                                 ext |-> row.ext, at |-> row.at]}
            /\ at' = [at EXCEPT ![r].pc = "summarise"]
  /\ UNCHANGED <<acked, processed, handled, lost, summary, rebuild, reader, events>>

\* The row stored, the summary is updated with an array of pipeline stages.  The
\* mongoose the project requires (9) refuses an array unless updatePipeline is
\* set, and nothing sets it: no update reaches the database.
updateConversationSummary == UNCHANGED summary

\* The refusal is caught and logged: the row stays, and the handler goes on with
\* the next one.
Summarise(r) ==
  /\ at[r].pc = "summarise"
  /\ updateConversationSummary
  /\ at' = [at EXCEPT ![r] = Saving(r, Tail(at[r].rows))]
  /\ UNCHANGED <<acked, processed, handled, lost, log, rebuild, reader, events>>

\* The process dies: what it was doing is gone, what it answered stays answered.
Crash ==
  /\ Event
  /\ at' = [r \in Requests |-> Idle]
  /\ lost' = lost \cup {at[r].m : r \in {q \in Requests : at[q].pc \in {"dedup", "handle"}}}
  /\ UNCHANGED <<acked, processed, handled, log, summary, rebuild, reader>>

-----------------------------------------------------------------------------
(* The rebuild script and the thread.                                      *)

Newer(x, y) == x.at > y.at \/ (x.at = y.at /\ x.n > y.n)

\* The aggregation over the whole log: the newest row by (timestamp, _id) and
\* the number of rows.
Grouped ==
  LET newest == CHOOSE x \in log : \A y \in log \ {x} : Newer(x, y)
  IN [count |-> Cardinality(log), last |-> newest.n, at |-> newest.at]

Aggregate ==
  /\ rebuild.pc = "idle" /\ log # {}
  /\ Event
  /\ rebuild' = [pc |-> "write", result |-> Grouped]
  /\ UNCHANGED <<acked, processed, at, handled, lost, log, summary, reader>>

\* The only write that changes a summary.
Overwrite ==
  /\ rebuild.pc = "write"
  /\ summary' = rebuild.result
  /\ rebuild' = NoRebuild
  /\ UNCHANGED <<acked, processed, at, handled, lost, log, reader, events>>

\* Mutant: the cursor knows the second only.
BeforeSecond(cursor) == IF cursor = <<>> THEN log ELSE {x \in log : x.at < cursor[1]}

\* The thread: the rows strictly before the cursor, newest first, PageSize and
\* one more to know whether there is an older page.
Before(cursor) == IF cursor = <<>> THEN log
                  ELSE {x \in log : x.at < cursor[1] \/ (x.at = cursor[1] /\ x.n < cursor[2])}

Page(rows) == {x \in rows : Cardinality({y \in rows : Newer(y, x)}) < PageSize}

Open ==
  /\ reader.pc = "idle"
  /\ Event
  /\ reader' = [NoReader EXCEPT !.pc = "page", !.missing = log]
  /\ UNCHANGED <<acked, processed, at, handled, lost, log, summary, rebuild>>

ReadPage ==
  LET rows == Before(reader.cursor)
      page == Page(rows)
      oldest == CHOOSE x \in page : \A y \in page \ {x} : Newer(y, x)
  IN
  /\ reader.pc = "page"
  /\ reader' = IF page = rows
                 THEN [NoReader EXCEPT !.pc = "done", !.missing = reader.missing \ page,
                                       !.twice = reader.twice \/ reader.seen \cap page # {}]
                 ELSE [reader EXCEPT !.missing = @ \ page, !.seen = @ \cup page,
                                     !.twice = @ \/ reader.seen \cap page # {},
                                     !.cursor = <<oldest.at, oldest.n>>]
  /\ UNCHANGED <<acked, processed, at, handled, lost, log, summary, rebuild, events>>

-----------------------------------------------------------------------------
Webhook(r) == Resolve(r) \/ Dedup(r) \/ Handle(r) \/ Insert(r) \/ Summarise(r)

Next ==
  \/ \E r \in Requests, m \in Messages, rest \in SUBSET Messages : Deliver(r, m, rest)
  \/ \E r \in Requests : Webhook(r)
  \/ Crash \/ Aggregate \/ Overwrite \/ Open \/ ReadPage

\* A request that has begun goes on, and WhatsApp keeps posting what has no answer.
Fairness ==
  /\ \A r \in Requests : WF_vars(Webhook(r))
  /\ \A m \in Messages : WF_vars(/\ m \notin acked /\ ~InFlight(m)
                                 /\ \E r \in Requests : Deliver(r, m, {}))

Spec     == Init /\ [][Next]_vars
FairSpec == Spec /\ Fairness

-----------------------------------------------------------------------------
TypeOK ==
  /\ acked \subseteq Messages /\ processed \subseteq Messages /\ lost \subseteq Messages
  /\ \A r \in Requests : /\ at[r].pc \in {"idle", "resolve", "dedup", "handle", "insert", "summarise"}
                         /\ at[r].m \in Messages /\ at[r].rest \subseteq Messages
  /\ handled \in [Messages -> Nat]
  /\ \A x \in log : x.n \in 1 .. Cardinality(log) /\ x.at \in Nat
  /\ summary \in [count : Nat, last : 0 .. Cardinality(log), at : Nat]

\* However often WhatsApp delivers a message, and whatever Redis does, its
\* handler runs at most once: no cart becomes two orders, no tap two charges
\* (isMessageProcessed fails closed, redis.controller.ts:94-101).
HandledOnce == \A m \in Messages : handled[m] <= 1

\* A reader who pages back to the start of a thread has seen every message that
\* was there when they opened it, and none twice, however many share a second
\* and whatever arrives meanwhile (chats.controller.ts:118-190).
ThreadIsComplete ==
  /\ ~reader.twice
  /\ reader.pc = "done" => reader.missing = {}

\* Every message WhatsApp has is in the end handled, or was dropped by a step
\* that answered it first: no other way loses one, and a failed look-up of the
\* tenant in particular does not (whatsappTenantResolver.ts:33-43).
HandledOrDropped == \A m \in Messages : <>(handled[m] > 0 \/ m \in lost)

\* The conversation list tells what the log says: as many messages as there are
\* rows, and the newest of them ("`messageCount` still increments for every stored
\* message", whatsapp.utils.ts:39).  Not kept by the first message: only the
\* script writes a summary, and the next message parts it from the log again.
SummaryAgrees ==
  (log # {} /\ \A r \in Requests : at[r].pc # "summarise") => summary = Grouped

\* Every attempt to send leaves a row in the log ("records the attempt via
\* saveWhatsappMessage", outgoingMessages.ts:386-388).  Not kept by the second
\* refused message of a shop: its row collides with the first one's.
AttemptsRecorded ==
  [][\A r \in Requests : /\ at[r].pc = "insert" /\ Head(at[r].rows).dir = "out"
                         /\ at'[r] # at[r] /\ events' = events
                         => log' # log]_vars
=============================================================================
