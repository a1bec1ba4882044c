------------------------------ MODULE Reactions ------------------------------
(***************************************************************************)
(* Reactions to the messages of the open room, with one emoji: the toggles *)
(* of MainWindow (a click on a chip, a double-click on a message, Ctrl+    *)
(* Shift+K), "Remove reaction" of the context menu, and those that the     *)
(* sync response tells of.                                                 *)
(*                                                                         *)
(* A reaction is an event of its own.  Sync adds a chip without the id of  *)
(* that event; a chip made by the chat or the context menu has it (React). *)
(*                                                                         *)
(* TimelineState belongs to the engine: a chip keeps who reacted, and the  *)
(* id that was given with a reaction.  Left out: other emoji.              *)
(***************************************************************************)
EXTENDS Naturals, Sequences, FiniteSets, SequencesExt

CONSTANTS
    Messages, \* the messages of the open room
    Own,      \* those of the user
    Budget    \* bound: toggles and commands, reactions of others, failures

Users == {"me", "other"}
Steps == {"click", "other", "fault"}

\* What the constants are assumed to be.
ConstantsOK == /\ Own \subseteq Messages /\ IsFiniteSet(Messages)
               /\ Budget \in [Steps -> Nat]

VARIABLES
    reactions, \* the homeserver: reactions that are not redacted
    count,     \* the homeserver: reactions made so far
    news,      \* events of the room the client has not been told of
    rows,      \* messages that have a row
    chips,     \* who reacted, by the chip of each message
    ids,       \* reactionEventId of the chip, 0 if it is empty
    jobs,      \* requests under way
    posted,    \* callbacks posted to the UI thread
    wished,    \* history: what the user's last step, if a toggle, was to make of his reaction
    calm,      \* history: he never took one before the last one had ended
    fuel       \* what is left of Budget

vars == <<reactions, count, news, rows, chips, ids, jobs, posted, wished, calm, fuel>>

server == <<reactions, count, news>>
model  == <<rows, chips, ids>>
past   == <<wished, calm>>

Reaction == [to : Messages, by : Users, id : Nat]
Kinds    == {"send", "redact", "react", "unreact"}

Spend(step) == fuel[step] > 0 /\ fuel' = [fuel EXCEPT ![step] = @ - 1]

Init == /\ reactions = {} /\ count = 0
        /\ news = SetToSeq({[kind |-> "message", to |-> m, by |-> "other", id |-> 0] : m \in Messages})
        /\ rows = {} /\ chips = [m \in Messages |-> {}] /\ ids = [m \in Messages |-> 0]
        /\ jobs = <<>> /\ posted = <<>>
        /\ wished = [m \in Messages |-> "none"] /\ calm = TRUE
        /\ fuel = Budget

-----------------------------------------------------------------------------
(***************************************************************************)
(* The homeserver                                                          *)
(***************************************************************************)
Tells(kind, m, u, id) == news' = Append(news, [kind |-> kind, to |-> m, by |-> u, id |-> id])

\* A second reaction of a user with the same emoji is refused.
Has(u, m)  == \E r \in reactions : r.to = m /\ r.by = u

Add(u, m) == /\ ~Has(u, m)
             /\ count' = count + 1
             /\ reactions' = reactions \cup {[to |-> m, by |-> u, id |-> count']}
             /\ Tells("reaction", m, u, count')

OtherReacts(m) == /\ Spend("other") /\ Add("other", m)
                  /\ UNCHANGED <<model, jobs, posted, past>>

Redact(id) == /\ \E r \in reactions : r.id = id /\ Tells("redaction", r.to, r.by, id)
              /\ reactions' = {r \in reactions : r.id # id}
              /\ UNCHANGED count

-----------------------------------------------------------------------------
(***************************************************************************)
(* The user                                                                *)
(***************************************************************************)
\* TimelineState::myReactionId.
MyReactionId(m) == IF "me" \in chips[m] THEN ids[m] ELSE 0

Job(kind, m, id) == [kind |-> kind, to |-> m, id |-> id]

\* The user's steps queue a request.
Ask(m, j, wish) == /\ m \in rows /\ Spend("click")
                   /\ jobs' = Append(jobs, j)
                   /\ wished' = [wished EXCEPT ![m] = wish]
                   /\ calm' = (calm /\ jobs = <<>> /\ posted = <<>> /\ news = <<>>)
                   /\ UNCHANGED <<server, model, posted>>

\* reactionClicked, and doubleClicked and the key, which spare the user's own messages.
\* The outcome of the request is dropped.
Toggle(m, onChip) ==
    /\ IF onChip THEN chips[m] # {} ELSE m \notin Own
    /\ Ask(m, IF MyReactionId(m) # 0 THEN Job("redact", m, MyReactionId(m)) ELSE Job("send", m, 0),
           IF "me" \in chips[m] THEN "off" ELSE "on")

\* The context menu's "React" and the chat's quick reaction.
React(m) == Ask(m, Job("react", m, 0), "none")

\* The context menu's "Remove reaction", with the id of the chip.
Unreact(m) == "me" \in chips[m] /\ Ask(m, Job("unreact", m, ids[m]), "none")

-----------------------------------------------------------------------------
(***************************************************************************)
(* Workers and callbacks                                                   *)
(***************************************************************************)
Outcome(j, ok) == posted' = IF j.kind \in {"react", "unreact"}
                            THEN Append(posted, [kind |-> j.kind, to |-> j.to, id |-> count', ok |-> ok])
                            ELSE posted

Possible(j) == IF j.kind \in {"send", "react"} THEN ~Has("me", j.to)
               ELSE \E r \in reactions : r.id = j.id

Work(i) ==
    /\ i \in DOMAIN jobs
    /\ jobs' = RemoveAt(jobs, i)
    /\ LET j == jobs[i]
       IN  \/ /\ Possible(j)
              /\ IF j.kind \in {"send", "react"} THEN Add("me", j.to) ELSE Redact(j.id)
              /\ Outcome(j, TRUE) /\ UNCHANGED fuel
           \/ /\ UNCHANGED server
              /\ Outcome(j, FALSE)
              /\ IF Possible(j) THEN Spend("fault") ELSE UNCHANGED fuel
    /\ UNCHANGED <<model, past>>

\* addReaction, for each of a set: without a row nothing happens, without an id the chip
\* keeps its own.
WithReactions(there, made) ==
    [m \in Messages |-> IF m \in there THEN chips[m] \cup {r.by : r \in {x \in made : x.to = m}}
                        ELSE chips[m]]

Deliver ==
    /\ posted # <<>> /\ posted' = Tail(posted)
    /\ LET p == Head(posted)
       IN  IF ~p.ok THEN UNCHANGED <<chips, ids>>
           ELSE \/ /\ p.kind = "react"
                   /\ chips' = WithReactions(rows, {[to |-> p.to, by |-> "me"]})
                   /\ ids' = [ids EXCEPT ![p.to] = p.id]
                \/ /\ p.kind = "unreact"
                   /\ chips' = [chips EXCEPT ![p.to] = @ \ {"me"}]
                   /\ ids' = [ids EXCEPT ![p.to] = IF chips'[p.to] = {} THEN 0 ELSE @]
    /\ UNCHANGED <<server, rows, jobs, past, fuel>>

Told(batch, kind) == {e \in ToSet(batch) : e.kind = kind}

\* appendTimelineForRoom: the rows are appended, then the batch's reactions added.  A
\* redaction names the reaction's event, which has no row: the chip stays.
\* MUTANT: the reactions come first.
ReactionsFirst(batch) ==
    /\ rows' = rows \cup {e.to : e \in Told(batch, "message")}
    /\ chips' = WithReactions(rows, Told(batch, "reaction"))
    /\ UNCHANGED ids

AppendTimeline(batch) ==
    /\ rows' = rows \cup {e.to : e \in Told(batch, "message")}
    /\ chips' = WithReactions(rows', Told(batch, "reaction"))
    /\ UNCHANGED ids

Sync == /\ \E n \in 1..Len(news) : /\ AppendTimeline(SubSeq(news, 1, n))
                                   /\ news' = SubSeq(news, n + 1, Len(news))
        /\ UNCHANGED <<reactions, count, jobs, posted, past, fuel>>

Next == \/ \E m \in Messages : \/ OtherReacts(m) \/ React(m) \/ Unreact(m)
                               \/ \E onChip \in BOOLEAN : Toggle(m, onChip)
        \/ \E i \in DOMAIN jobs : Work(i)
        \/ Deliver \/ Sync

Spec == Init /\ [][Next]_vars

-----------------------------------------------------------------------------
(***************************************************************************)
(* Properties                                                              *)
(***************************************************************************)
TypeOK == /\ reactions \subseteq Reaction /\ count \in Nat
          /\ rows \subseteq Messages
          /\ chips \in [Messages -> SUBSET Users]
          /\ ids \in [Messages -> 0..count]
          /\ \A j \in ToSet(jobs) \cup ToSet(posted) : j.kind \in Kinds /\ j.to \in Messages
          /\ wished \in [Messages -> {"none", "on", "off"}]
          /\ calm \in BOOLEAN
          /\ fuel \in [Steps -> Nat]

Quiet == calm /\ jobs = <<>> /\ posted = <<>> /\ news = <<>>

(***************************************************************************)
(* When everything has been told, every reaction that the homeserver has   *)
(* is shown on the chip of its message, in whatever batches messages and   *)
(* reactions came -- if the user waits for the end of each step.  (A chip  *)
(* may outlive its reaction, see AppendTimeline.)                          *)
(***************************************************************************)
ReactionsShown == Quiet => \A r \in reactions : r.by \in chips[r.to]

(***************************************************************************)
(* "Double-click emoji (Telegram toggle)": a toggle takes back the user's  *)
(* reaction that is shown, if no request fails.                            *)
(***************************************************************************)
ToggleTakesBack == Quiet => \A m \in Messages : wished[m] = "off" => ~Has("me", m)
=============================================================================
