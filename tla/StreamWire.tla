------------------------------ MODULE StreamWire ------------------------------
(***************************************************************************)
(* The events of the three streaming protocols, as an upstream sends them  *)
(* and as a client receives them, and how a converter's steps are put      *)
(* together.  A piece of content is a record with the part it belongs to   *)
(* and its token; an optional field is a sequence of at most one element.  *)
(***************************************************************************)
EXTENDS Naturals, Sequences, SequencesExt, FiniteSets, TLC

\* One step of a converter: its next state and the events it returns.
Emit(st, evs) == [st |-> st, ev |-> evs]
Then(r, F(_)) == LET s == F(r.st) IN Emit(s.st, r.ev \o s.ev)
When(c, r, F(_)) == IF c THEN Then(r, F) ELSE r

\* The last of xs, or d.
LastOr(xs, d) == IF xs = <<>> THEN d ELSE Last(xs)

-----------------------------------------------------------------------------
\* Anthropic: blocks are opened, filled and closed one by one.
MessageStart == [e |-> "message_start"]
BlockStart(at, kind) == [e |-> "content_block_start", at |-> at, kind |-> kind]
BlockDelta(at, kind, add) ==
  [e |-> "content_block_delta", at |-> at, kind |-> kind, add |-> add]
BlockStop(at) == [e |-> "content_block_stop", at |-> at]
MessageDelta(why, use) == [e |-> "message_delta", why |-> why, use |-> use]
MessageStop == [e |-> "message_stop"]

\* Responses: items are added and filled; the events that end an item carry it
\* whole, and are one event here.
Created == <<[e |-> "created"], [e |-> "in_progress"]>>
ItemAdded(at, kind) == [e |-> "item_added", at |-> at, kind |-> kind]
PartAdded(at) == [e |-> "part_added", at |-> at]
ItemDelta(at, kind, add) == [e |-> "item_delta", at |-> at, kind |-> kind, add |-> add]
ItemDone(at, kind, all) == [e |-> "item_done", at |-> at, kind |-> kind, all |-> all]
Completed(why, items, use) ==
  [e |-> "completed", why |-> why, items |-> items, use |-> use]
Item(at, kind, all) == [at |-> at, kind |-> kind, all |-> all]
Failed == [e |-> "failed"]

\* Chat: chunks with any of a role, text, reasoning, calls, a finish reason and
\* a usage; a chunk without choices has only the usage.
Chunk == [e |-> "chunk", role |-> FALSE, text |-> <<>>, think |-> <<>>,
          calls |-> <<>>, why |-> <<>>, use |-> <<>>, choices |-> TRUE]
Call(tc, name, add) == [tc |-> tc, name |-> name, add |-> add]
Done == [e |-> "[DONE]"]

\* An error event as each protocol's upstream sends it, and as the executor does.
ErrorEvent == [e |-> "error"]

\* Finish reasons are "stop", "length" and "tool" in every protocol; Responses
\* derives them from the status and the items.
ResponsesFinish(c) ==
  CASE c.why = "length" -> "length"
    [] \E i \in DOMAIN c.items : c.items[i].kind = "tool" -> "tool"
    [] OTHER -> "stop"
=============================================================================
