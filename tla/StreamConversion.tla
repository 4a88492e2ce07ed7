--------------------------- MODULE StreamConversion ---------------------------
(***************************************************************************)
(* What a client receives of a stream: the loop of the stream executor     *)
(* (proxy/stream_executor.py) that reads the upstream's events, converts   *)
(* them to the client's protocol or relays them, filters thoughts from     *)
(* their text, and sees to it that the stream ends, however the upstream's *)
(* does.                                                                   *)
(***************************************************************************)
EXTENDS StreamUpstream, ToAnthropicStream, ToResponsesStream, ToChatStream, ThinkFilter

CONSTANTS
  Directions,     \* sources, targets, filter settings and usage wishes
  PlainTexts,     \* texts of unfiltered streams
  TaggedTexts,    \* texts of filtered ones
  MaxPlain,       \* bound on the events with content, unfiltered
  MaxTagged,      \* and filtered
  MaxRecorded     \* max_stream_chunks

ASSUME ConversionAssumption ==
  MaxRecorded \in Nat \ {0} /\ MaxPlain \in Nat /\ MaxTagged \in Nat

VARIABLES
  dir,      \* one of Directions
  up,       \* the upstream
  conv,     \* the converter's state
  tf,       \* the filter's state
  last,     \* index of the last delta converted for an Anthropic client
  out,      \* everything the client has received
  ended,    \* kinds of terminal events among the recorded chunks
  stage     \* "reading", "closed", "failed" or "preflight"

vars == <<dir, up, conv, tf, last, out, ended, stage>>

-----------------------------------------------------------------------------
Converted == dir.src # dir.tgt
Emitted == out # <<>>

Convert(st, ev) ==
  CASE ~Converted -> Emit(st, <<ev>>)
    [] dir.src = "chat" /\ dir.tgt = "anthropic" -> ChatToAnthropic(st, ev)
    [] dir.src = "responses" /\ dir.tgt = "anthropic" -> ResponsesToAnthropic(st, ev)
    [] dir.src = "chat" /\ dir.tgt = "responses" -> ChatToResponses(st, ev)
    [] dir.src = "anthropic" /\ dir.tgt = "responses" -> AnthropicToResponses(st, ev)
    [] dir.src = "anthropic" /\ dir.tgt = "chat" -> AnthropicToChat(st, ev, dir.wantsUsage)
    [] dir.src = "responses" /\ dir.tgt = "chat" -> ResponsesToChat(st, ev, dir.wantsUsage)

finalize_stream(st) ==
  CASE dir.tgt = "anthropic" -> FinalizeAnthropic(st, dir.src)
    [] dir.tgt = "responses" /\ dir.src = "chat" -> FinalizeChat(st)
    [] dir.tgt = "responses" /\ dir.src = "anthropic" -> finalize_anthropic_stream(st)
    [] OTHER -> Emit(st, <<>>)

\* Events as they reach the client, after the filter f.
Filtered(f, evs) ==
  IF ~dir.filter THEN Emit(f, evs)
  ELSE FoldLeft(LAMBDA acc, ev : Then(acc, LAMBDA s : FilterEvent(s, ev)), Emit(f, <<>>), evs)

LastDelta(evs) ==
  LET deltas == SelectSeq(evs, LAMBDA ev : ev.e = "content_block_delta")
  IN IF dir.tgt = "anthropic" /\ deltas # <<>> THEN Last(deltas).at ELSE last

\* Terminal events are looked for among the recorded chunks of the upstream,
\* and of an Anthropic client's only if these are relayed.
TerminalMissing ==
  CASE dir.tgt = "anthropic" -> Converted \/ "message_stop" \notin ended
    [] dir.tgt = "responses" -> "completed" \notin ended
    [] dir.tgt = "chat"      -> "[DONE]" \notin ended

\* The usage of a completion made up here is the one counted so far.
TerminalEvents ==
  IF ~TerminalMissing THEN <<>>
  ELSE CASE dir.tgt = "anthropic" -> <<MessageStop>>
         [] dir.tgt = "responses" -> <<Completed("completed", <<>>, up.use)>>
         [] dir.tgt = "chat"      -> <<Done>>

\* The text kept back, under the index of the last delta.
Residue ==
  IF ~dir.filter \/ flush(tf) = <<>> THEN <<>>
  ELSE <<[e |-> "residue", at |-> last, add |-> flush(tf)]>>

Closing(phase) ==
  LET final == IF Converted THEN finalize_stream(conv) ELSE Emit(conv, <<>>)
      shown == Filtered(NoFilter, final.ev)
  IN /\ conv' = final.st /\ tf' = shown.st
     /\ out' = out \o Residue \o shown.ev \o
                 (CASE dir.tgt = "chat" -> <<Done>>
                    [] dir.tgt # "chat" /\ phase = "eof" /\ ~Converted -> TerminalEvents
                    [] OTHER -> <<>>)

ErrorEvents ==
  CASE dir.tgt = "anthropic" -> <<ErrorEvent, MessageStop>>
    [] dir.tgt = "responses" -> <<ErrorEvent, Failed>>
    [] dir.tgt = "chat"      -> <<ErrorEvent, Done>>

-----------------------------------------------------------------------------
Init ==
  /\ dir \in Directions
  /\ up = IF dir.filter THEN NothingSent(TaggedTexts, MaxTagged)
          ELSE NothingSent(PlainTexts, MaxPlain)
  /\ conv = CASE dir.tgt = "anthropic" -> AnthropicState
              [] dir.tgt = "responses" -> ResponseState
              [] dir.tgt = "chat" -> ChatState
  /\ tf = NoFilter /\ last = 0 /\ out = <<>> /\ ended = {} /\ stage = "reading"

UpstreamSends ==
  /\ stage = "reading"
  /\ \E s \in May(dir.src, up) :
       LET r == Convert(conv, s.ev)
           shown == Filtered(tf, r.ev)
       IN /\ up' = s.up
          /\ conv' = r.st /\ tf' = shown.st /\ out' = out \o shown.ev
          /\ last' = LastDelta(r.ev)
          /\ ended' = IF up.sent < MaxRecorded THEN ended \cup {s.ev.e} ELSE ended
  /\ UNCHANGED <<dir, stage>>

\* A Chat upstream says that it is done; then only its end is waited for.
DoneArrives ==
  /\ stage = "reading" /\ dir.src = "chat" /\ up.phase # "over"
  /\ Closing("done")
  /\ up' = [up EXCEPT !.phase = "over"]
  /\ ended' = ended \cup {"[DONE]"}
  /\ UNCHANGED <<dir, last, stage>>

Eof ==
  /\ stage = "reading" /\ stage' = "closed"
  /\ IF "[DONE]" \notin ended /\ Emitted
     THEN Closing("eof") ELSE UNCHANGED <<conv, tf, out>>
  /\ UNCHANGED <<dir, up, last, ended>>

\* An error the upstream reports is relayed in its own protocol's form.
UpstreamReportsError ==
  /\ stage = "reading" /\ up.phase # "over"
  /\ stage' = IF Emitted THEN "failed" ELSE "preflight"
  /\ out' = IF Emitted THEN out \o <<ErrorEvent>> \o TerminalEvents ELSE out
  /\ UNCHANGED <<dir, up, conv, tf, last, ended>>

\* The connection breaks, the upstream sends heartbeats only, or a chunk cannot
\* be converted.
TransportFails ==
  /\ stage = "reading"
  /\ stage' = IF Emitted THEN "failed" ELSE "preflight"
  /\ out' = IF Emitted THEN out \o ErrorEvents ELSE out
  /\ UNCHANGED <<dir, up, conv, tf, last, ended>>

-----------------------------------------------------------------------------
(* An upstream that answers with a whole body instead of a stream: at most  *)
(* a thought, a text and a call, in this order.                             *)

Bodies ==
  {[i \in DOMAIN kinds |->
      [kind |-> kinds[i], all |-> <<[part |-> i, n |-> 0, t |-> "a"]>>]] :
     kinds \in {<<"text">>, <<"think", "text">>, <<"text", "tool">>, <<"tool">>}}

OfKind(parts, kind) ==
  LET at == {i \in DOMAIN parts : parts[i].kind = kind}
  IN IF at = {} THEN <<>> ELSE parts[CHOOSE i \in at : TRUE].all

AnthropicFromBody(parts, why, use) ==
  <<MessageStart>>
  \o FlattenSeq([i \in DOMAIN parts |->
       <<BlockStart(i - 1, parts[i].kind), BlockDelta(i - 1, parts[i].kind, parts[i].all),
         BlockStop(i - 1)>>])
  \o <<MessageDelta(<<why>>, use), MessageStop>>

\* Only the text of a message is sent as a delta.
ResponsesFromBody(parts, why, use) ==
  <<Created[1]>>
  \o FlattenSeq([i \in DOMAIN parts |->
       <<ItemAdded(i - 1, parts[i].kind)>>
       \o (IF parts[i].kind # "text" THEN <<>>
           ELSE <<PartAdded(i - 1), ItemDelta(i - 1, "text", parts[i].all)>>)
       \o <<ItemDone(i - 1, parts[i].kind, parts[i].all)>>])
  \o <<Completed(why, [i \in DOMAIN parts |-> Item(i - 1, parts[i].kind, parts[i].all)], use)>>

ChatFromBody(parts, why, use) ==
  <<RoleChunk>>
  \o SelectSeq(<<[Chunk EXCEPT !.think = OfKind(parts, "think")],
                 [Chunk EXCEPT !.text = OfKind(parts, "text")],
                 [Chunk EXCEPT !.calls = IF OfKind(parts, "tool") = <<>> THEN <<>>
                                         ELSE <<Call(0, TRUE, OfKind(parts, "tool"))>>]>>,
               LAMBDA c : c # Chunk)
  \o <<[Chunk EXCEPT !.why = <<why>>], UsageChunk(use)>>

\* For a Chat client the body is not converted: a foreign one is sent as it is.
WholeBody ==
  /\ stage = "reading" /\ up.phase = "head"
  /\ \E parts \in Bodies :
       \E why \in Reasons([up EXCEPT !.parts = parts]) :
         /\ up' = [up EXCEPT !.phase = "whole", !.parts = parts,
                             !.why = <<why>>, !.use = <<1>>]
         /\ out' = CASE dir.tgt = "anthropic" -> AnthropicFromBody(parts, why, <<1>>)
                     [] dir.tgt = "responses" -> ResponsesFromBody(parts, why, <<1>>)
                     [] dir.tgt = "chat" /\ ~Converted ->
                          Append(Filtered(tf, ChatFromBody(parts, why, <<1>>)).ev, Done)
                     [] OTHER -> <<[e |-> "body"], Done>>
  /\ stage' = "closed"
  /\ UNCHANGED <<dir, conv, tf, last, ended>>

\* A body that cannot be read is an error of a stream already under way.
UnreadableBody ==
  /\ stage = "reading" /\ up.phase = "head"
  /\ out' = ErrorEvents /\ stage' = "failed"
  /\ UNCHANGED <<dir, up, conv, tf, last, ended>>

Next ==
  \/ UpstreamSends \/ DoneArrives \/ Eof \/ UpstreamReportsError \/ TransportFails
  \/ WholeBody \/ UnreadableBody

Spec == Init /\ [][Next]_vars

-----------------------------------------------------------------------------
(* What the client makes of what it receives.                               *)

Opening == {"content_block_start", "item_added"}
Growing == {"content_block_delta", "item_delta"}
Ending == {"content_block_stop", "item_done"}
Terminal == {"message_stop", "completed", "failed", "[DONE]"}

Gathered(In(_)) == FlattenSeq([i \in DOMAIN out |-> In(out[i])])

At(kind, at, ev) ==
  IF ev.e \in Growing /\ ev.kind = kind /\ ev.at = at THEN ev.add ELSE <<>>

TextReceived == Gathered(LAMBDA ev : IF ev.e = "residue" THEN ev.add ELSE TextOf(ev))

ThoughtReceived ==
  Gathered(LAMBDA ev : CASE ev.e = "chunk" -> ev.think
                         [] ev.e \in Growing /\ ev.kind = "think" -> ev.add
                         [] OTHER -> <<>>)

Openings == SelectSeq(out, LAMBDA ev : ev.e \in Opening)
CallOpenings == SelectSeq(Openings, LAMBDA ev : ev.kind = "tool")

\* The arguments of the k-th call.
CallReceived(k) ==
  IF dir.tgt = "chat"
  THEN Gathered(LAMBDA ev :
         IF ev.e # "chunk" THEN <<>>
         ELSE FlattenSeq([i \in DOMAIN ev.calls |->
                IF ev.calls[i].tc = k - 1 THEN ev.calls[i].add ELSE <<>>]))
  ELSE IF k > Len(CallOpenings) THEN <<>>
  ELSE Gathered(LAMBDA ev : At("tool", CallOpenings[k].at, ev))

SaidParts(kind) == SelectSeq(up.parts, LAMBDA p : p.kind = kind)
Said(kind) ==
  LET parts == SaidParts(kind) IN FlattenSeq([i \in DOMAIN parts |-> parts[i].all])

\* The text outside all tags; a start tag hides all up to the next end tag.
Visible(s) ==
  LET hidden(i) == \E j \in 1..i : /\ Matches(s, Start, j)
                                   /\ \A k \in j..i : Matches(s, End, k) => k + Len(End) > i
      shown == SelectSeq([i \in DOMAIN s |-> i], LAMBDA i : ~hidden(i))
  IN [i \in DOMAIN shown |-> s[shown[i]]]

Relayed == up.phase = "whole" /\ dir.tgt = "chat" /\ Converted

-----------------------------------------------------------------------------
(* What a stream's client may rely on, whoever answers it in what protocol *)

\* Text that comes with the role is not read on the way to Responses.
HeardText ==
  IF up.merged /\ dir.src = "chat" /\ dir.tgt = "responses"
  THEN SelectSeq(Said("text"), LAMBDA p : p.n # 1) ELSE Said("text")

\* The client's content is what the upstream said, in order and in its place:
\* text without the thoughts in it, but for what the filter holds; the thoughts
\* that have a place of their own; and each call's arguments.  Left out are the
\* text that comes with the role on the way to Responses (chat_stream_chunk_to_
\* response returns at the role), foreign bodies relayed to Chat clients, and
\* what only the items of a Responses body carry.
ContentFaithful ==
  LET held == IF dir.filter /\ ~tf.inside THEN tf.buffer ELSE <<>>
  IN ~Relayed =>
       /\ TextReceived \o held = IF dir.filter THEN Visible(HeardText) ELSE HeardText
       /\ ~(up.phase = "whole" /\ dir.tgt = "responses") =>
            /\ ThoughtReceived = Said("think")
            /\ \A k \in DOMAIN SaidParts("tool") : CallReceived(k) = SaidParts("tool")[k].all

\* Blocks and items are numbered from 0 on, grow and end only between their
\* beginning and their end, and end once; an Anthropic block begins only when
\* all others have ended (stream_anthropic_to_response.py and clients rely on it).
BlocksNest ==
  \A i \in DOMAIN out :
    LET ev == out[i]
        before(es) == {j \in 1..(i - 1) : out[j].e \in es}
    IN /\ ev.e \in Growing \cup Ending =>
            \E j \in before(Opening) :
              /\ out[j].at = ev.at
              /\ ev.e \in Growing => out[j].kind = ev.kind
              /\ \A k \in before(Ending) : out[k].at # ev.at
       /\ ev.e \in Opening =>
            /\ ev.at = Cardinality(before(Opening))
            /\ dir.tgt = "anthropic" => Cardinality(before(Ending)) = ev.at

\* The event that ends a Responses item, and the completion, repeat the item as
\* its deltas told it.  Left out are thoughts in filtered text and the reasoning
\* of several Anthropic blocks, which the code repeats though it told less, and
\* the empty completions that a relayed stream or a failed one may end with.
EndsTellTheWhole ==
  LET exempt(kind) ==
        \/ kind = "text" /\ dir.filter
        \/ kind = "think" /\ Len(SaidParts("think")) > 1
      told(item) == exempt(item.kind) \/ item.all = Gathered(LAMBDA ev : At(item.kind, item.at, ev))
  IN dir.tgt = "responses" /\ up.phase # "whole" =>
       \A i \in DOMAIN out :
         /\ out[i].e = "item_done" => told(out[i])
         /\ out[i].e = "completed" /\ Converted /\ stage # "failed" =>
              /\ \A k \in DOMAIN out[i].items : told(out[i].items[k])
              /\ \A k \in DOMAIN Openings :
                   \/ \E n \in DOMAIN out[i].items :
                        out[i].items[n].at = Openings[k].at /\ out[i].items[n].kind = Openings[k].kind
                   \/ (Openings[k].kind = "think" /\ Said("think") = <<>>)

\* A stream of which the client has got anything ends for it, with all blocks
\* closed if it ended in order, and at most once, whether the upstream said so,
\* left or broke off.  Left out are a Responses upstream that ends without a
\* completion, for an Anthropic client, and streams longer than what is recorded.
EndsOnce ==
  LET ends == {i \in DOMAIN out : out[i].e \in Terminal}
      unended == /\ dir.src = "responses" /\ dir.tgt = "anthropic" /\ stage = "closed"
                 /\ up.phase \notin {"over", "whole"}
      done == {out[i].at : i \in {j \in DOMAIN out : out[j].e \in Ending}}
  IN /\ stage \in {"closed", "failed"} /\ Emitted /\ ~unended => ends # {}
     /\ stage = "failed" => Last(out).e \in Terminal
     /\ stage \in {"reading", "closed"} /\ up.sent <= MaxRecorded => Cardinality(ends) <= 1
     /\ stage = "closed" /\ up.sent <= MaxRecorded =>
          \A i \in ends : \A j \in DOMAIN out : j > i => out[j].e = "residue"
     /\ stage = "closed" /\ ends # {} /\ Converted /\ dir.tgt # "chat" =>
          \A k \in DOMAIN Openings : Openings[k].at \in done

\* A client can read the stream to its end whatever happens upstream
\* (stream_executor.py, the converters).
WellFormed == BlocksNest /\ EndsOnce

\* The reason for which an upstream stopped is told once and as it was, and so
\* is the usage, wherever the upstream put it.  Left out are a reason that
\* shares a chunk with text that the filter takes, and foreign bodies.
OutcomeTold ==
  LET whys == Gathered(LAMBDA ev : CASE ev.e \in {"message_delta", "chunk"} -> ev.why
                                     [] ev.e = "completed" -> <<ResponsesFinish(ev)>>
                                     [] OTHER -> <<>>)
      uses == Gathered(LAMBDA ev : CASE ev.e \in {"message_delta", "completed", "chunk"} -> ev.use
                                     [] OTHER -> <<>>)
      asked == dir.tgt # "chat" \/ ~Converted \/ (dir.wantsUsage /\ up.phase = "over")
  IN stage = "closed" /\ up.why # <<>> /\ ~Relayed /\ up.sent <= MaxRecorded
     /\ ~(dir.filter /\ dir.src = "chat" /\ ~Converted) =>
       /\ whys = up.why
       /\ asked => uses = up.use
=============================================================================
