----------------------------- MODULE ToChatStream -----------------------------
(***************************************************************************)
(* The converter of Anthropic and Responses streams for Chat clients       *)
(* (converters/to_chat.py).                                                *)
(***************************************************************************)
EXTENDS StreamWire

ChatState == [next |-> 0, tc |-> <<>>, use |-> <<>>, finished |-> FALSE]

RoleChunk == [Chunk EXCEPT !.role = TRUE]

\* A call's block or item is remembered with the index its client knows it by.
NewCall(st, at) ==
  Emit([st EXCEPT !.next = @ + 1, !.tc = (at :> st.next) @@ @],
       <<[Chunk EXCEPT !.calls = <<Call(st.next, TRUE, <<>>)>>]>>)

\* Arguments without a known call go to the latest one.
CallOf(st, at) ==
  IF at \in DOMAIN st.tc THEN st.tc[at] ELSE IF st.next = 0 THEN 0 ELSE st.next - 1

DeltaChunk(st, ev) ==
  CASE ev.kind = "text"  -> [Chunk EXCEPT !.text = ev.add]
    [] ev.kind = "think" -> [Chunk EXCEPT !.think = ev.add]
    [] ev.kind = "tool"  -> [Chunk EXCEPT !.calls = <<Call(CallOf(st, ev.at), FALSE, ev.add)>>]

UsageChunk(use) == [Chunk EXCEPT !.choices = FALSE, !.use = use]

AnthropicToChat(st, ev, wantsUsage) ==
  CASE ev.e = "message_start" -> Emit([st EXCEPT !.next = 0], <<RoleChunk>>)
    [] ev.e = "content_block_start" /\ ev.kind = "tool" -> NewCall(st, ev.at)
    [] ev.e = "content_block_start" /\ ev.kind = "text" -> Emit(st, <<Chunk>>)
    [] ev.e = "content_block_delta" -> Emit(st, <<DeltaChunk(st, ev)>>)
    [] ev.e = "message_delta" ->
         LET s == [st EXCEPT !.use = IF ev.use = <<>> THEN @ ELSE ev.use]
         IN IF ev.why = <<>> \/ st.finished THEN Emit(s, <<>>)
            ELSE Emit([s EXCEPT !.finished = TRUE], <<[Chunk EXCEPT !.why = ev.why]>>)
    [] ev.e = "message_stop" /\ wantsUsage -> Emit(st, <<UsageChunk(st.use)>>)
    [] OTHER -> Emit(st, <<>>)

ResponsesToChat(st, ev, wantsUsage) ==
  CASE ev.e = "created" -> Emit([st EXCEPT !.next = 0], <<RoleChunk>>)
    [] ev.e = "item_added" /\ ev.kind = "tool" -> NewCall(st, ev.at)
    [] ev.e = "item_delta" -> Emit(st, <<DeltaChunk(st, ev)>>)
    [] ev.e = "completed" ->
         Emit(st, <<[Chunk EXCEPT !.why = <<ResponsesFinish(ev)>>]>>
                  \o (IF wantsUsage THEN <<UsageChunk(ev.use)>> ELSE <<>>))
    [] OTHER -> Emit(st, <<>>)
=============================================================================
