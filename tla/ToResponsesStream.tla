-------------------------- MODULE ToResponsesStream --------------------------
(***************************************************************************)
(* The converter of Chat and Anthropic streams for Responses clients       *)
(* (converters/response_stream_state.py, stream_chat_to_response.py,       *)
(* stream_anthropic_to_response.py).  A call's id is its index or block.   *)
(***************************************************************************)
EXTENDS StreamWire

ResponseState ==
  [fresh |-> TRUE, created |-> FALSE, next |-> 0, items |-> <<>>, active |-> <<>>,
   parted |-> FALSE, texts |-> <<>>, calls |-> <<>>, reasoning |-> <<>>,
   thinking |-> <<>>, blocks |-> <<>>, use |-> <<>>, pending |-> <<>>,
   completed |-> FALSE]

emit_created(st) ==
  IF st.created THEN Emit(st, <<>>)
  ELSE Emit([st EXCEPT !.created = TRUE], Created)

\* A new output item takes the next index.
NewItem(st, kind, call) ==
  [st EXCEPT !.next = @ + 1,
             !.items = Append(@, [at |-> st.next, kind |-> kind, call |-> call])]

Contents(st, item) ==
  CASE item.kind = "text"  -> st.texts[item.at]
    [] item.kind = "think" -> st.reasoning
    [] item.kind = "tool"  -> st.calls[item.call].args

\* The items as response.completed lists them; one empty message if there are none.
build_output_items(st) ==
  LET kept == SelectSeq(st.items, LAMBDA i : i.kind # "think" \/ st.reasoning # <<>>)
  IN IF kept = <<>> THEN <<Item(0, "text", <<>>)>>
     ELSE [i \in DOMAIN kept |-> Item(kept[i].at, kept[i].kind, Contents(st, kept[i]))]

CompletedNow(st, why) ==
  Completed(IF why = "length" THEN why ELSE "completed", build_output_items(st), st.use)

ItemDoneNow(st, item) == ItemDone(item.at, item.kind, Contents(st, item))

-----------------------------------------------------------------------------
StartText(st) ==
  [NewItem(st, "text", 0) EXCEPT !.active = <<st.next>>, !.texts = (st.next :> <<>>) @@ @]

emit_text_done(st) ==
  IF st.active = <<>> THEN Emit(st, <<>>)
  ELSE Emit([st EXCEPT !.active = <<>>, !.parted = FALSE],
            <<ItemDone(st.active[1], "text", st.texts[st.active[1]])>>)

\* The ends of all items but the messages already ended, and the completion.
build_final_events(st, why) ==
  LET ended(i) == i.kind = "text" /\ st.active # <<i.at>>
      open == SelectSeq(st.items, LAMBDA i : ~ended(i))
  IN [i \in DOMAIN open |-> ItemDoneNow(st, open[i])] \o <<CompletedNow(st, why)>>

\* After the finish reason the completion waits for the usage.
queue_final(st, why) ==
  IF st.completed THEN Emit([st EXCEPT !.pending = <<>>], <<>>)
  ELSE LET final == build_final_events(st, why)
       IN Emit([st EXCEPT !.pending = <<Last(final)>>], Front(final))

release_pending(st) ==
  IF st.pending = <<>> THEN Emit(st, <<>>)
  ELSE Emit([st EXCEPT !.pending = <<>>, !.completed = TRUE],
            <<[st.pending[1] EXCEPT !.use = st.use]>>)

ChatText(st, add) ==
  LET s  == IF st.active = <<>> THEN StartText(st) ELSE st
      at == s.active[1]
  IN Emit([s EXCEPT !.parted = TRUE, !.texts[at] = @ \o add],
          (IF st.active = <<>> THEN <<ItemAdded(at, "text")>> ELSE <<>>)
          \o (IF s.parted THEN <<>> ELSE <<PartAdded(at)>>)
          \o <<ItemDelta(at, "text", add)>>)

\* Faulty: arguments that come with the name are sent but not kept.
ChatCallHeader(st, call) ==
  LET s == IF call.name
           THEN [NewItem(st, "tool", call.tc) EXCEPT
                   !.calls = (call.tc :> [at |-> st.next, args |-> <<>>]) @@ @]
           ELSE [st EXCEPT !.calls[call.tc].args = @ \o call.add]
      at == s.calls[call.tc].at
  IN Emit(s, (IF call.name THEN <<ItemAdded(at, "tool")>> ELSE <<>>)
             \o (IF call.add = <<>> THEN <<>> ELSE <<ItemDelta(at, "tool", call.add)>>))

\* A call that has a name is a new item, whatever its index.
ChatCall(st, call) ==
  LET s == IF call.name
           THEN [NewItem(st, "tool", call.tc) EXCEPT
                   !.calls = (call.tc :> [at |-> st.next, args |-> <<>>]) @@ @]
           ELSE st
      known == call.tc \in DOMAIN s.calls
      at == IF known THEN s.calls[call.tc].at ELSE call.tc
  IN Emit(IF known THEN [s EXCEPT !.calls[call.tc].args = @ \o call.add] ELSE s,
          (IF call.name THEN <<ItemAdded(at, "tool")>> ELSE <<>>)
          \o (IF call.add = <<>> THEN <<>> ELSE <<ItemDelta(at, "tool", call.add)>>))

\* All reasoning of a Chat stream goes to one item.
ChatThought(st, add) ==
  LET s == IF st.thinking # <<>> THEN st
           ELSE [NewItem(st, "think", 0) EXCEPT !.thinking = <<st.next>>]
      at == s.thinking[1]
  IN Emit([s EXCEPT !.reasoning = @ \o add],
          (IF st.thinking # <<>> THEN <<>> ELSE <<ItemAdded(at, "think"), PartAdded(at)>>)
          \o <<ItemDelta(at, "think", add)>>)

ChatDelta(st, c) ==
  LET written == When(c.text # <<>>, Emit(st, <<>>), LAMBDA s : ChatText(s, c.text))
      called  == FoldLeft(LAMBDA acc, call : Then(acc, LAMBDA s : ChatCall(s, call)),
                          When(c.calls # <<>>, written, emit_text_done), c.calls)
      thought == When(c.think # <<>>, called, LAMBDA s : ChatThought(s, c.think))
      ended   == When(c.why # <<>>, thought, LAMBDA s : queue_final(s, c.why[1]))
      opened  == emit_created(ended.st)
  IN IF ended.ev = <<>> THEN ended ELSE Emit(opened.st, opened.ev \o ended.ev)

\* A chunk with a role announces the response, and nothing else of it is read.
ChatToResponses(st0, c) ==
  LET st == [st0 EXCEPT !.fresh = FALSE, !.use = IF c.use = <<>> THEN @ ELSE c.use]
  IN IF ~c.choices THEN release_pending(st)
     ELSE IF c.role THEN emit_created(st)
     ELSE ChatDelta(st, c)

FinalizeChat(st) ==
  IF st.fresh THEN Emit(st, <<>>)
  ELSE IF st.pending # <<>> THEN release_pending(st)
  ELSE IF st.completed THEN Emit(st, <<>>)
  ELSE Emit([st EXCEPT !.completed = TRUE], build_final_events(st, "stop"))

-----------------------------------------------------------------------------
BlockOpens(st, ev) ==
  LET s == IF ev.kind = "text" THEN StartText(st) ELSE NewItem(st, ev.kind, ev.at)
  IN Emit([s EXCEPT !.blocks = (ev.at :> [at |-> st.next, kind |-> ev.kind,
                                          call |-> ev.at, closed |-> FALSE]) @@ @,
                    !.calls = IF ev.kind = "tool"
                              THEN (ev.at :> [at |-> st.next, args |-> <<>>]) @@ @ ELSE @],
          <<ItemAdded(st.next, ev.kind)>>
          \o (IF ev.kind = "tool" THEN <<>> ELSE <<PartAdded(st.next)>>))

BlockGrows(st, ev) ==
  LET at == st.blocks[ev.at].at
  IN Emit(CASE ev.kind = "text"  -> [st EXCEPT !.texts[at] = @ \o ev.add]
            [] ev.kind = "tool"  -> [st EXCEPT !.calls[ev.at].args = @ \o ev.add]
            [] ev.kind = "think" -> [st EXCEPT !.reasoning = @ \o ev.add],
          <<ItemDelta(at, ev.kind, ev.add)>>)

\* The reasoning of a block that ends is that of all blocks so far.
build_block_done_events(st, b) ==
  Emit([st EXCEPT !.blocks[b].closed = TRUE], <<ItemDoneNow(st, st.blocks[b])>>)

AnthropicToResponses(st0, ev) ==
  LET st == [st0 EXCEPT !.fresh = FALSE] IN
  CASE ev.e = "message_start" -> emit_created(st)
    [] ev.e = "content_block_start" -> BlockOpens(st, ev)
    [] ev.e = "content_block_delta" -> BlockGrows(st, ev)
    [] ev.e = "content_block_stop" ->
         IF st.blocks[ev.at].closed THEN Emit(st, <<>>)
         ELSE build_block_done_events(st, ev.at)
    [] ev.e = "message_delta" ->
         LET s == [st EXCEPT !.use = ev.use, !.completed = TRUE]
         IN IF st.completed THEN Emit(s, <<>>)
            ELSE Emit(s, <<CompletedNow(s, LastOr(ev.why, "stop"))>>)
    [] OTHER -> Emit(st, <<>>)

finalize_anthropic_stream(st) ==
  IF st.fresh \/ st.completed THEN Emit(st, <<>>)
  ELSE LET open == SetToSortSeq({b \in DOMAIN st.blocks : ~st.blocks[b].closed}, <)
           closed == FoldLeft(LAMBDA acc, b :
                                Then(acc, LAMBDA s : build_block_done_events(s, b)),
                              Emit(st, <<>>), open)
       IN Then(closed, LAMBDA s : Emit([s EXCEPT !.completed = TRUE],
                                       <<CompletedNow(s, "stop")>>))
=============================================================================
