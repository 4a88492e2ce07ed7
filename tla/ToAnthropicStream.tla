-------------------------- MODULE ToAnthropicStream --------------------------
(***************************************************************************)
(* The converter of Chat and Responses streams for Anthropic clients       *)
(* (converters/anthropic_stream_state.py, to_anthropic.py).                *)
(***************************************************************************)
EXTENDS StreamWire

AnthropicState ==
  [started |-> FALSE, open |-> FALSE, index |-> 0, kind |-> "none",
   calls |-> <<>>, pending |-> <<>>, stopSent |-> FALSE]

ensure_started(st) ==
  IF st.started THEN Emit(st, <<>>)
  ELSE Emit([st EXCEPT !.started = TRUE], <<MessageStart>>)

close_block(st, advance) ==
  IF ~st.open THEN Emit(st, <<>>)
  ELSE Emit([st EXCEPT !.open = FALSE, !.index = IF advance THEN @ + 1 ELSE @],
            <<BlockStop(st.index)>>)

StartBlock(st, kind) ==
  Emit([st EXCEPT !.open = TRUE, !.kind = kind], <<BlockStart(st.index, kind)>>)

open_block(st, kind) ==
  IF st.open /\ st.kind = kind THEN Emit(st, <<>>)
  ELSE Then(close_block(st, TRUE), LAMBDA s : StartBlock(s, kind))

append_delta(st, add) ==
  Emit(st, <<BlockDelta(st.index, IF st.kind = "none" THEN "tool" ELSE st.kind, add)>>)

\* Faulty: the block before the call is left open.
ensure_tool_blockOnTop(st, tc) ==
  IF tc \in DOMAIN st.calls THEN Emit(st, <<>>)
  ELSE StartBlock([st EXCEPT !.calls = (tc :> st.index) @@ @], "tool")

\* The blocks of a Chat upstream's calls, by the index of the call.
ensure_tool_block(st, tc) ==
  IF tc \in DOMAIN st.calls THEN Emit(st, <<>>)
  ELSE Then(close_block(st, TRUE),
            LAMBDA s : StartBlock([s EXCEPT !.calls = (tc :> s.index) @@ @], "tool"))

\* A delta goes to the block of its call if the current block is a call's.
append_call(st, call) ==
  Emit(st, IF call.add = <<>> THEN <<>>
           ELSE <<BlockDelta(IF st.kind = "tool" THEN st.calls[call.tc] ELSE st.index,
                             st.kind, call.add)>>)

\* A usage that has not arrived counts as none.
MessageStopEvents(st, why, use) ==
  IF st.stopSent THEN Emit(st, <<>>)
  ELSE Emit([st EXCEPT !.stopSent = TRUE, !.pending = <<>>],
            <<MessageDelta(<<why>>, use), MessageStop>>)

\* Faulty: the usage is not waited for.
queue_stopAtOnce(st, why, use) ==
  IF st.stopSent THEN Emit(st, <<>>)
  ELSE Then(close_block(st, FALSE), LAMBDA s : MessageStopEvents(s, why, use))

queue_stop(st, why, use) ==
  IF st.stopSent THEN Emit(st, <<>>)
  ELSE IF use = <<>> THEN Emit([st EXCEPT !.pending = <<why>>], <<>>)
  ELSE Then(close_block(st, FALSE), LAMBDA s : MessageStopEvents(s, why, use))

handle_usage_chunk(st, use) ==
  IF use = <<>> \/ ~st.started \/ st.stopSent THEN Emit(st, <<>>)
  ELSE IF st.pending # <<>> THEN MessageStopEvents(st, st.pending[1], use)
  ELSE Then(close_block(st, FALSE), LAMBDA s : MessageStopEvents(s, "stop", use))

ChatContent(r, kind, add) ==
  When(add # <<>>, r,
       LAMBDA st : Then(Then(ensure_started(st), LAMBDA s : open_block(s, kind)),
                        LAMBDA s : append_delta(s, add)))

ChatCalls(r, calls) ==
  FoldLeft(LAMBDA acc, call : Then(Then(acc, LAMBDA s : ensure_tool_block(s, call.tc)),
                                   LAMBDA s : append_call(s, call)),
           When(calls # <<>>, r, ensure_started), calls)

ChatToAnthropic(st, c) ==
  IF ~c.choices THEN handle_usage_chunk(st, c.use)
  ELSE LET started == When(c.role, Emit(st, <<>>), ensure_started)
           thought == ChatContent(started, "think", c.think)
           written == ChatContent(thought, "text", c.text)
           called  == ChatCalls(written, c.calls)
       IN When(c.why # <<>> /\ ~called.st.stopSent, called,
               LAMBDA s : Then(Then(ensure_started(s), LAMBDA t : close_block(t, FALSE)),
                               LAMBDA t : queue_stop(t, c.why[1], c.use)))

-----------------------------------------------------------------------------
\* A delta that finds no open block opens one of its own kind, but for the
\* arguments of a call: these are sent under the current index as they are.
ResponsesDelta(st, ev) ==
  IF ev.kind = "tool"
  THEN Emit([st EXCEPT !.open = TRUE], <<BlockDelta(st.index, "tool", ev.add)>>)
  ELSE Then(IF st.open THEN Emit(st, <<>>) ELSE open_block(st, ev.kind),
            LAMBDA s : append_delta(s, ev.add))

ResponsesToAnthropic(st, ev) ==
  CASE ev.e = "created" -> ensure_started(st)
    [] ev.e = "item_added" /\ ev.kind = "text" -> close_block(st, TRUE)
    [] ev.e = "item_added" /\ ev.kind # "text" -> open_block(st, ev.kind)
    [] ev.e = "item_delta" -> ResponsesDelta(st, ev)
    [] ev.e = "item_done" -> close_block(st, TRUE)
    [] ev.e = "completed" ->
         Then(close_block(st, FALSE),
              LAMBDA s : Emit([s EXCEPT !.stopSent = TRUE],
                              <<MessageDelta(<<ResponsesFinish(ev)>>, ev.use), MessageStop>>))
    [] OTHER -> Emit(st, <<>>)

\* The end of the upstream's stream: only a Chat source is made good for.
FinalizeAnthropic(st, src) ==
  IF src # "chat" \/ st.stopSent \/ ~st.started THEN Emit(st, <<>>)
  ELSE Then(close_block(st, FALSE),
            LAMBDA s : MessageStopEvents(s, LastOr(s.pending, "stop"), <<>>))
=============================================================================
