---------------------------- MODULE StreamUpstream ----------------------------
(***************************************************************************)
(* What the upstream of a stream may send next, in each protocol.  Its     *)
(* state counts what it has sent and keeps the parts of its answer: texts, *)
(* thoughts and calls, each a sequence of pieces.                          *)
(***************************************************************************)
EXTENDS StreamWire

CONSTANTS
  MaxParts     \* bound on the parts of an answer

ASSUME UpstreamAssumption == MaxParts \in Nat

\* texts: the token sequences the text of an event may be; left: how many more
\* events may have content.
NothingSent(texts, left) ==
  [texts |-> texts, left |-> left, sent |-> 0, phase |-> "head", parts |-> <<>>, open |-> FALSE, why |-> <<>>,
   use |-> <<>>, merged |-> FALSE]

Kinds == {"text", "think", "tool"}

\* The reason fits the parts, in every protocol.
Reasons(up) ==
  {"length", IF \E i \in DOMAIN up.parts : up.parts[i].kind = "tool" THEN "tool" ELSE "stop"}

Pieces(up, kind) ==
  {[i \in DOMAIN ts |-> [part |-> Len(up.parts), n |-> up.sent, t |-> ts[i]]] :
     ts \in IF up.left = 0 THEN {} ELSE IF kind = "text" THEN up.texts ELSE {<<"a">>}}

\* The answer with an event more, a part more, or more of its last part.
Sends(up) == [up EXCEPT !.sent = @ + 1]
Opens(up, kind) ==
  [Sends(up) EXCEPT !.parts = Append(@, [kind |-> kind, all |-> <<>>]), !.open = TRUE]
Grows(up, add) ==
  [up EXCEPT !.parts[Len(up.parts)].all = @ \o add, !.left = @ - 1]

MayOpen(up) == Len(up.parts) < MaxParts

\* Pairs of the next state and the event.
Sent(up, ev) == [up |-> up, ev |-> ev]

PartsAs(up) ==
  [i \in DOMAIN up.parts |-> Item(i - 1, up.parts[i].kind, up.parts[i].all)]

AnthropicMay(up) ==
  LET at == Len(up.parts) - 1
      kind == up.parts[Len(up.parts)].kind
  IN CASE up.phase = "head" -> {Sent([Sends(up) EXCEPT !.phase = "body"], MessageStart)}
       [] up.phase = "body" /\ up.open ->
            {Sent(Grows(Sends(up), add), BlockDelta(at, kind, add)) : add \in Pieces(up, kind)}
            \cup {Sent([Sends(up) EXCEPT !.open = FALSE], BlockStop(at))}
       [] up.phase = "body" /\ ~up.open ->
            {Sent(Opens(up, k), BlockStart(at + 1, k)) :
               k \in IF MayOpen(up) THEN Kinds ELSE {}}
            \cup {Sent([Sends(up) EXCEPT !.phase = "tail", !.why = <<w>>, !.use = <<1>>],
                       MessageDelta(<<w>>, <<1>>)) : w \in Reasons(up)}
       [] up.phase = "tail" -> {Sent([Sends(up) EXCEPT !.phase = "over"], MessageStop)}
       [] OTHER -> {}

\* A response may also end as an incomplete one.
ResponsesMay(up) ==
  LET at == Len(up.parts) - 1
      part == up.parts[Len(up.parts)]
  IN CASE up.phase = "head" -> {Sent([Sends(up) EXCEPT !.phase = "body"], Created[1])}
       [] up.phase = "body" /\ up.open ->
            {Sent(Grows(Sends(up), add), ItemDelta(at, part.kind, add)) :
               add \in Pieces(up, part.kind)}
            \cup {Sent([Sends(up) EXCEPT !.open = FALSE], ItemDone(at, part.kind, part.all))}
       [] up.phase = "body" /\ ~up.open ->
            {Sent(Opens(up, k), ItemAdded(at + 1, k)) :
               k \in IF MayOpen(up) THEN Kinds ELSE {}}
            \cup {Sent([Sends(up) EXCEPT !.phase = "over", !.why = <<w>>, !.use = <<1>>],
                       Completed(w, PartsAs(up), <<1>>)) : w \in Reasons(up)}
            \cup {Sent([Sends(up) EXCEPT !.phase = "incomplete"], [e |-> "incomplete"])}
       [] OTHER -> {}

\* Parts of a Chat answer begin with their first content; a call's first chunk
\* names it.  The role may share the chunk of the first text, the reason the
\* chunk of the last, and the usage the chunk of the reason.
ChatMay(up) ==
  LET last == LastOr(up.parts, [kind |-> "none", all |-> <<>>]).kind
      to(k) == IF last = k THEN {Sends(up)} ELSE IF MayOpen(up) THEN {Opens(up, k)} ELSE {}
      tc == Cardinality({i \in DOMAIN up.parts : up.parts[i].kind = "tool"})
      body(u) == [u EXCEPT !.phase = "body"]
      texts(base) == UNION {{Sent(body(Grows(u, add)), [base EXCEPT !.text = add]) :
                               add \in Pieces(u, "text")} : u \in to("text")}
      thoughts == UNION {{Sent(body(Grows(u, add)), [Chunk EXCEPT !.think = add]) :
                            add \in Pieces(u, "think")} : u \in to("think")}
      names == {Sent(body(IF add = <<>> THEN u ELSE Grows(u, add)),
                     [Chunk EXCEPT !.calls = <<Call(tc, TRUE, add)>>]) :
                  u \in IF MayOpen(up) THEN {Opens(up, "tool")} ELSE {},
                  add \in {<<>>} \cup Pieces(Opens(up, "tool"), "tool")}
      arguments == {Sent(body(Grows(Sends(up), add)),
                         [Chunk EXCEPT !.calls = <<Call(tc - 1, FALSE, add)>>]) :
                      add \in IF last = "tool" THEN Pieces(up, "tool") ELSE {}}
      finish(s) == {Sent([s.up EXCEPT !.phase = "tail", !.why = <<w>>, !.use = u],
                         [s.ev EXCEPT !.why = <<w>>, !.use = u]) :
                      w \in Reasons(s.up), u \in {<<>>, <<1>>}}
      role == [Chunk EXCEPT !.role = TRUE]
      merged == {Sent([s.up EXCEPT !.merged = TRUE], s.ev) : s \in texts(role)}
  IN CASE up.phase = "head" -> {Sent(body(Sends(up)), role)} \cup merged \cup texts(Chunk)
       [] up.phase = "body" ->
            texts(Chunk) \cup thoughts \cup names \cup arguments
            \cup finish(Sent(Sends(up), Chunk))
            \cup UNION {finish(s) : s \in IF last = "text" THEN texts(Chunk) ELSE {}}
       [] up.phase = "tail" /\ up.use = <<>> ->
            {Sent([Sends(up) EXCEPT !.use = <<1>>], [Chunk EXCEPT !.choices = FALSE, !.use = <<1>>])}
       [] OTHER -> {}

May(src, up) ==
  CASE src = "chat" -> ChatMay(up)
    [] src = "anthropic" -> AnthropicMay(up)
    [] src = "responses" -> ResponsesMay(up)
=============================================================================
