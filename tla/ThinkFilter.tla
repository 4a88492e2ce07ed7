----------------------------- MODULE ThinkFilter -----------------------------
(***************************************************************************)
(* The filter that keeps what a model thinks aloud, between a start and an *)
(* end tag, from the text of a stream (think_filter.py,                    *)
(* proxy/think_filter.py).  A tag may come in several tokens, and a chunk  *)
(* may bring several tokens.                                               *)
(***************************************************************************)
EXTENDS StreamWire

Start == <<"<", "think>">>
End == <<"<", "/", "think>">>

NoFilter == [buffer |-> <<>>, inside |-> FALSE]

Matches(s, tag, i) ==
  i + Len(tag) - 1 <= Len(s) /\ \A k \in DOMAIN tag : s[i + k - 1].t = tag[k]

\* The first place of a tag in s from i on, or 0.
Find(s, tag, i) ==
  LET places == {j \in i..Len(s) : Matches(s, tag, j)}
  IN IF places = {} THEN 0 ELSE CHOOSE j \in places : \A k \in places : j <= k

\* Faulty: nothing is kept back.
SafeAll(s) == Len(s)

\* A trailing token that may begin a start tag is kept back.
Safe(s) == IF Last(s).t = Start[1] THEN Len(s) - 1 ELSE Len(s)

RECURSIVE Scan(_, _, _)
Scan(f, i, shown) ==
  LET b == f.buffer
      start == Find(b, Start, i)
      end == Find(b, End, i)
  IN IF i > Len(b) THEN [st |-> [f EXCEPT !.buffer = <<>>], shown |-> shown]
     ELSE IF f.inside /\ end = 0
     THEN [st |-> [f EXCEPT !.buffer = SubSeq(b, i, Len(b))], shown |-> shown]
     ELSE IF f.inside THEN Scan([f EXCEPT !.inside = FALSE], end + Len(End), shown)
     ELSE IF start # 0
     THEN Scan([f EXCEPT !.inside = TRUE], start + Len(Start),
               shown \o SubSeq(b, i, start - 1))
     ELSE IF Safe(b) >= i
     THEN [st |-> [f EXCEPT !.buffer = SubSeq(b, Safe(b) + 1, Len(b))],
           shown |-> shown \o SubSeq(b, i, Safe(b))]
     ELSE [st |-> f, shown |-> shown]

feed(f, add) == Scan([f EXCEPT !.buffer = @ \o add], 1, <<>>)

\* What is left at the end of the stream.
flush(f) == IF f.inside THEN <<>> ELSE f.buffer

-----------------------------------------------------------------------------
\* The text of an event, in each protocol.
TextOf(ev) ==
  CASE ev.e = "chunk" -> ev.text
    [] ev.e \in {"content_block_delta", "item_delta"} /\ ev.kind = "text" -> ev.add
    [] OTHER -> <<>>

WithText(ev, add) ==
  IF ev.e = "chunk" THEN [ev EXCEPT !.text = add] ELSE [ev EXCEPT !.add = add]

\* An event whose text is all kept back is dropped, with all else it carries.
FilterEvent(f, ev) ==
  LET r == feed(f, TextOf(ev))
  IN IF TextOf(ev) = <<>> THEN Emit(f, <<ev>>)
     ELSE IF r.shown = <<>> THEN Emit(r.st, <<>>)
     ELSE Emit(r.st, <<WithText(ev, r.shown)>>)
=============================================================================
