------------------------------ MODULE MCStreams ------------------------------
(* Every pair of protocols, unfiltered and, for shorter answers, filtered.    *)
EXTENDS StreamConversion

CONSTANT Filters

Protocols == {"chat", "anthropic", "responses"}

MCDirections ==
  {d \in [src : Protocols, tgt : Protocols, filter : Filters, wantsUsage : BOOLEAN] :
     d.wantsUsage => ~d.filter /\ d.tgt = "chat" /\ d.src # "chat"}

MCPlainTexts == {<<"a">>}

MCTaggedTexts == {<<"a", "<">>, <<"think>", "a">>, <<"<", "think>">>, <<"<", "/", "think>">>}

\* An end tag and the beginning of what may be another tag in one piece.
MCTagAndMore == {<<"<", "think>", "a">>, <<"<", "/", "think>", "<">>, <<"a">>}
=============================================================================
