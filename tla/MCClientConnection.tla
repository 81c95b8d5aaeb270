-------------------------- MODULE MCClientConnection --------------------------
(* Upstreams with up to three events, comments, lines, characters and pairs *)
(* that may be cut, frames and texts at and above their limits, and what    *)
(* comes short of its end.                                                  *)
EXTENDS ClientConnection

D == <<"data">>
Wide == <<"half", "rest">>
High == <<"high">>
Low == <<"low">>
Lf == <<"lf">>
CrLf == <<"cr", "lf">>

MCTexts ==
  {D \o Lf \o Lf \o D \o CrLf \o CrLf \o D \o Wide \o CrLf \o Lf,
   D \o Wide \o Wide \o Lf \o Lf \o D \o Wide \o D \o Lf \o Lf,
   D \o Wide \o CrLf \o Lf \o <<"colon">> \o Lf \o Lf \o D \o Lf \o CrLf,
   D \o Lf \o <<"colon">> \o D \o CrLf \o D \o Lf \o Lf,
   D \o Wide \o Wide \o D \o CrLf \o CrLf \o D \o Lf \o Lf,
   D \o Wide \o Wide \o D \o D \o Lf \o Lf,
   D \o Lf \o Lf \o D \o <<"half">>,
   D \o Lf \o Lf \o D \o <<"half">> \o D \o Lf \o Lf,
   D \o High \o Lf \o Lf \o D \o Lf \o Lf \o D \o Lf \o D \o Low \o Wide \o Lf \o Lf,
   D \o High \o Lf \o Lf \o D \o Low \o Lf \o Lf \o D \o Wide \o Lf \o Lf,
   <<"colon">> \o CrLf \o CrLf \o D \o <<"bad">> \o Lf \o Lf}
=============================================================================
