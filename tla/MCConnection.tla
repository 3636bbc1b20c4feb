---------------------------- MODULE MCConnection ----------------------------
(***************************************************************************)
(* Up to three frames: requests with payloads that are empty, a line end or*)
(* a header, frames that are answered with silence, and every way a frame  *)
(* can be bad: at its header, at a later part, for its length or its end.  *)
(***************************************************************************)
EXTENDS Connection

MCBulk(v) == Bulk(Header("$", Len(v)), v)

MCRequest(parts) ==
  Frame(Header("*", Len(parts)), [i \in DOMAIN parts |-> MCBulk(parts[i])], <<>>)

MCGood ==
  {MCRequest(r) : r \in {<<>>, <<<<>>>>, <<<<"G">>, CRLF>>, <<<<"*", "1", "cr", "lf">>>>}}
  \cup {Frame(<<"*", "-", "1">> \o CRLF, <<>>, <<>>)}

MCBad ==
  {Frame(<<>>, <<>>, b) : b \in {
   <<"G">> \o CRLF,
   <<"*">> \o CRLF,
   <<"*", "3">> \o CRLF,
   <<"*", "1", "1", "1", "1">> \o CRLF,
   <<"*", "1", "1", "1", "1", "1", "1", "1">> \o CRLF}}
  \cup {Frame(Header("*", 1), <<>>, b) : b \in {
   <<"$", "-", "1">> \o CRLF,
   <<"$", "5">> \o CRLF,
   <<"$", "1", "1", "1", "1">> \o CRLF,
   <<"$", "1">> \o CRLF \o <<"G", "G", "G">> \o CRLF}}
  \cup {Frame(Header("*", 2), <<MCBulk(<<"G">>)>>, <<"*", "1">> \o CRLF)}

MCScripts ==
  {<<f, g>> : f \in MCGood \cup MCBad, g \in MCGood \cup MCBad}
  \cup {<<f, f, g>> : f \in MCGood, g \in MCGood}
=============================================================================
