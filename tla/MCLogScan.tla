----------------------------- MODULE MCLogScan ------------------------------
(***************************************************************************)
(* Logs of one or two records, among them a key that is a line end, a value*)
(* that looks like a header, and a key whose length, and a record whose    *)
(* count, take two digits.                                                 *)
(***************************************************************************)
EXTENDS LogScan

MCRecords ==
  {<<<<FLUSHDB>>>>,
   <<<<DEL>>, CRLF>>,
   <<<<PERSIST>>, <<>>>>,
   <<<<PEXPIREAT>>, <<"$">>, <<"1", "0">>>>,
   <<<<SET>>, <<"a">>, <<"$", "1", "cr", "lf">>>>,
   <<<<SET>>, <<"a">>, <<"*">>, <<PXAT>>, <<"5">>>>,
   <<<<DEL>>, [i \in 1 .. 10 |-> "a"]>> \o [i \in 1 .. 8 |-> <<>>]}

MCLogs == UNION {[1 .. n -> MCRecords] : n \in 1 .. 2}
=============================================================================
